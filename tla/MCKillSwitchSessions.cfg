CONSTANTS
    d1 = d1
    p1 = p1
    p2 = p2
    None = None
    Scanner = {}
    Alerter = {a1, a2}
    Operator = {}
    Device = {d1}
    Port = {p1, p2}
    DeviceOf <- OneSwitch
    Infrastructure = {p1}
    Managed = {}
    Lines = 2
    MaxCalls = 3
SPECIFICATION Spec
INVARIANT OneResponseSession
CHECK_DEADLOCK FALSE
