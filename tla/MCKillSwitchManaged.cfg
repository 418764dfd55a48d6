CONSTANTS
    d1 = d1
    p1 = p1
    p2 = p2
    None = None
    Scanner = {scan}
    Alerter = {alert}
    Operator = {operator}
    Device = {d1}
    Port = {p1, p2}
    DeviceOf <- OneSwitch
    Infrastructure = {p1}
    Managed = {p1}
    Lines = 2
    MaxCalls = 3
SPECIFICATION Spec
INVARIANT ManagedSpared
CHECK_DEADLOCK FALSE
