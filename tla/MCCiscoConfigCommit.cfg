CONSTANTS
    None = None
    p1 = p1
    p2 = p2
    Port = {p1, p2}
    Vlan = {v1}
    Prefix <- PrefixHere
    MaxLines = 4
    MaxPorts = 2
    MaxRuns = 1
    MaxCalls = 2
    MaxFaults = 2
SPECIFICATION Spec
INVARIANTS PartialRunIsMarked
CHECK_DEADLOCK FALSE
