CONSTANTS
    rogue_scan = rogue_scan
    time_policy = time_policy
    None = None
    Job = {rogue_scan, time_policy}
    Operation = {o1, o2}
    Interval <- MCInterval
    Grace = 2
    MaxRequests = 3
SPECIFICATION Spec
INVARIANT PausedForTheDuration
CHECK_DEADLOCK FALSE
