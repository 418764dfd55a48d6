CONSTANTS
    rogue_scan = rogue_scan
    time_policy = time_policy
    None = None
    Job = {rogue_scan, time_policy}
    Operation = {o1, o2}
    Interval <- MCInterval
    Grace = 2
    MaxRequests = 2
    hourly = hourly
    by_hand = by_hand
    Torn = Torn
    Scheduled = {hourly}
    Manual = {by_hand}
    LastHour = 2
    Window <- MCWindow
    DefaultWindow <- MCDefaultWindow
    Ssid = {office, admin}
    ProtectedSsid = {admin}
    MaxChanges = 2
    MaxPolicyFaults = 2
    SignedOut = SignedOut
    NoAnswerYet = NoAnswerYet
    MaxLogins = 2
    MaxThreatChanges = 1
    MaxToggles = 1
    MaxUpsets = 1
    scan = scan
    alert = alert
    d1 = d1
    p1 = p1
SPECIFICATION MCSpec
INVARIANTS QuietWhenAlone PolicyHeldAfterQuietRun
PROPERTIES CadenceRestored ScheduleKeepsRunning PolicyConverges TasksEnd FeedConverges CallsReturn
CHECK_DEADLOCK FALSE
