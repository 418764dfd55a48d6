CONSTANTS
    Client = {c1, c2}
    Capacity = 2
    MaxEvents = 4
SPECIFICATION FairSpec
INVARIANTS EventsInOrder NewestKept NothingLostWithRoom
PROPERTIES EventsDelivered GoneUnsubscribed
CHECK_DEADLOCK FALSE
