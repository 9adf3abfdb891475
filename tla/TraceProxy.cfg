SPECIFICATION Spec
CONSTANTS
    MaxClients = 2
    Speakers <- MCSpeakers
    MaxSent = 2
    MaxTotal = 2
    Dropped = {2}
    Free = Free
    Reserved = Reserved
CHECK_DEADLOCK FALSE
INVARIANTS SessionOutlivesThreads OwnPeersOnly TraceIsFaithful SentinelIsLast
PROPERTIES SignalEnds
