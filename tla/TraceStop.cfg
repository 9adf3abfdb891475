SPECIFICATION SpecAlone
CONSTANTS
    MaxClients = 2
    Speakers <- MCSpeakers
    MaxSent = 2
    MaxTotal = 1
    Dropped = {2}
    Free = Free
    Reserved = Reserved
CHECK_DEADLOCK FALSE
PROPERTIES StopUnblocks
