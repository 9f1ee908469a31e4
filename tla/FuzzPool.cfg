\* Every boundary of the loop and of a single packet.
SPECIFICATION Spec
CONSTANTS
    Argvs <- MCArgvs
    Types = {"SINGLE", "MULTIPACKET", "MULTIPACKET_TIME"}
    Totals <- MCTotals
    Raws = {0, 1, 3, 2048, 65535}
    Apps = {"TCP_CLIENT", "TCP_SERVER", "UDP_SERVER"}
    MaxCalls = 2
INVARIANTS PoolInBounds FrameIsThere UsedOnce UsedUp
PROPERTY RunEnds
