\* Two clients and the gateway at one table, every statement failing now and then.
CONSTANTS
    c1 = c1
    c2 = c2
    Clients = {c1, c2}
    ClientFaults <- AllClientFaults
    MaxInserts = 3
    MaxOpens = 3
SPECIFICATION ClientSpec
INVARIANTS ClientTypeOK NoRowMissed ListFollowsTable SelectionOnScreen AcknowledgedIsStored
SYMMETRY Symmetry
CHECK_DEADLOCK FALSE
