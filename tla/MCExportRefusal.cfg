SPECIFICATION Spec
CONSTANTS
    j1 = j1
    j2 = j2
    Jobs <- MCJobs
    Requests <- MCRequests
    Disks <- MCDisks
CHECK_DEADLOCK FALSE
INVARIANTS RefusalWritesNothing
