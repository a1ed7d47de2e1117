\* Three daemons with pids of one length, crashes anywhere.
CONSTANTS
    d1 = d1
    d2 = d2
    d3 = d3
    i1 = i1
    i2 = i2
    NoFile = NoFile
    Nobody = Nobody
    Daemons <- MCDaemons
    Inodes <- MCInodes
    Pid <- MCPid
    MaxPid = 63
SPECIFICATION Spec
\* Each daemon calls pid_file_acquire once; when all have returned,
\* released or crashed, nothing is left to happen.
CHECK_DEADLOCK FALSE
INVARIANT TypeOK
 
PROPERTY AcquireReturns
