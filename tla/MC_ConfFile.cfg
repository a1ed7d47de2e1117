\* conf_file_read on every short file, with every failure, the buffer
\* starting at 2 bytes and doubling up to 4 (256 and 32768 in the code).
CONSTANTS
    Files <- MCFiles
    InitialAllocated = 2
    MaxAllocated = 4
    NULL = NULL
    Failures = TRUE
INIT Init
NEXT Next
INVARIANT TypeOK
INVARIANT NoBufferOverflow
 
INVARIANT FailedReadKeepsPrefix
\* Every read ends: destroyed, crashed, or conf_file_create failed.
CHECK_DEADLOCK FALSE
