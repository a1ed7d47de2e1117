\* Both layouts: relocatable (conf_file.c's lines) and not (event.c's
\* sources), which callers never resize upwards.
CONSTANTS
    v1 = v1
    v2 = v2
    b1 = b1
    b2 = b2
    b3 = b3
    Zero = Zero
    Free = Free
    Values <- MCValues
    Addrs <- MCAddrs
    ResizeGrows = FALSE
    Chunk = 2
    MaxCount = 3
SPECIFICATION Spec
INVARIANT TypeOK
INVARIANT OwnedBlocks
PROPERTY AbstractSpec
