\* Three Socket structs over two Winsock handle values, so that one
\* listens, one is accepted and a third finds no free handle; every
\* Winsock call may fail, and the Windows version is chosen in Init.
CONSTANTS
    s1 = s1
    s2 = s2
    s3 = s3
    h1 = h1
    h2 = h2
    INVALID = INVALID
    INET = INET
    INET6 = INET6
    UNIX = UNIX
    Sockets <- MCSockets
    OSHandles <- MCHandles
    Families <- MCFamilies
    ApiFails = TRUE
SPECIFICATION Spec
INVARIANT PreparedWhenOpen
INVARIANT NoLeak
SYMMETRY MCSymmetry
