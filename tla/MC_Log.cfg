\* Two threads logging two messages each, while either of them may swap the
\* file (to NULL too), change levels and the debug override.  Each thread
\* logs at most MaxMessages messages, so the model stops: deadlock is not
\* checked.
CONSTANTS
    t1 = t1
    t2 = t2
    stderr = stderr
    f2 = f2
    EVENT = EVENT
    LIBUSB_CATEGORY = LIBUSB_CATEGORY
    NULL = NULL
    None = None
    Threads <- MCThreads
    Files <- MCFiles
    Stderr <- stderr
    Categories <- MCCategories
    LIBUSB <- LIBUSB_CATEGORY
    MsgLevels <- MCLevels
    SetLevels <- MCLevels
    MaxMessages = 2
SPECIFICATION Spec
CHECK_DEADLOCK FALSE
INVARIANT WholeLines
INVARIANT NoNullWrite
PROPERTY LockReleased
