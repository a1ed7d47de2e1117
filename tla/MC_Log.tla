-------------------------------- MODULE MC_Log --------------------------------
(* Two logging threads, stderr and one other FILE *, the event category    *)
(* and libusb, messages at ERROR and DEBUG.                                *)
EXTENDS Log

CONSTANTS t1, t2, stderr, f2, EVENT, LIBUSB_CATEGORY

MCThreads == {t1, t2}
MCFiles == {stderr, f2}
MCCategories == {EVENT, LIBUSB_CATEGORY}
\* LOG_LEVEL_ERROR and LOG_LEVEL_DEBUG
MCLevels == {1, 4}
=============================================================================
