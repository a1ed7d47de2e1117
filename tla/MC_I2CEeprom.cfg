\* Both slots fitted, two-byte EEPROMs of one-bit bytes, calls of up to two
\* bytes, every open, ioctl and transfer able to fail.
CONSTANTS
    Present = {0, 1}
    Size = 2
    Data = {0, 1}
    MaxBytes = 2
    CharBits = 8
    CharSigned = FALSE
    BusFails = TRUE
INIT Init
NEXT Next
INVARIANT AddressPinsLow
INVARIANT ReadReturnsStored
PROPERTY WriteStaysOnItsDevice
