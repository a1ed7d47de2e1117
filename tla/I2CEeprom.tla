----------------------------- MODULE I2CEeprom -----------------------------
(***************************************************************************)
(* red_i2c_eeprom.c.  One I2CEEPROM per extension slot.  The two slots'    *)
(* EEPROMs share one I2C bus and one device address; an EEPROM answers at  *)
(* that address while its slot's address pin (G9 or G13) is an output      *)
(* driven high, so _i2c_eeprom_select and _i2c_eeprom_deselect, done with  *)
(* red_gpio.c's register operators, choose the device a transfer reaches.  *)
(* Devices that answer together drive the open-drain bus: a read gets the  *)
(* AND of their bytes, a write reaches all of them.  A device keeps an     *)
(* address pointer that a read advances.  A byte is abstracted to one bit. *)
(* Each call is one step: the code is single-threaded (the file's TODO on  *)
(* parallel access).                                                       *)
(***************************************************************************)
EXTENDS Integers, Sequences, SequencesExt

CONSTANTS
    Present,     \* the extension slots (0, 1) with an EEPROM fitted
    Size,        \* the EEPROM's bytes; addresses wrap modulo Size
    Data,        \* byte values, as bits
    MaxBytes,    \* bound on bytes_to_read and bytes_to_write
    CharBits,    \* the width of char (8)
    CharSigned,  \* whether char is signed (it is not on ARM)
    BusFails     \* whether open, ioctl and transfers may fail on their own

Extensions == {0, 1}
Addr == 0..Size - 1

\* The next address: eeprom_memory_address is a uint16_t, and the EEPROM's
\* own address counter wraps at its size, a power of two below 2^16.
Wrap(a) == a % Size

\* GPIO_PORT_B = 1, GPIO_PORT_G = 6, GPIO_MUX_OUTPUT = 1.
Pullup == <<1, 6>>

AddressPinSame(extension) == <<6, 9>>

AddressPin(extension) == IF extension = 0 THEN <<6, 9>> ELSE <<6, 13>>

OUTPUT == 1

VARIABLES
    config,   \* the GPIO config registers (red_gpio.c)
    value,    \* the GPIO data registers
    open,     \* open[e]: i2c_eeprom->file >= 0
    mem,      \* mem[e]: the bytes of slot e's EEPROM
    ptr,      \* ptr[e]: the address pointer of slot e's EEPROM
    ret       \* the last call: its operation, slot, arguments and result

vars == <<config, value, open, mem, ptr, ret>>

Gpio == INSTANCE RedGpio
    WITH Ports <- {1, 6}, Pins <- {Pullup, AddressPin(0), AddressPin(1)},
         Muxes <- {OUTPUT}, PullCfgs <- {},
         pull <- [p \in {1, 6} |-> [i \in 0..1 |-> {}]]

\* Slot e's EEPROM answers: its address pin is an output and high.
Responders(cfg, val) ==
    {e \in Present : LET pin == AddressPin(e) IN
                     /\ Gpio!Field(cfg[pin[1]][pin[2] \div 8], 4 * (pin[2] % 8), 4) = OUTPUT
                     /\ Gpio!Input(val, pin)}

Select(val, e) == Gpio!OutputSet(val, AddressPin(e))

Deselect(val, e) == Gpio!OutputCleared(val, AddressPin(e))

\* A char counter incremented n times from 0, returned as an int.
CharCount(n) == IF CharSigned
                THEN ((n + 2^(CharBits - 1)) % 2^CharBits) - 2^(CharBits - 1)
                ELSE n % 2^CharBits

Failed(op, e) == [op |-> op, ext |-> e, rc |-> -1]

Init == /\ config = [p \in {1, 6} |-> [i \in 0..3 |-> {}]]
        /\ value = [p \in {1, 6} |-> {}]
        /\ open = [e \in Extensions |-> FALSE]
        /\ mem \in [Extensions -> [Addr -> Data]]
        /\ ptr \in [Extensions -> Addr]
        /\ ret = [op |-> "none"]

(***************************************************************************)
(* i2c_eeprom_init: the pull-up pin and the address pin become outputs     *)
(* driven low, then open the bus and set the slave address; a failing      *)
(* ioctl releases.  Callers init a released I2CEEPROM.                     *)
(***************************************************************************)
EepromInit(e) ==
    LET cfg == Gpio!MuxConfigured(Gpio!MuxConfigured(config, Pullup, OUTPUT),
                                  AddressPin(e), OUTPUT)
        val == Deselect(Gpio!OutputCleared(value, Pullup), e)
    IN  /\ ~open[e]
        /\ config' = cfg
        /\ value' = val
        /\ \/ open' = [open EXCEPT ![e] = TRUE] /\ ret' = [op |-> "init", ext |-> e, rc |-> 0]
           \/ BusFails /\ ret' = Failed("init", e) /\ UNCHANGED open
        /\ UNCHANGED <<mem, ptr>>

\* i2c_eeprom_release: deselect, close(file), file = -1; val is the data
\* register when it is called.
ReleaseNoDeselect(val, e) == /\ value' = val
                             /\ open' = [open EXCEPT ![e] = FALSE]

Release(val, e) == /\ value' = Deselect(val, e)
                   /\ open' = [open EXCEPT ![e] = FALSE]

EepromRelease(e) == /\ Release(value, e)
                    /\ ret' = [op |-> "release", ext |-> e, rc |-> 0]
                    /\ UNCHANGED <<config, mem, ptr>>

(***************************************************************************)
(* i2c_eeprom_read: select, write the 2-byte address pointer              *)
(* (_i2c_eeprom_set_pointer), read n bytes, deselect.  A failing transfer *)
(* releases and returns -1.                                               *)
(***************************************************************************)
ReadNoDeselect(val, e) == value' = val

ReadDeselect(val, e) == value' = Deselect(val, e)

\* The bytes the answering devices drive from addr on: 0 if any drives 0.
BusRead(R, addr, n) ==
    [k \in 1..n |-> IF \E r \in R : mem[r][Wrap(addr + k - 1)] = 0 THEN 0 ELSE 1]

MovePointers(R, to) == [r \in Extensions |-> IF r \in R THEN to ELSE ptr[r]]

EepromRead(e) ==
    /\ \E addr \in Addr, n \in 1..MaxBytes :
        LET val == Select(value, e)
            R == Responders(config, val)
        IN  \/ /\ ~open[e]
               /\ ret' = Failed("read", e)
               /\ UNCHANGED <<value, open, ptr>>
            \/ /\ open[e]
               /\ R = {} \/ BusFails            \* the pointer write fails
               /\ Release(val, e)
               /\ ret' = Failed("read", e)
               /\ UNCHANGED ptr
            \/ /\ open[e] /\ R # {} /\ BusFails   \* the read fails
               /\ Release(val, e)
               /\ ret' = Failed("read", e)
               /\ ptr' = MovePointers(R, addr)
            \/ /\ open[e] /\ R # {}
               /\ ReadDeselect(val, e)
               /\ ptr' = MovePointers(R, Wrap(addr + n))
               /\ ret' = [op |-> "read", ext |-> e, addr |-> addr, rc |-> n,
                          data |-> BusRead(R, addr, n)]
               /\ UNCHANGED open
    /\ UNCHANGED <<config, mem>>

(***************************************************************************)
(* i2c_eeprom_write: for each byte, select, write <<address, byte>>,       *)
(* deselect, and on a failed write release and return -1; else count the *)
(* byte in a char and return the count.  The k-th write fails or none.    *)
(***************************************************************************)
RECURSIVE Written(_, _, _, _)
Written(m, R, addr, bytes) ==
    IF bytes = <<>> THEN m
    ELSE Written([r \in Extensions |-> IF r \in R THEN [m[r] EXCEPT ![addr] = Head(bytes)]
                                      ELSE m[r]],
                 R, Wrap(addr + 1), Tail(bytes))

EepromWrite(e) ==
    /\ \E addr \in Addr, bytes \in BoundedSeq(Data, MaxBytes) \ {<<>>} :
        LET val == Select(value, e)
            R == Responders(config, val)
            n == Len(bytes)
        IN  \/ /\ ~open[e]
               /\ ret' = Failed("write", e)
               /\ UNCHANGED <<value, open, mem, ptr>>
            \/ /\ open[e]
               /\ \E k \in 1..n :                  \* the k-th byte fails
                     /\ R = {} => k = 1
                     /\ R # {} => BusFails
                     /\ mem' = Written(mem, R, addr, SubSeq(bytes, 1, k - 1))
                     /\ ptr' = IF k = 1 THEN ptr ELSE MovePointers(R, Wrap(addr + k - 1))
               /\ Release(val, e)
               /\ ret' = Failed("write", e)
            \/ /\ open[e] /\ R # {}
               /\ mem' = Written(mem, R, addr, bytes)
               /\ ptr' = MovePointers(R, Wrap(addr + n))
               /\ value' = Deselect(val, e)
               /\ ret' = [op |-> "write", ext |-> e, addr |-> addr, n |-> n,
                          rc |-> CharCount(n)]
               /\ UNCHANGED open
    /\ UNCHANGED config

Next == \E e \in Extensions :
            EepromInit(e) \/ EepromRelease(e) \/ EepromRead(e) \/ EepromWrite(e)

Spec == Init /\ [][Next]_vars

(***************************************************************************)
(* Properties                                                              *)
(***************************************************************************)

TypeOK == /\ open \in [Extensions -> BOOLEAN]
          /\ mem \in [Extensions -> [Addr -> Data]]
          /\ ptr \in [Extensions -> Addr]
          /\ ret.op \in {"none", "init", "release", "read", "write"}

\* Between calls no address pin is high: every path of init, read, write
\* and release (the releases after a failed transfer included) ends
\* deselected, so the next transfer reaches one EEPROM at most.
AddressPinsLow == \A e \in Extensions : ~Gpio!Input(value, AddressPin(e))

\* A read that returns n gives the n bytes stored from addr on in its own
\* slot's EEPROM, whatever calls on the other slot came before.
ReadReturnsStored ==
    ret.op = "read" /\ ret.rc >= 0 =>
        ret.data = [k \in 1..ret.rc |-> mem[ret.ext][(ret.addr + k - 1) % Size]]

\* Only a write to a slot changes that slot's EEPROM.
WriteStaysOnItsDevice ==
    [][\A r \in Extensions : mem'[r] # mem[r] => ret'.op = "write" /\ ret'.ext = r]_vars

\* A write whose every byte transfer succeeded returns bytes_to_write.
WriteReturnsCount == ret.op = "write" /\ ret.rc >= 0 => ret.rc = ret.n
====
