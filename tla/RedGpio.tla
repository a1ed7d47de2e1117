------------------------------ MODULE RedGpio ------------------------------
(***************************************************************************)
(* red_gpio.c.  The memory-mapped port registers and the read-modify-write *)
(* of gpio_mux_configure, gpio_input_configure, gpio_output_set and        *)
(* gpio_output_clear.  A 32-bit register is the set of its 1 bits.  A      *)
(* shift whose result does not fit an int (0xF << 28, 0x3 << 30, 1 << 31)  *)
(* is undefined in C; GCC defines it as the bit pattern, which ShiftLeft   *)
(* computes.  The operators on register values take no variables, so a    *)
(* driver that toggles pins (I2CEeprom) composes them.                    *)
(***************************************************************************)
EXTENDS Integers

CONSTANTS
    Ports,     \* port indices of _gpio_port
    Pins,      \* the pins exercised: <<port_index, pin_index>>
    Muxes,     \* GPIOMux values (a 3-bit function number)
    PullCfgs   \* GPIOInputConfig values (a 2-bit pull mode)

Bit == 0..31

\* The 1 bits of a small constant (masks and enum values below 16).
BitsOf(n) == {b \in 0..3 : (n \div 2^b) % 2 = 1}

ShiftLeft(word, k) == {b + k : b \in word}

Not(word) == Bit \ word

\* gpio_mux_configure: 4-bit function fields, 8 per config register.
MuxConfiguredWideOffset(config, pin, mux) ==
    LET port == pin[1]
        config_index == pin[2] \div 8
        offset == (pin[2] % 16) * 4
        word == config[port][config_index]
    IN  [config EXCEPT ![port][config_index] =
            (word \cap Not(ShiftLeft(BitsOf(15), offset)))
            \cup ShiftLeft(BitsOf(mux), offset)]

MuxConfigured(config, pin, mux) ==
    LET port == pin[1]
        config_index == pin[2] \div 8           \* pin_index >> 3
        offset == (pin[2] % 8) * 4              \* (pin_index & 0x7) << 2
        word == config[port][config_index]
    IN  [config EXCEPT ![port][config_index] =
            (word \cap Not(ShiftLeft(BitsOf(15), offset)))
            \cup ShiftLeft(BitsOf(mux), offset)]

\* gpio_input_configure: 2-bit pull fields, 16 per pull register.
PullConfiguredOffByOne(pull, pin, cfg) ==
    LET port == pin[1]
        config_index == pin[2] \div 16
        offset == (pin[2] * 2 + 1) % 32
        word == pull[port][config_index]
    IN  [pull EXCEPT ![port][config_index] =
            (word \cap Not(ShiftLeft(BitsOf(3), offset)))
            \cup ShiftLeft(BitsOf(cfg), offset)]

PullConfigured(pull, pin, cfg) ==
    LET port == pin[1]
        config_index == pin[2] \div 16          \* pin_index >> 4
        offset == (pin[2] * 2) % 32
        word == pull[port][config_index]
    IN  [pull EXCEPT ![port][config_index] =
            (word \cap Not(ShiftLeft(BitsOf(3), offset)))
            \cup ShiftLeft(BitsOf(cfg), offset)]

\* gpio_output_set / gpio_output_clear on the data register.
OutputSet(value, pin) == [value EXCEPT ![pin[1]] = @ \cup ShiftLeft({0}, pin[2])]

OutputCleared(value, pin) == [value EXCEPT ![pin[1]] = @ \cap Not(ShiftLeft({0}, pin[2]))]

\* gpio_input: the pin's bit of the data register.
Input(value, pin) == pin[2] \in value[pin[1]]

VARIABLES
    config,   \* _gpio_port[port].config[0..3]
    pull,     \* _gpio_port[port].pull[0..1]
    value     \* _gpio_port[port].value

vars == <<config, pull, value>>

\* After gpio_init mapped the registers; every register reads 0.
Init == /\ config = [p \in Ports |-> [i \in 0..3 |-> {}]]
        /\ pull = [p \in Ports |-> [i \in 0..1 |-> {}]]
        /\ value = [p \in Ports |-> {}]

MuxConfigure(pin, mux) == /\ config' = MuxConfigured(config, pin, mux)
                          /\ UNCHANGED <<pull, value>>

InputConfigure(pin, cfg) == /\ pull' = PullConfigured(pull, pin, cfg)
                            /\ UNCHANGED <<config, value>>

Set(pin) == value' = OutputSet(value, pin) /\ UNCHANGED <<config, pull>>

Clear(pin) == value' = OutputCleared(value, pin) /\ UNCHANGED <<config, pull>>

Next == \E pin \in Pins :
            \/ \E mux \in Muxes : MuxConfigure(pin, mux)
            \/ \E cfg \in PullCfgs : InputConfigure(pin, cfg)
            \/ Set(pin)
            \/ Clear(pin)

Spec == Init /\ [][Next]_vars

(***************************************************************************)
(* Properties                                                              *)
(***************************************************************************)

\* Every register keeps to its 32 bits: no field a call writes reaches past
\* bit 31.
TypeOK == /\ config \in [Ports -> [0..3 -> SUBSET Bit]]
          /\ pull \in [Ports -> [0..1 -> SUBSET Bit]]
          /\ value \in [Ports -> SUBSET Bit]

\* The number held in bits lsb .. lsb + width - 1 of a register.
Field(word, lsb, width) ==
    LET RECURSIVE F(_)
        F(k) == IF k = width THEN 0
                ELSE (IF lsb + k \in word THEN 2^k ELSE 0) + F(k + 1)
    IN  F(0)

\* The registers as the per-pin settings the A10s manual lays out: pin n's
\* function in config[n div 8] bits 4(n mod 8)+3..4(n mod 8), its pull mode
\* in pull[n div 16] bits 2(n mod 16)+1..2(n mod 16), its level in bit n.
Pin == INSTANCE GpioPins
    WITH mux <- [p \in Pins |-> Field(config[p[1]][p[2] \div 8], 4 * (p[2] % 8), 4)],
         pullCfg <- [p \in Pins |-> Field(pull[p[1]][p[2] \div 16], 2 * (p[2] % 16), 2)],
         level <- [p \in Pins |-> p[2] \in value[p[1]]]

\* Every configure, set or clear changes exactly the setting of its own pin:
\* the read-modify-write masks of the other fields of the same register,
\* including the top field whose mask shift overflows an int.
PinsIndependent == Pin!Spec
====
