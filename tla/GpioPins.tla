------------------------------ MODULE GpioPins ------------------------------
(***************************************************************************)
(* What red_gpio.c promises its users: each pin has a function, a pull     *)
(* mode and an output level of its own, and a call sets one of them for    *)
(* one pin.  Register layout is invisible at this level.                  *)
(***************************************************************************)
CONSTANTS Pins, Muxes, PullCfgs

VARIABLES mux, pullCfg, level

vars == <<mux, pullCfg, level>>

\* Reset: every field of every register is 0.
Init == /\ mux = [p \in Pins |-> 0]
        /\ pullCfg = [p \in Pins |-> 0]
        /\ level = [p \in Pins |-> FALSE]

SetMux == \E p \in Pins, m \in Muxes :
              mux' = [mux EXCEPT ![p] = m] /\ UNCHANGED <<pullCfg, level>>

SetPull == \E p \in Pins, c \in PullCfgs :
               pullCfg' = [pullCfg EXCEPT ![p] = c] /\ UNCHANGED <<mux, level>>

SetLevel == \E p \in Pins, l \in BOOLEAN :
                level' = [level EXCEPT ![p] = l] /\ UNCHANGED <<mux, pullCfg>>

Next == SetMux \/ SetPull \/ SetLevel

Spec == Init /\ [][Next]_vars
====
