-------------------------- MODULE RegistryAbstract --------------------------
(***************************************************************************)
(* What the event source registry promises (spec.md 4.2), without the     *)
(* array, the backend or the dispatcher: a map from (handle, type) to the  *)
(* interest mask and the state of its registration.  Add creates a         *)
(* registration (ADDED) or brings back one removed in this tick (READDED); *)
(* modify changes the mask of one that is not removed (MODIFIED); remove   *)
(* only marks it (REMOVED); cleanup erases the removed ones and makes      *)
(* every other one NORMAL.  A call that fails changes nothing, which is a  *)
(* stuttering step here.                                                   *)
(***************************************************************************)
CONSTANTS
    Tuples,       \* (handle, type) pairs
    AddMasks,     \* masks callers add with
    ModifyMasks   \* <<bits to remove, bits to add>> pairs for modify

VARIABLE reg      \* tuple -> [events, state], for the tuples registered

Init == reg = [t \in {} |-> {}]

Set(t, r) == [x \in DOMAIN reg \cup {t} |-> IF x = t THEN r ELSE reg[x]]

Add(t, ev) ==
    \/ /\ t \notin DOMAIN reg
       /\ reg' = Set(t, [events |-> ev, state |-> "ADDED"])
    \/ /\ t \in DOMAIN reg /\ reg[t].state = "REMOVED"
       /\ reg' = Set(t, [events |-> ev, state |-> "READDED"])

Modify(t, rm, ad) ==
    /\ t \in DOMAIN reg /\ reg[t].state # "REMOVED"
    /\ reg' = Set(t, [events |-> (reg[t].events \ rm) \cup ad, state |-> "MODIFIED"])

Remove(t) ==
    /\ t \in DOMAIN reg /\ reg[t].state # "REMOVED"
    /\ reg' = Set(t, [reg[t] EXCEPT !.state = "REMOVED"])

Cleanup ==
    reg' = [t \in {x \in DOMAIN reg : reg[x].state # "REMOVED"} |->
              [reg[t] EXCEPT !.state = "NORMAL"]]

Next ==
    \/ \E t \in Tuples, ev \in AddMasks : Add(t, ev)
    \/ \E t \in Tuples, m \in ModifyMasks : Modify(t, m[1], m[2])
    \/ \E t \in Tuples : Remove(t)
    \/ Cleanup

Spec == Init /\ [][Next]_reg
=============================================================================
