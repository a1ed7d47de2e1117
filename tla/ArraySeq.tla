------------------------------ MODULE ArraySeq ------------------------------
(***************************************************************************)
(* What an Array promises its users (spec.md 4.1): an owning sequence of   *)
(* items.  append adds one zeroed item at the end, remove deletes the item *)
(* at an index and keeps the order of the others, a write changes one      *)
(* item, resize truncates or extends, and a call that fails changes        *)
(* nothing.  Capacity and storage layout are invisible at this level.     *)
(***************************************************************************)
EXTENDS Integers, Sequences, SequencesExt

CONSTANTS
    Values,   \* what a caller writes into an item
    Zero      \* the content of a freshly zeroed item

Contents == Values \cup {Zero}

VARIABLES
    constructed,   \* array_create succeeded and array_destroy has not run
    items          \* the items, in order

vars == <<constructed, items>>

Init == constructed = FALSE /\ items = <<>>

Create == /\ ~constructed
          /\ constructed' = TRUE
          /\ items' = <<>>

AppendZero == /\ constructed
              /\ items' = Append(items, Zero)
              /\ UNCHANGED constructed

RemoveItem == /\ constructed
              /\ \E i \in 1..Len(items) : items' = RemoveAt(items, i)
              /\ UNCHANGED constructed

WriteItem == /\ constructed
             /\ \E i \in 1..Len(items), v \in Values :
                    items' = [items EXCEPT ![i] = v]
             /\ UNCHANGED constructed

\* Shrinking keeps a prefix; growing keeps the items and adds ones whose
\* content the promise leaves open.
Truncate == /\ constructed
            /\ \E n \in 0..Len(items) : items' = SubSeq(items, 1, n)
            /\ UNCHANGED constructed

Extend == /\ constructed
          /\ Len(items') > Len(items)
          /\ IsPrefix(items, items')
          /\ \A k \in 1..Len(items') : items'[k] \in Contents
          /\ UNCHANGED constructed

Destroy == /\ constructed
           /\ constructed' = FALSE
           /\ items' = <<>>

Next == Create \/ AppendZero \/ RemoveItem \/ WriteItem \/ Truncate
        \/ Extend \/ Destroy

Spec == Init /\ [][Next]_vars
=============================================================================
