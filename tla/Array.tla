-------------------------------- MODULE Array --------------------------------
(***************************************************************************)
(* array.c.  One Array, relocatable or not (the flag array_create fixes).  *)
(* The byte buffer is abstracted to one slot per item: a relocatable      *)
(* array keeps an item's content in its slot, a non-relocatable one keeps *)
(* the address of the item's heap block there.  Byte sizes are left out.  *)
(* Callers write items through the pointer array_get returns (WriteItem).  *)
(***************************************************************************)
EXTENDS Integers, Sequences, FiniteSets

CONSTANTS
    Chunk,         \* the granularity of GROW_ALLOCATION (16 in utils.h)
    Values,        \* what a caller writes into an item
    Zero,          \* all-zero bytes: a zeroed item or a NULL pointer
    Addrs,         \* heap blocks that calloc can hand out
    Free,          \* the heap state of a block nobody owns
    MaxCount,      \* bound on count and on the counts callers pass
    ResizeGrows    \* whether callers resize a non-relocatable array upwards

ASSUMES ==
    /\ ResizeGrows \in BOOLEAN
    /\ Chunk \in Nat \ {0} /\ MaxCount \in Nat
    /\ Zero \notin Values /\ Free \notin Values \cup {Zero}
ASSUME ASSUMES

Contents == Values \cup {Zero}

VARIABLES
    relocatable,   \* array->relocatable, the flag array_create was given
    constructed,   \* array_create succeeded and array_destroy has not run
    allocated,     \* array->allocated
    count,         \* array->count
    slots,         \* array->bytes: slot k for k in 0..allocated-1
    heap           \* the block at each address: its content, or Free

vars == <<relocatable, constructed, allocated, count, slots, heap>>

\* What a slot may hold: an item, or a pointer to one.
SlotValues == IF relocatable THEN Contents ELSE Addrs \cup {Zero}

(***************************************************************************)
(* GROW_ALLOCATION(size) == (((size) - 1) / 16 + 1) * 16 with C's          *)
(* division, which truncates towards zero: GROW_ALLOCATION(0) is 16.       *)
(***************************************************************************)
CDiv(a, b) == IF a >= 0 THEN a \div b ELSE -((-a) \div b)

GROW_ALLOCATION(n) == (CDiv(n - 1, Chunk) + 1) * Chunk

\* array_get: the item at index k (a freed or NULL pointer reads as Free).
Deref(p) == IF p \in Addrs THEN heap[p] ELSE Free

Item(k) == IF relocatable THEN slots[k] ELSE Deref(slots[k])

Items == [k \in 1..count |-> Item(k - 1)]

\* free() of each pointer in ps; free(NULL) and garbage leave the heap alone.
FreeBlocks(ps) ==
    IF relocatable THEN heap
    ELSE [a \in Addrs |-> IF a \in ps THEN Free ELSE heap[a]]

Blocks(lo, hi) == {slots[k] : k \in lo..hi}

(***************************************************************************)
(* array_reserve(count): the <<allocated, bytes>> it can leave.  realloc   *)
(* keeps the old slots and leaves the new ones uninitialized: any value.  *)
(***************************************************************************)
ReserveOk(n) ==
    IF allocated >= n THEN {[allocated |-> allocated, slots |-> slots]}
    ELSE LET g == GROW_ALLOCATION(n) IN
         {[allocated |-> g,
           slots |-> [k \in 0..g - 1 |-> IF k < allocated THEN slots[k]
                                         ELSE tail[k]]] :
              tail \in [allocated..g - 1 -> SlotValues]}

ReserveFailedGrows(n) ==
    IF allocated >= n THEN {}
    ELSE {[allocated |-> GROW_ALLOCATION(n), slots |-> slots]}

\* realloc failed: errno = ENOMEM and nothing changes.
ReserveFailed(n) ==
    IF allocated >= n THEN {} ELSE {[allocated |-> allocated, slots |-> slots]}

Apply(r) == allocated' = r.allocated /\ slots' = r.slots

NoSlots == [k \in {} |-> Zero]

Init == /\ relocatable = FALSE
        /\ constructed = FALSE
        /\ allocated = 0
        /\ count = 0
        /\ slots = NoSlots
        /\ heap = [a \in Addrs |-> Free]

\* array_create: calloc a zeroed buffer of GROW_ALLOCATION(reserve) slots
\* and keep the relocatable flag.
Create == /\ ~constructed
          /\ \E reserve \in 0..MaxCount, r \in BOOLEAN :
                \/ /\ constructed' = TRUE
                   /\ relocatable' = r
                   /\ allocated' = GROW_ALLOCATION(reserve)
                   /\ slots' = [k \in 0..GROW_ALLOCATION(reserve) - 1 |-> Zero]
                   /\ UNCHANGED <<count, heap>>
                \/ UNCHANGED vars   \* calloc failed: the flag is not stored

\* array_destroy: free every item's block (non-relocatable), then the buffer.
Destroy == /\ constructed
           /\ heap' = FreeBlocks(Blocks(0, count - 1))
           /\ constructed' = FALSE
           /\ allocated' = 0
           /\ count' = 0
           /\ slots' = NoSlots
           /\ UNCHANGED relocatable

\* array_reserve called by a user of the array.
Reserve == /\ constructed
           /\ \E n \in 0..MaxCount :
                \E r \in ReserveOk(n) \cup ReserveFailed(n) : Apply(r)
           /\ UNCHANGED <<relocatable, constructed, count, heap>>

(***************************************************************************)
(* array_resize(count): grow through array_reserve and set count, leaving *)
(* the slots between the old and new count as they are; or free the items *)
(* beyond the new count and set count.  Growing a non-relocatable array    *)
(* is only done when ResizeGrows holds.                                   *)
(***************************************************************************)
Resize == /\ constructed
          /\ \E n \in 0..MaxCount :
                /\ relocatable \/ ResizeGrows \/ n <= count
                /\ \/ /\ count < n
                      /\ \/ \E r \in ReserveOk(n) :
                               Apply(r) /\ count' = n
                         \/ \E r \in ReserveFailed(n) :
                               Apply(r) /\ UNCHANGED count
                      /\ UNCHANGED heap
                   \/ /\ count >= n
                      /\ heap' = FreeBlocks(Blocks(n, count - 1))
                      /\ count' = n
                      /\ UNCHANGED <<allocated, slots>>
          /\ UNCHANGED <<relocatable, constructed>>

(***************************************************************************)
(* array_append: reserve count + 1, increment count, then zero the new     *)
(* slot (relocatable) or calloc a zeroed block and store its address; if   *)
(* that calloc fails, count is decremented again.  The reserve stays.     *)
(***************************************************************************)
AppendNewNoRollback(r) ==
    IF relocatable
    THEN /\ slots' = [r.slots EXCEPT ![count] = Zero]
         /\ allocated' = r.allocated
         /\ count' = count + 1
         /\ UNCHANGED heap
    ELSE \/ \E a \in Addrs :
              /\ heap[a] = Free
              /\ heap' = [heap EXCEPT ![a] = Zero]
              /\ slots' = [r.slots EXCEPT ![count] = a]
              /\ allocated' = r.allocated
              /\ count' = count + 1
         \/ Apply(r) /\ count' = count + 1 /\ UNCHANGED heap

AppendNew(r) ==
    IF relocatable
    THEN /\ slots' = [r.slots EXCEPT ![count] = Zero]
         /\ allocated' = r.allocated
         /\ count' = count + 1
         /\ UNCHANGED heap
    ELSE \/ \E a \in Addrs :
              /\ heap[a] = Free
              /\ heap' = [heap EXCEPT ![a] = Zero]
              /\ slots' = [r.slots EXCEPT ![count] = a]
              /\ allocated' = r.allocated
              /\ count' = count + 1
         \/ /\ Apply(r)    \* calloc failed: --array->count
            /\ UNCHANGED <<count, heap>>

ArrayAppend == /\ constructed
          /\ count < MaxCount
          /\ \/ \E r \in ReserveOk(count + 1) : AppendNew(r)
             \/ \E r \in ReserveFailed(count + 1) :
                   Apply(r) /\ UNCHANGED <<count, heap>>
          /\ UNCHANGED <<relocatable, constructed>>

(***************************************************************************)
(* array_remove(i): free the item's block, memmove the tail of             *)
(* (count - i - 1) slots down by one, zero slot count - 1, decrement.     *)
(***************************************************************************)
RemovedSlotsShortTail(i) ==
    LET tail == count - i - 2 IN
    [k \in DOMAIN slots |-> IF k \in i..(i + tail - 1) THEN slots[k + 1]
                            ELSE IF k = count - 1 THEN Zero
                            ELSE slots[k]]

RemovedSlots(i) ==
    LET tail == count - i - 1 IN
    [k \in DOMAIN slots |-> IF k \in i..(i + tail - 1) THEN slots[k + 1]
                            ELSE IF k = count - 1 THEN Zero
                            ELSE slots[k]]

Remove == /\ constructed
          /\ \E i \in 0..count - 1 :
                /\ heap' = FreeBlocks({slots[i]})
                /\ slots' = RemovedSlots(i)
          /\ count' = count - 1
          /\ UNCHANGED <<relocatable, constructed, allocated>>

\* A caller writes v into the item array_get(i) points to.
WriteItem == /\ constructed
             /\ \E i \in 0..count - 1, v \in Values :
                   IF relocatable
                   THEN slots' = [slots EXCEPT ![i] = v] /\ UNCHANGED heap
                   ELSE heap' = [heap EXCEPT ![slots[i]] = v] /\ UNCHANGED slots
             /\ UNCHANGED <<relocatable, constructed, allocated, count>>

Next == Create \/ Destroy \/ Reserve \/ Resize \/ ArrayAppend \/ Remove \/ WriteItem

Spec == Init /\ [][Next]_vars

(***************************************************************************)
(* Properties                                                              *)
(***************************************************************************)

TypeOK == /\ relocatable \in BOOLEAN
          /\ constructed \in BOOLEAN
          /\ allocated \in Nat
          /\ count \in 0..MaxCount
          /\ slots \in [0..allocated - 1 -> SlotValues]
          /\ heap \in [Addrs -> Contents \cup {Free}]

\* Non-relocatable storage: the first count slots point to distinct live
\* blocks, and every live block is one of them: array_remove, array_resize
\* and array_destroy free exactly the blocks they drop, and a failed
\* array_append leaves no slot behind.
OwnedBlocks ==
    ~relocatable =>
        /\ \A k \in 0..count - 1 : slots[k] \in Addrs
        /\ Cardinality(Blocks(0, count - 1)) = count
        /\ Blocks(0, count - 1) = {a \in Addrs : heap[a] # Free}

\* The array behaves as the sequence of ArraySeq: array_get(i) is the i-th
\* surviving item in insertion order after any mix of append, remove,
\* resize, writes and failed calls (spec.md 5).
Abstract == INSTANCE ArraySeq WITH items <- Items

AbstractSpec == Abstract!Spec
=============================================================================
