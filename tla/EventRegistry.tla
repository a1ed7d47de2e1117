--------------------------- MODULE EventRegistry ---------------------------
(***************************************************************************)
(* The event source registry and dispatcher of daemonlib (src/event.c).    *)
(*                                                                         *)
(* _event_sources is a non-relocatable Array of EventSource records: each  *)
(* record lives in its own heap block, whose address the platform backend  *)
(* (epoll) keeps and hands back when the source becomes ready.  The model  *)
(* keeps the array as a sequence of records carrying that block address.   *)
(*                                                                         *)
(* One thread runs everything.  Registry calls (add, modify, remove, stop) *)
(* are made either before event_run (pc = "Setup") or from inside a        *)
(* callback the dispatcher invoked (pc = "Callback") or from the cleanup   *)
(* callback the loop calls once per tick (pc = "CleanupCallback").  A      *)
(* callback makes at most MaxCalls registry calls and then returns.        *)
(*                                                                         *)
(* The platform loop (event_run_platform, not under src/) is modelled from *)
(* the spec: wait for readiness, hand every ready source to                *)
(* event_handle_source, run event_cleanup_sources and the cleanup          *)
(* callback, and test _running again at the top of the next wait.          *)
(***************************************************************************)
EXTENDS Integers, Sequences, SequencesExt, FiniteSets

CONSTANTS
  Handles,        \* IOHandle values callers register
  Types,          \* EventSourceType values
  Closures,       \* (EventFunction, opaque) pairs callers pass
  Addrs,          \* heap block addresses calloc may hand to array_append
  NULL,
  AddMasks,       \* event masks callers pass to event_add_source
  ModifyMasks,    \* <<events_to_remove, events_to_add>> pairs for modify
  AlwaysReported, \* bits the backend reports without being asked (EPOLLERR)
  MaxCalls        \* registry calls one callback makes before returning

Bits == {"READ", "WRITE", "PRIO", "ERROR"}

\* The order in which event_handle_source delivers separate callbacks.
Order == <<"READ", "WRITE", "PRIO", "ERROR">>

ASSUME NULL \notin Closures
ASSUME AddMasks \subseteq SUBSET Bits
ASSUME ModifyMasks \subseteq (SUBSET Bits) \X (SUBSET Bits)
ASSUME AlwaysReported \subseteq Bits
ASSUME MaxCalls \in Nat \ {0}
\* every live source can get a block of its own (see UniqueRegistration)
ASSUME Cardinality(Addrs) > Cardinality(Handles \X Types)

VARIABLES
  sources,        \* _event_sources: sequence of EventSource records
  kernel,         \* backend registrations: block address -> event mask
  running,        \* _running
  stopRequested,  \* _stop_requested
  pc,             \* where the single thread is
  ready,          \* ready list of the current tick not yet handled
  cur,            \* frame of the running event_handle_source, or NULL
  invoking,       \* the callback being executed, or NULL
  calls           \* registry calls the running callback may still make

vars == <<sources, kernel, running, stopRequested, pc, ready, cur, invoking, calls>>

NoCallback == [b \in Bits |-> NULL]

LiveAddrs == {sources[i].addr : i \in DOMAIN sources}

\* index of the record with block address a
IndexOf(a) == SelectInSeq(sources, LAMBDA s : s.addr = a)

Src(a) == sources[IndexOf(a)]

\* Fault variant: a scan that skips records marked removed.
FirstMatchUnremoved(h, t) ==
  SelectInSeq(sources, LAMBDA s : s.handle = h /\ s.type = t /\ s.state # "REMOVED")

\* event_add_source / event_modify_source scan forwards, first match wins
FirstMatch(h, t) == SelectInSeq(sources, LAMBDA s : s.handle = h /\ s.type = t)

\* event_remove_source scans backwards, last match wins
LastMatch(h, t) == SelectLastInSeq(sources, LAMBDA s : s.handle = h /\ s.type = t)

\* install callback c for every bit in ev, keep the others
Install(cb, ev, c) == [b \in Bits |-> IF b \in ev THEN c ELSE cb[b]]

\* array_remove of a non-relocatable Array: free the block, shift the
\* pointers behind it down by one, order of the survivors is kept
ArrayRemove(seq, i) == RemoveAt(seq, i)

-----------------------------------------------------------------------------
(***************************************************************************)
(* Registry calls.  Each is possible before event_run, or from a callback  *)
(* with calls left; a call from a callback uses one up.                    *)
(***************************************************************************)
CanCall == pc = "Setup" \/ (pc \in {"Callback", "CleanupCallback"} /\ calls > 0)

Spend == calls' = IF pc = "Setup" THEN calls ELSE calls - 1

\* A failed call leaves the registry as it was.
Fail == /\ Spend
        /\ UNCHANGED <<sources, kernel, running, stopRequested, pc, ready, cur, invoking>>

\* event_add_source on a tuple marked removed: overwrite mask, state and the
\* callbacks of the requested bits over a backup, then register it again;
\* if event_source_added_platform fails the backup is copied back.
ReaddFields(i, ev, c) ==
  [sources EXCEPT ![i].events = ev, ![i].state = "READDED", ![i].cb = Install(@, ev, c)]

\* Fault variant: the backup is not copied back when the hook fails.
ReaddNoRestore(i, ev, c) ==
  /\ sources' = ReaddFields(i, ev, c)
  /\ \/ kernel' = kernel @@ (sources[i].addr :> ev)
     \/ UNCHANGED kernel
  /\ Spend
  /\ UNCHANGED <<running, stopRequested, pc, ready, cur, invoking>>

Readd(i, ev, c) ==
  \/ /\ sources' = ReaddFields(i, ev, c)
     /\ kernel' = kernel @@ (sources[i].addr :> ev)
     /\ Spend
     /\ UNCHANGED <<running, stopRequested, pc, ready, cur, invoking>>
  \/ Fail

\* event_add_source on an unknown tuple: array_append a zeroed record in a
\* fresh block, fill it, register it; array_append may run out of memory,
\* and a failing hook takes the record off the end again (array_remove).
AddNew(h, t, ev, c) ==
  \/ \E a \in Addrs \ LiveAddrs :
       /\ sources' = Append(sources,
                       [addr |-> a, handle |-> h, type |-> t, events |-> ev,
                        state |-> "ADDED", cb |-> Install(NoCallback, ev, c)])
       /\ kernel' = kernel @@ (a :> ev)
       /\ Spend
       /\ UNCHANGED <<running, stopRequested, pc, ready, cur, invoking>>
  \/ Fail

\* event_add_source: a tuple can be in the array once; one marked removed
\* can be re-added before event_cleanup_sources erased it.
AddSource(h, t, ev, c) ==
  /\ CanCall
  /\ LET i == FirstMatch(h, t) IN
     \/ i # 0 /\ sources[i].state = "REMOVED" /\ Readd(i, ev, c)
     \/ i # 0 /\ sources[i].state # "REMOVED" /\ Fail
     \/ i = 0 /\ AddNew(h, t, ev, c)

\* Fault variant: the mask and callbacks change but the state does not.
ModifySourceKeepState(h, t, rm, ad, c) ==
  /\ CanCall
  /\ LET i == FirstMatch(h, t) IN
     \/ /\ i # 0
        /\ sources[i].state # "REMOVED"
        /\ \/ /\ sources' = [sources EXCEPT
                                ![i].events = (@ \ rm) \cup ad,
                                ![i].cb = Install([b \in Bits |-> IF b \in rm THEN NULL ELSE @[b]], ad, c)]
              /\ kernel' = [kernel EXCEPT ![sources[i].addr] = (sources[i].events \ rm) \cup ad]
              /\ Spend
              /\ UNCHANGED <<running, stopRequested, pc, ready, cur, invoking>>
           \/ Fail
     \/ /\ ~(i # 0 /\ sources[i].state # "REMOVED")
        /\ Fail

\* event_modify_source: drop the bits to remove, add the bits to add, clear
\* the callbacks of removed bits, then install the callback of added bits.
ModifySource(h, t, rm, ad, c) ==
  /\ CanCall
  /\ LET i == FirstMatch(h, t) IN
     \/ /\ i # 0
        /\ sources[i].state # "REMOVED"
        /\ \/ /\ sources' = [sources EXCEPT
                                ![i].events = (@ \ rm) \cup ad,
                                ![i].state = "MODIFIED",
                                ![i].cb = Install([b \in Bits |-> IF b \in rm THEN NULL ELSE @[b]], ad, c)]
              /\ kernel' = [kernel EXCEPT ![sources[i].addr] = (sources[i].events \ rm) \cup ad]
              /\ Spend
              /\ UNCHANGED <<running, stopRequested, pc, ready, cur, invoking>>
           \/ Fail
     \/ /\ ~(i # 0 /\ sources[i].state # "REMOVED")
        /\ Fail

\* Fault variant: erase the record at once instead of marking it.
RemoveSourceNow(h, t) ==
  /\ CanCall
  /\ LET i == LastMatch(h, t) IN
     \/ /\ i # 0
        /\ sources[i].state # "REMOVED"
        /\ sources' = ArrayRemove(sources, i)
        /\ kernel' = [a \in DOMAIN kernel \ {sources[i].addr} |-> kernel[a]]
        /\ Spend
        /\ UNCHANGED <<running, stopRequested, pc, ready, cur, invoking>>
     \/ /\ ~(i # 0 /\ sources[i].state # "REMOVED")
        /\ Fail

\* event_remove_source: only mark the record, because the loop may be in
\* the middle of the ready list; unregister it from the backend.
RemoveSource(h, t) ==
  /\ CanCall
  /\ LET i == LastMatch(h, t) IN
     \/ /\ i # 0
        /\ sources[i].state # "REMOVED"
        /\ sources' = [sources EXCEPT ![i].state = "REMOVED"]
        /\ kernel' = [a \in DOMAIN kernel \ {sources[i].addr} |-> kernel[a]]
        /\ Spend
        /\ UNCHANGED <<running, stopRequested, pc, ready, cur, invoking>>
     \/ /\ ~(i # 0 /\ sources[i].state # "REMOVED")
        /\ Fail

\* Fault variant: the request is recorded but _running is left set.
StopKeepRunning ==
  /\ CanCall
  /\ stopRequested' = TRUE
  /\ Spend
  /\ UNCHANGED <<sources, kernel, running, pc, ready, cur, invoking>>

\* event_stop: remember the request; if the loop runs, clear _running and
\* wake the backend (the wake-up is the next Wait step).
Stop ==
  /\ CanCall
  /\ stopRequested' = TRUE
  /\ running' = FALSE
  /\ Spend
  /\ UNCHANGED <<sources, kernel, pc, ready, cur, invoking>>

-----------------------------------------------------------------------------
(***************************************************************************)
(* event_cleanup_sources: walk backwards, erase REMOVED records with       *)
(* array_remove, set every other record NORMAL.                            *)
(***************************************************************************)
CleanedUp(seq) ==
  LET kept == SelectSeq(seq, LAMBDA s : s.state # "REMOVED")
  IN [j \in DOMAIN kept |-> [kept[j] EXCEPT !.state = "NORMAL"]]


Cleanup ==
  /\ pc = "Dispatch"
  /\ cur = NULL
  /\ ready = <<>>
  /\ sources' = CleanedUp(sources)
  /\ pc' = "CleanupCallback"
  /\ calls' = MaxCalls
  /\ UNCHANGED <<kernel, running, stopRequested, ready, cur, invoking>>

\* the cleanup callback passed to event_run returns; next wait cycle
EndTick ==
  /\ pc = "CleanupCallback"
  /\ pc' = "Wait"
  /\ UNCHANGED <<sources, kernel, running, stopRequested, ready, cur, invoking, calls>>

-----------------------------------------------------------------------------
(***************************************************************************)
(* event_run and the platform loop.                                        *)
(***************************************************************************)

\* event_run: refuse to start when a stop was requested before, otherwise
\* enter the platform loop, which sets _running.
Run ==
  /\ pc = "Setup"
  /\ \/ /\ stopRequested
        /\ pc' = "Returned"
        /\ UNCHANGED running
     \/ /\ ~stopRequested
        /\ running' = TRUE
        /\ pc' = "Wait"
  /\ UNCHANGED <<sources, kernel, stopRequested, ready, cur, invoking, calls>>

\* Ready lists the backend can return: distinct registered blocks in any
\* order, each with the bits it asked for or the backend always reports.
ReadyLists ==
  UNION { { [j \in DOMAIN o |-> [addr |-> o[j], recv |-> r[j]]] :
              r \in [DOMAIN o -> SUBSET Bits] } :
          o \in SetToAllKPermutations(DOMAIN kernel) }

Reportable(e) == e.recv # {} /\ e.recv \subseteq kernel[e.addr] \cup AlwaysReported

\* Top of the loop: leave when _running is clear, else block in the wait
\* primitive; it returns a ready list or fails, which ends the loop.
Wait ==
  /\ pc = "Wait"
  /\ \/ /\ ~running
        /\ pc' = "Returned"
        /\ UNCHANGED ready
     \/ /\ running
        /\ \E l \in ReadyLists :
             /\ \A j \in DOMAIN l : Reportable(l[j])
             /\ ready' = l
        /\ pc' = "Dispatch"
     \/ /\ running
        /\ pc' = "Returned"
        /\ UNCHANGED ready
  /\ UNCHANGED <<sources, kernel, running, stopRequested, cur, invoking, calls>>

\* hand the next ready entry to event_handle_source
NextReady ==
  /\ pc = "Dispatch"
  /\ cur = NULL
  /\ ready # <<>>
  /\ cur' = [addr |-> Head(ready).addr, recv |-> Head(ready).recv, stage |-> 0,
             entry |-> Src(Head(ready).addr), fired |-> <<>>]
  /\ ready' = Tail(ready)
  /\ UNCHANGED <<sources, kernel, running, stopRequested, pc, invoking, calls>>

-----------------------------------------------------------------------------
(***************************************************************************)
(* event_handle_source.  The frame cur holds the source's block address,   *)
(* the received bits and the stage: 0 at entry, 1..4 before delivering     *)
(* Order[stage] in the branch of separate callbacks, 5 when done.  The     *)
(* record is read again from the array at every stage, as the code reads   *)
(* it through the pointer after every callback.  The frame also keeps,    *)
(* for the properties only, the record as it was at entry and the         *)
(* closures called so far.                                                *)
(***************************************************************************)

Invoke(c, bit, next) ==
  /\ invoking' = [addr |-> cur.addr, bit |-> bit, closure |-> c]
  /\ cur' = [cur EXCEPT !.stage = next, !.fired = Append(@, c)]
  /\ pc' = "Callback"
  /\ calls' = MaxCalls
  /\ UNCHANGED <<sources, kernel, running, stopRequested, ready>>

Goto(next) ==
  /\ cur' = [cur EXCEPT !.stage = next]
  /\ UNCHANGED <<sources, kernel, running, stopRequested, pc, ready, invoking, calls>>

\* Fault variant: the prio/error merge without its prio != NULL test.
HandleEntryNoNullTest ==
  /\ pc = "Dispatch"
  /\ cur # NULL
  /\ cur.stage = 0
  /\ LET s == Src(cur.addr) IN
     \/ /\ s.state # "NORMAL"
        /\ Goto(5)
     \/ /\ s.state = "NORMAL"
        /\ s.cb["PRIO"] = s.cb["ERROR"]
        /\ IF cur.recv \cap {"PRIO", "ERROR"} # {}
             THEN Invoke(s.cb["PRIO"], "PRIO", 5) ELSE Goto(5)
     \/ /\ s.state = "NORMAL"
        /\ s.cb["PRIO"] # s.cb["ERROR"]
        /\ Goto(1)

HandleEntry ==
  /\ pc = "Dispatch"
  /\ cur # NULL
  /\ cur.stage = 0
  /\ LET s == Src(cur.addr) IN
     \/ /\ s.state # "NORMAL"
        /\ Goto(5)
     \/ /\ s.state = "NORMAL"
        /\ s.cb["PRIO"] # NULL /\ s.cb["PRIO"] = s.cb["ERROR"]
        /\ IF cur.recv \cap {"PRIO", "ERROR"} # {}
             THEN Invoke(s.cb["PRIO"], "PRIO", 5) ELSE Goto(5)
     \/ /\ s.state = "NORMAL"
        /\ ~(s.cb["PRIO"] # NULL /\ s.cb["PRIO"] = s.cb["ERROR"])
        /\ s.cb["READ"] # NULL /\ s.cb["READ"] = s.cb["WRITE"]
        /\ IF cur.recv \cap {"READ", "WRITE"} # {}
             THEN Invoke(s.cb["READ"], "READ", 5) ELSE Goto(5)
     \/ /\ s.state = "NORMAL"
        /\ ~(s.cb["PRIO"] # NULL /\ s.cb["PRIO"] = s.cb["ERROR"])
        /\ ~(s.cb["READ"] # NULL /\ s.cb["READ"] = s.cb["WRITE"])
        /\ Goto(1)

\* Fault variant: no test for a source removed by an earlier callback.
HandleStageNoRecheck ==
  /\ pc = "Dispatch"
  /\ cur # NULL
  /\ cur.stage \in 1..4
  /\ LET s == Src(cur.addr) IN
     \/ /\ (Order[cur.stage] \notin cur.recv \/ s.cb[Order[cur.stage]] = NULL)
        /\ Goto(cur.stage + 1)
     \/ /\ Order[cur.stage] \in cur.recv /\ s.cb[Order[cur.stage]] # NULL
        /\ Invoke(s.cb[Order[cur.stage]], Order[cur.stage], cur.stage + 1)

\* Fault variant: a received bit is delivered without testing its callback.
HandleStageNullCall ==
  /\ pc = "Dispatch"
  /\ cur # NULL
  /\ cur.stage \in 1..4
  /\ LET s == Src(cur.addr) IN
     \/ /\ Order[cur.stage] \notin cur.recv
        /\ Goto(cur.stage + 1)
     \/ /\ Order[cur.stage] \in cur.recv
        /\ cur.stage > 1 /\ s.state = "REMOVED"
        /\ Goto(5)
     \/ /\ Order[cur.stage] \in cur.recv
        /\ (cur.stage = 1 \/ s.state # "REMOVED")
        /\ Invoke(s.cb[Order[cur.stage]], Order[cur.stage], cur.stage + 1)

\* Deliver Order[k] if it was received and has a callback; before WRITE,
\* PRIO and ERROR give up if an earlier callback marked the source removed.
HandleStage ==
  /\ pc = "Dispatch"
  /\ cur # NULL
  /\ cur.stage \in 1..4
  /\ LET s   == Src(cur.addr)
         k   == cur.stage
         bit == Order[k]
     IN \/ /\ (bit \notin cur.recv \/ s.cb[bit] = NULL)
           /\ Goto(k + 1)
        \/ /\ bit \in cur.recv /\ s.cb[bit] # NULL
           /\ k > 1 /\ s.state = "REMOVED"
           /\ Goto(5)
        \/ /\ bit \in cur.recv /\ s.cb[bit] # NULL
           /\ (k = 1 \/ s.state # "REMOVED")
           /\ Invoke(s.cb[bit], bit, k + 1)

\* event_handle_source returns
HandleDone ==
  /\ pc = "Dispatch"
  /\ cur # NULL
  /\ cur.stage = 5
  /\ cur' = NULL
  /\ UNCHANGED <<sources, kernel, running, stopRequested, pc, ready, invoking, calls>>

\* the callback returns into event_handle_source
Return ==
  /\ pc = "Callback"
  /\ pc' = "Dispatch"
  /\ invoking' = NULL
  /\ UNCHANGED <<sources, kernel, running, stopRequested, ready, cur, calls>>

\* event_exit after event_run returned: the backend is shut down, then
\* event_cleanup_sources; records still present are leaked with a warning.
Exit ==
  /\ pc = "Returned"
  /\ kernel' = <<>>
  /\ sources' = CleanedUp(sources)
  /\ pc' = "Exited"
  /\ UNCHANGED <<running, stopRequested, ready, cur, invoking, calls>>

\* the daemon has shut down
Done ==
  /\ pc = "Exited"
  /\ UNCHANGED vars

-----------------------------------------------------------------------------
Init ==
  /\ sources = <<>>
  /\ kernel = <<>>
  /\ running = FALSE
  /\ stopRequested = FALSE
  /\ pc = "Setup"
  /\ ready = <<>>
  /\ cur = NULL
  /\ invoking = NULL
  /\ calls = MaxCalls

Api ==
  \/ \E h \in Handles, t \in Types, ev \in AddMasks, c \in Closures : AddSource(h, t, ev, c)
  \/ \E h \in Handles, t \in Types, m \in ModifyMasks, c \in Closures :
       ModifySource(h, t, m[1], m[2], c)
  \/ \E h \in Handles, t \in Types : RemoveSource(h, t)
  \/ Stop

Loop ==
  \/ Run \/ Wait \/ NextReady \/ HandleEntry \/ HandleStage \/ HandleDone
  \/ Return \/ Cleanup \/ EndTick \/ Exit

Next == Api \/ Loop \/ Done

\* The one thread always goes on with the loop and every callback returns;
\* what callers do from Setup and from callbacks is not assumed fair.
Fairness == WF_vars(Loop)

Spec == Init /\ [][Next]_vars /\ Fairness

-----------------------------------------------------------------------------
(***************************************************************************)
(* Properties.                                                             *)
(***************************************************************************)
States == {"ADDED", "NORMAL", "MODIFIED", "REMOVED", "READDED"}

Record == [addr : Addrs, handle : Handles, type : Types, events : SUBSET Bits,
           state : States, cb : [Bits -> Closures \cup {NULL}]]

TypeOK ==
  /\ sources \in Seq(Record)
  /\ DOMAIN kernel \subseteq Addrs /\ \A a \in DOMAIN kernel : kernel[a] \subseteq Bits
  /\ running \in BOOLEAN /\ stopRequested \in BOOLEAN
  /\ pc \in {"Setup", "Wait", "Dispatch", "Callback", "CleanupCallback", "Returned", "Exited"}
  /\ ready \in Seq([addr : Addrs, recv : SUBSET Bits])
  /\ cur \in {NULL} \cup [addr : Addrs, recv : SUBSET Bits, stage : 0..5,
                          entry : Record, fired : Seq(Closures)]
  /\ invoking \in {NULL} \cup [addr : Addrs, bit : Bits, closure : Closures]
  /\ calls \in 0..MaxCalls

\* Each (handle, type) tuple is in the array at most once, whatever mix of
\* add, re-add, modify and remove the callbacks make in one tick: the
\* re-add of a tuple marked removed reuses its record in event_add_source.
UniqueRegistration ==
  \A i, j \in DOMAIN sources :
    i # j => <<sources[i].handle, sources[i].type>> # <<sources[j].handle, sources[j].type>>

\* Every block address the backend handed out in this tick's ready list,
\* the record event_handle_source is working on and the one whose callback
\* runs are still records of the array: records are only marked in
\* event_remove_source and freed in event_cleanup_sources after the
\* ready list is used up.
NoDanglingDispatch ==
  /\ \A j \in DOMAIN ready : ready[j].addr \in LiveAddrs
  /\ cur # NULL => cur.addr \in LiveAddrs
  /\ invoking # NULL => invoking.addr \in LiveAddrs

\* While the daemon runs, the backend watches exactly the records that are
\* not marked removed, each for the mask the record holds, also after a
\* failed added/modified hook restored the backup.
KernelMirrorsRegistry ==
  pc # "Exited" =>
    /\ DOMAIN kernel = {sources[i].addr : i \in {j \in DOMAIN sources : sources[j].state # "REMOVED"}}
    /\ \A i \in DOMAIN sources :
         sources[i].state # "REMOVED" => kernel[sources[i].addr] = sources[i].events

\* a step of event_handle_source that calls a callback
Fires == pc = "Dispatch" /\ pc' = "Callback"

\* Once a source is marked removed, no callback of it is called again, also
\* when an earlier callback of the same event_handle_source call removed it.
RemovedNeverFires == [][Fires => Src(cur.addr).state # "REMOVED"]_vars

\* The spec: a source added, modified or removed in the current tick is
\* never fired; event_handle_source only checks NORMAL on entry.
FiresOnlyInNormal == [][Fires => Src(cur.addr).state = "NORMAL"]_vars

\* The callback called is one the source's current registration installed
\* for a bit in its mask, not one left over from an earlier registration.
FiresOnlyCurrentCallback ==
  [][Fires => invoking'.closure \in {Src(cur.addr).cb[b] : b \in Src(cur.addr).events}]_vars

\* The documented precondition of event_handle_source: a source does not
\* have read/write callbacks and prio/error callbacks at once.
Mixed(s) == /\ \E b \in {"READ", "WRITE"} : s.cb[b] # NULL
            /\ \E b \in {"PRIO", "ERROR"} : s.cb[b] # NULL

\* One event_handle_source call on a source in state NORMAL, whose record
\* no callback changed, and that does not mix read/write with prio/error,
\* calls the callback of every received bit that has one, and each
\* distinct closure once: a read/write or prio/error pair of one closure
\* is called once, not twice, and no bit is lost to the merged branches.
DeliversEachCallbackOnce ==
  LET e == cur.entry IN
  cur # NULL /\ cur.stage = 5 /\ e.state = "NORMAL"
    /\ Src(cur.addr) = e /\ ~Mixed(e)
    => /\ IsInjective(cur.fired)
       /\ Range(cur.fired) = {e.cb[b] : b \in {x \in cur.recv : e.cb[x] # NULL}}

\* The registry as callers see it: each record of the array is the
\* registration of its (handle, type), with its mask and state.
Registrations ==
  [t \in {<<s.handle, s.type>> : s \in Range(sources)} |->
     LET s == sources[SelectInSeq(sources, LAMBDA x : <<x.handle, x.type>> = t)]
     IN [events |-> s.events, state |-> s.state]]

Abstract == INSTANCE RegistryAbstract
              WITH Tuples <- Handles \X Types, reg <- Registrations

\* Every step of the registry, the dispatcher and the loop is a step of the
\* abstract registry of spec.md 4.2 or leaves it unchanged: add, re-add,
\* modify and remove change only their tuple, as the spec says, a failed
\* hook leaves no trace, and only event_cleanup_sources (also inside
\* event_exit) erases removed registrations and ends the pending states.
ImplementsAbstractRegistry == Abstract!Spec

\* Once event_stop was called, event_run returns (or never starts): the
\* loop tests _running at the top of every wait cycle.
StopTerminates == stopRequested ~> pc \in {"Returned", "Exited"}

=============================================================================
