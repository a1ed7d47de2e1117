------------------------------ MODULE TimerUwp ------------------------------
(***************************************************************************)
(* timer_uwp.c.  Two threads share one Timer: the event loop thread        *)
(* (create, configure, destroy, and timer_handle_read when the pipe is     *)
(* readable) and the timer thread (timer_thread).  They meet at the        *)
(* auto-reset interrupt event, the handshake semaphore, and a blocking     *)
(* notification pipe that carries configuration ids.  Time is abstracted:  *)
(* a finite wait may elapse at any moment, at most MaxTicks times.         *)
(***************************************************************************)
EXTENDS Integers, Sequences

CONSTANTS
    Configs,        \* <<delay, interval>> pairs, in microseconds, callers pass
    DwordBits,      \* width of the DWORD timeout (32 on Windows)
    PipeCapacity,   \* ids the notification pipe holds before pipe_write blocks
    MaxTicks,       \* bound on elapsed waits
    MaxConfigures,  \* bound on configuration_id
    WinApiFails     \* whether SetEvent, waits, pipe and create calls may fail

ASSUME /\ Configs \subseteq Nat \X Nat
       /\ DwordBits \in Nat \ {0}
       /\ PipeCapacity \in Nat \ {0}
       /\ MaxTicks \in Nat /\ MaxConfigures \in Nat
       /\ WinApiFails \in BOOLEAN

\* INFINITE is 0xFFFFFFFF; a 64-bit value stored into a DWORD keeps its low bits.
INFINITE == 2^DwordBits - 1

ToDword(n) == n % 2^DwordBits

VARIABLES
    running, delay, interval, configurationId,  \* the Timer's fields
    event,        \* interrupt_event is signalled
    handshake,    \* the handshake semaphore's count
    pipe,         \* ids in the notification pipe, oldest first
    tpc,          \* where timer_thread is
    tConfId, tDelay, tInterval, timeout,  \* timer_thread's locals (ms)
    lpc,          \* where the event loop thread is
    result,       \* what the last timer_configure returned
    ticks,        \* waits that elapsed so far
    fires,        \* calls of timer->function
    sent,         \* ids written since the thread adopted its configuration
    tCfg,         \* history: the <<delay, interval>> the thread adopted (us)
    written       \* history: the tCfg each id in the pipe was written under

vars == <<running, delay, interval, configurationId, event, handshake, pipe,
          tpc, tConfId, tDelay, tInterval, timeout, lpc, result, ticks, fires,
          sent, tCfg, written>>
threadLocals == <<tConfId, tDelay, tInterval, timeout>>

(***************************************************************************)
(* Microseconds to milliseconds as timer_thread converts them: zero stays  *)
(* zero, below 1000 becomes 1, otherwise rounded to the nearest ms.        *)
(***************************************************************************)
ToMsTruncating(us) == IF us = 0 THEN 0 ELSE IF us < 1000 THEN 1 ELSE us \div 1000

ToMs(us) == IF us = 0 THEN 0 ELSE IF us < 1000 THEN 1 ELSE (us + 500) \div 1000

\* The reference: the nearest whole ms, halves up, and never 0 for a non-zero time.
RefMs(us) == LET q == us \div 1000
                 r == us % 1000
             IN IF us = 0 THEN 0
                ELSE IF r >= 500 THEN q + 1 ELSE IF q = 0 THEN 1 ELSE q

Init == /\ running = FALSE /\ delay = 0 /\ interval = 0 /\ configurationId = 0
        /\ event = FALSE /\ handshake = 0 /\ pipe = <<>>
        /\ tpc = "none" /\ tConfId = 0 /\ tDelay = 0 /\ tInterval = 0
        /\ timeout = INFINITE
        /\ lpc = "uncreated" /\ result = "none"
        /\ ticks = 0 /\ fires = 0 /\ sent = 0
        /\ tCfg = <<0, 0>> /\ written = <<>>

(***************************************************************************)
(* timer_create_: create the pipe and the event, add the pipe's read end   *)
(* as an event source, then set the fields and start the thread.  A failed *)
(* step closes what was created and the Timer is never used.               *)
(***************************************************************************)
Create == /\ lpc = "uncreated"
          /\ \/ /\ lpc' = "idle"
                /\ running' = TRUE
                /\ tpc' = "top"   \* timer_thread reads configuration_id 0
                /\ UNCHANGED <<delay, interval, configurationId, event,
                               handshake, pipe, threadLocals, result, ticks,
                               fires, sent, tCfg, written>>
             \/ /\ WinApiFails
                /\ lpc' = "failed"
                /\ UNCHANGED <<running, delay, interval, configurationId, event,
                               handshake, pipe, tpc, threadLocals, result,
                               ticks, fires, sent, tCfg, written>>

(***************************************************************************)
(* timer_thread                                                            *)
(***************************************************************************)

\* while (timer->running)
ThreadTop == /\ tpc = "top"
             /\ tpc' = IF running THEN "wait" ELSE "exit"
             /\ UNCHANGED <<running, delay, interval, configurationId, event,
                            handshake, pipe, threadLocals, lpc, result, ticks,
                            fires, sent, tCfg, written>>

AdoptNoRelease == /\ IF delay = 0 /\ interval = 0
                     THEN tDelay' = 0 /\ tInterval' = 0 /\ timeout' = INFINITE
                     ELSE /\ tDelay' = ToMs(delay)
                          /\ tInterval' = ToMs(interval)
                          /\ timeout' = ToDword(ToMs(delay))
                  /\ tConfId' = configurationId
                  /\ tCfg' = <<delay, interval>>
                  /\ sent' = 0
                  /\ UNCHANGED handshake
                  /\ tpc' = "top"

\* The WAIT_OBJECT_0 branch after the wait consumed the event: adopt the
\* configuration (converted to ms, timeout = delay) and release the handshake.
Adopt == /\ IF delay = 0 /\ interval = 0
            THEN tDelay' = 0 /\ tInterval' = 0 /\ timeout' = INFINITE
            ELSE /\ tDelay' = ToMs(delay)
                 /\ tInterval' = ToMs(interval)
                 /\ timeout' = ToDword(ToMs(delay))
         /\ tConfId' = configurationId
         /\ tCfg' = <<delay, interval>>
         /\ handshake' = handshake + 1
         /\ sent' = 0
         /\ tpc' = "top"

ThreadInterrupt == /\ tpc = "wait"
                   /\ event
                   /\ event' = FALSE
                   /\ \/ ~running /\ tpc' = "exit"
                         /\ UNCHANGED <<handshake, threadLocals, sent, tCfg>>
                      \/ running /\ Adopt
                   /\ UNCHANGED <<running, delay, interval, configurationId,
                                  pipe, lpc, result, ticks, fires, written>>

\* WAIT_TIMEOUT.  The branch for an inactive timer (delay and interval 0)
\* only continues; it is unreachable, since that timeout is INFINITE.
ThreadElapse == /\ tpc = "wait"
                /\ ~event
                /\ timeout # INFINITE
                /\ ticks < MaxTicks
                /\ ~(tDelay = 0 /\ tInterval = 0)
                /\ ticks' = ticks + 1
                /\ tpc' = "write"
                /\ UNCHANGED <<running, delay, interval, configurationId, event,
                               handshake, pipe, threadLocals, lpc, result,
                               fires, sent, tCfg, written>>

\* WaitForSingleObject failed: break.
ThreadWaitFails == /\ tpc = "wait"
                   /\ WinApiFails
                   /\ tpc' = "exit"
                   /\ UNCHANGED <<running, delay, interval, configurationId,
                                  event, handshake, pipe, threadLocals, lpc,
                                  result, ticks, fires, sent, tCfg, written>>

\* pipe_write blocks while the pipe is full; then timeout = interval.  A
\* failed write breaks out of the loop.
PipeWrite == /\ tpc = "write"
             /\ \/ /\ Len(pipe) < PipeCapacity
                   /\ pipe' = Append(pipe, tConfId)
                   /\ written' = Append(written, tCfg)
                   /\ sent' = sent + 1
                   /\ timeout' = ToDword(tInterval)
                   /\ tpc' = "top"
                \/ /\ WinApiFails
                   /\ tpc' = "exit"
                   /\ UNCHANGED <<pipe, sent, timeout, written>>
             /\ UNCHANGED <<running, delay, interval, configurationId, event,
                            handshake, tConfId, tDelay, tInterval, lpc, result,
                            ticks, fires, tCfg>>

\* After the loop: timer->running = false, then semaphore_release.
ThreadExit == /\ tpc = "exit"
              /\ running' = FALSE
              /\ tpc' = "release"
              /\ UNCHANGED <<delay, interval, configurationId, event, handshake,
                             pipe, threadLocals, lpc, result, ticks, fires, sent,
                             tCfg, written>>

ThreadRelease == /\ tpc = "release"
                 /\ handshake' = handshake + 1
                 /\ tpc' = "done"
                 /\ UNCHANGED <<running, delay, interval, configurationId, event,
                                pipe, threadLocals, lpc, result, ticks, fires,
                                sent, tCfg, written>>

Thread == ThreadTop \/ ThreadInterrupt \/ ThreadElapse \/ ThreadWaitFails
          \/ PipeWrite \/ ThreadExit \/ ThreadRelease

(***************************************************************************)
(* The event loop thread                                                   *)
(***************************************************************************)

\* timer_configure up to semaphore_acquire: store the configuration, bump
\* configuration_id and signal the thread.
Configure == /\ lpc = "idle"
             /\ configurationId < MaxConfigures
             /\ \E c \in Configs :
                  \/ /\ ~running
                     /\ result' = "error"
                     /\ UNCHANGED <<delay, interval, configurationId, event, lpc>>
                  \/ /\ running
                     /\ delay' = c[1]
                     /\ interval' = c[2]
                     /\ configurationId' = configurationId + 1
                     /\ \/ event' = TRUE /\ lpc' = "acquire"
                           /\ UNCHANGED result
                        \/ WinApiFails /\ result' = "error"
                           /\ UNCHANGED <<event, lpc>>
             /\ UNCHANGED <<running, handshake, pipe, tpc, threadLocals, ticks,
                            fires, sent, tCfg, written>>

AcquireNoWait == /\ lpc = "acquire"
                 /\ handshake' = handshake - 1
                 /\ result' = IF running THEN "ok" ELSE "error"
                 /\ lpc' = "idle"

AcquireNoRecheck == /\ lpc = "acquire"
                    /\ handshake > 0
                    /\ handshake' = handshake - 1
                    /\ result' = "ok"
                    /\ lpc' = "idle"

\* semaphore_acquire, then fail if the thread exited meanwhile.
Acquire == /\ lpc = "acquire"
           /\ handshake > 0
           /\ handshake' = handshake - 1
           /\ result' = IF running THEN "ok" ELSE "error"
           /\ lpc' = "idle"

ConfigureReturn == /\ Acquire
                   /\ UNCHANGED <<running, delay, interval, configurationId,
                                  event, pipe, tpc, threadLocals, ticks, fires,
                                  sent, tCfg, written>>

HandleRead == /\ pipe' = Tail(pipe)
              /\ written' = Tail(written)
              /\ fires' = IF Head(pipe) = configurationId THEN fires + 1
                          ELSE fires

TimerHandleRead == /\ lpc = "idle"
                   /\ pipe # <<>>
                   /\ HandleRead
                   /\ UNCHANGED <<running, delay, interval, configurationId,
                                  event, handshake, tpc, threadLocals, lpc,
                                  result, ticks, sent, tCfg>>

DestroyNoJoin == /\ running' = FALSE
                 /\ \/ event' = TRUE /\ lpc' = "destroyed"
                    \/ WinApiFails /\ lpc' = "destroyed" /\ UNCHANGED event

\* timer_destroy: if running, clear it and signal the thread, joining it
\* when SetEvent succeeded; then remove the source and destroy the
\* semaphore, the event and the pipe.
DestroyRunning == /\ running' = FALSE
                  /\ \/ event' = TRUE /\ lpc' = "join"
                     \/ WinApiFails /\ lpc' = "destroyed" /\ UNCHANGED event

Destroy == /\ lpc = "idle"
           /\ \/ running /\ DestroyRunning
              \/ ~running /\ lpc' = "destroyed" /\ UNCHANGED <<running, event>>
           /\ UNCHANGED <<delay, interval, configurationId, handshake, pipe,
                          tpc, threadLocals, result, ticks, fires, sent, tCfg,
                          written>>

Join == /\ lpc = "join"
        /\ tpc = "done"
        /\ lpc' = "destroyed"
        /\ UNCHANGED <<running, delay, interval, configurationId, event,
                       handshake, pipe, tpc, threadLocals, result, ticks,
                       fires, sent, tCfg, written>>

LoopInternal == ConfigureReturn \/ TimerHandleRead \/ Join

\* The Timer stops for good after timer_destroy or a failed timer_create_:
\* those states have no successor, and the runs do not report them as
\* deadlocks.  A loop thread blocked for good is what LoopNeverBlocked checks.
Next == Create \/ Configure \/ Destroy \/ LoopInternal \/ Thread

\* Both threads are scheduled by the OS, a finite wait does elapse, and the
\* event loop reads a readable pipe; what the caller does is not assumed.
Fairness == WF_vars(Thread) /\ WF_vars(LoopInternal)

Spec == Init /\ [][Next]_vars /\ Fairness

(***************************************************************************)
(* Properties                                                              *)
(***************************************************************************)

TypeOK == /\ running \in BOOLEAN /\ event \in BOOLEAN
          /\ <<delay, interval>> \in Configs \cup {<<0, 0>>}
          /\ configurationId \in 0..MaxConfigures
          /\ handshake \in Nat
          /\ pipe \in Seq(0..MaxConfigures) /\ Len(pipe) <= PipeCapacity
          /\ tpc \in {"none", "top", "wait", "write", "exit", "release", "done"}
          /\ tConfId \in 0..MaxConfigures
          /\ timeout \in 0..INFINITE
          /\ lpc \in {"uncreated", "failed", "idle", "acquire", "join",
                      "destroyed"}
          /\ result \in {"none", "ok", "error"}
          /\ ticks \in 0..MaxTicks /\ fires \in Nat /\ sent \in Nat
          /\ tCfg \in Configs \cup {<<0, 0>>}
          /\ written \in Seq(Configs) /\ Len(written) = Len(pipe)

ConfigureAdopted ==
    [][lpc = "acquire" /\ lpc' = "idle" /\ result' = "ok"
         => tConfId' = configurationId /\ tpc' \notin {"release", "done"}]_vars

\* Every finite wait timer_thread arms is the configured time in ms (rounded
\* to the nearest ms, at least 1), and never INFINITE: timeout = delay on
\* adopting an active configuration, timeout = interval after each fire.
TimeoutMatchesConfig ==
    [][/\ (tpc = "wait" /\ event /\ ~event' /\ running /\ (delay # 0 \/ interval # 0))
           => /\ timeout' = RefMs(delay) /\ timeout' # INFINITE
              /\ tInterval' = RefMs(interval)
       /\ (tpc = "write" /\ Len(pipe') > Len(pipe) /\ tInterval # 0)
           => timeout' = tInterval /\ timeout' # INFINITE]_vars

\* A configuration with interval 0 is one-shot: the thread writes at most one
\* notification for it (the check at line 66 means to drop timer events once
\* nothing is left to fire).
OneShotOnce == tDelay # 0 /\ tInterval = 0 => sent <= 1

\* timer_destroy frees the semaphore, event and pipe only after the timer
\* thread has ended, so the thread never touches them afterwards.  With
\* WinAPI failures this is violated (a failed SetEvent skips the join); no
\* passing run checks it, since without failures it is Join's guard.
NoUseAfterDestroy == lpc = "destroyed" => tpc \in {"done", "none"}

\* timer_configure and timer_destroy, which block the event loop thread on
\* the handshake or on thread_join, return.
LoopNeverBlocked == lpc \in {"acquire", "join"} ~> lpc \notin {"acquire", "join"}
====
