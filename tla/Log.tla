--------------------------------- MODULE Log ---------------------------------
(***************************************************************************)
(* log.c with log_posix.c.  Several threads call log_message; one coarse  *)
(* mutex serializes the handler, which writes a line to _file in three     *)
(* calls (prefix, message, newline with fflush) and re-reads _file for     *)
(* each.  log_set_file swaps _file under the mutex; log_set_level and      *)
(* log_set_debug_override write without it.  Timestamps, file names and    *)
(* formatting are left out: a written part is <<message, part number>>.    *)
(* A thread calls into the log only between log_init and log_exit, and     *)
(* log_exit only once no thread is inside log_message (caller order).     *)
(***************************************************************************)
EXTENDS Integers, Sequences

CONSTANTS
    Threads,      \* the threads that log
    Files,        \* FILE * values a caller may pass to log_set_file
    Stderr,       \* the FILE * log_init installs
    NULL,
    None,         \* no thread, no message
    Categories,   \* LogCategory values
    LIBUSB,       \* LOG_CATEGORY_LIBUSB, whose level log_set_level ignores
    MsgLevels,    \* levels of the messages threads log
    SetLevels,    \* levels callers pass to log_set_level
    MaxMessages   \* bound on the messages each thread logs

\* LogLevel: NONE < ERROR < WARN < INFO < DEBUG; a message passes when its
\* level is at most the category's level.
NONE == 0
INFO == 3

Msgs == Threads \X (1..MaxMessages)

VARIABLES
    initialized,    \* between log_init and log_exit
    mutex,          \* the thread holding _mutex, or None
    file,           \* _file
    levels,         \* _levels
    debugOverride,  \* _debug_override
    pc,             \* where each thread is in log_message
    cur,            \* the message each thread is logging
    sent,           \* messages each thread has started
    written         \* the parts written to each FILE *, NULL included

vars == <<initialized, mutex, file, levels, debugOverride, pc, cur, sent, written>>

\* The steps of log_message that run with _mutex held.
Holding == {"check", "prefix", "body", "end", "unlock"}

Init == /\ initialized = FALSE
        /\ mutex = None
        /\ file = NULL
        /\ levels = [c \in Categories |-> NONE]
        /\ debugOverride = FALSE
        /\ pc = [t \in Threads |-> "idle"]
        /\ cur = [t \in Threads |-> None]
        /\ sent = [t \in Threads |-> 0]
        /\ written = [f \in Files \cup {NULL} |-> <<>>]

Idle(t) == initialized /\ pc[t] = "idle"

\* log_init: create the mutex, every level INFO, _file = stderr.
LogInit == /\ ~initialized
           /\ initialized' = TRUE
           /\ mutex' = None
           /\ levels' = [c \in Categories |-> INFO]
           /\ file' = Stderr
           /\ UNCHANGED <<debugOverride, pc, cur, sent, written>>

\* log_exit: destroy the mutex.
LogExit == /\ initialized
           /\ \A t \in Threads : pc[t] = "idle"
           /\ initialized' = FALSE
           /\ UNCHANGED <<mutex, file, levels, debugOverride, pc, cur, sent, written>>

SetDebugOverride(t, b) ==
    /\ Idle(t)
    /\ debugOverride' = b
    /\ UNCHANGED <<initialized, mutex, file, levels, pc, cur, sent, written>>

\* log_set_level leaves the libusb category alone.
SetLevel(t, c, l) ==
    /\ Idle(t)
    /\ c # LIBUSB
    /\ levels' = [levels EXCEPT ![c] = l]
    /\ UNCHANGED <<initialized, mutex, file, debugOverride, pc, cur, sent, written>>

\* log_set_file: lock, assign, unlock; nothing else happens while it holds
\* the mutex, so the three are one step.
SetFileNoLock(t, f) ==
    /\ Idle(t)
    /\ file' = f
    /\ UNCHANGED <<initialized, mutex, levels, debugOverride, pc, cur, sent, written>>

SetFile(t, f) ==
    /\ Idle(t)
    /\ mutex = None
    /\ file' = f
    /\ UNCHANGED <<initialized, mutex, levels, debugOverride, pc, cur, sent, written>>

\* log_message up to mutex_lock: the timestamp and the file name's last part.
Start(t, c, l) ==
    /\ Idle(t)
    /\ sent[t] < MaxMessages
    /\ sent' = [sent EXCEPT ![t] = @ + 1]
    /\ cur' = [cur EXCEPT ![t] = [msg |-> <<t, sent[t] + 1>>, cat |-> c, level |-> l]]
    /\ pc' = [pc EXCEPT ![t] = "lock"]
    /\ UNCHANGED <<initialized, mutex, file, levels, debugOverride, written>>

\* mutex_lock, then the filter: _debug_override or level <= _levels[category].
LockNoWait(t) ==
    /\ pc[t] = "lock"
    /\ mutex' = t
    /\ pc' = [pc EXCEPT ![t] = IF debugOverride \/ cur[t].level <= levels[cur[t].cat]
                                THEN "check" ELSE "unlock"]
    /\ UNCHANGED <<initialized, file, levels, debugOverride, cur, sent, written>>

Lock(t) ==
    /\ pc[t] = "lock"
    /\ mutex = None
    /\ mutex' = t
    /\ pc' = [pc EXCEPT ![t] = IF debugOverride \/ cur[t].level <= levels[cur[t].cat]
                                THEN "check" ELSE "unlock"]
    /\ UNCHANGED <<initialized, file, levels, debugOverride, cur, sent, written>>

\* log_handler returns at once when _file is NULL.
HandlerNoNullCheck(t) ==
    /\ pc[t] = "check"
    /\ pc' = [pc EXCEPT ![t] = "prefix"]
    /\ UNCHANGED <<initialized, mutex, file, levels, debugOverride, cur, sent, written>>

CheckNoUnlock(t) ==
    /\ pc[t] = "check"
    /\ pc' = [pc EXCEPT ![t] = IF file = NULL THEN "idle" ELSE "prefix"]
    /\ UNCHANGED <<initialized, mutex, file, levels, debugOverride, cur, sent, written>>

Check(t) ==
    /\ pc[t] = "check"
    /\ pc' = [pc EXCEPT ![t] = IF file = NULL THEN "unlock" ELSE "prefix"]
    /\ UNCHANGED <<initialized, mutex, file, levels, debugOverride, cur, sent, written>>

\* One fprintf to the current _file: the prefix, the message, the newline.
Next3 == [prefix |-> "body", body |-> "end", end |-> "unlock"]
PartNo == [prefix |-> 1, body |-> 2, end |-> 3]

Write(t) ==
    /\ pc[t] \in {"prefix", "body", "end"}
    /\ written' = [written EXCEPT ![file] = Append(@, [msg |-> cur[t].msg,
                                                        part |-> PartNo[pc[t]]])]
    /\ pc' = [pc EXCEPT ![t] = Next3[pc[t]]]
    /\ UNCHANGED <<initialized, mutex, file, levels, debugOverride, cur, sent>>

\* log_handler_platform (empty on POSIX), then mutex_unlock.
Unlock(t) ==
    /\ pc[t] = "unlock"
    /\ mutex' = None
    /\ pc' = [pc EXCEPT ![t] = "idle"]
    /\ cur' = [cur EXCEPT ![t] = None]
    /\ UNCHANGED <<initialized, file, levels, debugOverride, sent, written>>

\* The steps of a call in progress, which the OS keeps scheduling.
Step(t) == Lock(t) \/ Check(t) \/ Write(t) \/ Unlock(t)

Next == \/ LogInit \/ LogExit
        \/ \E t \in Threads :
             \/ Step(t)
             \/ \E b \in BOOLEAN : SetDebugOverride(t, b)
             \/ \E c \in Categories, l \in SetLevels : SetLevel(t, c, l)
             \/ \E f \in Files \cup {NULL} : SetFile(t, f)
             \/ \E c \in Categories, l \in MsgLevels : Start(t, c, l)

Fairness == \A t \in Threads : WF_vars(Step(t))

Spec == Init /\ [][Next]_vars /\ Fairness

(***************************************************************************)
(* Properties                                                              *)
(***************************************************************************)

\* Every FILE * holds whole lines: prefix, message and newline of one
\* message in a row.  Only the last line may be unfinished, and then the
\* mutex holder is writing it.  This holds because the handler's three
\* writes and log_set_file's swap all happen under _mutex.
WholeLines ==
    \A f \in Files \cup {NULL} :
        LET w == written[f] IN
        \A i \in DOMAIN w :
            /\ w[i].part = 1 => i = 1 \/ w[i - 1].part = 3
            /\ w[i].part > 1 => i > 1 /\ w[i - 1].part = w[i].part - 1
                                      /\ w[i - 1].msg = w[i].msg
            /\ i = Len(w) /\ w[i].part < 3 =>
                   \E t \in Threads : mutex = t /\ cur[t].msg = w[i].msg
                                      /\ pc[t] \in Holding

\* No fprintf ever gets a NULL FILE *: the handler tests _file under the
\* same mutex log_set_file(NULL) takes.
NoNullWrite == written[NULL] = <<>>

\* A thread that takes _mutex in log_message releases it, on the early
\* return for a NULL _file and for a filtered message too.
LockReleased == \A t \in Threads : mutex = t ~> mutex # t
=============================================================================
