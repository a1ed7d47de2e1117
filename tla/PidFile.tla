------------------------------ MODULE PidFile ------------------------------
(***************************************************************************)
(* pid_file.c.  Daemons race on one PID file path.  pid_file_acquire opens *)
(* (O_CREAT, no O_TRUNC), takes an fcntl write lock on byte 0 without      *)
(* waiting, checks that the path still names the inode it locked, and      *)
(* writes the pid at offset 0.  pid_file_release unlinks the path, then    *)
(* closes.  A daemon may crash at any point: the kernel closes its file    *)
(* and drops its lock, and the file stays.  Each system call is one step.  *)
(***************************************************************************)
EXTENDS Integers, Sequences

CONSTANTS
    Daemons,   \* daemon processes, each running pid_file_acquire once
    Pid,       \* Pid[d]: the pid d writes
    Inodes,    \* inodes open(O_CREAT) may create
    NoFile,    \* no inode: the path is absent, or no fd is open
    Nobody,    \* no lock owner
    MaxPid     \* the largest pid, bounding the file's length

VARIABLES
    path,      \* the inode the PID file path names, or NoFile
    content,   \* content[i]: the bytes of inode i, as decimal digits
    lock,      \* lock[i]: the daemon holding the write lock on byte 0 of i
    fd,        \* fd[d]: the inode daemon d has open, or NoFile
    pc         \* pc[d]: where daemon d is

vars == <<path, content, lock, fd, pc>>

\* snprintf("%" PRIi64, pid) for a non-negative pid: its decimal digits.
RECURSIVE Digits(_)
Digits(n) == IF n < 10 THEN <<n>> ELSE Append(Digits(n \div 10), n % 10)

\* write(fd, buffer, len) at offset 0 of a file opened without O_TRUNC.
OverwriteAppending(old, new) == old \o new

Overwrite(old, new) == new \o SubSeq(old, Len(new) + 1, Len(old))

\* An inode no name and no open file refers to; the file system may reuse it.
InUse(i) == path = i \/ \E e \in Daemons : fd[e] = i

\* close(fd) drops every lock the process holds on that file.
Unlocked(d) == [i \in Inodes |-> IF lock[i] = d THEN Nobody ELSE lock[i]]

Init == /\ path = NoFile
        /\ content = [i \in Inodes |-> <<>>]
        /\ lock = [i \in Inodes |-> Nobody]
        /\ fd = [d \in Daemons |-> NoFile]
        /\ pc = [d \in Daemons |-> "open"]

\* open(O_WRONLY | O_CREAT) and fstat; either failing returns -1.
Open(d) == /\ pc[d] = "open"
           /\ \/ /\ path # NoFile
                 /\ fd' = [fd EXCEPT ![d] = path]
                 /\ pc' = [pc EXCEPT ![d] = "lock"]
                 /\ UNCHANGED <<path, content>>
              \/ /\ path = NoFile
                 /\ \E i \in Inodes :
                       /\ ~InUse(i)
                       /\ path' = i
                       /\ content' = [content EXCEPT ![i] = <<>>]
                       /\ fd' = [fd EXCEPT ![d] = i]
                 /\ pc' = [pc EXCEPT ![d] = "lock"]
              \/ /\ pc' = [pc EXCEPT ![d] = "failed"]
                 /\ UNCHANGED <<path, content, fd>>
           /\ UNCHANGED lock

\* fcntl(F_SETLK) on byte 0: a lock held by another process fails with
\* EAGAIN and the call returns PID_FILE_ALREADY_ACQUIRED; any other error -1.
LockRetrying(d) ==
    /\ pc[d] = "lock"
    /\ \/ /\ lock[fd[d]] \in {Nobody, d}
          /\ lock' = [lock EXCEPT ![fd[d]] = d]
          /\ pc' = [pc EXCEPT ![d] = "stat"]
          /\ UNCHANGED fd
       \/ /\ lock[fd[d]] \notin {Nobody, d}
          /\ fd' = [fd EXCEPT ![d] = NoFile]
          /\ pc' = [pc EXCEPT ![d] = "open"]
          /\ UNCHANGED lock
       \/ /\ fd' = [fd EXCEPT ![d] = NoFile]
          /\ lock' = Unlocked(d)
          /\ pc' = [pc EXCEPT ![d] = "failed"]
    /\ UNCHANGED <<path, content>>

Lock(d) ==
    /\ pc[d] = "lock"
    /\ \/ /\ lock[fd[d]] \in {Nobody, d}
          /\ lock' = [lock EXCEPT ![fd[d]] = d]
          /\ pc' = [pc EXCEPT ![d] = "stat"]
          /\ UNCHANGED fd
       \/ /\ lock[fd[d]] \notin {Nobody, d}
          /\ fd' = [fd EXCEPT ![d] = NoFile]
          /\ pc' = [pc EXCEPT ![d] = "busy"]
          /\ UNCHANGED lock
       \/ /\ fd' = [fd EXCEPT ![d] = NoFile]
          /\ lock' = Unlocked(d)
          /\ pc' = [pc EXCEPT ![d] = "failed"]
    /\ UNCHANGED <<path, content>>

SameFile(d) == path = fd[d]

Stat(d) == /\ pc[d] = "stat"
           /\ \/ /\ SameFile(d)
                 /\ pc' = [pc EXCEPT ![d] = "write"]
                 /\ UNCHANGED <<fd, lock>>
              \/ /\ ~SameFile(d)
                 /\ fd' = [fd EXCEPT ![d] = NoFile]
                 /\ lock' = Unlocked(d)
                 /\ pc' = [pc EXCEPT ![d] = "open"]
           /\ UNCHANGED <<path, content>>

\* write the pid's digits; a failed write closes and returns -1.
Write(d) == /\ pc[d] = "write"
            /\ \/ /\ content' = [content EXCEPT ![fd[d]] =
                                    Overwrite(@, Digits(Pid[d]))]
                  /\ pc' = [pc EXCEPT ![d] = "holding"]
                  /\ UNCHANGED <<fd, lock>>
               \/ /\ fd' = [fd EXCEPT ![d] = NoFile]
                  /\ lock' = Unlocked(d)
                  /\ pc' = [pc EXCEPT ![d] = "failed"]
                  /\ UNCHANGED content
            /\ UNCHANGED path

\* pid_file_release: unlink(filename), then close(fd).
Unlink(d) == /\ pc[d] = "holding"
             /\ path' = NoFile
             /\ pc' = [pc EXCEPT ![d] = "close"]
             /\ UNCHANGED <<content, lock, fd>>

Close(d) == /\ pc[d] = "close"
            /\ fd' = [fd EXCEPT ![d] = NoFile]
            /\ lock' = Unlocked(d)
            /\ pc' = [pc EXCEPT ![d] = "released"]
            /\ UNCHANGED <<path, content>>

\* The daemon dies: the kernel closes its fd and drops its lock.
Crash(d) == /\ pc[d] \notin {"failed", "busy", "released", "crashed"}
            /\ fd' = [fd EXCEPT ![d] = NoFile]
            /\ lock' = Unlocked(d)
            /\ pc' = [pc EXCEPT ![d] = "crashed"]
            /\ UNCHANGED <<path, content>>

Acquire(d) == Open(d) \/ Lock(d) \/ Stat(d) \/ Write(d)

Next == \E d \in Daemons : Acquire(d) \/ Unlink(d) \/ Close(d) \/ Crash(d)

\* Each daemon runs; releasing and crashing are up to the daemon.
Spec == Init /\ [][Next]_vars /\ \A d \in Daemons : WF_vars(Acquire(d))

(***************************************************************************)
(* Properties                                                              *)
(***************************************************************************)

Digit == 0..9

TypeOK == /\ path \in Inodes \cup {NoFile}
          /\ \A i \in Inodes : content[i] \in Seq(Digit)
                              /\ Len(content[i]) <= Len(Digits(MaxPid))
          /\ lock \in [Inodes -> Daemons \cup {Nobody}]
          /\ fd \in [Daemons -> Inodes \cup {NoFile}]
          /\ pc \in [Daemons -> {"open", "lock", "stat", "write", "holding",
                                 "close", "released", "busy", "failed",
                                 "crashed"}]

Holding(d) == pc[d] \in {"write", "holding"}

ContentIsPid ==
    \A d \in Daemons : pc[d] = "holding" => content[fd[d]] = Digits(Pid[d])

\* pid_file_acquire returns: the retry loop ends in success, in "already
\* acquired", or in an error.
AcquireReturns ==
    \A d \in Daemons : pc[d] \in {"open", "lock", "stat", "write"}
                          ~> pc[d] \notin {"open", "lock", "stat", "write"}
====
