------------------------------- MODULE Socket -------------------------------
(***************************************************************************)
(* socket_winapi.c over the IO record of io.h.  A Socket struct holds an  *)
(* OS handle in base.handle; Winsock hands out handle values and reuses a *)
(* value once it is closed.  The model keeps the OS side per handle value *)
(* (open, family, options, connection phase) and the library side per     *)
(* Socket struct (allocated, base.handle, whether the last open           *)
(* succeeded).  Every Winsock call may fail when ApiFails.  The daemon is *)
(* single-threaded, so each library call is one step.  socket.c is not in *)
(* the repository: socket_create, socket_destroy, socket_accept and       *)
(* socket_listen are taken from the spec and the comment at               *)
(* socket_winapi.c:59.  Addresses, buffers and error numbers are left out.*)
(***************************************************************************)
EXTENDS FiniteSets

CONSTANTS
    Sockets,     \* Socket structs the daemon may have allocated
    OSHandles,   \* SOCKET values Winsock may return
    INVALID,     \* INVALID_SOCKET = IO_HANDLE_INVALID
    INET, INET6, \* AF_INET, AF_INET6
    Families,    \* families socket_open is called with (INET, INET6, others)
    ApiFails     \* whether Winsock calls may fail

Phases == {"new", "bound", "listening", "connected"}

VARIABLES
    xp,      \* GetVersion() reports a major version below 6 (fixed per run)
    life,    \* "free" or "created" (between socket_create and socket_destroy)
    handle,  \* base.handle of each Socket struct
    ok,      \* the last socket_open / socket_accept of this struct returned 0
    os,      \* Winsock's state of each handle value
    dual     \* per handle: {b} after socket_set_dual_stack(b) returned 0

vars == <<xp, life, handle, ok, os, dual>>

Closed == [open |-> FALSE, family |-> INET, nodelay |-> FALSE,
           nonblocking |-> FALSE, v6only |-> TRUE, reuse |-> FALSE, phase |-> "new"]

\* What socket() / accept() give: a blocking socket without TCP_NODELAY,
\* and IPV6_V6ONLY on, as Winsock sets it by default.
Fresh(fam, ph) == [Closed EXCEPT !.open = TRUE, !.family = fam, !.phase = ph]

Init == /\ xp \in BOOLEAN
        /\ life = [s \in Sockets |-> "free"]
        /\ handle = [s \in Sockets |-> INVALID]
        /\ ok = [s \in Sockets |-> FALSE]
        /\ os = [h \in OSHandles |-> Closed]
        /\ dual = [h \in OSHandles |-> {}]

FreeHandles == {h \in OSHandles : ~os[h].open}

\* Outcomes of a Winsock call: TRUE is success.
Outcomes == IF ApiFails THEN BOOLEAN ELSE {TRUE}

\* The handle of s, when it names an open Winsock socket.
Live(s) == handle[s] # INVALID /\ os[handle[s]].open

\* socket_prepare on success: TCP_NODELAY for AF_INET and AF_INET6, then
\* FIONBIO.
SocketPrepareV4Only(r, fam) ==
    [r EXCEPT !.nodelay = (fam = INET), !.nonblocking = TRUE]

SocketPrepare(r, fam) ==
    [r EXCEPT !.nodelay = (fam \in {INET, INET6}), !.nonblocking = TRUE]

\* socket_create: the IO record with base.handle = IO_HANDLE_INVALID.
SocketCreate(s) ==
    /\ life[s] = "free"
    /\ life' = [life EXCEPT ![s] = "created"]
    /\ handle' = [handle EXCEPT ![s] = INVALID]
    /\ ok' = [ok EXCEPT ![s] = FALSE]
    /\ UNCHANGED <<xp, os, dual>>

\* socket_open: socket(), then socket_prepare; when preparing fails the
\* handle is closed but base.handle keeps its value.  A caller opens a
\* created socket that is not open yet.
SocketOpen(s, fam) ==
    /\ life[s] = "created"
    /\ ~ok[s]
    /\ \/ /\ handle' = [handle EXCEPT ![s] = INVALID]
          /\ ok' = [ok EXCEPT ![s] = FALSE]
          /\ UNCHANGED <<os, dual>>
       \/ \E h \in FreeHandles, prepared \in Outcomes :
            /\ handle' = [handle EXCEPT ![s] = h]
            /\ ok' = [ok EXCEPT ![s] = prepared]
            /\ os' = [os EXCEPT ![h] = IF prepared
                                        THEN SocketPrepare(Fresh(fam, "new"), fam)
                                        ELSE Closed]
            /\ dual' = [dual EXCEPT ![h] = {}]
    /\ UNCHANGED <<xp, life>>

\* socket_destroy_platform: shutdown and closesocket unless base.handle
\* is IO_HANDLE_INVALID; socket_destroy then releases the struct.
SocketDestroy(s) ==
    /\ life[s] = "created"
    /\ os' = IF handle[s] # INVALID THEN [os EXCEPT ![handle[s]] = Closed] ELSE os
    /\ life' = [life EXCEPT ![s] = "free"]
    /\ handle' = [handle EXCEPT ![s] = INVALID]
    /\ ok' = [ok EXCEPT ![s] = FALSE]
    /\ UNCHANGED <<xp, dual>>

\* socket_bind, socket_listen_platform, socket_connect: Winsock moves an
\* open socket on from the right phase; any other call fails and changes
\* nothing.  socket_listen also stores create_allocated in the struct.
Transition(s, from, to) ==
    /\ life[s] = "created"
    /\ \/ /\ Live(s) /\ os[handle[s]].phase = from
          /\ os' = [os EXCEPT ![handle[s]].phase = to]
       \/ /\ ApiFails \/ ~(Live(s) /\ os[handle[s]].phase = from)
          /\ os' = os
    /\ UNCHANGED <<xp, life, handle, ok, dual>>

SocketBind(s) == Transition(s, "new", "bound")
SocketListen(s) == Transition(s, "bound", "listening")
SocketConnect(s) == Transition(s, "new", "connected")

\* socket_accept: create_allocated gives a new struct a (socket_create),
\* socket_accept_platform accepts and prepares it with the peer's family;
\* on failure the new socket is closed and released.
SocketAcceptNoClose(l, a) ==
    /\ life[l] = "created" /\ Live(l) /\ os[handle[l]].phase = "listening"
    /\ life[a] = "free"
    /\ \/ UNCHANGED <<life, handle, ok, os, dual>>
       \/ \E h \in FreeHandles, prepared \in Outcomes :
            LET fam == os[handle[l]].family IN
            /\ life' = IF prepared THEN [life EXCEPT ![a] = "created"] ELSE life
            /\ handle' = IF prepared THEN [handle EXCEPT ![a] = h] ELSE handle
            /\ ok' = IF prepared THEN [ok EXCEPT ![a] = TRUE] ELSE ok
            /\ os' = [os EXCEPT ![h] = SocketPrepare(Fresh(fam, "connected"), fam)]
            /\ dual' = [dual EXCEPT ![h] = {}]
    /\ UNCHANGED xp

SocketAccept(l, a) ==
    /\ life[l] = "created" /\ Live(l) /\ os[handle[l]].phase = "listening"
    /\ life[a] = "free"
    /\ \/ UNCHANGED <<life, handle, ok, os, dual>>
       \/ \E h \in FreeHandles, prepared \in Outcomes :
            LET fam == os[handle[l]].family IN
            /\ life' = IF prepared THEN [life EXCEPT ![a] = "created"] ELSE life
            /\ handle' = IF prepared THEN [handle EXCEPT ![a] = h] ELSE handle
            /\ ok' = IF prepared THEN [ok EXCEPT ![a] = TRUE] ELSE ok
            /\ os' = [os EXCEPT ![h] = IF prepared
                                        THEN SocketPrepare(Fresh(fam, "connected"), fam)
                                        ELSE Closed]
            /\ dual' = [dual EXCEPT ![h] = {}]
    /\ UNCHANGED xp

\* socket_set_address_reuse: SO_REUSEADDR.
SocketSetAddressReuse(s, b) ==
    /\ life[s] = "created"
    /\ \/ /\ Live(s)
          /\ os' = [os EXCEPT ![handle[s]].reuse = b]
       \/ /\ ApiFails \/ ~Live(s)
          /\ os' = os
    /\ UNCHANGED <<xp, life, handle, ok, dual>>

\* socket_set_dual_stack: on Windows XP fail with WSAENOPROTOOPT when dual
\* stack is asked for and report success otherwise; else IPV6_V6ONLY =
\* !dual_stack, which Winsock accepts on open AF_INET6 sockets only.
SocketSetDualStack(s, b) ==
    /\ life[s] = "created"
    /\ \/ /\ xp /\ b
          /\ UNCHANGED <<os, dual>>
       \/ /\ xp /\ ~b
          /\ dual' = IF Live(s) THEN [dual EXCEPT ![handle[s]] = {b}] ELSE dual
          /\ os' = os
       \/ /\ ~xp /\ Live(s) /\ os[handle[s]].family = INET6
          /\ os' = [os EXCEPT ![handle[s]].v6only = ~b]
          /\ dual' = [dual EXCEPT ![handle[s]] = {b}]
       \/ /\ ~xp /\ (ApiFails \/ ~(Live(s) /\ os[handle[s]].family = INET6))
          /\ UNCHANGED <<os, dual>>
    /\ UNCHANGED <<xp, life, handle, ok>>

Next ==
    \/ \E s \in Sockets :
         \/ SocketCreate(s)
         \/ SocketDestroy(s)
         \/ \E fam \in Families : SocketOpen(s, fam)
         \/ SocketBind(s) \/ SocketListen(s) \/ SocketConnect(s)
         \/ \E b \in BOOLEAN : SocketSetAddressReuse(s, b) \/ SocketSetDualStack(s, b)
    \/ \E l, a \in Sockets : SocketAccept(l, a)

Spec == Init /\ [][Next]_vars

(***************************************************************************)
(* Properties                                                              *)
(***************************************************************************)

\* Every open Winsock socket the library holds is non-blocking, and one of
\* AF_INET or AF_INET6 has TCP_NODELAY (spec 4.3): socket_open and
\* socket_accept_platform prepare a new socket and close it when either
\* option fails.
PreparedWhenOpen ==
    \A h \in OSHandles :
        os[h].open => os[h].nonblocking
                      /\ (os[h].family \in {INET, INET6} => os[h].nodelay)

\* No Winsock socket leaks: every open one is the base.handle of a Socket
\* struct still allocated, also after a failed socket_accept released the
\* struct it had allocated.
NoLeak ==
    \A h \in OSHandles : os[h].open => \E s \in Sockets : life[s] = "created" /\ handle[s] = h

\* A socket whose socket_open or socket_accept returned 0 keeps an open
\* Winsock socket until it is destroyed.  socket_open leaves base.handle
\* set after closing it (line 84); socket_destroy of that struct closes
\* the value again, which Winsock may meanwhile have given to another
\* socket.
OpenedKeepsHandle ==
    \A s \in Sockets : life[s] = "created" /\ ok[s] => Live(s)
=============================================================================
