------------------------- MODULE MC_EventRegistry -------------------------
(* Instance of EventRegistry for TLC: two handles of one source type, two *)
(* callbacks, three heap blocks, the masks the daemons register with.     *)
EXTENDS EventRegistry, TLC

CONSTANTS h1, h2, GENERIC, f, g, a1, a2, a3

MCHandles == {h1, h2}
MCTypes == {GENERIC}
MCClosures == {f, g}
MCAddrs == {a1, a2, a3}
MCAddMasks == {{"READ"}, {"PRIO", "ERROR"}}
MCModifyMasks == {<<{}, {"WRITE"}>>, <<{"WRITE"}, {}>>}
\* epoll reports EPOLLERR whether it was asked for or not
MCAlwaysReported == {"ERROR"}

\* smaller instances: one handle, for the liveness and the violation runs
MCOneHandle == {h1}
MCOneClosure == {f}
MCTwoAddrs == {a1, a2}

MCSymmetry == Permutations(MCHandles) \cup Permutations(MCAddrs) \cup Permutations(MCClosures)
=============================================================================
