------------------------------ MODULE MC_PidFile ------------------------------
(* Instantiates PidFile for TLC: three daemons (a later one plays a daemon  *)
(* restarted after a crash) and two inodes, enough for a file to be         *)
(* unlinked while another daemon has it open and for a number to be reused. *)
EXTENDS PidFile

CONSTANTS d1, d2, d3, i1, i2

MCDaemons == {d1, d2, d3}
MCInodes == {i1, i2}

\* Pids of one length.
MCPid == [d \in MCDaemons |-> CASE d = d1 -> 41 [] d = d2 -> 52 [] d = d3 -> 63]

\* A daemon with a longer pid, then one with a shorter pid.
MCDaemonsTwo == {d1, d2}
MCPidShrinking == [d \in MCDaemonsTwo |-> IF d = d1 THEN 42 ELSE 7]
====
