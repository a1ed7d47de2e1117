----------------------------- MODULE MC_TimerUwp -----------------------------
(* Instantiates TimerUwp for TLC.  DwordBits is 16 instead of 32 so that the *)
(* DWORD edges (2^w - 1 ms = INFINITE, 2^w ms = 0) are TLC integers while   *)
(* the microsecond to millisecond conversion keeps its factor of 1000.      *)
EXTENDS TimerUwp

\* A stop, a periodic timer (1500 us rounds to 2 ms, 2499 us to 2 ms), and a
\* periodic timer started at once with an interval below 1 ms.
MCConfigs == {<<0, 0>>, <<1500, 2499>>, <<0, 700>>}

\* A one-shot timer: a delay and no interval.
MCOneShotConfigs == {<<2000, 0>>}

\* Intervals at the DWORD edges: 2^16 - 1 ms and 2^16 ms.
MCEdgeConfigs == {<<1000, (2^16 - 1) * 1000>>, <<1000, 2^16 * 1000>>}
====
