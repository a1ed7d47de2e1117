------------------------------- MODULE MC_Array -------------------------------
(* Instantiates Array for TLC: two item values, three heap blocks, at most *)
(* three items, and a chunk of 2 in place of 16 so that growth across a    *)
(* chunk boundary happens within the bound.                                *)
EXTENDS Array, TLC

CONSTANTS v1, v2, b1, b2, b3

MCValues == {v1, v2}
MCAddrs == {b1, b2, b3}
====
