---------------------------- MODULE MCSendQueue ------------------------------
(* Small instances of SendQueue for TLC. *)
EXTENDS SendQueue

CONSTANTS a1, a2, w1, w2, m1, m2, p1, c1, c2

MCApp1     == {a1}
MCApp2     == {a1, a2}
MCWorkers  == {w1}
MCMessages2 == {m1, m2}
MCMessages1 == {m1}
MCPongs    == {p1}
MCCloses1  == {c1}
MCCloses2  == {c1, c2}
MCCallback == {m1, m2}
==============================================================================
