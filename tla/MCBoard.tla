------------------------------- MODULE MCBoard -------------------------------
(* Small instances of Board for TLC. *)
EXTENDS Board

CONSTANTS i1, i2, x1

\* Two images that share a name, the second with two AOIs of one name.
MCImages   == {i1, i2}
MCAOINames == [i \in MCImages |-> IF i = i1 THEN <<"cat", "dog">> ELSE <<"dog", "dog">>]
MCWords    == {x1}
==============================================================================
