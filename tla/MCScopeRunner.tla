---------------------------- MODULE MCScopeRunner ----------------------------
(* Small instances of ScopeRunner for TLC. *)
EXTENDS ScopeRunner

CONSTANTS t1, t2, t3, s1, s2
MCThreads3  == {t1, t2, t3}
MCThreads2  == {t1, t2}
MCStoppers  == {s1, s2}
==============================================================================
