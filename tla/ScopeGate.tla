------------------------------- MODULE ScopeGate ------------------------------
(***************************************************************************)
(* What ScopeRunner promises (utility.hpp:454, 467): scopes run side by    *)
(* side until the gate is closed, the gate closes only while no scope      *)
(* runs, and no scope starts afterwards.                                   *)
(***************************************************************************)
CONSTANT Threads

VARIABLES inside,  \* the threads in a scope
          closed

Init == inside = {} /\ closed = FALSE

Enter(t) == t \notin inside /\ ~closed /\ inside' = inside \cup {t} /\ UNCHANGED closed
Leave(t) == t \in inside /\ inside' = inside \ {t} /\ UNCHANGED closed
Close    == inside = {} /\ closed' = TRUE /\ UNCHANGED inside

Next == (\E t \in Threads : Enter(t) \/ Leave(t)) \/ Close
Spec == Init /\ [][Next]_<<inside, closed>>
==============================================================================
