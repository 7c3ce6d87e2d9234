------------------------------ MODULE MCInformant -----------------------------
(* A small instance of Informant for TLC: the right controller, which has all the   *)
(* left one has and the trigger besides; chunks that fit and chunks that do not fit *)
(* into what a buffer has left.                                                     *)
EXTENDS Informant

CONSTANTS home, away
MCHands  == {"right"}
MCPoses  == {home, away}
MCDeltas == {1, 2}
MCChunks == {1, 2}
===============================================================================
