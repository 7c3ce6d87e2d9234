---------------------------- MODULE MCControllers ----------------------------
(* Small instances of Controllers for TLC. *)
EXTENDS Controllers

CONSTANTS home, away
MCHands  == {"left", "right"}
MCPoses  == {home, away}
MCDeltas == {1, 4}
==============================================================================
