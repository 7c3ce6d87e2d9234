----------------------------- MODULE MCCalibration ----------------------------
(* Gazes measured at the places of a pattern laid out by posForIdx, top row first, all of *)
(* about length One, with an exact and a displaced mean for the middle and for one corner, *)
(* and gazes all over the grid and a little beyond it.                                     *)
EXTENDS Calibration

MCMeasured(at) ==
  LET y == at[1] - 1  z == 1 - at[2] IN
  CASE y = 0 /\ z = 0 -> {<<89, 0, 0>>, <<88, 12, -4>>}
    [] y = 1 /\ z = 1 -> {<<73, 36, 36>>, <<69, 32, 46>>}
    [] y * z # 0      -> {<<73, 36 * y, 36 * z>>}
    [] OTHER          -> {<<80, 39 * y, 39 * z>>}
MCGazes == {<<89, 7 * y, 7 * z>> : y \in -7 .. 7, z \in -7 .. 7}
===============================================================================
