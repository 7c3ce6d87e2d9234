------------------------------- MODULE GazeBasis ------------------------------
(***************************************************************************)
(* AStimulus::findBasis: which calibration points correct a gaze, and with *)
(* what weights.  The middle point is always tried together with the two   *)
(* others nearest to the gaze, and if the gaze is not inside these three   *)
(* the nearest point is taken alone.                                       *)
(*                                                                         *)
(* Vectors are triples of integers <<X, Y, Z>>, those of the code times    *)
(* One; all points have the same length, so the dot product orders them as *)
(* that of unit vectors does.  Weights are scaled by the determinant of    *)
(* the three points, and EPSILON is a fraction, 1 / InvEpsilon.  Points is *)
(* m_customCalibPoints: records with a field gaze, row by row.             *)
(***************************************************************************)
EXTENDS Integers, FiniteSetsExt, SequencesExt

CONSTANTS POINTS_PER_ROW,   \* and as many rows: the middle one is a point
          One, InvEpsilon

\* n / of is less than EPSILON, whatever its sign.
Below(n, of) == InvEpsilon * n < of /\ -InvEpsilon * n < of

Dot(a, b)   == a[1] * b[1] + a[2] * b[2] + a[3] * b[3]
Cross(a, b) == <<a[2] * b[3] - a[3] * b[2], a[3] * b[1] - a[1] * b[3], a[1] * b[2] - a[2] * b[1]>>
Det(a, b, c) == Dot(a, Cross(b, c))
Sign(n) == IF n < 0 THEN -1 ELSE 1

\* The middle of the points, counted from 1.
Middle == (POINTS_PER_ROW * POINTS_PER_ROW) \div 2 + 1

\* The loops over the points: the first with the largest dot product.
Nearest(Points, g, I) ==
  Min({i \in I : \A j \in I : Dot(g, Points[j].gaze) <= Dot(g, Points[i].gaze)})

Tried(Points, g) ==
  LET Others == DOMAIN Points \ {Middle}
      p2 == Nearest(Points, g, Others)
  IN  <<Middle, p2, Nearest(Points, g, Others \ {p2})>>

\* The determinant of the points b, and the coordinates of g in their basis: these times
\* |determinant|, those too small made zero.
Volume(Points, b) == Det(Points[b[1]].gaze, Points[b[2]].gaze, Points[b[3]].gaze)
Coords(Points, g, b) ==
  LET p == <<Points[b[1]].gaze, Points[b[2]].gaze, Points[b[3]].gaze>>
      s == Sign(Volume(Points, b))
      Cut(n) == IF Below(n, s * Volume(Points, b)) THEN 0 ELSE n
  IN  <<Cut(s * Det(g, p[2], p[3])), Cut(s * Det(p[1], g, p[3])), Cut(s * Det(p[1], p[2], g))>>

PositiveOctant(Points, g, b) ==
  /\ ~Below(Volume(Points, b), One * One * One)
  /\ \A k \in 1 .. 3 : Coords(Points, g, b)[k] >= 0

Alone(i) == [points |-> <<i, i, i>>, weights |-> <<1, 0, 0>>]

\* Mutant: without a basis the middle point is taken.
FindBasis_Middle(Points, g) ==
  LET three == Tried(Points, g)
  IN  IF PositiveOctant(Points, g, three) THEN [points |-> three, weights |-> Coords(Points, g, three)]
                                          ELSE Alone(Middle)

\* theta is undefined in the middle of the field of view only.
Ahead(g) == Below(g[2], One) /\ Below(g[3], One)

FindBasis(Points, g) ==
  LET three == Tried(Points, g)
  IN  IF Ahead(g) THEN Alone(Middle)
      ELSE IF PositiveOctant(Points, g, three)
           THEN [points |-> three, weights |-> Coords(Points, g, three)]
           ELSE Alone(Nearest(Points, g, DOMAIN Points))

-------------------------------------------------------------------------------
(* What a basis means. *)

Weighted(Points, b) ==
  LET Part(k, c) == b.weights[k] * Points[b.points[k]].gaze[c]
      Sum(c) == Part(1, c) + Part(2, c) + Part(3, c)
  IN  <<Sum(1), Sum(2), Sum(3)>>

\* The points surround g: no weight is negative, and the weighted sum is g (times the
\* determinant) but for the three weights that may be cut, each by less than EPSILON.
Surround(Points, b, g) ==
  LET d == Sign(Volume(Points, b.points)) * Volume(Points, b.points)
      Off(c) == InvEpsilon * (Weighted(Points, b)[c] - d * g[c])
  IN  /\ d > 0
      /\ \A k \in 1 .. 3 : b.weights[k] >= 0
      /\ \A c \in 1 .. 3 : Off(c) <= 3 * (d * One) /\ -Off(c) <= 3 * (d * One)
===============================================================================
