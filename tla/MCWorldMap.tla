----------------------------- MODULE MCWorldMap -----------------------------
(***************************************************************************)
(* Small rings about the seam for TLC.  Turn is eight columns of the grid,  *)
(* and the seam runs along the column next to the edge of the source data. *)
(***************************************************************************)
EXTENDS WorldMap

CONSTANTS Columns, Rows, Corners

MCUnit == 12
MCTurn == 8 * MCUnit
MCSeam == -3 * MCUnit

Grid == {<<x * MCUnit, y * MCUnit>> : x \in Columns, y \in Rows}

\* Twice the area of a triangle, and whether two segments have a point in common.
Orientation(a, b, c) == (b[1] - a[1]) * (c[2] - a[2]) - (b[2] - a[2]) * (c[1] - a[1])

Within(p, a, b) ==
  /\ Orientation(a, b, p) = 0
  /\ (p[1] - a[1]) * (p[1] - b[1]) <= 0 /\ (p[2] - a[2]) * (p[2] - b[2]) <= 0

Opposite(m, n) == (m < 0 /\ n > 0) \/ (m > 0 /\ n < 0)

Meet(a, b, c, d) ==
  \/ Within(a, c, d) \/ Within(b, c, d) \/ Within(c, a, b) \/ Within(d, a, b)
  \/ /\ Opposite(Orientation(a, b, c), Orientation(a, b, d))
     /\ Opposite(Orientation(c, d, a), Orientation(c, d, b))

\* A ring whose edges meet in its corners only.
Simple(r) ==
  LET last == Len(r) - 1 IN
  \A i \in 1 .. last, j \in 1 .. last :
    i < j =>
      IF j = i + 1 THEN ~ Within(r[i], r[j], r[j + 1]) /\ ~ Within(r[j + 1], r[i], r[j])
      ELSE IF i = 1 /\ j = last
      THEN ~ Within(r[j], r[1], r[2]) /\ ~ Within(r[2], r[j], r[1])
      ELSE ~ Meet(r[i], r[i + 1], r[j], r[j + 1])

Distinct(n) == {points \in [1 .. n -> Grid] : IsInjective(points)}

MCSources ==
  {r \in {Append(points, Head(points)) : points \in UNION {Distinct(n) : n \in Corners}} :
     Simple(r)}

MCTolerances == {0, (MCUnit * MCUnit) \div 4}

MCColumns == -4 .. -2
MCRows == -1 .. 2

=============================================================================
