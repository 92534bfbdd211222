---------------------------- MODULE Simplification ----------------------------
(***************************************************************************)
(* The simplification of an outline (tools/generate-basemap.mjs, simplify): *)
(* of a chain of points those stay that are needed to keep all others       *)
(* within a tolerance.                                                      *)
(*                                                                          *)
(* A point is <<longitude, latitude>>, in integers.  Distances are squared  *)
(* and multiplied by the squared length of the segment they are taken to.   *)
(***************************************************************************)
EXTENDS Integers, Sequences

Lon(p) == p[1]
Lat(p) == p[2]

\* Squared distance from a point to a segment, times the squared length of the segment,
\* which is 1 for a segment that is a point (squareSegmentDistance).
Along(p, a, b) ==
  (Lon(p) - Lon(a)) * (Lon(b) - Lon(a)) + (Lat(p) - Lat(a)) * (Lat(b) - Lat(a))
Across(p, a, b) ==
  (Lon(p) - Lon(a)) * (Lat(b) - Lat(a)) - (Lat(p) - Lat(a)) * (Lon(b) - Lon(a))
SquareOf(a, b) == Along(a, b, a)
Length(a, b) == IF a = b THEN 1 ELSE SquareOf(a, b)

\* Mutant: the distance to the line, wherever the segment ends.
LineDistance(p, a, b) ==
  IF a = b THEN SquareOf(p, a) ELSE Across(p, a, b) * Across(p, a, b)

SegmentDistance(p, a, b) ==
  IF Along(p, a, b) > Length(a, b) THEN SquareOf(p, b) * Length(a, b)
  ELSE IF a # b /\ Along(p, a, b) > 0 THEN Across(p, a, b) * Across(p, a, b)
  ELSE SquareOf(p, a) * Length(a, b)

\* Whether one segment may stand for the points from first to last.
Replaceable(points, first, last, squareTolerance) ==
  \A i \in first + 1 .. last - 1 :
    SegmentDistance(points[i], points[first], points[last])
      <= squareTolerance * Length(points[first], points[last])

\* The first of the points between that are farthest from it.
Farthest(points, first, last) ==
  LET Distance(i) == SegmentDistance(points[i], points[first], points[last])
      between == first + 1 .. last - 1
  IN  CHOOSE i \in between :
        \A j \in between : Distance(i) > Distance(j) \/ (Distance(i) = Distance(j) /\ i <= j)

\* simplify: the indices of the points that stay, the ends of the chain included.
Simplified(points, squareTolerance) ==
  LET kept[span \in (DOMAIN points) \X (DOMAIN points)] ==
        LET first == span[1]
            last == span[2]
            farthest == Farthest(points, first, last)
        IN  IF Replaceable(points, first, last, squareTolerance) THEN {first, last}
            ELSE kept[<<first, farthest>>] \cup kept[<<farthest, last>>]
  IN  IF points = <<>> THEN {} ELSE kept[<<1, Len(points)>>]

-----------------------------------------------------------------------------
\* A point is within the tolerance of an end of a segment, or beside it and of its line.
NearSegment(p, a, b, squareTolerance) ==
  \/ SquareOf(p, a) <= squareTolerance \/ SquareOf(p, b) <= squareTolerance
  \/ /\ 0 <= Along(p, a, b) /\ Along(p, a, b) <= SquareOf(a, b)
     /\ Across(p, a, b) * Across(p, a, b) <= squareTolerance * SquareOf(a, b)

\* Of the indices kept, a and b are one and the same or next to each other.
Adjacent(kept, a, b) == a \in kept /\ b \in kept /\ \A k \in kept : k <= a \/ b <= k

\* Every point of the chain, from the first to the last, lies within the tolerance of a
\* segment between two neighbours that stay.
StaysClose(points, kept, squareTolerance) ==
  \A i \in DOMAIN points : \E a, b \in DOMAIN points :
    /\ Adjacent(kept, a, b) /\ a <= i /\ i <= b
    /\ NearSegment(points[i], points[a], points[b], squareTolerance)

=============================================================================
