------------------------------ MODULE WorldMap ------------------------------
(***************************************************************************)
(* From a country of the source data to what the interactive map draws:     *)
(* the generator moves the points beyond the seam in the Bering Strait to   *)
(* the other edge and simplifies the ring (tools/generate-basemap.mjs); the *)
(* page splits the ring where it crosses the seam and moves the markers     *)
(* (web/analytics-entry.js).                                                *)
(*                                                                          *)
(* A ring is a sequence of points <<longitude, latitude>>, a closed one     *)
(* ends where it began.  Longitudes and latitudes are integers, and the     *)
(* sources such that the crossings of the seam are integers too.            *)
(* Areas are doubled and distances squared.                                 *)
(***************************************************************************)
EXTENDS Simplification, SequencesExt

CONSTANTS
  Turn,        \* the circle, 360 degrees
  Seam,        \* 170 degrees west
  MinLatitude, \* 60 degrees south
  MaxLatitude, \* 90 degrees north
  Sources,     \* closed rings of the source data
  Tolerances   \* squared tolerances of the simplification

VARIABLES stage, source, tolerance, ring, pieces

vars == <<stage, source, tolerance, ring, pieces>>

Half == Turn \div 2
Longitudes(points) == {Lon(points[i]) : i \in DOMAIN points}
Magnitude(n) == IF n < 0 THEN -n ELSE n

\* An edge of the source spans less than half the circle: the country that goes round
\* the pole, Antarctica, is left out (isAntarctica).
Plausible(points) ==
  \A i \in 1 .. Len(points) - 1 : Magnitude(Lon(points[i + 1]) - Lon(points[i])) < Half

\* closeRing of the page leaves a closed ring as it is.
Closed(points) == points # <<>> /\ Head(points) = Last(points)
Close(points) == IF points = <<>> \/ Closed(points) THEN points ELSE Append(points, Head(points))
Open(points) == IF Len(points) > 1 /\ Closed(points) THEN Front(points) ELSE points

Sum(f) == FoldFunction(+, 0, f)

\* ringArea, doubled
Area(points) ==
  LET Next(i) == (i % Len(points)) + 1
  IN  Sum([i \in DOMAIN points |->
            Lon(points[i]) * Lat(points[Next(i)]) - Lon(points[Next(i)]) * Lat(points[i])])

-----------------------------------------------------------------------------
(* The generator *)

\* Mutant: the points on the seam are moved too.
ShiftThrough(longitude) == IF longitude <= Seam THEN longitude + Turn ELSE longitude

\* The point of a marker is moved alike (mapOptions).
ShiftLongitude(longitude) == IF longitude < Seam THEN longitude + Turn ELSE longitude

Clamped(latitude) == Max({MinLatitude, Min({MaxLatitude, latitude})})

ShiftCoordinate(p) == <<ShiftLongitude(Lon(p)), Clamped(Lat(p))>>

-----------------------------------------------------------------------------
(* The page *)

\* Mutant: longitudes are taken as they come.
AsItIs(longitude, previous) == longitude

\* The longitude, whole turns away, that is at most half a turn from the previous one.
Nearest(longitude, previous) ==
  LET turns(k) == longitude + k * Turn
      near == {k \in -2 .. 2 : Magnitude(turns(k) - previous) <= Half}
  IN  turns(CHOOSE k \in near : \A j \in near : Magnitude(k) <= Magnitude(j))

Unwrapped(points) ==
  LET longitude[i \in DOMAIN points] ==
        IF i = 1 THEN Lon(points[1]) ELSE Nearest(Lon(points[i]), longitude[i - 1])
  IN  [i \in DOMAIN points |-> <<longitude[i], Lat(points[i])>>]

Crossing(a, b, boundary) ==
  <<boundary, Lat(a) + ((Lat(b) - Lat(a)) * (boundary - Lon(a))) \div (Lon(b) - Lon(a))>>

\* Mutant: the ring is not cut where it crosses the boundary.
ClipCorners(points, boundary, keepGreater) ==
  SelectSeq(points, LAMBDA p :
    IF keepGreater THEN Lon(p) >= boundary ELSE Lon(p) <= boundary)

ClipVertical(points, boundary, keepGreater) ==
  LET Inside(p) == IF keepGreater THEN Lon(p) >= boundary ELSE Lon(p) <= boundary
      Previous(i) == points[IF i = 1 THEN Len(points) ELSE i - 1]
      Cut(i) == IF Inside(points[i]) # Inside(Previous(i))
                THEN <<Crossing(Previous(i), points[i], boundary)>> ELSE <<>>
      Corner(i) == IF Inside(points[i]) THEN <<points[i]>> ELSE <<>>
  IN  FlattenSeq([i \in 1 .. Len(points) |-> Cut(i) \o Corner(i)])

\* splitRingAtSeam: the part of the ring in every turn, moved back to the first one.
SplitRingAtSeam(closed) ==
  LET points == Unwrapped(Open(closed))
      Band(longitude) == (longitude - Seam) \div Turn
      bands == {Band(x) : x \in Longitudes(points)}
      first == Min(bands) - 1
      Piece(band) ==
        LET clipped == ClipVertical(ClipVertical(points, Seam + band * Turn, TRUE),
                                    Seam + (band + 1) * Turn, FALSE)
            moved == [i \in DOMAIN clipped |->
                       <<Lon(clipped[i]) - band * Turn, Lat(clipped[i])>>]
        IN  IF Area(clipped) = 0 \/ Len(Close(moved)) < 4 THEN <<>> ELSE <<Close(moved)>>
  IN  IF Len(Open(closed)) < 3 THEN <<>>
      ELSE FlattenSeq([i \in 1 .. Max(bands) - first + 2 |-> Piece(first + i - 1)])

-----------------------------------------------------------------------------
Init ==
  /\ stage = "source"
  /\ source \in {points \in Sources : Plausible(points)}
  /\ tolerance \in Tolerances
  /\ ring = source
  /\ pieces = <<>>

Shift ==
  /\ stage = "source" /\ stage' = "shifted"
  /\ ring' = [i \in DOMAIN ring |-> ShiftCoordinate(ring[i])]
  /\ UNCHANGED <<source, tolerance, pieces>>

Kept ==
  LET kept == Simplified(Open(ring), tolerance)
  IN  SelectSeq([i \in DOMAIN Open(ring) |-> i], LAMBDA i : i \in kept)

\* A ring of which fewer than three points stay is left out.
Simplify ==
  /\ stage = "shifted"
  /\ \E kept \in {Kept} :
       LET corners == [n \in DOMAIN kept |-> Open(ring)[kept[n]]]
       IN  IF Len(kept) < 3
           THEN stage' = "left out" /\ ring' = <<>>
           ELSE stage' = "simplified" /\ ring' = Append(corners, Head(corners))
  /\ UNCHANGED <<source, tolerance, pieces>>

\* Read by the page: repairPolygon, of a polygon without holes.
Repair ==
  /\ stage = "simplified" /\ stage' = "drawn"
  /\ pieces' = SplitRingAtSeam(ring)
  /\ UNCHANGED <<source, tolerance, ring>>

Next == Shift \/ Simplify \/ Repair

Spec == Init /\ [][Next]_vars

-----------------------------------------------------------------------------
(* Properties *)

\* The pieces of a ring cover what the ring did: with no tolerance the signed areas add
\* up, wherever the ring crosses the seam and with whichever point it begins.
AreaKept ==
  stage = "drawn" /\ tolerance = 0 =>
    Sum([i \in DOMAIN pieces |-> Area(pieces[i])])
      = Area([i \in DOMAIN source |-> <<Lon(source[i]), Clamped(Lat(source[i]))>>])

\* No piece leaves the map, and none has an edge that runs across it, which is what a ring
\* drawn over the seam would show (the comment above repairWorldMap).
PiecesFit ==
  \A i \in DOMAIN pieces :
    LET piece == pieces[i] IN
    /\ Closed(piece) /\ Len(piece) >= 4
    /\ \A x \in Longitudes(piece) : Seam <= x /\ x <= Seam + Turn
    /\ Plausible(piece)

\* A marker is drawn on its country: a corner of the source that stays, and is not on the
\* seam, is a corner of a piece once moved like a marker.  Beyond the map a ring is
\* flattened.
MarkersOnLand ==
  stage = "drawn" /\ (\A i \in DOMAIN source : Lat(source[i]) = Clamped(Lat(source[i]))) =>
    \A i \in DOMAIN source :
      LET p == ShiftCoordinate(source[i]) IN
      Lon(p) # Seam /\ Contains(ring, p) => \E j \in DOMAIN pieces : Contains(pieces[j], p)

\* Every point lies within the tolerance of the segment that replaces it, measured on the
\* plane of the shifted longitudes (simplify, at any depth of its recursion).
SimplifiedClose ==
  stage = "shifted" =>
    StaysClose(Open(ring), Simplified(Open(ring), tolerance), tolerance)

=============================================================================
