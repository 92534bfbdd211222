----------------------------- MODULE MCTracker -----------------------------
(***************************************************************************)
(* A small instance of Tracker for TLC: a tab whose pages embed all three   *)
(* scripts and one whose pages embed the two separate ones; two locations   *)
(* of one path.                                                             *)
(***************************************************************************)
EXTENDS Tracker, TLC

CONSTANTS t1, t2, widget, map, track, stranger, here, query, other

MCKindOf == (widget :> "widget") @@ (map :> "map") @@ (track :> "tracker")
MCEmbeddedIn == (t1 :> {widget, map}) @@ (t2 :> {track})
MCPathOf == (here :> "here") @@ (query :> "here") @@ (other :> "other")
Size(w, h) == [width |-> w, height |-> h]
MCAsked == (widget :> Size(NaN, 2)) @@ (map :> Size(9, 3)) @@ (track :> Size(NaN, NaN))
MCReported ==
  (widget :> {Size(2, 2), Size(2, 9)}) @@ (map :> {Size(1, 3)}) @@ (track :> {})
    @@ (stranger :> {Size(3, 1), Size(NaN, 1)})
MCMin == Size(1, 1)
MCMax == Size(3, 3)
MCDefault == Size(2, 1)

=============================================================================
