---------------------------- MODULE MCGeoRefresh ----------------------------
(***************************************************************************)
(* Small instances of GeoRefresh for TLC: one timezone, a date per instant. *)
(***************************************************************************)
EXTENDS GeoRefresh, TLC

MCLocalDate == [z \in Timezones |-> [t \in Instants |-> t \div DayLength]]

Timed == [days : {1}, unlimited : {FALSE}]

MCSymmetry == Permutations(Visitors) \cup Permutations(Addresses) \cup Permutations(Places)

=============================================================================
