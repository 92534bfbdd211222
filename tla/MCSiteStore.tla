----------------------------- MODULE MCSiteStore -----------------------------
(***************************************************************************)
(* Small instances of SiteStore for TLC.  East is one instant ahead of west. *)
(***************************************************************************)
EXTENDS SiteStore, TLC

CONSTANTS west, east

MCLocalDate ==
  [z \in Timezones |-> [t \in Instants |->
     IF z = west THEN t \div DayLength ELSE (t + 1) \div DayLength]]

Timed == [days : {1}, unlimited : {FALSE}]
TimedOrNot == [days : {1}, unlimited : BOOLEAN]

MCSymmetry == Permutations(Visitors) \cup Permutations(Requests) \cup Permutations(Places)

=============================================================================
