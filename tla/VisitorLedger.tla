---------------------------- MODULE VisitorLedger ----------------------------
(***************************************************************************)
(* What the statistics of a Site promise, with no database in sight: every  *)
(* accepted Pageview adds one to the total of its date, and a visitor adds  *)
(* one to the Unique Visitors once per deduplication window.  A window is   *)
(* settled when its temporary registrations may be forgotten; a Pageview    *)
(* that still arrives for a settled window may count its visitor again.     *)
(* Clearing the data starts an empty ledger.                                *)
(***************************************************************************)
EXTENDS Integers

CONSTANT LedgerDates   \* calendar dates that have totals

VARIABLES
  pageviewTotal,   \* Pageviews of each date
  visitorTotal,    \* Unique Visitors first seen on each date
  counted,         \* the marks [window, who] that have been counted
  settledTo        \* windows that end on or before this date are settled

ledgerVars == <<pageviewTotal, visitorTotal, counted, settledTo>>

Empty ==
  /\ pageviewTotal = [d \in LedgerDates |-> 0]
  /\ visitorTotal = [d \in LedgerDates |-> 0]
  /\ counted = {}
  /\ settledTo = 0

\* A visit leaves its mark.  It counts its visitor if it is the first of the
\* window, and does not if it is a later one; in a settled window both are
\* allowed.
Visit(d, mark) ==
  /\ pageviewTotal' = [pageviewTotal EXCEPT ![d] = @ + 1]
  /\ \/ /\ mark \notin counted \/ mark.window.end <= settledTo
        /\ visitorTotal' = [visitorTotal EXCEPT ![d] = @ + 1]
     \/ /\ mark \in counted
        /\ UNCHANGED visitorTotal
  /\ counted' = counted \cup {mark}
  /\ UNCHANGED settledTo

Settle ==
  /\ settledTo' \in Int /\ settledTo' >= settledTo
  /\ UNCHANGED <<pageviewTotal, visitorTotal, counted>>

Clear == Empty'

LedgerNext ==
  \/ \E d \in LedgerDates, mark \in counted' : Visit(d, mark)
  \/ Settle
  \/ Clear

LedgerSpec == Empty /\ [][LedgerNext]_ledgerVars

=============================================================================
