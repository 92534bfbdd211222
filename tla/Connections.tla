----------------------------- MODULE Connections -----------------------------
(***************************************************************************)
(* The pool of SQLite connections behind one Store (internal/store/store.go *)
(* open: database/sql with at most four connections) and the goroutines     *)
(* that use it: single queries, transactions under Store.writeMu, updates   *)
(* that read the Site back, ListSites, which queries the pool again while   *)
(* its own rows are open, and the permanent deletion of a Site.             *)
(*                                                                          *)
(* The pool itself is database/sql, modelled from how the store uses it: a  *)
(* goroutine gets the connection released last, else a new one, else it     *)
(* waits; none is closed again, because as many may idle as may be open.    *)
(***************************************************************************)
EXTENDS Integers, FiniteSets, SequencesExt

CONSTANTS
  Conns,      \* the connections the pool may open
  Procs,      \* goroutines that use the store
  SiteCount   \* Sites that ListSites reads

ASSUME PoolAssumption == Conns # {} /\ IsFiniteSet(Conns) /\ SiteCount \in Nat

VARIABLES
  enforcing,   \* connections on which PRAGMA foreign_keys = ON was executed
  opened,      \* connections opened so far
  free,        \* idle connections, the one released last at the end
  writeMu,     \* who holds Store.writeMu
  proc,        \* what each goroutine does, and the connections it holds
  rows         \* is the Site's row there; do rows of other tables refer to it

pool == <<enforcing, opened, free>>
vars == <<pool, writeMu, proc, rows>>

Readers == {"query", "list"}
Writers == {"write", "update", "delete"}
Nobody == "nobody"
ASSUME NobodyAssumption == Nobody \notin Procs

idle == [op |-> "none", step |-> "idle", held |-> << >>, left |-> 0]

\* open: both pragmas run one after the other before anybody else uses the pool,
\* and so on one connection.
FirstConn == CHOOSE c \in Conns : TRUE

Init ==
  /\ enforcing = {FirstConn} /\ opened = {FirstConn} /\ free = <<FirstConn>>
  /\ writeMu = Nobody
  /\ proc = [p \in Procs |-> idle]
  /\ rows = [site |-> TRUE, others |-> FALSE]

-----------------------------------------------------------------------------
(* database/sql *)

\* The pool gives c away.
Take(c) ==
  \/ /\ free # << >> /\ c = Last(free)
     /\ free' = Front(free)
     /\ UNCHANGED <<enforcing, opened>>
  \/ /\ free = << >> /\ c \in Conns \ opened
     /\ opened' = opened \cup {c}
     /\ UNCHANGED <<enforcing, free>>

\* A goroutine's connections return.
Give(held) == free' = free \o held /\ UNCHANGED <<enforcing, opened>>

-----------------------------------------------------------------------------
(* Goroutines *)

Begin(p, op) ==
  /\ proc[p] = idle
  /\ proc' = [proc EXCEPT ![p] =
       [op |-> op, step |-> IF op \in Writers THEN "lock" ELSE "acquire", held |-> << >>,
        left |-> IF op = "list" THEN SiteCount ELSE 0]]
  /\ UNCHANGED <<pool, writeMu, rows>>

Lock(p) ==
  /\ proc[p].step = "lock" /\ writeMu = Nobody
  /\ writeMu' = p
  /\ proc' = [proc EXCEPT ![p].step = "acquire"]
  /\ UNCHANGED <<pool, rows>>

\* QueryContext, QueryRowContext, ExecContext or BeginTx gets its connection.
Acquire(p) ==
  /\ proc[p].step = "acquire"
  /\ \E c \in Conns :
       /\ Take(c)
       /\ proc' = [proc EXCEPT ![p].step = "using", ![p].held = Append(@, c)]
  /\ UNCHANGED <<writeMu, rows>>

\* The operation ends, with success or with an error: deferred Close, Rollback and
\* Unlock return everything.
Release(p) ==
  /\ Give(proc[p].held)
  /\ proc' = [proc EXCEPT ![p] = idle]
  /\ writeMu' = IF writeMu = p THEN Nobody ELSE writeMu

\* A single query, or the read-back of an update; ListSites after its last row.
EndQuery(p) ==
  /\ proc[p].step = "using" /\ Len(proc[p].held) = 1
  /\ proc[p].op \in Readers \cup {"readback"}
  /\ Release(p)
  /\ UNCHANGED rows

\* ListSites has scanned an ID: GetSite asks for a second connection.
NextSite(p) ==
  /\ proc[p].step = "using" /\ Len(proc[p].held) = 1
  /\ proc[p].left > 0
  /\ proc' = [proc EXCEPT ![p].step = "acquire", ![p].left = @ - 1]
  /\ UNCHANGED <<pool, writeMu, rows>>

\* GetSite has read its row.
EndGetSite(p) ==
  /\ proc[p].step = "using" /\ Len(proc[p].held) = 2
  /\ Give(<<Last(proc[p].held)>>)
  /\ proc' = [proc EXCEPT ![p].held = Front(@)]
  /\ UNCHANGED <<writeMu, rows>>

\* A transaction that stores rows of the Site, if the Site is there.
CommitWrite(p) ==
  /\ proc[p].step = "using" /\ proc[p].op = "write"
  /\ Release(p)
  /\ rows' = [rows EXCEPT !.others = @ \/ rows.site]

\* Mutant: the Site is read back while the transaction is still open.
ReadBackBeforeCommit(p) ==
  /\ proc[p].step = "using" /\ proc[p].op = "update"
  /\ proc' = [proc EXCEPT ![p].op = "readback", ![p].step = "acquire"]
  /\ UNCHANGED <<pool, writeMu, rows>>

\* UpdateSite commits, which returns the connection, and then calls GetSite with
\* writeMu still held.
CommitUpdate(p) ==
  /\ proc[p].step = "using" /\ proc[p].op = "update"
  /\ Give(proc[p].held)
  /\ proc' = [proc EXCEPT ![p].op = "readback", ![p].step = "acquire", ![p].held = << >>]
  /\ UNCHANGED <<writeMu, rows>>

\* DeleteSite: the rows of the other tables go by ON DELETE CASCADE, if this
\* connection enforces foreign keys.
CommitDelete(p) ==
  /\ proc[p].step = "using" /\ proc[p].op = "delete"
  /\ Release(p)
  /\ rows' = [site |-> FALSE,
              others |-> rows.others /\ Head(proc[p].held) \notin enforcing]

\* Mutant: the rows of a cancelled ListSites stay open.
CancelUnclosed(p) ==
  /\ proc[p].step = "acquire"
  /\ proc' = [proc EXCEPT ![p] = idle]
  /\ writeMu' = IF writeMu = p THEN Nobody ELSE writeMu
  /\ UNCHANGED <<pool, rows>>

\* The context of a goroutine that waits for a connection is cancelled.
Cancel(p) ==
  /\ proc[p].step = "acquire"
  /\ Release(p)
  /\ UNCHANGED rows

Finish(p) ==
  EndQuery(p) \/ EndGetSite(p) \/ CommitWrite(p) \/ CommitUpdate(p) \/ CommitDelete(p)

Next ==
  \E p \in Procs :
    \/ \E op \in Readers \cup Writers : Begin(p, op)
    \/ Lock(p) \/ Acquire(p) \/ NextSite(p) \/ Finish(p) \/ Cancel(p)

Spec == Init /\ [][Next]_vars

\* A statement ends; a mutex that is released again and again is given to every
\* waiter (sync.Mutex), and so is the pool (database/sql serves its queue).
FairSpec ==
  /\ Spec
  /\ \A p \in Procs : SF_vars(Lock(p)) /\ SF_vars(Acquire(p)) /\ WF_vars(Finish(p))

-----------------------------------------------------------------------------
(* Properties *)

Held(p) == ToSet(proc[p].held)

\* No path loses or shares a connection or the mutex: an open connection is idle or
\* held by one goroutine, and writeMu by one that is inside its operation.
ConnectionsAccounted ==
  /\ opened = ToSet(free) \cup UNION {Held(p) : p \in Procs}
  /\ IsInjective(free)
  /\ \A p, q \in Procs : p # q => Held(p) \cap Held(q) = {}
  /\ \A p \in Procs : Held(p) \cap ToSet(free) = {}
  /\ writeMu # Nobody => proc[writeMu].step \in {"acquire", "using"}

\* If everybody who holds a connection waits for another and the pool has none, then
\* all of them are in ListSites: no transaction, no read-back under writeMu and no
\* other query takes part in a hold-and-wait.
OnlyListsBlock ==
  LET holders == {p \in Procs : proc[p].held # << >>}
  IN  (free = << >> /\ opened = Conns /\ \A p \in holders : proc[p].step = "acquire")
        => \A p \in holders : proc[p].op = "list"

\* The ListSites in progress leave the pool a connection.
RoomLeft == Cardinality({p \in Procs : proc[p].op = "list" /\ proc[p].held # << >>})
              < Cardinality(Conns)

\* What p waits for is there, the mutex or a connection; who has it ends by itself.
CanGoOn(p) ==
  \/ proc[p].step = "lock" /\ writeMu = Nobody
  \/ proc[p].step = "acquire" /\ (free # << >> \/ opened # Conns)
  \/ proc[p].step = "using"

\* Everyone never waits on everyone: while the lists leave room, some operation under way
\* can go on, whatever the others hold of the pool and of writeMu.
SomebodyGoesOn ==
  RoomLeft /\ (\E p \in Procs : proc[p] # idle) => \E p \in Procs : CanGoOn(p)

\* As long as there is room, every operation comes to its end.
Completes == [](RoomLeft) => \A p \in Procs : proc[p] # idle ~> proc[p] = idle

\* "Permanently delete Site removes the Site, all associated data": once the Site is
\* gone no row of another table refers to it.
DeletedLeavesNothing == rows.site \/ ~ rows.others

-----------------------------------------------------------------------------
(* The inductive invariant *)

Calls ==
  [op : {"none", "query", "list", "write", "update", "readback", "delete"},
   step : {"idle", "lock", "acquire", "using"}, held : Seq(Conns), left : Nat]

TypeOK ==
  /\ enforcing \subseteq Conns /\ opened \subseteq Conns /\ free \in Seq(Conns)
  /\ writeMu \in Procs \cup {Nobody}
  /\ proc \in [Procs -> Calls]
  /\ rows \in [site : BOOLEAN, others : BOOLEAN]

\* What a call holds at each of its steps: a second connection is GetSite's in ListSites.
Holding(call) ==
  /\ call.step = "idle" => call = idle
  /\ call.left > 0 => call.op = "list"
  /\ IsInjective(call.held)
  /\ call.step \in {"idle", "lock"} => call.held = << >>
  /\ call.step = "acquire" => call.held = << >> \/ (call.op = "list" /\ Len(call.held) = 1)
  /\ call.step = "using" => Len(call.held) = 1 \/ (call.op = "list" /\ Len(call.held) = 2)

IInv == TypeOK /\ ConnectionsAccounted /\ \A p \in Procs : Holding(proc[p])

=============================================================================
