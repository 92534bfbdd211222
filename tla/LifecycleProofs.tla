--------------------------- MODULE LifecycleProofs ---------------------------
(***************************************************************************)
(* Proofs about Lifecycle for every set of releases, schemas, updaters and  *)
(* archives and every number of crashes.                                    *)
(***************************************************************************)
EXTENDS Lifecycle, TLAPS

\* What the assumptions on the constants give about Missing and the markers.
LEMMA Constants ==
  /\ Schemas \subseteq Nat \ {0} /\ Releases \subseteq Nat \ {0}
  /\ \A r \in Releases : SchemaOf[r] \in Schemas /\ SchemaOf[r] \in Nat
  /\ \A r, s \in Releases : r <= s => SchemaOf[r] <= SchemaOf[s]
BY ReleaseAssumption DEF Schemas

\* A process is told from Down, and an update from NoUpdate, by one field.
LEMMA Markers ==
  /\ Down \notin Process /\ Unlocked \notin Updater /\ NoUpdate \notin Update
  /\ \A p \in Process : p.phase \in Phases
  /\ Down.phase \notin Phases
<1>1. NoUpdate \notin Update
  BY Constants DEF NoUpdate, Update
<1>2. Down.phase \notin Phases
  BY DEF Down, Phases
<1>3. \A p \in Process : p.phase \in Phases
  BY DEF Process
<1>4. Unlocked \notin Updater
  BY DEF Unlocked, Updater
<1> QED BY <1>1, <1>2, <1>3, <1>4

-----------------------------------------------------------------------------
(* Types *)

\* The process changes its phase and nothing else.
LEMMA EnterType ==
  ASSUME NEW phase \in Phases, process \in Process, Enter(phase)
  PROVE  process' \in Process
BY DEF Enter, Process

LEMMA DieType ==
  ASSUME updater \in Updater \cup {Unlocked}, Die
  PROVE  process' = Down /\ updater' \in Updater \cup {Unlocked}
BY DEF Die

LEMMA InProcess ==
  ASSUME process \in Process \cup {Down}, NEW phase \in Phases, In(phase)
  PROVE  process \in Process
BY Markers DEF In

LEMMA TypeStep ==
  ASSUME Shape, [Next]_vars
  PROVE  TypeOK'
<1> USE DEF Shape, TypeOK
<1>b. outrun' \in BOOLEAN
  BY DEF Next, vars
<1> USE <1>b
<1>a. Missing \in Schemas \cup {Missing}
  OBVIOUS
<1>0. CASE UNCHANGED vars
  BY <1>0 DEF vars, state, files
<1>1. CASE Start
  <2>1. process' \in Process
    BY <1>1 DEF Start, Process, Phases
  <2> QED BY <1>1, <2>1 DEF Start, files
<1>2. CASE NoRestore \/ RefuseRestore \/ StageRestore \/ PlaceRestore \/ RestoreNotPlaced
           \/ ClearRestore
  <2>1. process \in Process
    BY <1>2, InProcess DEF NoRestore, RefuseRestore, StageRestore, PlaceRestore,
      RestoreNotPlaced, ClearRestore, Phases
  <2>2. process' \in Process
    BY <1>2, <2>1, EnterType DEF NoRestore, RefuseRestore, StageRestore, PlaceRestore,
      RestoreNotPlaced, ClearRestore, Phases
  <2>3. SchemaOf[process.release] \in Schemas
    BY <2>1, Constants DEF Process
  <2> QED BY <1>2, <2>2, <2>3 DEF NoRestore, RefuseRestore, StageRestore, PlaceRestore,
      RestoreNotPlaced, ClearRestore, Stage, Place, PutBack, files
<1>3. CASE ReadPending
  <2>1. process \in Process
    BY <1>3, InProcess DEF ReadPending, Phases
  <2>2. process' \in Process
    BY <1>3, <2>1 DEF ReadPending, Process, Phases
  <2> QED BY <1>3, <2>2 DEF ReadPending, files
<1>4. CASE ClearInterrupted \/ BeginRollback
  <2>1. process \in Process
    BY <1>4, InProcess DEF ClearInterrupted, BeginRollback, Phases
  <2>2. process' \in Process
    BY <1>4, <2>1, EnterType DEF ClearInterrupted, BeginRollback, Phases
  <2> QED BY <1>4, <2>2 DEF ClearInterrupted, BeginRollback, files
<1>5. CASE CountAttempt
  <2>1. process \in Process
    BY <1>5, InProcess DEF CountAttempt, Phases
  <2>2. process' \in Process
    BY <1>5, <2>1, EnterType DEF CountAttempt, Phases
  <2>3. process.seen \in Update
    <3>1. process.seen # NoUpdate
      <4>1. process.seen.target = process.release /\ process.release \in Releases
        BY <1>5, <2>1 DEF CountAttempt, Expected, Process
      <4> QED BY <4>1, Constants DEF NoUpdate
    <3> QED BY <2>1, <3>1 DEF Process
  <2>4. pending' \in Update
    <3>1. process.seen.attempts \in 0 .. 2 /\ process.seen.attempts + 1 # 3
      BY <1>5, <2>3 DEF CountAttempt, LastAttempt, Update
    <3>2. process.seen.attempts + 1 \in 0 .. 2
      BY <3>1
    <3> QED BY <1>5, <2>3, <3>2 DEF CountAttempt, Update
  <2> QED BY <1>5, <2>2, <2>4 DEF CountAttempt, files
<1>6. CASE StageRollback
  <2>1. process' \in Process
    BY <1>6, InProcess, EnterType DEF StageRollback, Phases
  <2> QED BY <1>6, <2>1 DEF StageRollback, Stage
<1>7. CASE RejectStart \/ RollbackFails \/ OpenFails \/ Exit \/ Crash \/ ClearRolledBack
  <2>1. process' = Down /\ updater' \in Updater \cup {Unlocked}
    BY <1>7, DieType DEF RejectStart, RollbackFails, OpenFails, Exit, Crash, ClearRolledBack
  <2>2. {db', copy', pendingRestore'} \subseteq Schemas \cup {Missing}
    BY <1>7 DEF RejectStart, RollbackFails, OpenFails, Exit, Crash, ClearRolledBack, PutBack, files
  <2>3. crashes' \in 0 .. MaxCrashes
    BY <1>7, ReleaseAssumption DEF RejectStart, RollbackFails, OpenFails, Exit, Crash, ClearRolledBack
  <2>4. link' \in Releases /\ pending' \in Update \cup {NoUpdate}
    BY <1>7 DEF RejectStart, RollbackFails, OpenFails, Exit, Crash, ClearRolledBack
  <2> QED BY <2>1, <2>2, <2>3, <2>4
<1>8. CASE PlaceRollback \/ SwitchBack
  <2>1. process \in Process
    BY <1>8, InProcess DEF PlaceRollback, SwitchBack, Phases
  <2>2. process' \in Process
    BY <1>8, <2>1, EnterType DEF PlaceRollback, SwitchBack, Phases
  <2>3. process.seen \in Update
    BY <1>8, <2>1 DEF PlaceRollback, SwitchBack, RollbackReads, Process
  <2>4. process.seen.backup \in Schemas \cup {Missing} /\ process.seen.previous \in Releases
    BY <2>3 DEF Update
  <2> QED BY <1>8, <2>2, <2>4 DEF PlaceRollback, SwitchBack, Place, files
<1>9. CASE Open
  <2>1. process \in Process
    BY <1>9, InProcess DEF Open, Phases
  <2>2. process' \in Process
    BY <1>9, <2>1 DEF Open, Process, Phases
  <2>3. SchemaOf[process.release] \in Schemas
    BY <2>1, Constants DEF Process
  <2> QED BY <1>9, <2>2, <2>3 DEF Open
<1>10. CASE ScheduleRestore \/ Confirm \/ ClearConfirmed
  <2>1. process \in Process
    BY <1>10, InProcess DEF ScheduleRestore, Confirm, ClearConfirmed, Phases
  <2>2. process' \in Process
    BY <1>10, <2>1 DEF ScheduleRestore, Confirm, ClearConfirmed, Process
  <2>3. pendingRestore' \in Schemas \cup {Missing}
    BY <1>10 DEF ScheduleRestore, Confirm, ClearConfirmed, Schemas, files
  <2> QED BY <1>10, <2>2, <2>3 DEF ScheduleRestore, Confirm, ClearConfirmed, files
<1>11. ASSUME NEW by \in Updaters, NEW target \in Releases, LockUpdate(by, target)
       PROVE  TypeOK'
  <2>1. [target |-> target, previous |-> link, backup |-> Missing, attempts |-> 0] \in Update
    BY DEF Update
  <2>2. updater' \in Updater
    BY <1>11, <2>1 DEF LockUpdate, Updater
  <2> QED BY <1>11, <2>2 DEF LockUpdate, files
<1>12. CASE CheckCandidate \/ BackUp \/ WritePending \/ SwitchRelease
  <2>1. updater \in Updater
    BY <1>12 DEF CheckCandidate, BackUp, WritePending, SwitchRelease, Unlocked
  <2>2. updater.update \in Update
    BY <2>1 DEF Updater
  <2>3. updater' \in Updater \cup {Unlocked}
    <3>1. CASE BackUp
      <4>1. [updater.update EXCEPT !.backup = db] \in Update
        BY <2>2 DEF Update
      <4>2. updater' = [updater EXCEPT !.step = "backed",
                          !.update = [updater.update EXCEPT !.backup = db]]
        BY <3>1, <2>1 DEF BackUp, Updater
      <4> QED BY <2>1, <4>1, <4>2 DEF Updater
    <3> QED BY <1>12, <2>1, <3>1 DEF CheckCandidate, WritePending, SwitchRelease, Updater
  <2>4. pending' \in Update \cup {NoUpdate} /\ link' \in Releases
    BY <1>12, <2>2 DEF CheckCandidate, BackUp, WritePending, SwitchRelease, Update
  <2>5. process' \in Process \cup {Down}
    <3>1. CASE SwitchRelease /\ updater.by = "server"
      <4>1. process \in Process
        BY <3>1, <2>1, Markers, InProcess DEF ServerUpdates, Phases
      <4> QED BY <3>1, <4>1 DEF SwitchRelease, Process
    <3> QED BY <1>12, <3>1 DEF CheckCandidate, BackUp, WritePending, SwitchRelease
  <2> QED BY <1>12, <2>3, <2>4, <2>5 DEF CheckCandidate, BackUp, WritePending, SwitchRelease, files
<1>13. CASE UpdateFails \/ CliDies
  <2>1. crashes' \in 0 .. MaxCrashes
    BY <1>13, ReleaseAssumption DEF UpdateFails, CliDies
  <2> QED BY <1>13, <2>1 DEF UpdateFails, CliDies, files
<1> QED
  BY <1>0, <1>1, <1>2, <1>3, <1>4, <1>5, <1>6, <1>7, <1>8, <1>9, <1>10, <1>11, <1>12, <1>13
  DEF Next, Step, StartStep, UpdateStep

-----------------------------------------------------------------------------
(* The inductive invariant *)

LEMMA Initially == Init => IInv
<1> SUFFICES ASSUME Init PROVE IInv
  OBVIOUS
<1> USE DEF Init
<1>1. link \in Releases /\ SchemaOf[link] \in Schemas /\ SchemaOf[link] \in Nat
  BY Constants
<1>2. TypeOK
  <2>1. outrun \in BOOLEAN
    OBVIOUS
  <2> QED BY <1>1, <2>1, ReleaseAssumption DEF TypeOK
<1>3. UpdatesSound /\ UpdaterAhead /\ ProcessBehind /\ RollbackFits
  BY DEF UpdatesSound, UpdaterAhead, ProcessBehind, RollbackFits, In, Down
<1>4. DatabasesFit
  BY <1>1 DEF DatabasesFit, Missing
<1>5. ServerUpdates /\ DatabaseServed /\ RollbackReads
  BY DEF ServerUpdates, DatabaseServed, RollbackReads, In, Down
<1> QED BY <1>2, <1>3, <1>4, <1>5 DEF IInv, Shape, Order

\* The releases, the databases and the updates of a state, with the order that the
\* invariant speaks of.
LEMMA Orders ==
  ASSUME TypeOK
  PROVE  /\ link \in Releases /\ link \in Nat /\ SchemaOf[link] \in Nat
         /\ db \in Nat /\ copy \in Nat /\ pendingRestore \in Nat
         /\ \A u \in Update : /\ u.target \in Releases /\ u.target \in Nat
                              /\ u.previous \in Releases /\ u.previous \in Nat
                              /\ u.backup \in Nat
         /\ \A p \in Process : /\ p.release \in Releases /\ p.release \in Nat
                               /\ p.seen \in Update \cup {NoUpdate}
<1>0. Schemas \cup {Missing} \subseteq Nat /\ Releases \subseteq Nat
  BY Constants DEF Missing
<1>1. {db, copy, pendingRestore} \subseteq Nat
  BY <1>0 DEF TypeOK
<1>2. \A u \in Update : /\ u.target \in Releases /\ u.target \in Nat
                        /\ u.previous \in Releases /\ u.previous \in Nat
                        /\ u.backup \in Nat
  <2> SUFFICES ASSUME NEW u \in Update
               PROVE  /\ u.target \in Releases /\ u.target \in Nat
                      /\ u.previous \in Releases /\ u.previous \in Nat
                      /\ u.backup \in Nat
    OBVIOUS
  <2>1. u.target \in Releases /\ u.previous \in Releases /\ u.backup \in Schemas \cup {Missing}
    BY DEF Update
  <2> QED BY <1>0, <2>1
<1>3. \A p \in Process : p.release \in Releases /\ p.release \in Nat
                        /\ p.seen \in Update \cup {NoUpdate}
  BY Constants DEF Process
<1> QED BY <1>1, <1>2, <1>3, Constants DEF TypeOK

\* What the process and the updater are after the steps of a group.
LEMMA Enters ==
  ASSUME TypeOK, NEW phase \in Phases, In(phase), NEW next \in Phases, Enter(next)
  PROVE  /\ process \in Process /\ process # Down /\ process' # Down
         /\ process' = [process EXCEPT !.phase = next]
         /\ process'.phase = next /\ process'.release = process.release
         /\ process'.seen = process.seen
BY InProcess, Markers, EnterType DEF Enter, Process, TypeOK

LEMMA Serves ==
  ASSUME TypeOK, Open \/ ScheduleRestore \/ Confirm \/ ClearConfirmed
  PROVE  /\ process \in Process /\ process # Down /\ ~ In("undone") /\ In("serve")'
         /\ process'.release = process.release /\ process'.seen = process.seen
         /\ UNCHANGED <<link, updater, copy>> /\ pending' \in {pending, NoUpdate}
<1>1. process \in Process /\ ~ In("undone")
  BY InProcess DEF TypeOK, Open, ScheduleRestore, Confirm, ClearConfirmed, Phases, In
<1>2. /\ process'.phase = "serve" /\ process'.release = process.release
      /\ process'.seen = process.seen
  BY <1>1 DEF Open, ScheduleRestore, Confirm, ClearConfirmed, Process, In
<1> QED BY <1>1, <1>2, Markers DEF Open, ScheduleRestore, Confirm, ClearConfirmed, In, files

LEMMA Dies ==
  ASSUME RejectStart \/ RollbackFails \/ ClearRolledBack \/ OpenFails \/ Exit \/ Crash
  PROVE  /\ process' = Down /\ (updater' # Unlocked => updater' = updater /\ updater.by # "server")
         /\ link' = link /\ pending' \in {pending, NoUpdate}
<1>1. Die /\ link' = link /\ pending' \in {pending, NoUpdate}
  BY DEF RejectStart, RollbackFails, ClearRolledBack, OpenFails, Exit, Crash
<1>2. CASE updater = Unlocked
  BY <1>1, <1>2 DEF Die
<1>3. CASE updater # Unlocked
  BY <1>1, <1>3 DEF Die
<1> QED BY <1>1, <1>2, <1>3

LEMMA UpdaterSteps ==
  ASSUME TypeOK, CheckCandidate \/ BackUp \/ WritePending
  PROVE  /\ updater \in Updater /\ updater # Unlocked /\ updater' # Unlocked
         /\ updater.update \in Update
         /\ UNCHANGED <<link, db, copy, process>>
         /\ updater'.by = updater.by
         /\ updater'.update.previous = updater.update.previous
         /\ updater'.update.target = updater.update.target
         /\ updater'.update.backup = IF BackUp THEN db ELSE updater.update.backup
<1>1. updater \in Updater /\ updater # Unlocked
  BY DEF CheckCandidate, BackUp, WritePending, TypeOK, Unlocked
<1>2. updater.update \in Update
  BY <1>1 DEF Updater
<1>3. UNCHANGED <<link, db, copy, process>>
  BY DEF CheckCandidate, BackUp, WritePending, files
<1>4. CASE BackUp
  <2>1. updater'.by = updater.by /\ updater'.update = [updater.update EXCEPT !.backup = db]
        /\ updater'.step = "backed"
    BY <1>1, <1>4 DEF BackUp, Updater
  <2> QED BY <1>1, <1>2, <1>3, <1>4, <2>1 DEF Update, Unlocked
<1>5. CASE ~ BackUp
  <2>1. updater'.by = updater.by /\ updater'.update = updater.update
        /\ updater'.step \in {"checked", "pended"}
    BY <1>1, <1>5 DEF CheckCandidate, WritePending, Updater
  <2> QED BY <1>1, <1>2, <1>3, <1>5, <2>1 DEF Unlocked
<1> QED BY <1>4, <1>5

-----------------------------------------------------------------------------
(* What outrun commands do not break *)

RestoreSteps ==
  \/ NoRestore \/ RefuseRestore \/ StageRestore \/ PlaceRestore \/ RestoreNotPlaced
  \/ ClearRestore
RegisterSteps == ReadPending \/ ClearInterrupted \/ CountAttempt \/ BeginRollback
RollbackSteps == StageRollback \/ PlaceRollback \/ SwitchBack
EndSteps == RejectStart \/ RollbackFails \/ ClearRolledBack \/ OpenFails \/ Exit \/ Crash
ServeSteps == Open \/ ScheduleRestore \/ Confirm \/ ClearConfirmed
LockSteps == \E by \in Updaters, target \in Releases : LockUpdate(by, target)

\* The steps of a start neither begin nor end while the process serves.
LEMMA Starts ==
  ASSUME TypeOK, RestoreSteps \/ RegisterSteps \/ RollbackSteps
  PROVE  /\ process \in Process /\ process # Down /\ ~ In("undone") /\ ~ In("serve")
         /\ process' # Down /\ ~ In("serve")' /\ process'.release = process.release
         /\ updater' = updater
<1> USE DEF RestoreSteps, RegisterSteps, RollbackSteps
<1>1. process \in Process /\ ~ In("undone") /\ ~ In("serve")
  BY InProcess DEF TypeOK, NoRestore, RefuseRestore, StageRestore, PlaceRestore,
    RestoreNotPlaced, ClearRestore, ReadPending, ClearInterrupted, CountAttempt, BeginRollback,
    StageRollback, PlaceRollback, SwitchBack, Phases, In
<1>2. process # Down
  BY <1>1, Markers
<1>3. updater' = updater
  BY DEF NoRestore, RefuseRestore, StageRestore, PlaceRestore, RestoreNotPlaced, ClearRestore,
    ReadPending, ClearInterrupted, CountAttempt, BeginRollback, StageRollback, PlaceRollback,
    SwitchBack
<1>4. CASE ReadPending
  <2>1. process'.phase \in {"open", "decide"} /\ process'.release = process.release
    BY <1>1, <1>4 DEF ReadPending, Process
  <2> QED BY <1>1, <1>2, <1>3, <2>1 DEF In, Down
<1>5. CASE ~ ReadPending
  <2>1. PICK phase \in Phases \ {"serve"} : Enter(phase)
    BY <1>5 DEF NoRestore, RefuseRestore, StageRestore, PlaceRestore, RestoreNotPlaced,
      ClearRestore, ClearInterrupted, CountAttempt, BeginRollback, StageRollback,
      PlaceRollback, SwitchBack, Phases
  <2>2. process'.phase = phase /\ process'.release = process.release
    BY <1>1, <2>1 DEF Enter, Process
  <2> QED BY <1>1, <1>2, <1>3, <2>2, Markers DEF In
<1> QED BY <1>4, <1>5

LEMMA ServerUpdatesStep == Shape /\ Step => ServerUpdates'
<1> SUFFICES ASSUME Shape, Step PROVE ServerUpdates'
  OBVIOUS
<1> USE DEF Shape
<1>1. CASE Start
  BY <1>1 DEF Start, ServerUpdates, In, Down
<1>2. CASE RestoreSteps \/ RegisterSteps \/ RollbackSteps
  BY <1>2, Starts DEF ServerUpdates
<1>3. CASE EndSteps
  BY <1>3, Dies DEF EndSteps, ServerUpdates
<1>4. CASE ServeSteps
  <2>1. updater # Unlocked /\ updater.by = "server" => In("serve")
    BY DEF ServerUpdates
  <2> QED BY <1>4, <2>1, Serves DEF ServeSteps, ServerUpdates
<1>5. ASSUME NEW by \in Updaters, NEW target \in Releases, LockUpdate(by, target)
      PROVE  ServerUpdates'
  <2>1. updater'.update.target = target /\ updater'.by = by /\ process' = process
    BY <1>5 DEF LockUpdate
  <2>2. CASE by = "server"
    <3>1. In("serve") /\ process \in Process
      BY <1>5, <2>2, InProcess DEF LockUpdate, TypeOK, Phases
    <3>2. target > process.release
      BY <1>5, <2>2 DEF LockUpdate, OnOffer, OwnReleases
    <3>3. process.release < target
      BY <3>1, <3>2, Orders, Constants
    <3> QED BY <2>1, <3>1, <3>3 DEF ServerUpdates, In
  <2> QED BY <2>1, <2>2 DEF ServerUpdates
<1>6. CASE CheckCandidate \/ BackUp \/ WritePending
  BY <1>6, UpdaterSteps DEF ServerUpdates, In
<1>7. CASE SwitchRelease \/ UpdateFails \/ CliDies
  <2>1. updater' = Unlocked
    BY <1>7 DEF SwitchRelease, UpdateFails, CliDies
  <2> QED BY <2>1 DEF ServerUpdates
<1> QED
  BY <1>1, <1>2, <1>3, <1>4, <1>5, <1>6, <1>7
  DEF Step, StartStep, UpdateStep, RestoreSteps, RegisterSteps, RollbackSteps, EndSteps, ServeSteps

LEMMA DatabaseServedStep == Shape /\ Step => DatabaseServed'
<1> SUFFICES ASSUME Shape, Step PROVE DatabaseServed'
  OBVIOUS
<1> USE DEF Shape
<1>1. CASE Start
  BY <1>1 DEF Start, DatabaseServed, In, files
<1>2. CASE RestoreSteps \/ RegisterSteps \/ RollbackSteps
  <2>1. db' = Missing \/ copy' = Missing
    BY <1>2 DEF RestoreSteps, RegisterSteps, RollbackSteps, NoRestore, RefuseRestore,
      StageRestore, PlaceRestore, RestoreNotPlaced, ClearRestore, ReadPending,
      ClearInterrupted, CountAttempt, BeginRollback, StageRollback, PlaceRollback,
      SwitchBack, Stage, Place, PutBack, files, DatabaseServed
  <2> QED BY <1>2, <2>1, Starts DEF DatabaseServed
<1>3. CASE EndSteps
  <2>1. db' = Missing \/ copy' = Missing
    BY <1>3 DEF EndSteps, RejectStart, RollbackFails, ClearRolledBack, OpenFails, Exit, Crash,
      PutBack, files, DatabaseServed
  <2> QED BY <1>3, <2>1, Dies DEF EndSteps, DatabaseServed, In, Down
<1>4. CASE Open
  <2>1. process'.release = process.release /\ copy' = copy
    BY <1>4, Serves
  <2> QED BY <1>4, <2>1 DEF Open, DatabaseServed
<1>5. CASE ScheduleRestore \/ Confirm \/ ClearConfirmed
  <2>1. process'.release = process.release /\ UNCHANGED <<db, copy>> /\ In("serve")
    BY <1>5, Serves DEF ScheduleRestore, Confirm, ClearConfirmed, files
  <2> QED BY <2>1 DEF DatabaseServed
<1>6. CASE LockSteps \/ UpdateFails \/ CliDies
  <2>1. UNCHANGED <<process, db, copy>>
    BY <1>6 DEF LockSteps, LockUpdate, UpdateFails, CliDies, files
  <2> QED BY <2>1 DEF DatabaseServed, In
<1>7. CASE CheckCandidate \/ BackUp \/ WritePending
  BY <1>7, UpdaterSteps DEF DatabaseServed, In
<1>8. CASE SwitchRelease
  <2>1. UNCHANGED <<db, copy>> /\ (process' = process \/ updater.by = "server")
    BY <1>8 DEF SwitchRelease, files
  <2>2. CASE updater.by = "server"
    <3>1. In("serve") /\ process \in Process
      BY <1>8, <2>2, InProcess DEF SwitchRelease, ServerUpdates, TypeOK, Phases, Unlocked
    <3>2. process'.release = process.release
      BY <1>8, <3>1 DEF SwitchRelease, Process
    <3> QED BY <2>1, <3>1, <3>2 DEF DatabaseServed
  <2> QED BY <2>1, <2>2 DEF DatabaseServed, In
<1> QED
  BY <1>1, <1>2, <1>3, <1>4, <1>5, <1>6, <1>7, <1>8
  DEF Step, StartStep, UpdateStep, RestoreSteps, RegisterSteps, RollbackSteps, EndSteps, LockSteps

LEMMA RollbackReadsStep == Shape /\ Step => RollbackReads'
<1> SUFFICES ASSUME Shape, Step PROVE RollbackReads'
  OBVIOUS
<1> USE DEF Shape
<1>1. CASE Start
  BY <1>1 DEF Start, RollbackReads, In
<1>2. CASE ReadPending
  <2>1. process \in Process
    BY <1>2, Starts DEF RegisterSteps
  <2> QED BY <1>2, <2>1 DEF ReadPending, RollbackReads, In, Process
<1>3. CASE RestoreSteps \/ ClearInterrupted \/ CountAttempt
  <2>1. process \in Process
    BY <1>3, Starts DEF RegisterSteps
  <2>2. \E next \in {"register", "staged", "applied", "open"} : Enter(next)
    BY <1>3 DEF RestoreSteps, NoRestore, RefuseRestore, StageRestore, PlaceRestore,
      RestoreNotPlaced, ClearRestore, ClearInterrupted, CountAttempt
  <2> QED BY <2>1, <2>2 DEF Enter, RollbackReads, In, Process
<1>4. CASE BeginRollback \/ RollbackSteps
  <2>1. process \in Process
    BY <1>4, Starts DEF RegisterSteps
  <2>2. process'.seen = process.seen
    BY <1>4, <2>1 DEF BeginRollback, RollbackSteps, StageRollback, PlaceRollback, SwitchBack,
      Enter, Process
  <2> QED BY <1>4, <2>2 DEF RollbackReads, BeginRollback, RollbackSteps, StageRollback,
      PlaceRollback, SwitchBack
<1>5. CASE EndSteps
  BY <1>5, Dies DEF EndSteps, RollbackReads, In, Down
<1>6. CASE ServeSteps
  BY <1>6, Serves DEF ServeSteps, RollbackReads, In
<1>7. CASE LockSteps \/ UpdateFails \/ CliDies
  <2>1. process' = process
    BY <1>7 DEF LockSteps, LockUpdate, UpdateFails, CliDies
  <2> QED BY <2>1 DEF RollbackReads, In
<1>8. CASE CheckCandidate \/ BackUp \/ WritePending
  BY <1>8, UpdaterSteps DEF RollbackReads, In
<1>9. CASE SwitchRelease
  <2>1. CASE updater.by = "server"
    <3>1. In("serve") /\ process \in Process
      BY <1>9, <2>1, InProcess DEF SwitchRelease, ServerUpdates, TypeOK, Phases, Unlocked
    <3>2. In("serve")'
      BY <1>9, <3>1 DEF SwitchRelease, Process, In
    <3> QED BY <3>2 DEF RollbackReads, In
  <2>2. CASE updater.by # "server"
    BY <1>9, <2>2 DEF SwitchRelease, RollbackReads, In
  <2> QED BY <2>1, <2>2
<1> QED
  BY <1>1, <1>2, <1>3, <1>4, <1>5, <1>6, <1>7, <1>8, <1>9
  DEF Step, StartStep, UpdateStep, RestoreSteps, RollbackSteps, EndSteps, ServeSteps, LockSteps

LEMMA ShapeStep == Shape /\ [Next]_vars => Shape'
<1> SUFFICES ASSUME Shape, [Next]_vars PROVE Shape'
  OBVIOUS
<1>1. TypeOK'
  BY TypeStep
<1>2. CASE Step
  BY <1>1, <1>2, ServerUpdatesStep, DatabaseServedStep, RollbackReadsStep DEF Shape
<1>3. CASE UNCHANGED vars
  <2>1. UNCHANGED <<db, copy, process, updater>>
    BY <1>3 DEF vars, state, files
  <2> QED BY <1>1, <2>1 DEF Shape, ServerUpdates, DatabaseServed, RollbackReads, In
<1> QED BY <1>2, <1>3 DEF Next

-----------------------------------------------------------------------------
(* What holds until a command is outrun *)

\* The link is ahead of no updater when it is ahead of no command and not of the server's.
LEMMA Ahead ==
  ASSUME TypeOK', ~ Outrun',
         (updater # Unlocked /\ updater.by = "server" => link <= updater.update.previous)'
  PROVE  UpdaterAhead'
<1> SUFFICES ASSUME updater' # Unlocked
             PROVE  /\ link' <= updater'.update.previous
                    /\ updater'.by = "cli" => link' <= updater'.update.target
  BY DEF UpdaterAhead
<1>1. updater' \in Updater
  BY DEF TypeOK
<1>2. updater'.by \in {"server", "cli"} /\ updater'.update \in Update
  BY <1>1, ReleaseAssumption DEF Updater
<1>3. updater'.update.previous \in Releases /\ updater'.update.target \in Releases
  BY <1>2 DEF Update
<1>4. link' \in Nat /\ updater'.update.previous \in Nat /\ updater'.update.target \in Nat
  BY <1>3, Constants DEF TypeOK
<1> QED BY <1>2, <1>4 DEF Outrun

LEMMA StartOrder ==
  ASSUME Shape, Order, TypeOK', ~ Outrun', Start
  PROVE  Order'
<1> USE DEF Shape, Order
<1>1. /\ process'.phase = "restore" /\ process'.release = link /\ process'.seen = NoUpdate
      /\ process = Down /\ UNCHANGED <<link, db, copy, pending, updater>>
  BY DEF Start, files
<1>2. UpdatesSound' /\ UpdaterAhead'
  BY <1>1 DEF UpdatesSound, UpdaterAhead, Sound, In, Down
<1>3. ProcessBehind' /\ DatabasesFit' /\ RollbackFits'
  BY <1>1, Orders DEF ProcessBehind, DatabasesFit, RollbackFits, In
<1> QED BY <1>2, <1>3

\* A step of the start that leaves the link and the update files alone: the process
\* moves on to a phase that is not one of a rollback.
LEMMA StartMoves ==
  ASSUME Shape, Order, process \in Process, NEW phase \in Phases, Enter(phase),
         ~ In("undone"), phase \notin {"undo", "unstaged", "unswitched"},
         UNCHANGED <<link, updater>>, pending' \in {pending, NoUpdate},
         DatabasesFit'
  PROVE  Order'
<1> USE DEF Shape, Order
<1>1. process' \in Process /\ process'.phase = phase /\ process'.release = process.release
      /\ process'.seen = process.seen
  BY EnterType DEF Enter, Process
<1>2. UpdatesSound'
  BY <1>1, Markers DEF UpdatesSound, Sound
<1>3. UpdaterAhead'
  BY DEF UpdaterAhead
<1>4. ProcessBehind'
  BY <1>1, Markers DEF ProcessBehind
<1>5. RollbackFits'
  BY <1>1 DEF RollbackFits, In
<1> QED BY <1>2, <1>3, <1>4, <1>5

LEMMA RestoreOrder ==
  ASSUME Shape, Order, RestoreSteps
  PROVE  Order'
<1> USE DEF Shape, Order, RestoreSteps
<1>1. process \in Process /\ process # Down /\ ~ In("undone")
  BY Starts
<1>2. PICK phase \in {"register", "staged", "applied"} : Enter(phase)
  BY DEF NoRestore, RefuseRestore, StageRestore, PlaceRestore, RestoreNotPlaced, ClearRestore
<1>3. UNCHANGED <<link, updater, pending>>
  BY DEF NoRestore, RefuseRestore, StageRestore, PlaceRestore, RestoreNotPlaced, ClearRestore
<1>4. DatabasesFit'
  <2>1. process.release <= link /\ SchemaOf[process.release] <= SchemaOf[link]
    BY <1>1, Orders, Constants DEF ProcessBehind
  <2> QED BY <1>3, <2>1, Orders DEF DatabasesFit, NoRestore, RefuseRestore, StageRestore,
      PlaceRestore, RestoreNotPlaced, ClearRestore, Stage, Place, PutBack, Missing, files
<1> QED BY <1>1, <1>2, <1>3, <1>4, StartMoves DEF Phases

LEMMA RegisterOrder ==
  ASSUME Shape, Order, RegisterSteps
  PROVE  Order'
<1> USE DEF Shape, Order, RegisterSteps
<1>1. process \in Process /\ process # Down /\ ~ In("undone") /\ process'.release = process.release
  BY Starts
<1>2. UNCHANGED <<link, db, copy, updater>>
  BY DEF ReadPending, ClearInterrupted, CountAttempt, BeginRollback, files
<1>3. DatabasesFit' /\ UpdaterAhead'
  BY <1>1, <1>2 DEF DatabasesFit, UpdaterAhead
<1>4. ProcessBehind'
  BY <1>1, <1>2 DEF ProcessBehind
<1>5. CASE ReadPending
  <2>1. /\ process'.seen = pending /\ pending' = pending
        /\ process'.phase = IF pending = NoUpdate THEN "open" ELSE "decide"
    BY <1>1, <1>5 DEF ReadPending, Process
  <2>2. UpdatesSound'
    BY <1>2, <2>1 DEF UpdatesSound, Sound
  <2>3. RollbackFits'
    BY <2>1 DEF RollbackFits, In
  <2> QED BY <1>3, <1>4, <2>2, <2>3
<1>6. CASE ClearInterrupted
  BY <1>1, <1>2, <1>3, <1>6, StartMoves DEF ClearInterrupted, Phases
<1>7. CASE CountAttempt
  <2>1. process'.phase = "open" /\ process'.seen = process.seen
    BY <1>1, <1>7 DEF CountAttempt, Enter, Process
  <2>2. process.seen \in Update /\ Sound(process.seen)
    BY <1>1, <1>7, Orders DEF UpdatesSound, RollbackReads, CountAttempt
  <2>3. pending'.previous = process.seen.previous /\ pending'.target = process.seen.target
        /\ pending'.backup = process.seen.backup
    BY <1>7, <2>2 DEF CountAttempt, Update
  <2>4. UpdatesSound'
    BY <1>2, <2>1, <2>2, <2>3 DEF UpdatesSound, Sound
  <2> QED BY <1>3, <1>4, <2>1, <2>4 DEF RollbackFits, In
<1>8. CASE BeginRollback
  <2>1. process'.phase = "undo" /\ process'.seen = process.seen /\ pending' = pending
    BY <1>1, <1>8 DEF BeginRollback, Enter, Process
  <2>2. UpdatesSound'
    BY <1>1, <1>2, <2>1 DEF UpdatesSound, Sound
  <2>3. RollbackFits'
    BY <1>2, <1>8, <2>1, Orders DEF BeginRollback, Expected, RollbackFits, In
  <2> QED BY <1>3, <1>4, <2>2, <2>3
<1> QED BY <1>5, <1>6, <1>7, <1>8

\* The rollback takes the database back to its backup, then the link: what is restored
\* fits both releases, and no server prepares an update meanwhile.
LEMMA RollbackOrder ==
  ASSUME Shape, Order, TypeOK', ~ Outrun', RollbackSteps
  PROVE  Order'
<1> USE DEF Shape, Order, RollbackSteps
<1>1. /\ process \in Process /\ process # Down /\ ~ In("undone") /\ ~ In("serve")
      /\ process'.release = process.release /\ updater' = updater
  BY Starts
<1>2. process.seen \in Update /\ Sound(process.seen) /\ process.seen.target <= link
  BY <1>1, Orders DEF UpdatesSound, RollbackReads, RollbackFits, StageRollback, PlaceRollback,
    SwitchBack
<1>3. process.seen.backup <= SchemaOf[process.seen.previous]
      /\ process.seen.backup <= SchemaOf[link]
  BY <1>2, Orders, Constants DEF Sound
<1>4. process'.seen = process.seen /\ pending' = pending
  BY <1>1 DEF StageRollback, PlaceRollback, SwitchBack, Enter, Process
<1>5. UpdatesSound'
  BY <1>1, <1>4 DEF UpdatesSound, Sound
<1>6. UpdaterAhead'
  BY <1>1, Ahead DEF ServerUpdates
<1>7. process.release <= link
  BY <1>1 DEF ProcessBehind
<1>8. CASE StageRollback
  <2>1. process'.phase = "unstaged" /\ link' = link
    BY <1>1, <1>8 DEF StageRollback, Enter, Process
  <2>2. DatabasesFit'
    BY <1>8, Orders DEF StageRollback, Stage, DatabasesFit, Missing
  <2>3. RollbackFits' /\ ProcessBehind'
    BY <1>1, <1>2, <1>4, <1>7, <2>1 DEF RollbackFits, ProcessBehind, In
  <2> QED BY <1>5, <1>6, <2>2, <2>3
<1>9. CASE PlaceRollback
  <2>1. /\ process'.phase = "unswitched" /\ link' = link
        /\ db' = process.seen.backup /\ copy' = Missing
    BY <1>1, <1>9 DEF PlaceRollback, Place, Enter, Process
  <2>2. DatabasesFit'
    BY <1>3, <2>1, Orders DEF DatabasesFit, Missing
  <2>3. RollbackFits' /\ ProcessBehind'
    BY <1>1, <1>2, <1>3, <1>4, <1>7, <2>1 DEF RollbackFits, ProcessBehind, In
  <2> QED BY <1>5, <1>6, <2>2, <2>3
<1>10. CASE SwitchBack
  <2>1. /\ process'.phase = "undone" /\ link' = process.seen.previous
        /\ UNCHANGED <<db, copy>>
    BY <1>1, <1>10 DEF SwitchBack, Enter, Process, files
  <2>2. DatabasesFit'
    <3>1. copy = Missing /\ db <= SchemaOf[process.seen.previous]
      BY <1>10 DEF SwitchBack, RollbackFits
    <3> QED BY <1>2, <2>1, <3>1, Orders, Constants DEF DatabasesFit, Missing
  <2> QED BY <1>5, <1>6, <2>1, <2>2 DEF RollbackFits, ProcessBehind, In
<1> QED BY <1>8, <1>9, <1>10

LEMMA EndOrder ==
  ASSUME Shape, Order, EndSteps
  PROVE  Order'
<1> USE DEF Shape, Order, EndSteps
<1>1. /\ process' = Down /\ (updater' # Unlocked => updater' = updater)
      /\ link' = link /\ pending' \in {pending, NoUpdate}
  BY Dies
<1>2. DatabasesFit'
  BY Orders DEF RejectStart, RollbackFails, ClearRolledBack, OpenFails, Exit, Crash, PutBack,
    DatabasesFit, Missing, files
<1>3. UpdatesSound' /\ UpdaterAhead'
  BY <1>1 DEF UpdatesSound, UpdaterAhead, Sound
<1>4. ProcessBehind' /\ RollbackFits'
  BY <1>1 DEF ProcessBehind, RollbackFits, In, Down
<1> QED BY <1>2, <1>3, <1>4

LEMMA ServeOrder ==
  ASSUME Shape, Order, ServeSteps
  PROVE  Order'
<1> USE DEF Shape, Order, ServeSteps
<1>1. /\ process \in Process /\ process # Down /\ ~ In("undone") /\ In("serve")'
      /\ process'.release = process.release /\ process'.seen = process.seen
      /\ UNCHANGED <<link, updater, copy>> /\ pending' \in {pending, NoUpdate}
  BY Serves
<1>2. process.release <= link /\ SchemaOf[process.release] <= SchemaOf[link]
  BY <1>1, Orders, Constants DEF ProcessBehind
<1>3. DatabasesFit'
  BY <1>1, <1>2 DEF DatabasesFit, Open, ScheduleRestore, Confirm, ClearConfirmed, files
<1>4. UpdatesSound'
  BY <1>1 DEF UpdatesSound, Sound
<1>5. UpdaterAhead' /\ ProcessBehind' /\ RollbackFits'
  BY <1>1, <1>2 DEF UpdaterAhead, ProcessBehind, RollbackFits, In
<1> QED BY <1>3, <1>4, <1>5

\* An updater takes the lock, checks its candidate, backs up and writes the state file.
\* The backup fits the target, too: the link is not ahead of a command's, and the server
\* prepares a release that is newer than the one that has migrated the database.
LEMMA PrepareOrder ==
  ASSUME Shape, Order, TypeOK', ~ Outrun',
         LockSteps \/ CheckCandidate \/ BackUp \/ WritePending
  PROVE  Order'
<1> USE DEF Shape, Order
<1>1. UNCHANGED <<link, db, copy, process>>
  BY UpdaterSteps DEF LockSteps, LockUpdate, files
<1>2. ProcessBehind' /\ DatabasesFit' /\ RollbackFits'
  BY <1>1 DEF ProcessBehind, DatabasesFit, RollbackFits, In
<1>3. ASSUME NEW by \in Updaters, NEW target \in Releases, LockUpdate(by, target)
      PROVE  UpdatesSound' /\ UpdaterAhead'
  <2>1. /\ updater'.update.previous = link /\ updater'.update.target = target
        /\ updater'.update.backup = Missing /\ pending' = pending
    BY <1>3 DEF LockUpdate
  <2>2. Sound(updater'.update)
    BY <2>1, Orders, Constants DEF Sound, Missing
  <2>3. UpdatesSound'
    BY <1>1, <2>1, <2>2 DEF UpdatesSound, Sound
  <2>4. UpdaterAhead'
    BY <1>1, <2>1, Orders, Ahead
  <2> QED BY <2>3, <2>4
<1>4. CASE CheckCandidate \/ BackUp \/ WritePending
  <2>1. /\ updater \in Updater /\ updater # Unlocked /\ updater' # Unlocked
        /\ updater.update \in Update
        /\ updater'.by = updater.by
        /\ updater'.update.previous = updater.update.previous
        /\ updater'.update.target = updater.update.target
        /\ updater'.update.backup = IF BackUp THEN db ELSE updater.update.backup
    BY <1>4, UpdaterSteps
  <2>2. UpdaterAhead'
    BY <1>1, <2>1 DEF UpdaterAhead
  <2>3. db <= SchemaOf[updater.update.previous] /\ db <= SchemaOf[updater.update.target]
    <3>1. db <= SchemaOf[updater.update.previous]
      BY <2>1, Orders, Constants DEF UpdaterAhead, DatabasesFit
    <3>2. CASE updater.by = "cli"
      BY <2>1, <3>1, <3>2, Orders, Constants DEF UpdaterAhead, DatabasesFit
    <3>3. CASE updater.by = "server"
      <4>1. db = SchemaOf[process.release] /\ process.release < updater.update.target
        BY <2>1, <3>3 DEF ServerUpdates, DatabaseServed
      <4>2. process \in Process
        BY <2>1, <3>3, InProcess DEF ServerUpdates, TypeOK, Phases
      <4> QED BY <2>1, <3>1, <4>1, <4>2, Orders, Constants
    <3> QED BY <2>1, <3>2, <3>3, ReleaseAssumption DEF Updater
  <2>4. Sound(updater'.update)
    BY <2>1, <2>3 DEF UpdatesSound, Sound
  <2>5. pending' = pending \/ pending' = updater.update
    BY <1>4 DEF CheckCandidate, BackUp, WritePending
  <2>6. UpdatesSound'
    BY <1>1, <2>1, <2>4, <2>5 DEF UpdatesSound, Sound
  <2> QED BY <1>2, <2>2, <2>6
<1> QED BY <1>2, <1>3, <1>4 DEF LockSteps

\* The link is switched: by a command to a release that is not older than the linked one,
\* by the server to one that is newer than the process, whose schema the database has.
LEMMA SwitchOrder ==
  ASSUME Shape, Order, TypeOK', SwitchRelease
  PROVE  Order'
<1> USE DEF Shape, Order
<1>1. updater \in Updater /\ updater # Unlocked /\ updater.update \in Update
  BY DEF SwitchRelease, TypeOK, Unlocked, Updater
<1>2. /\ link' = updater.update.target /\ updater' = Unlocked
      /\ UNCHANGED <<db, copy, pending>>
  BY DEF SwitchRelease, files
<1>3. link' \in Releases /\ link' \in Nat
  BY <1>1, <1>2, Orders
<1>4. UpdaterAhead'
  BY <1>2 DEF UpdaterAhead
<1>5. CASE updater.by = "server"
  <2>1. process \in Process /\ In("serve") /\ process.release < link'
        /\ db = SchemaOf[process.release]
    BY <1>1, <1>2, <1>5, InProcess DEF ServerUpdates, DatabaseServed, TypeOK, Phases
  <2>2. /\ process'.phase = "serve" /\ process'.release = process.release
        /\ process'.seen = process.seen
    BY <1>5, <2>1 DEF SwitchRelease, In, Process
  <2>3. DatabasesFit'
    <3>1. db \in Nat \ {0} /\ db <= SchemaOf[link']
      BY <1>3, <2>1, Orders, Constants
    <3> QED BY <1>2, <1>3, <3>1, Constants DEF DatabaseServed, DatabasesFit, Missing
  <2>4. UpdatesSound'
    BY <1>2, <2>1, <2>2, Markers DEF UpdatesSound, Sound
  <2>5. ProcessBehind' /\ RollbackFits'
    BY <1>3, <2>1, <2>2, Orders DEF ProcessBehind, RollbackFits, In
  <2> QED BY <1>4, <2>3, <2>4, <2>5
<1>6. CASE updater.by # "server"
  <2>1. link <= link' /\ SchemaOf[link] <= SchemaOf[link'] /\ process' = process
    BY <1>1, <1>2, <1>3, <1>6, Orders, Constants, ReleaseAssumption
    DEF UpdaterAhead, SwitchRelease, Updater
  <2>2. DatabasesFit'
    BY <1>2, <1>3, <2>1, Orders, Constants DEF DatabasesFit
  <2>3. UpdatesSound'
    BY <1>2, <2>1 DEF UpdatesSound, Sound
  <2>4. ProcessBehind'
    BY <1>3, <2>1, Orders DEF ProcessBehind, In, TypeOK
  <2>5. RollbackFits'
    <3>1. ASSUME In("undo") \/ In("unstaged") \/ In("unswitched")
          PROVE  process.seen \in Update
      BY <3>1, Orders, InProcess DEF RollbackReads, TypeOK, Phases
    <3>2. In("undo") \/ In("unstaged") \/ In("unswitched") => process.seen.target <= link'
      BY <1>3, <2>1, <3>1, Orders DEF RollbackFits
    <3> QED BY <1>2, <2>1, <3>2 DEF RollbackFits, In
  <2> QED BY <1>4, <2>2, <2>3, <2>4, <2>5
<1> QED BY <1>5, <1>6

LEMMA FailOrder ==
  ASSUME Shape, Order, UpdateFails \/ CliDies
  PROVE  Order'
<1> USE DEF Shape, Order
<1>1. /\ UNCHANGED <<link, db, copy, process>> /\ updater' = Unlocked
      /\ pending' \in {pending, NoUpdate}
  BY DEF UpdateFails, CliDies, files
<1>2. UpdatesSound' /\ UpdaterAhead'
  BY <1>1 DEF UpdatesSound, UpdaterAhead, Sound
<1>3. ProcessBehind' /\ DatabasesFit' /\ RollbackFits'
  BY <1>1 DEF ProcessBehind, DatabasesFit, RollbackFits, In
<1> QED BY <1>2, <1>3

LEMMA OrderStep == Shape /\ Order /\ TypeOK' /\ ~ Outrun' /\ Step => Order'
BY StartOrder, RestoreOrder, RegisterOrder, RollbackOrder, EndOrder, ServeOrder, PrepareOrder,
  SwitchOrder, FailOrder
DEF Step, StartStep, UpdateStep, RestoreSteps, RegisterSteps, RollbackSteps, EndSteps,
  ServeSteps, LockSteps

-----------------------------------------------------------------------------
(* Both together *)

LEMMA InductiveStep == IInv /\ [Next]_vars => IInv'
<1> SUFFICES ASSUME IInv, [Next]_vars PROVE IInv'
  OBVIOUS
<1> USE DEF IInv
<1>1. Shape' /\ TypeOK'
  BY ShapeStep DEF Shape
<1>2. ASSUME ~ outrun' PROVE Order'
  <2>1. CASE Next
    <3>1. Step /\ ~ outrun /\ ~ Outrun'
      BY <1>2, <2>1 DEF Next
    <3> QED BY <1>1, <3>1, OrderStep
  <2>2. CASE UNCHANGED vars
    <3>1. UNCHANGED <<link, db, copy, pending, process, updater, outrun>>
      BY <2>2 DEF vars, state, files
    <3> QED BY <1>2, <3>1 DEF Order, UpdatesSound, UpdaterAhead, ProcessBehind, DatabasesFit,
        RollbackFits, Sound, In
  <2> QED BY <2>1, <2>2
<1> QED BY <1>1, <1>2

LEMMA Invariance == Spec => []IInv
BY Initially, InductiveStep, PTL DEF Spec

\* Whatever crashes, updates, restores and rollbacks happen, files, process and lock
\* hold what their types say (the state files of main.go, recovery.go and backup.go).
THEOREM TypeCorrect == Spec => []TypeOK
<1>1. IInv => TypeOK
  BY DEF IInv, Shape
<1> QED BY <1>1, Invariance, PTL

\* The release that will be started supports the schema of the database in its place, for
\* every number of releases and crashes, as long as no command that prepares an update
\* was outrun by the link: updates of the serving process that lead back are included
\* (RegisterStartup, prepareAndActivate).
THEOREM DatabasesFitReleases == Spec => []DatabaseFitsRelease
<1>1. IInv => DatabaseFitsRelease
  BY DEF IInv, Order, DatabasesFit, DatabaseFitsRelease
<1> QED BY <1>1, Invariance, PTL


-----------------------------------------------------------------------------
(* Restores *)

\* Once a start has passed ApplyPendingRestore, a pending restore is one that was
\* scheduled by this very process.
RestoreDecided ==
  process.phase \in Phases \ {"restore", "staged", "applied"} /\ ~ process.restoring =>
    pendingRestore = Missing

LEMMA RestoreDecidedStep ==
  ASSUME IInv, IInv', RestoreDecided, [Next]_vars
  PROVE  RestoreDecided'
<1> USE DEF RestoreDecided
<1>1. ASSUME process \in Process, NEW phase \in Phases, Enter(phase)
      PROVE  process'.phase = phase /\ process'.restoring = process.restoring
  BY <1>1 DEF Enter, Process
<1>2. CASE process' = Down
  BY <1>2, Markers
<1>3. CASE pendingRestore' = Missing
  BY <1>3
<1>4. CASE Start \/ StageRestore \/ PlaceRestore
  <2>1. CASE Start
    BY <2>1 DEF Start
  <2>2. CASE StageRestore \/ PlaceRestore
    <3>1. process \in Process /\ "staged" \in Phases /\ "applied" \in Phases
      BY <2>2, InProcess DEF StageRestore, PlaceRestore, IInv, Shape, TypeOK, Phases
    <3> QED BY <1>1, <2>2, <3>1 DEF StageRestore, PlaceRestore
  <2> QED BY <1>4, <2>1, <2>2
<1>5. CASE NoRestore
  BY <1>5 DEF NoRestore, files
<1>6. CASE ScheduleRestore
  <2>1. process'.restoring
    BY <1>6, InProcess DEF ScheduleRestore, IInv, Shape, TypeOK, Process, Phases
  <2> QED BY <2>1
<1>7. CASE ReadPending \/ ClearInterrupted \/ CountAttempt \/ BeginRollback \/ StageRollback
           \/ PlaceRollback \/ SwitchBack \/ Open \/ Confirm \/ ClearConfirmed
  <2>1. process \in Process /\ process.phase \in Phases \ {"restore", "staged", "applied"}
    BY <1>7, InProcess DEF ReadPending, ClearInterrupted, CountAttempt, BeginRollback,
      StageRollback, PlaceRollback, SwitchBack, Open, Confirm, ClearConfirmed, In, IInv, Shape, TypeOK, Phases
  <2>2. process'.restoring = process.restoring
    <3>1. CASE ReadPending \/ Open \/ Confirm \/ ClearConfirmed
      BY <2>1, <3>1 DEF ReadPending, Open, Confirm, ClearConfirmed, Process
    <3>2. CASE \E phase \in Phases : Enter(phase)
      BY <1>1, <2>1, <3>2
    <3> QED BY <1>7, <3>1, <3>2 DEF ClearInterrupted, CountAttempt, BeginRollback,
      StageRollback, PlaceRollback, SwitchBack, Phases
  <2>3. pendingRestore' = pendingRestore
    BY <1>7 DEF ReadPending, ClearInterrupted, CountAttempt, BeginRollback,
      StageRollback, PlaceRollback, SwitchBack, Open, Confirm, ClearConfirmed, files
  <2> QED BY <2>1, <2>2, <2>3
<1>8. CASE SwitchRelease /\ updater.by = "server"
  <2>1. updater # Unlocked
    BY <1>8 DEF SwitchRelease, Unlocked
  <2>2. In("serve") /\ process \in Process
    BY <1>8, <2>1, InProcess DEF IInv, Shape, ServerUpdates, TypeOK, Phases
  <2> QED BY <1>8, <2>2 DEF SwitchRelease, In, Phases, Process, files
<1>9. CASE UNCHANGED <<process, pendingRestore>>
  BY <1>9
<1> QED
  BY <1>2, <1>3, <1>4, <1>5, <1>6, <1>7, <1>8, <1>9
  DEF Next, Step, StartStep, UpdateStep, vars, state, files, RefuseRestore, RestoreNotPlaced, ClearRestore,
    RejectStart, RollbackFails, ClearRolledBack, OpenFails, Exit, Crash, Die, LockUpdate, CheckCandidate, BackUp,
    WritePending, SwitchRelease, UpdateFails, CliDies

\* A serving process has consumed the restore it found: a second start cannot apply an
\* old archive over newer data (ApplyPendingRestore, quarantinePendingRestore).
THEOREM RestoresAreConsumed == Spec => []RestoreIsConsumed
<1>1. Init => RestoreDecided
  BY DEF Init, RestoreDecided
<1>2. RestoreDecided => RestoreIsConsumed
  BY DEF RestoreDecided, RestoreIsConsumed, In, Phases
<1> QED BY <1>1, <1>2, RestoreDecidedStep, Invariance, PTL DEF Spec

-----------------------------------------------------------------------------
(* Missing databases *)

LEMMA BackupsInitially == Init => BackupsExist
BY DEF Init, BackupsExist, In, Down

\* A step that changes no update and keeps the phase out of "unswitched" keeps what is
\* said of the updates.
LEMMA BackupsKept ==
  ASSUME BackupsExist, pending' \in {pending, NoUpdate}, updater' \in {updater, Unlocked},
         \/ process' = Down
         \/ process # Down /\ process'.seen \in {process.seen, pending, NoUpdate}
         \/ process'.seen = NoUpdate,
         In("unswitched")' => db' # Missing
  PROVE  BackupsExist'
BY DEF BackupsExist

LEMMA BackupsStep == IInv /\ BackupsExist /\ [Next]_vars => BackupsExist'
<1> SUFFICES ASSUME IInv, BackupsExist, [Next]_vars PROVE BackupsExist'
  OBVIOUS
<1> USE DEF IInv, Shape, TypeOK
<1>1. ASSUME process \in Process, NEW phase \in Phases, Enter(phase)
      PROVE  process'.phase = phase /\ process'.seen = process.seen /\ process # Down
  BY <1>1, Markers DEF Enter, Process
<1>2. CASE UNCHANGED vars
  BY <1>2 DEF vars, state, files, BackupsExist, In
<1>3. CASE Start
  BY <1>3, BackupsKept DEF Start, In
<1>4. ASSUME NEW phase \in Phases \ {"unswitched"}, process \in Process, Enter(phase),
             pending' \in {pending, NoUpdate}, updater' = updater
      PROVE  BackupsExist'
  BY <1>1, <1>4, BackupsKept DEF In
<1>5. CASE NoRestore \/ RefuseRestore \/ StageRestore \/ PlaceRestore \/ RestoreNotPlaced
           \/ ClearRestore \/ ClearInterrupted \/ BeginRollback \/ StageRollback \/ SwitchBack
  <2>1. process \in Process
    BY <1>5, InProcess DEF NoRestore, RefuseRestore, StageRestore, PlaceRestore,
      RestoreNotPlaced, ClearRestore, ClearInterrupted, BeginRollback, StageRollback, SwitchBack,
      Phases
  <2> QED BY <1>4, <1>5, <2>1 DEF NoRestore, RefuseRestore, StageRestore, PlaceRestore,
      RestoreNotPlaced, ClearRestore, ClearInterrupted, BeginRollback, StageRollback, SwitchBack,
      Phases
<1>6. CASE ReadPending
  <2>1. /\ process \in Process /\ process # Down
        /\ process'.seen = pending /\ process'.phase # "unswitched"
    BY <1>6, InProcess, Markers DEF ReadPending, Process, Phases
  <2> QED BY <1>6, <2>1, BackupsKept DEF ReadPending, In
<1>7. CASE CountAttempt
  <2>1. process \in Process /\ process # Down /\ process.seen # NoUpdate
    BY <1>7, InProcess, Markers DEF CountAttempt, RollbackReads, Phases
  <2>2. process.seen.backup # Missing /\ pending'.backup = process.seen.backup
    BY <1>7, <2>1 DEF CountAttempt, BackupsExist, Process, Update
  <2>3. process'.seen = process.seen /\ ~ In("unswitched")'
    BY <1>1, <1>7, <2>1 DEF CountAttempt, Phases, In
  <2> QED BY <1>7, <2>1, <2>2, <2>3 DEF CountAttempt, BackupsExist
<1>8. CASE PlaceRollback
  <2>1. process \in Process /\ process # Down /\ process.seen # NoUpdate
    BY <1>8, InProcess, Markers DEF PlaceRollback, RollbackReads, Phases
  <2>2. process'.seen = process.seen /\ db' # Missing
    BY <1>1, <1>8, <2>1 DEF PlaceRollback, Place, BackupsExist, Phases
  <2> QED BY <1>8, <2>1, <2>2, BackupsKept DEF PlaceRollback
<1>9. CASE RejectStart \/ RollbackFails \/ ClearRolledBack \/ OpenFails \/ Exit \/ Crash
  <2>1. process' = Down /\ updater' \in {updater, Unlocked} /\ pending' \in {pending, NoUpdate}
    BY <1>9 DEF RejectStart, RollbackFails, ClearRolledBack, OpenFails, Exit, Crash, Die
  <2> QED BY <2>1, BackupsKept DEF In, Down
<1>10. CASE Open \/ ScheduleRestore \/ Confirm \/ ClearConfirmed
  <2>1. process \in Process /\ process # Down
    BY <1>10, InProcess, Markers DEF Open, ScheduleRestore, Confirm, ClearConfirmed, Phases
  <2>2. process'.seen = process.seen /\ process'.phase = "serve"
    BY <1>10, <2>1 DEF Open, ScheduleRestore, Confirm, ClearConfirmed, Process, In
  <2> QED BY <1>10, <2>1, <2>2, BackupsKept
      DEF Open, ScheduleRestore, Confirm, ClearConfirmed, In, files
<1>11. ASSUME NEW by \in Updaters, NEW target \in Releases, LockUpdate(by, target)
       PROVE  BackupsExist'
  BY <1>11 DEF LockUpdate, BackupsExist, In, files
<1>12. CASE CheckCandidate \/ BackUp \/ WritePending
  <2>1. /\ updater # Unlocked /\ UNCHANGED <<process, db>>
        /\ updater'.update.backup = IF BackUp THEN db ELSE updater.update.backup
    BY <1>12, UpdaterSteps
  <2>2. updater.step \in {"locked", "checked", "backed"}
    BY <1>12 DEF CheckCandidate, BackUp, WritePending
  <2>3. updater'.step = "checked" \/ updater'.update.backup # Missing
    <3>1. CASE CheckCandidate
      <4>1. updater \in Updater
        BY <1>12, UpdaterSteps
      <4> QED BY <3>1, <4>1 DEF CheckCandidate, Updater
    <3>2. CASE BackUp
      BY <2>1, <3>2 DEF BackUp
    <3>3. CASE WritePending /\ ~ BackUp
      BY <2>1, <3>3 DEF WritePending, BackupsExist
    <3> QED BY <1>12, <3>1, <3>2, <3>3
  <2>4. pending' # NoUpdate => pending'.backup # Missing
    BY <1>12, <2>1 DEF CheckCandidate, BackUp, WritePending, BackupsExist
  <2> QED BY <2>1, <2>3, <2>4 DEF BackupsExist, In
<1>13. CASE SwitchRelease
  <2>1. updater # Unlocked
    BY <1>13 DEF SwitchRelease, Unlocked
  <2>2. process' = process \/ (In("serve") /\ process \in Process)
    BY <1>13, <2>1, InProcess DEF SwitchRelease, ServerUpdates, Phases
  <2>3. CASE process' = process
    BY <1>13, <2>3 DEF SwitchRelease, BackupsExist, In, files
  <2>4. CASE In("serve") /\ process \in Process
    <3>1. process # Down /\ process'.seen = process.seen /\ process'.phase = "serve"
      BY <1>13, <2>4, Markers DEF SwitchRelease, Process, In
    <3> QED BY <1>13, <3>1, BackupsKept DEF SwitchRelease, In
  <2> QED BY <2>2, <2>3, <2>4
<1>14. CASE UpdateFails \/ CliDies
  BY <1>14 DEF UpdateFails, CliDies, BackupsExist, In, files
<1> QED
  BY <1>2, <1>3, <1>5, <1>6, <1>7, <1>8, <1>9, <1>10, <1>11, <1>12, <1>13, <1>14
  DEF Next, Step, StartStep, UpdateStep

LEMMA BackupInvariance == Spec => [](IInv /\ BackupsExist)
BY Initially, InductiveStep, BackupsInitially, BackupsStep, PTL DEF Spec

\* But for commands that the link has outrun, the link goes back only in the last step of
\* a rollback and in an update of a serving process that is older than the link; by then
\* a database that the older release can open is in place and no copy is left over,
\* whatever crashed before (RegisterStartup, RestoreForRollback, prepareAndActivate).
THEOREM RollbacksRestoreFirst == Spec => GoesBackRestored
<1> DEFINE Back == link' < link /\ ~ outrun' =>
      /\ \/ In("unswitched") /\ link' = process.seen.previous
         \/ /\ In("serve") /\ updater # Unlocked /\ updater.by = "server"
            /\ link' = updater.update.target /\ link' > process.release
      /\ db # Missing /\ db <= SchemaOf[link'] /\ copy = Missing
<1>1. ASSUME IInv, BackupsExist, [Next]_vars PROVE Back
  <2> USE DEF IInv
  <2> SUFFICES ASSUME link' < link, ~ outrun' PROVE Back
    OBVIOUS
  <2>1. TypeOK /\ link \in Nat
    BY <1>1, Orders DEF Shape
  <2>2. link' # link
    BY <2>1
  <2>3. Step /\ ~ outrun
    BY <1>1, <2>2 DEF Next, vars, state
  <2>4. Shape /\ Order
    BY <1>1, <2>3
  <2>5. SwitchBack \/ SwitchRelease
    BY <2>2, <2>3
    DEF Step, StartStep, UpdateStep, files, Start, NoRestore, RefuseRestore, StageRestore,
      PlaceRestore, RestoreNotPlaced, ClearRestore, ReadPending, ClearInterrupted, RejectStart,
      CountAttempt, BeginRollback, StageRollback, PlaceRollback, RollbackFails, ClearRolledBack,
      Open, OpenFails, ScheduleRestore, Confirm, ClearConfirmed, Exit, Crash, LockUpdate,
      CheckCandidate, BackUp, WritePending, UpdateFails, CliDies
  <2>6. CASE SwitchBack
    BY <1>1, <2>4, <2>6 DEF SwitchBack, Order, RollbackFits, BackupsExist
  <2>7. CASE SwitchRelease
    <3>1. updater \in Updater /\ updater # Unlocked /\ link' = updater.update.target
      BY <2>1, <2>7 DEF SwitchRelease, Unlocked, TypeOK
    <3>2. updater.update \in Update /\ updater.by \in {"server", "cli"}
      BY <3>1, ReleaseAssumption DEF Updater
    <3>3. link' \in Releases /\ link' \in Nat
      BY <3>1, <3>2, Orders, <2>1
    <3>4. updater.by = "server"
      <4> SUFFICES ASSUME updater.by = "cli" PROVE FALSE
        BY <3>2
      <4>1. link <= link'
        BY <2>4, <3>1 DEF Order, UpdaterAhead
      <4> QED BY <2>1, <3>3, <4>1
    <3>5. process \in Process /\ In("serve") /\ process.release < link'
          /\ db = SchemaOf[process.release]
      BY <2>1, <2>4, <3>1, <3>4, InProcess DEF Shape, ServerUpdates, DatabaseServed, TypeOK, Phases
    <3>6. db \in Nat \ {0} /\ db <= SchemaOf[link']
      BY <2>1, <3>3, <3>5, Orders, Constants
    <3>7. db # Missing /\ copy = Missing
      BY <2>4, <3>6 DEF Shape, DatabaseServed, Missing
    <3>8. link' > process.release
      BY <2>1, <3>3, <3>5, Orders
    <3> QED BY <3>1, <3>4, <3>5, <3>6, <3>7, <3>8
  <2> QED BY <2>5, <2>6, <2>7
<1>2. IInv /\ BackupsExist /\ [Next]_vars => [Back]_vars
  BY <1>1
<1> QED BY <1>2, BackupInvariance, PTL DEF Spec, GoesBackRestored

LEMMA InPlaceInitially == Init => DatabaseInPlace /\ StagedIsMissing
<1>1. ASSUME Init PROVE db # Missing /\ process = Down
  BY <1>1, Constants DEF Init, Missing
<1> QED BY <1>1 DEF DatabaseInPlace, StagedIsMissing, In, Down

\* A step that leaves the database and its copy where they are, and does not lead into or
\* out of the gap between the renames.
LEMMA InPlaceKept ==
  ASSUME DatabaseInPlace, StagedIsMissing, UNCHANGED <<db, copy>>, crashes \in Nat,
         crashes' \in {crashes, crashes + 1},
         (~ In("staged") /\ ~ In("unstaged")) \/ crashes' = crashes + 1,
         ~ In("staged")' /\ ~ In("unstaged")'
  PROVE  DatabaseInPlace' /\ StagedIsMissing'
BY DEF DatabaseInPlace, StagedIsMissing

LEMMA InPlaceStep ==
  IInv /\ BackupsExist /\ DatabaseInPlace /\ StagedIsMissing /\ [Next]_vars
    => DatabaseInPlace' /\ StagedIsMissing'
<1> SUFFICES ASSUME IInv, BackupsExist, DatabaseInPlace, StagedIsMissing, [Next]_vars
             PROVE  DatabaseInPlace' /\ StagedIsMissing'
  OBVIOUS
<1> USE DEF IInv, Shape, TypeOK
<1>0. crashes \in Nat
  BY ReleaseAssumption
<1>1. ASSUME process \in Process, NEW phase \in Phases, Enter(phase)
      PROVE  process'.phase = phase
  BY <1>1 DEF Enter, Process
<1>2. CASE UNCHANGED <<process, db, copy, crashes>>
  BY <1>2 DEF DatabaseInPlace, StagedIsMissing, In
<1>3. CASE Start
  BY <1>0, <1>3, InPlaceKept DEF Start, In, Down, files
<1>4. CASE NoRestore \/ RefuseRestore \/ ClearRestore \/ ClearInterrupted \/ CountAttempt
           \/ BeginRollback \/ SwitchBack
  <2>1. process \in Process /\ ~ In("staged") /\ ~ In("unstaged")
    BY <1>4, InProcess DEF NoRestore, RefuseRestore, ClearRestore, ClearInterrupted,
      CountAttempt, BeginRollback, SwitchBack, Phases, In
  <2>2. ~ In("staged")' /\ ~ In("unstaged")'
    BY <1>1, <1>4, <2>1 DEF NoRestore, RefuseRestore, ClearRestore, ClearInterrupted,
      CountAttempt, BeginRollback, SwitchBack, Phases, In
  <2> QED BY <1>0, <1>4, <2>1, <2>2, InPlaceKept DEF NoRestore, RefuseRestore, ClearRestore,
      ClearInterrupted, CountAttempt, BeginRollback, SwitchBack, files
<1>5. CASE StageRestore \/ StageRollback
  <2>1. process \in Process /\ ~ In("staged") /\ ~ In("unstaged")
    BY <1>5, InProcess DEF StageRestore, StageRollback, Phases, In
  <2>2. In("staged")' \/ In("unstaged")'
    BY <1>1, <1>5, <2>1 DEF StageRestore, StageRollback, Phases, In
  <2> QED BY <1>5, <2>1, <2>2
      DEF StageRestore, StageRollback, Stage, DatabaseInPlace, StagedIsMissing
<1>6. CASE PlaceRestore \/ PlaceRollback
  <2>1. process \in Process
    BY <1>6, InProcess DEF PlaceRestore, PlaceRollback, Phases
  <2>2. db' # Missing
    <3>1. CASE PlaceRestore
      BY <2>1, <3>1, Constants DEF PlaceRestore, Place, Process, Missing
    <3>2. CASE PlaceRollback
      BY <2>1, <3>2, Markers DEF PlaceRollback, Place, BackupsExist, RollbackReads
    <3> QED BY <1>6, <3>1, <3>2
  <2>3. ~ In("staged")' /\ ~ In("unstaged")'
    BY <1>1, <1>6, <2>1 DEF PlaceRestore, PlaceRollback, Phases, In
  <2> QED BY <2>2, <2>3 DEF DatabaseInPlace, StagedIsMissing
<1>7. CASE RestoreNotPlaced
  <2>1. process \in Process /\ process'.phase = "register"
    BY <1>1, <1>7, InProcess DEF RestoreNotPlaced, Phases
  <2> QED BY <1>7, <2>1 DEF RestoreNotPlaced, PutBack, DatabaseInPlace, StagedIsMissing, In
<1>8. CASE RollbackFails
  <2>1. process' = Down
    BY <1>8 DEF RollbackFails, Die
  <2> QED BY <1>8, <2>1 DEF RollbackFails, PutBack, DatabaseInPlace, StagedIsMissing, In, Down
<1>9. CASE ReadPending
  <2>1. process \in Process /\ process'.phase \in {"open", "decide"}
    BY <1>9, InProcess DEF ReadPending, Process, Phases
  <2> QED BY <1>0, <1>9, <2>1, InPlaceKept DEF ReadPending, In, files
<1>10. CASE RejectStart \/ ClearRolledBack \/ OpenFails \/ Exit \/ Crash
  <2>1. process' = Down
    BY <1>10 DEF RejectStart, ClearRolledBack, OpenFails, Exit, Crash, Die
  <2> QED BY <1>0, <1>10, <2>1, InPlaceKept
      DEF RejectStart, ClearRolledBack, OpenFails, Exit, Crash, In, Down, files
<1>11. CASE Open
  <2>1. process \in Process /\ db' # Missing
    BY <1>11, InProcess, Constants DEF Open, Process, Phases, Missing
  <2>2. process'.phase = "serve"
    BY <1>11, <2>1 DEF Open, Process
  <2> QED BY <2>1, <2>2 DEF DatabaseInPlace, StagedIsMissing, In
<1>12. CASE ScheduleRestore \/ Confirm \/ ClearConfirmed
  <2>1. process \in Process /\ In("serve")
    BY <1>12, InProcess DEF ScheduleRestore, Confirm, ClearConfirmed, Phases
  <2>2. process'.phase = "serve"
    BY <1>12, <2>1 DEF ScheduleRestore, Confirm, ClearConfirmed, Process, In
  <2> QED BY <1>0, <1>12, <2>1, <2>2, InPlaceKept
      DEF ScheduleRestore, Confirm, ClearConfirmed, In, files
<1>13. CASE SwitchRelease
  <2>1. updater # Unlocked
    BY <1>13 DEF SwitchRelease, Unlocked
  <2>2. process' = process \/ (In("serve") /\ process \in Process)
    BY <1>13, <2>1, InProcess DEF SwitchRelease, ServerUpdates, Phases
  <2>3. CASE In("serve") /\ process \in Process
    <3>1. process'.phase = "serve"
      BY <1>13, <2>3 DEF SwitchRelease, Process, In
    <3> QED BY <1>0, <1>13, <2>3, <3>1, InPlaceKept DEF SwitchRelease, In, files
  <2> QED BY <1>2, <1>13, <2>2, <2>3 DEF SwitchRelease, files
<1>14. CASE CliDies
  BY <1>0, <1>14 DEF CliDies, files, DatabaseInPlace, StagedIsMissing, In
<1> QED
  BY <1>2, <1>3, <1>4, <1>5, <1>6, <1>7, <1>8, <1>9, <1>10, <1>11, <1>12, <1>13, <1>14
  DEF Next, Step, StartStep, UpdateStep, vars, state, files, LockUpdate, CheckCandidate, BackUp,
    WritePending, UpdateFails

\* However restores, rollbacks, updates and starts fail, the database is in its place but
\* between the two renames of a restore, and then in the copy, which a failed restore
\* renames back: without a kill no start is left without one (restore, RestoreForRollback).
THEOREM OnlyKillsMisplace == Spec => []DatabaseInPlace
BY BackupInvariance, InPlaceInitially, InPlaceStep, PTL DEF Spec

=============================================================================
