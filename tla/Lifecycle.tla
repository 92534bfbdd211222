------------------------------ MODULE Lifecycle ------------------------------
(***************************************************************************)
(* The server process from start to exit under a supervisor that starts the *)
(* release the link `current` names (cmd/visitortrace/main.go runServe), and *)
(* the files it finds: the database, a pending restore                      *)
(* (internal/backup) and a pending self-update (internal/selfupdate).       *)
(*                                                                          *)
(* A start applies a pending restore, then registers itself with a pending  *)
(* update, which the third start rolls back, then opens and migrates the    *)
(* database, serves, and confirms the update once it is ready.  Updates are *)
(* prepared by the serving process or by the command line.  Each step is    *)
(* one rename or removal that a crash may follow.                           *)
(*                                                                          *)
(* Of a database only its schema matters here.  The workspaces, the pruning *)
(* of old releases and archives, and the age at which an update lock counts *)
(* as abandoned are left out: the lock of a dead updater is free.           *)
(***************************************************************************)
EXTENDS Integers

CONSTANTS
  Releases,     \* releases, numbered in the order of their versions
  SchemaOf,     \* the database schema each release supports
  Broken,       \* releases that exit before they are ready
  Updaters,     \* who prepares updates: "server", "cli"
  Archives,     \* schemas of the archives a restore may name
  MaxCrashes    \* bound: kills and power failures

ASSUME ReleaseAssumption ==
  /\ Releases # {} /\ Releases \subseteq Nat \ {0} /\ Broken \subseteq Releases
  /\ SchemaOf \in [Releases -> Nat \ {0}]
  /\ \A r, s \in Releases : r <= s => SchemaOf[r] <= SchemaOf[s]
  /\ Updaters \subseteq {"server", "cli"}
  /\ Archives \subseteq Nat \ {0} /\ MaxCrashes \in Nat

VARIABLES
  link,             \* releases/current
  db,               \* schema of the database in its place, or Missing
  copy,             \* schema of the database a restore has renamed away
  pendingRestore,   \* .restore-pending.json: schema of its archive, or Missing
  pending,          \* .update-pending.json, or NoUpdate
  process,          \* the server process
  updater,          \* the holder of .self-update.lock
  crashes,
  outrun            \* history: has the link ever been ahead of a command (see Outrun)?

files == <<db, copy, pendingRestore>>
state == <<link, files, pending, process, updater, crashes>>
vars == <<state, outrun>>

Missing == 0
Schemas == {SchemaOf[r] : r \in Releases} \cup Archives
NoUpdate == [target |-> 0]
Update == [target : Releases, previous : Releases, backup : Schemas \cup {Missing},
           attempts : 0 .. 2]

\* `seen` is the pending update as read earlier; `watching` the state of the watcher
\* that confirms it; `restoring` is Server.restoreActive, `leaving` a requested restart.
Phases == {"restore", "staged", "applied", "register", "decide", "undo", "unstaged",
           "unswitched", "undone", "open", "serve"}
Process == [phase : Phases, release : Releases, seen : Update \cup {NoUpdate},
            watching : {"no", "yes", "confirming"}, restoring : BOOLEAN, leaving : BOOLEAN]
Down == [phase |-> "down"]

Unlocked == [step |-> "none"]
Updater == [step : {"locked", "checked", "backed", "pended"}, by : Updaters, update : Update]

Init ==
  /\ link \in Releases \ Broken
  /\ db = SchemaOf[link] /\ copy = Missing /\ pendingRestore = Missing
  /\ pending = NoUpdate
  /\ process = Down /\ updater = Unlocked /\ crashes = 0 /\ outrun = FALSE

In(phase) == process.phase = phase
Enter(phase) == process' = [process EXCEPT !.phase = phase]

\* The process ends and takes the update it was preparing with it.
Die ==
  /\ process' = Down
  /\ updater' = IF updater # Unlocked /\ updater.by = "server" THEN Unlocked ELSE updater

-----------------------------------------------------------------------------
(* Start: the pending restore *)

Start ==
  /\ process = Down
  /\ process' = [phase |-> "restore", release |-> link, seen |-> NoUpdate,
                 watching |-> "no", restoring |-> FALSE, leaving |-> FALSE]
  /\ UNCHANGED <<link, files, pending, updater, crashes>>

\* ApplyPendingRestore finds no state file.
NoRestore ==
  /\ In("restore") /\ pendingRestore = Missing
  /\ Enter("register")
  /\ UNCHANGED <<link, files, pending, updater, crashes>>

\* Mutant: the failed restore is not quarantined.
RefuseRestoreUnquarantined ==
  /\ In("restore") /\ pendingRestore # Missing
  /\ Enter("register")
  /\ UNCHANGED <<link, files, pending, updater, crashes>>

\* The archive is unreadable or damaged, its schema is newer than the release's, or
\* the disk is full: the state file is quarantined and the start goes on.
RefuseRestore ==
  /\ In("restore") /\ pendingRestore # Missing
  /\ pendingRestore' = Missing
  /\ Enter("register")
  /\ UNCHANGED <<link, db, copy, pending, updater, crashes>>

\* restore: the database, if there is one, is renamed away; an older copy goes first.
Stage == copy' = db /\ db' = Missing

\* The extracted database is in place and the copy removed.
Place(schema) == db' = schema /\ copy' = Missing

\* The extracted database could not be renamed: the copy is renamed back.
PutBack == db' = copy /\ copy' = Missing

StageRestore ==
  /\ In("restore") /\ pendingRestore # Missing
  /\ pendingRestore <= SchemaOf[process.release]
  /\ Stage /\ Enter("staged")
  /\ UNCHANGED <<link, pendingRestore, pending, updater, crashes>>

\* It was migrated in the workspace.
PlaceRestore ==
  /\ In("staged")
  /\ Place(SchemaOf[process.release]) /\ Enter("applied")
  /\ UNCHANGED <<link, pendingRestore, pending, updater, crashes>>

RestoreNotPlaced ==
  /\ In("staged")
  /\ PutBack /\ pendingRestore' = Missing /\ Enter("register")
  /\ UNCHANGED <<link, pending, updater, crashes>>

ClearRestore ==
  /\ In("applied")
  /\ pendingRestore' = Missing /\ Enter("register")
  /\ UNCHANGED <<link, db, copy, pending, updater, crashes>>

-----------------------------------------------------------------------------
(* Start: the pending update *)

\* RegisterStartup reads the state file, then the link.
ReadPending ==
  /\ In("register")
  /\ process' = [process EXCEPT !.seen = pending,
                                !.phase = IF pending = NoUpdate THEN "open" ELSE "decide"]
  /\ UNCHANGED <<link, files, pending, updater, crashes>>

Interrupted == link = process.seen.previous
Expected == link = process.seen.target /\ process.release = process.seen.target

LastAttempt == process.seen.attempts + 1 = 3

\* The update was interrupted before the link was switched.
ClearInterrupted ==
  /\ In("decide") /\ Interrupted
  /\ pending' = NoUpdate /\ Enter("open")
  /\ UNCHANGED <<link, files, updater, crashes>>

\* Another release than the pending one was started: serve exits.
RejectStart ==
  /\ In("decide") /\ ~ Interrupted /\ ~ Expected
  /\ Die
  /\ UNCHANGED <<link, files, pending, crashes>>

\* Mutant: the attempt is not written.
ForgetAttempt ==
  /\ In("decide") /\ ~ Interrupted /\ Expected /\ ~ LastAttempt
  /\ Enter("open")
  /\ UNCHANGED <<link, files, pending, updater, crashes>>

CountAttempt ==
  /\ In("decide") /\ ~ Interrupted /\ Expected /\ ~ LastAttempt
  /\ pending' = [process.seen EXCEPT !.attempts = @ + 1]
  /\ Enter("open")
  /\ UNCHANGED <<link, files, updater, crashes>>

\* Mutant: the link is switched back before the database.
BeginRollbackLinkFirst ==
  /\ In("decide") /\ ~ Interrupted /\ Expected /\ LastAttempt
  /\ Enter("undo")
  /\ link' = process.seen.previous
  /\ UNCHANGED <<files, pending, updater, crashes>>

BeginRollback ==
  /\ In("decide") /\ ~ Interrupted /\ Expected /\ LastAttempt
  /\ Enter("undo")
  /\ UNCHANGED <<link, files, pending, updater, crashes>>

\* RestoreForRollback: no migration.
StageRollback ==
  /\ In("undo")
  /\ Stage /\ Enter("unstaged")
  /\ UNCHANGED <<link, pendingRestore, pending, updater, crashes>>

\* Mutant: Restore, which migrates.
PlaceRollbackMigrated ==
  /\ In("unstaged")
  /\ Place(SchemaOf[process.release]) /\ Enter("unswitched")
  /\ UNCHANGED <<link, pendingRestore, pending, updater, crashes>>

PlaceRollback ==
  /\ In("unstaged")
  /\ Place(process.seen.backup) /\ Enter("unswitched")
  /\ UNCHANGED <<link, pendingRestore, pending, updater, crashes>>

\* The archive cannot be extracted, or the database not renamed: serve exits, and the
\* next start tries again.
RollbackFails ==
  /\ \/ In("undo") /\ UNCHANGED <<db, copy>>
     \/ In("unstaged") /\ PutBack
  /\ Die
  /\ UNCHANGED <<link, pendingRestore, pending, crashes>>

SwitchBack ==
  /\ In("unswitched")
  /\ link' = process.seen.previous /\ Enter("undone")
  /\ UNCHANGED <<files, pending, updater, crashes>>

\* The state file goes and serve exits, to be started as the previous release.
ClearRolledBack ==
  /\ In("undone")
  /\ pending' = NoUpdate /\ Die
  /\ UNCHANGED <<link, files, crashes>>

-----------------------------------------------------------------------------
(* Serving *)

\* OpenExisting, Migrate and HasPending of the watcher.
Open ==
  /\ In("open")
  /\ db # Missing /\ db <= SchemaOf[process.release]
  /\ db' = SchemaOf[process.release]
  /\ process' = [process EXCEPT !.phase = "serve",
                                !.watching = IF pending = NoUpdate THEN "no" ELSE "yes"]
  /\ UNCHANGED <<link, copy, pendingRestore, pending, updater, crashes>>

\* No database, a newer schema, or any other error before the listener is up.
OpenFails ==
  /\ In("open")
  /\ Die
  /\ UNCHANGED <<link, files, pending, crashes>>

\* The administrator restores an archive: restoreActive keeps a second one out until
\* the requested restart.
ScheduleRestore ==
  /\ In("serve") /\ ~ process.restoring /\ pendingRestore = Missing
  /\ \E archive \in Archives : pendingRestore' = archive
  /\ process' = [process EXCEPT !.restoring = TRUE, !.leaving = TRUE]
  /\ UNCHANGED <<link, db, copy, pending, updater, crashes>>

\* The watcher sees the process ready and reads the state file (CompletePending).
Confirm ==
  /\ In("serve") /\ process.watching = "yes" /\ process.release \notin Broken
  /\ process' = [process EXCEPT !.watching = IF pending = NoUpdate THEN "no" ELSE "confirming"]
  /\ UNCHANGED <<link, files, pending, updater, crashes>>

\* It removes the file, whichever update it is of by now.
ClearConfirmed ==
  /\ In("serve") /\ process.watching = "confirming"
  /\ pending' = NoUpdate
  /\ process' = [process EXCEPT !.watching = "no"]
  /\ UNCHANGED <<link, files, updater, crashes>>

\* A requested restart, a stop by the operator, or an error.
Exit ==
  /\ In("serve")
  /\ Die
  /\ UNCHANGED <<link, files, pending, crashes>>

Crash ==
  /\ process # Down /\ crashes < MaxCrashes
  /\ Die /\ crashes' = crashes + 1
  /\ UNCHANGED <<link, files, pending>>

-----------------------------------------------------------------------------
(* Updates *)

\* An updater is of one release: the one that serves, or any whose command was started on
\* a database of its own schema (SchemaReady), which a start may have migrated since.
OwnReleases(by) ==
  IF by = "server" THEN {process.release} ELSE {r \in Releases : SchemaOf[r] <= db}

\* checkManifest: the signed release is newer than the updater.  Nobody compares it with
\* the link, which another updater may have taken further.
OnOffer(by, target) == \E own \in OwnReleases(by) : target > own

\* prepareAndActivate takes the lock, compares schemas and reads the link.
LockUpdate(by, target) ==
  /\ updater = Unlocked
  /\ by = "server" => In("serve")
  /\ db # Missing
  /\ OnOffer(by, target) /\ SchemaOf[target] >= db
  /\ updater' = [step |-> "locked", by |-> by, update |->
       [target |-> target, previous |-> link, backup |-> Missing, attempts |-> 0]]
  /\ UNCHANGED <<link, files, pending, process, crashes>>

\* The candidate is installed; its doctor must be able to migrate the database.
CheckCandidate ==
  /\ updater.step = "locked"
  /\ db # Missing /\ db <= SchemaOf[updater.update.target]
  /\ updater' = [updater EXCEPT !.step = "checked"]
  /\ UNCHANGED <<link, files, pending, process, crashes>>

\* The database is backed up.
BackUp ==
  /\ updater.step = "checked" /\ db # Missing
  /\ updater' = [updater EXCEPT !.step = "backed", !.update.backup = db]
  /\ UNCHANGED <<link, files, pending, process, crashes>>

WritePending ==
  /\ updater.step = "backed"
  /\ pending' = updater.update
  /\ updater' = [updater EXCEPT !.step = "pended"]
  /\ UNCHANGED <<link, files, process, crashes>>

\* The link is switched.  The server's handler requests a restart; the command line
\* asks the operator for one.
SwitchRelease ==
  /\ updater.step = "pended"
  /\ link' = updater.update.target
  /\ updater' = Unlocked
  /\ process' = IF updater.by = "server" THEN [process EXCEPT !.leaving = TRUE] ELSE process
  /\ UNCHANGED <<files, pending, crashes>>

\* An error releases the lock; when the link cannot be switched the state file goes.
UpdateFails ==
  /\ updater # Unlocked
  /\ updater' = Unlocked
  /\ pending' = IF updater.step = "pended" THEN NoUpdate ELSE pending
  /\ UNCHANGED <<link, files, process, crashes>>

\* The command is killed.
CliDies ==
  /\ updater # Unlocked /\ updater.by = "cli" /\ crashes < MaxCrashes
  /\ updater' = Unlocked /\ crashes' = crashes + 1
  /\ UNCHANGED <<link, files, pending, process>>

-----------------------------------------------------------------------------

StartStep ==
  \/ Start \/ NoRestore \/ RefuseRestore \/ StageRestore \/ PlaceRestore
  \/ RestoreNotPlaced \/ ClearRestore
  \/ ReadPending \/ ClearInterrupted \/ RejectStart \/ CountAttempt
  \/ BeginRollback \/ StageRollback \/ PlaceRollback \/ RollbackFails
  \/ SwitchBack \/ ClearRolledBack
  \/ Open \/ OpenFails

UpdateStep == CheckCandidate \/ BackUp \/ WritePending \/ SwitchRelease \/ UpdateFails

\* While a command prepares its update, the link is ahead of the release it has read, or
\* of the one it is going to link: an updater that was started as an older release takes
\* an older one for new, or a rollback of such an update has put the link forward again.
Outrun ==
  /\ updater # Unlocked /\ updater.by = "cli"
  /\ link > updater.update.previous \/ link > updater.update.target

Step ==
  \/ StartStep
  \/ ScheduleRestore \/ Confirm \/ ClearConfirmed \/ Exit \/ Crash
  \/ \E by \in Updaters, target \in Releases : LockUpdate(by, target)
  \/ UpdateStep \/ CliDies

Next == Step /\ outrun' = (outrun \/ Outrun')

Spec == Init /\ [][Next]_vars

\* The supervisor starts the process again and again (Restart=always), which goes on
\* until it serves; a ready process confirms; a requested restart happens, a broken
\* release exits.  A sound archive and disk let a rollback succeed sooner or later.
FairSpec ==
  /\ Spec
  /\ WF_state(StartStep) /\ WF_state(UpdateStep) /\ WF_state(Confirm) /\ WF_state(ClearConfirmed)
  /\ SF_state(StageRollback) /\ SF_state(PlaceRollback)
  /\ WF_state(Exit /\ (process.leaving \/ process.release \in Broken))

-----------------------------------------------------------------------------
(* Properties *)

TypeOK ==
  /\ link \in Releases
  /\ {db, copy, pendingRestore} \subseteq Schemas \cup {Missing}
  /\ pending \in Update \cup {NoUpdate}
  /\ process \in Process \cup {Down}
  /\ updater \in Updater \cup {Unlocked}
  /\ crashes \in 0 .. MaxCrashes
  /\ outrun \in BOOLEAN

\* The release that the supervisor will start can open the database that is there:
\* no crash in an update, a rollback or a restore leaves a release before a database
\* that a later one has migrated (RegisterStartup restores, then switches the link).  This
\* holds of updates that lead back, too, when the serving process has prepared them; it
\* is not claimed once the link was ahead of a command that prepared an update.
DatabaseFitsRelease == ~ outrun /\ db # Missing => db <= SchemaOf[link]

\* A restore happens at the next start or never: no start leaves an older restore
\* pending, which would undo what has been recorded in between.
RestoreIsConsumed == In("serve") /\ ~ process.restoring => pendingRestore = Missing

\* But for a command that the link has outrun, the link goes back in two ways only: in a
\* rollback, to the release that the update replaced, and by an update of the serving
\* process, whose link is ahead of it, to a release that is newer than the process.
\* Either way the release that it goes back to can open the database, which is in its
\* place with no copy left over (RegisterStartup, prepareAndActivate).
GoesBackRestored ==
  [][link' < link /\ ~ outrun' =>
       /\ \/ In("unswitched") /\ link' = process.seen.previous
          \/ /\ In("serve") /\ updater # Unlocked /\ updater.by = "server"
             /\ link' = updater.update.target /\ link' > process.release
       /\ db # Missing /\ db <= SchemaOf[link'] /\ copy = Missing]_vars

\* However restores, rollbacks, updates and starts fail, the database is in its place but
\* between the two renames of a restore, where the copy holds it: as long as the copy can
\* be renamed back, only a kill leaves a start without one (restore, RestoreForRollback).
DatabaseInPlace ==
  crashes = 0 /\ db = Missing => (In("staged") \/ In("unstaged")) /\ copy # Missing

\* The state file names neither the release that is linked nor its predecessor: a start
\* that counted its attempt wrote over the file of an update from the command line.
\* Every later start is rejected.
Overtaken == link \notin {pending.target, pending.previous}

\* A process that was there before the update serves: it confirms nothing, and the
\* update waits for a restart.
AwaitsRestart == In("serve") /\ process.watching = "no"

\* Nobody updates any more.
UpdatesCease == <>[](updater = Unlocked)

\* The last pending update is confirmed, rolled back or cleared as interrupted: no run of
\* crashes, failed rollbacks and restarts keeps it pending for ever, except when the
\* command line has overtaken a start or nobody restarts the process.
UpdateIsDecided ==
  UpdatesCease => (pending # NoUpdate ~> pending = NoUpdate \/ Overtaken \/ AwaitsRestart)

\* "release schema %d is older than database schema %d": an update to such a release is
\* refused (prepareAndActivate), so that the linked release can open the database.
SchemaGuardHolds == db # Missing => db <= SchemaOf[link]

\* "Three failed readiness startups restore the pre-update database and switch back to
\* the prior release": a release that does not start ...
BrokenIsRolledBack == (link \in Broken) ~> (link \notin Broken)

\* ... and one whose every start is rejected (RegisterStartup).
RejectedIsRolledBack ==
  LET Rejected == pending # NoUpdate /\ Overtaken
  IN  UpdatesCease => (Rejected ~> ~ Rejected)

-----------------------------------------------------------------------------
(* The inductive invariant of LifecycleProofs, in named parts *)

\* The backup of an update fits the release it would go back to, and the one it is of.
Sound(update) ==
  /\ update.backup <= SchemaOf[update.previous]
  /\ update.backup <= SchemaOf[update.target]

UpdatesSound ==
  /\ pending # NoUpdate => Sound(pending)
  /\ process # Down /\ process.seen # NoUpdate => Sound(process.seen)
  /\ updater # Unlocked => Sound(updater.update)

\* The server prepares releases newer than its own, and only while it serves.
ServerUpdates ==
  updater # Unlocked /\ updater.by = "server" =>
    In("serve") /\ process.release < updater.update.target

\* An updater has seen the link where it is or later.
UpdaterAhead ==
  updater # Unlocked =>
    /\ link <= updater.update.previous
    /\ updater.by = "cli" => link <= updater.update.target

\* The process is of the linked release or an older one, until it has switched back.
ProcessBehind == process # Down /\ ~ In("undone") => process.release <= link

DatabasesFit == db <= SchemaOf[link] /\ copy <= SchemaOf[link]

\* A serving process has migrated the database.  There is no copy beside a database.
DatabaseServed ==
  /\ In("serve") => db = SchemaOf[process.release]
  /\ db = Missing \/ copy = Missing

RollbackReads ==
  In("decide") \/ In("undo") \/ In("unstaged") \/ In("unswitched") => process.seen # NoUpdate

RollbackFits ==
  /\ In("undo") \/ In("unstaged") \/ In("unswitched") => process.seen.target <= link
  /\ In("unswitched") => copy = Missing /\ db <= SchemaOf[process.seen.previous]

\* What holds of every behaviour, and what an outrun command may break.
Shape == TypeOK /\ ServerUpdates /\ DatabaseServed /\ RollbackReads
Order == UpdatesSound /\ UpdaterAhead /\ ProcessBehind /\ DatabasesFit /\ RollbackFits

IInv == Shape /\ (~ outrun => Order)

\* What a rollback would put in place is a database.
BackupsExist ==
  /\ pending # NoUpdate => pending.backup # Missing
  /\ process # Down /\ process.seen # NoUpdate => process.seen.backup # Missing
  /\ updater # Unlocked /\ updater.step \notin {"locked", "checked"} =>
       updater.update.backup # Missing
  /\ In("unswitched") => db # Missing

\* Between the two renames of a restore there is no database in its place.
StagedIsMissing == In("staged") \/ In("unstaged") => db = Missing

=============================================================================
