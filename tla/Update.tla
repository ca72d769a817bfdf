------------------------------- MODULE Update -------------------------------
(***************************************************************************)
(* The update of an installed copy: the app unpacks a verified release     *)
(* into staged\, backs its database up and leaves a marker                 *)
(* (services/update.py); the launcher, a process of its own, stops the app,*)
(* swaps the directories, migrates the database, starts the new code and   *)
(* waits for it to answer, or puts directories and database back           *)
(* (launcher/swap.py, launcher/__main__.py).                               *)
(*                                                                         *)
(* Every release brings a migration: its schema is its number.  A failure  *)
(* of the operating system in any step, a release that does not migrate or *)
(* does not answer, and a power cut between any two steps are actions.     *)
(***************************************************************************)
EXTENDS Integers, FiniteSets, FiniteSetsExt

CONSTANTS
    MaxVersion,       \* bound: releases 1..MaxVersion, 1 is installed
    MaxRows,          \* bound: rows written by the operator
    Kinds,            \* the faults that may happen: "cut", "undo", "click"
    MaxFaults,        \* bound: faults
    Good,             \* releases that migrate and answer; of the others
                      \* none serves a click
    Request,          \* clicks on the update button handled at the same time
    Nothing,          \* no directory, no process, no marker
    Partial           \* a directory with some of its files

Version == 1..MaxVersion

ASSUME Bounds == {MaxVersion, MaxRows, MaxFaults} \subseteq Nat /\ MaxVersion > 0
ASSUME Releases == Good \subseteq Version /\ 1 \in Good
ASSUME Values == Nothing # Partial /\ {Nothing, Partial} \cap Version = {}
ASSUME Faults == Kinds \subseteq {"cut", "undo", "click"}

VARIABLES
    dir,        \* what app, app.prev, staged and app.failed hold
    db,         \* the database: its schema, its rows, whether it is whole
    marker,     \* data\pending.json
    proc,       \* the code the launcher's own child process runs
    orphan,     \* the code a process runs whose handle the launcher lost
    launcher,   \* its step, the marker it read, what apply_update has done
    request,    \* the app's side: update.apply, by request
    faults      \* power cuts, steps of the undo (putting the marker aside
                \* among them) that failed, and clicks during an update, so far

vars == <<dir, db, marker, proc, orphan, launcher, request, faults>>

Running == {proc, orphan} \ {Nothing}

(* A fault of some kind happens, or none does.                             *)
Fault(kind) ==
    /\ kind \in Kinds
    /\ faults["cut"] + faults["undo"] + faults["click"] < MaxFaults
    /\ faults' = [faults EXCEPT ![kind] = @ + 1]
NoFault == UNCHANGED faults

(* The port is taken once: a second process that starts exits again.       *)
Serving == IF orphan # Nothing THEN orphan ELSE proc

(* Windows does not rename or remove a directory a process runs from.      *)
Locked == Running # {}

Idle == [step |-> "idle", release |-> Nothing, whole |-> FALSE, backup |-> Nothing]
Watching == [step |-> "watch", pending |-> Nothing, did |-> {}, stopped |-> FALSE]

At(step) == launcher.step = step
Goes(step) == launcher' = [launcher EXCEPT !.step = step]
Did(what, step) ==
    launcher' = [launcher EXCEPT !.step = step, !.did = @ \cup what]

Init ==
    /\ dir = [app |-> 1, prev |-> Nothing, staged |-> Nothing, failed |-> Nothing]
    /\ db = [schema |-> 1, rows |-> 0, whole |-> TRUE]
    /\ marker = Nothing
    /\ proc = Nothing /\ orphan = Nothing
    /\ launcher = [Watching EXCEPT !.step = "off"]
    /\ request = [r \in Request |-> Idle]
    /\ faults = [kind \in {"cut", "undo", "click"} |-> 0]

-----------------------------------------------------------------------------
(* The app, while a process serves *)

(* The operator works. *)
WriteRow ==
    /\ Serving \in Good /\ db.whole
    /\ db.rows < MaxRows
    /\ db' = [db EXCEPT !.rows = @ + 1]
    /\ UNCHANGED <<dir, marker, proc, orphan, launcher, request, faults>>

(* apply: a verified release that is newer than the serving code; an old   *)
(* staged\ is removed, also under a request that is still unpacking.       *)
ApplyUnpacks(r, v) ==
    /\ Serving \in Good /\ v > Serving
    /\ request[r].step = "idle"
    /\ IF marker = Nothing /\ At("watch") /\ \A s \in Request : request[s] = Idle
       THEN NoFault ELSE Fault("click")
    /\ dir' = [dir EXCEPT !.staged = Partial]
    /\ request' = [s \in Request |->
          IF s = r THEN [Idle EXCEPT !.step = "unpack", !.release = v, !.whole = TRUE]
          ELSE [request[s] EXCEPT !.whole = FALSE]]
    /\ UNCHANGED <<db, marker, proc, orphan, launcher>>

ApplyBacksUp(r) ==
    /\ Serving # Nothing
    /\ request[r].step = "unpack"
    /\ dir' = [dir EXCEPT !.staged = IF request[r].whole THEN request[r].release ELSE @]
    /\ request' = [request EXCEPT ![r].step = "mark", ![r].backup = db]
    /\ UNCHANGED <<db, marker, proc, orphan, launcher, faults>>

(* stage_pending *)
ApplyMarks(r) ==
    /\ Serving # Nothing
    /\ request[r].step = "mark"
    /\ marker' = [version |-> request[r].release, backup |-> request[r].backup]
    /\ request' = [request EXCEPT ![r] = Idle]
    /\ UNCHANGED <<dir, db, proc, orphan, launcher, faults>>

-----------------------------------------------------------------------------
(* Processes and migrations *)

(* Requests die with the process that serves them. *)
RequestsDie == request' = [r \in Request |-> Idle]

(* Popen: needs python.exe in app\. *)
CanStart == dir.app # Nothing
Started == IF orphan # Nothing THEN Nothing ELSE dir.app

(* alembic upgrade head with the code in app\: code older than the schema  *)
(* does not know the revision it finds.                                    *)
Migrates ==
    \/ /\ dir.app \in Good /\ db.whole
       /\ db.schema <= dir.app
       /\ db' = [db EXCEPT !.schema = dir.app]
    \/ /\ dir.app \in (Version \ Good) \cup {Partial} /\ db.whole
       /\ \E s \in Version : s >= db.schema /\ db' = [db EXCEPT !.schema = s]

(* A failed upgrade may have run some of its migrations. *)
MigrationFails ==
    \/ db' = db
    \/ /\ dir.app # Nothing /\ db.whole
       /\ \E s \in Version :
             /\ s > db.schema
             /\ dir.app \in Version => s <= dir.app
             /\ db' = [db EXCEPT !.schema = s]

(* boot: migrate, then start; a failure ends the launcher. *)
Boot ==
    /\ At("off")
    /\ Migrates /\ CanStart
    /\ proc' = Started
    /\ launcher' = Watching
    /\ UNCHANGED <<dir, marker, orphan, request, faults>>

(* The window is closed while nothing is under way. *)
Quit ==
    /\ At("watch")
    /\ proc' = Nothing
    /\ launcher' = [Watching EXCEPT !.step = "off"]
    /\ IF orphan = Nothing THEN RequestsDie ELSE UNCHANGED request
    /\ UNCHANGED <<dir, db, marker, orphan, faults>>

-----------------------------------------------------------------------------
(* run_once and apply_update *)

(* _quarantine_marker: a rename that fails is not noticed, and the next    *)
(* tick reads the marker again.                                            *)
PutsAside ==
    \/ marker' = Nothing /\ NoFault
    \/ UNCHANGED marker /\ Fault("undo")

(* A marker without staged\ is put aside. *)
Refuse ==
    /\ At("watch") /\ marker # Nothing /\ dir.staged = Nothing
    /\ PutsAside
    /\ UNCHANGED <<dir, db, proc, orphan, launcher, request>>

Begin ==
    /\ At("watch") /\ marker # Nothing /\ dir.staged # Nothing
    /\ launcher' = [Watching EXCEPT !.step = "stop", !.pending = marker]
    /\ UNCHANGED <<dir, db, marker, proc, orphan, request, faults>>

(* AppProcess.stop: a terminate that raises keeps the handle, a wait that  *)
(* raises drops it, although the process may go on.                        *)
StopOk ==
    /\ proc' = Nothing
    /\ IF orphan = Nothing THEN RequestsDie ELSE UNCHANGED request
    /\ UNCHANGED orphan
StopFails ==
    /\ proc # Nothing
    /\ \/ UNCHANGED <<proc, orphan>>
       \/ orphan' = proc /\ proc' = Nothing
    /\ UNCHANGED request

Stop ==
    /\ At("stop")
    /\ \/ StopOk /\ Goes("clear")
       \/ StopFails /\ Goes("undo")
    /\ UNCHANGED <<dir, db, marker, faults>>

(* rmtree with ignore_errors *)
Clear ==
    /\ At("clear")
    /\ \E left \in {Nothing} \cup (IF dir.prev = Nothing THEN {} ELSE {Partial}) :
          dir' = [dir EXCEPT !.prev = left]
    /\ Goes("keep")
    /\ UNCHANGED <<db, marker, proc, orphan, request, faults>>

KeepOld ==
    /\ At("keep")
    /\ \/ /\ dir.app # Nothing /\ dir.prev = Nothing /\ ~Locked
          /\ dir' = [dir EXCEPT !.prev = dir.app, !.app = Nothing]
          /\ Did({"kept"}, "swap")
       \/ Goes("undo") /\ UNCHANGED dir
    /\ UNCHANGED <<db, marker, proc, orphan, request, faults>>

(* Mutant: migrate_attempted is never set. *)
SwapInUnmarked ==
    /\ At("swap")
    /\ \/ /\ dir.staged # Nothing
          /\ dir' = [dir EXCEPT !.app = dir.staged, !.staged = Nothing]
          /\ Did({"swapped"}, "migrate")
       \/ Goes("undo") /\ UNCHANGED dir
    /\ UNCHANGED <<db, marker, proc, orphan, request, faults>>

(* Mutant: the old code is removed as soon as the new one is in its place. *)
SwapInDropsOld ==
    /\ At("swap")
    /\ \/ /\ dir.staged # Nothing
          /\ dir' = [dir EXCEPT !.app = dir.staged, !.staged = Nothing, !.prev = Nothing]
          /\ Did({"swapped", "migrated"}, "migrate")
       \/ Goes("undo") /\ UNCHANGED dir
    /\ UNCHANGED <<db, marker, proc, orphan, request, faults>>

(* migrate_attempted is set before migrate runs. *)
SwapIn ==
    /\ At("swap")
    /\ \/ /\ dir.staged # Nothing
          /\ dir' = [dir EXCEPT !.app = dir.staged, !.staged = Nothing]
          /\ Did({"swapped", "migrated"}, "migrate")
       \/ Goes("undo") /\ UNCHANGED dir
    /\ UNCHANGED <<db, marker, proc, orphan, request, faults>>

Migrate ==
    /\ At("migrate")
    /\ \/ Migrates /\ Goes("start")
       \/ MigrationFails /\ Goes("undo")
    /\ UNCHANGED <<dir, marker, proc, orphan, request, faults>>

Start ==
    /\ At("start")
    /\ \/ CanStart /\ proc' = Started /\ Goes("health")
       \/ UNCHANGED proc /\ Goes("undo")
    /\ UNCHANGED <<dir, db, marker, orphan, request, faults>>

(* Mutant: any answer will do. *)
HealthyAny == Serving \in Good \cup {Partial}

(* /health has to answer with the version the marker expects. *)
Healthy ==
    \/ Serving \in Good /\ Serving = launcher.pending.version
    \/ Serving = Partial

Health ==
    /\ At("health")
    /\ \/ Healthy /\ Goes("done")
       \/ Goes("undo")
    /\ UNCHANGED <<dir, db, marker, proc, orphan, request, faults>>

(* rmtree of app.prev, then the marker. *)
Finish ==
    /\ At("done")
    /\ \E left \in {Nothing, Partial} : dir' = [dir EXCEPT !.prev = left]
    /\ marker' = Nothing
    /\ launcher' = Watching
    /\ UNCHANGED <<db, proc, orphan, request, faults>>

-----------------------------------------------------------------------------
(* The undo of apply_update: only what was done, each step on its own.     *)
UndoStop ==
    /\ At("undo")
    /\ \/ /\ StopOk /\ NoFault
          /\ launcher' = [launcher EXCEPT !.step = "park", !.stopped = TRUE]
       \/ /\ StopFails /\ Fault("undo")
          /\ Goes("park")
    /\ UNCHANGED <<dir, db, marker>>

(* The new code goes to app.failed; if that cannot be, it is removed, and  *)
(* what cannot be removed stays.                                           *)
Park ==
    /\ At("park")
    /\ IF "swapped" \in launcher.did
       THEN \/ /\ ~Locked /\ NoFault
               /\ dir' = [dir EXCEPT !.failed = dir.app, !.app = Nothing]
            \/ /\ IF Locked THEN NoFault ELSE Fault("undo")
               /\ \E left \in {Nothing, Partial}, f \in {Nothing, Partial} :
                     /\ Locked => left = Partial
                     /\ dir' = [dir EXCEPT !.app = left, !.failed = f]
       ELSE UNCHANGED dir /\ NoFault
    /\ Goes("unkeep")
    /\ UNCHANGED <<db, marker, proc, orphan, request>>

PutBack ==
    /\ At("unkeep")
    /\ IF "kept" \in launcher.did /\ dir.app = Nothing
       THEN \/ dir' = [dir EXCEPT !.app = dir.prev, !.prev = Nothing] /\ NoFault
            \/ UNCHANGED dir /\ Fault("undo")
       ELSE UNCHANGED dir /\ NoFault
    /\ Goes("restore")
    /\ UNCHANGED <<db, marker, proc, orphan, request>>

(* Mutant: the database is put back under a process that may still run.    *)
RestoreAlways ==
    /\ At("restore")
    /\ \/ "migrated" \in launcher.did /\ db' = launcher.pending.backup
       \/ "migrated" \notin launcher.did /\ UNCHANGED db
    /\ Goes("restart")
    /\ UNCHANGED <<dir, marker, proc, orphan, request, faults>>

RestoreDb ==
    /\ At("restore")
    /\ IF "migrated" \in launcher.did /\ launcher.stopped
       THEN \/ db' = launcher.pending.backup /\ NoFault
            \/ db' \in {db, [db EXCEPT !.whole = FALSE]} /\ Fault("undo")
       ELSE UNCHANGED db /\ NoFault
    /\ Goes("restart")
    /\ UNCHANGED <<dir, marker, proc, orphan, request>>

(* start_app in the undo: the handle of a process that could not be        *)
(* stopped gives way to that of a new one, which finds the port taken.     *)
StartsOver ==
    /\ CanStart
    /\ IF proc = Nothing THEN proc' = Started /\ UNCHANGED orphan
       ELSE proc' = Nothing /\ orphan' = proc

(* The app that was running before starts again, if it can.                *)
StartsAgain ==
    \/ StartsOver /\ NoFault
    \/ UNCHANGED <<proc, orphan>> /\ IF CanStart THEN Fault("undo") ELSE NoFault

(* Mutant: the failed marker stays.                                        *)
RestartKeepsMarker ==
    /\ At("restart")
    /\ StartsAgain
    /\ launcher' = Watching
    /\ UNCHANGED <<dir, db, marker, request>>

(* The failed marker is put aside, or that fails as well.                  *)
Restart ==
    /\ At("restart")
    /\ \/ StartsAgain /\ marker' = Nothing
       \/ /\ StartsOver \/ UNCHANGED <<proc, orphan>>
          /\ UNCHANGED marker /\ Fault("undo")
    /\ launcher' = Watching
    /\ UNCHANGED <<dir, db, request>>

-----------------------------------------------------------------------------
(* Power fails: every process ends, a copy or a migration under way stops. *)
PowerCut ==
    /\ ~At("off") /\ Fault("cut")
    /\ proc' = Nothing /\ orphan' = Nothing
    /\ RequestsDie
    /\ launcher' = [Watching EXCEPT !.step = "off"]
    /\ \/ UNCHANGED db
       \/ At("migrate") /\ MigrationFails
       \/ /\ At("restore") /\ "migrated" \in launcher.did /\ launcher.stopped
          /\ db' = [db EXCEPT !.whole = FALSE]
    /\ UNCHANGED <<dir, marker>>

Cycle ==
    \/ Refuse \/ Begin \/ Stop \/ Clear \/ KeepOld \/ SwapIn \/ Migrate \/ Start
    \/ Health \/ Finish
    \/ UndoStop \/ Park \/ PutBack \/ RestoreDb \/ Restart

Next ==
    \/ Boot \/ Quit \/ PowerCut \/ WriteRow \/ Cycle
    \/ \E r \in Request :
          \/ \E v \in Version : ApplyUnpacks(r, v)
          \/ ApplyBacksUp(r)
          \/ ApplyMarks(r)

Spec == Init /\ [][Next]_vars

(* The watch loop goes on as long as the launcher runs. *)
FairSpec == Spec /\ WF_vars(Cycle)

-----------------------------------------------------------------------------
(* Properties *)
Snapshot == [schema: Version, rows: 0..MaxRows, whole: BOOLEAN]
Code == Version \cup {Nothing, Partial}
Order == [version: Version, backup: Snapshot]
Marker == Order \cup {Nothing}
Steps == {"off", "watch", "stop", "clear", "keep", "swap", "migrate", "start",
          "health", "done", "undo", "park", "unkeep", "restore", "restart"}

(* Every variable has its type; a marker always names a release and a      *)
(* complete copy of the database (stage_pending).                          *)
TypeOK ==
    /\ dir \in [app: Code, prev: Code, staged: Code, failed: Code]
    /\ db \in Snapshot
    /\ marker \in Marker
    /\ proc \in Code /\ orphan \in Code
    /\ launcher \in [step: Steps, pending: Marker, stopped: BOOLEAN,
                     did: SUBSET {"kept", "swapped", "migrated"}]
    /\ request \in [Request -> [step: {"idle", "unpack", "mark"}, release: Code,
                                whole: BOOLEAN, backup: Snapshot \cup {Nothing}]]
    /\ faults \in [{"cut", "undo", "click"} -> 0..MaxFaults]

(* "Code and DB revert together" (launcher/swap.py): when the launcher is  *)
(* back at its watch, app\ holds a whole release and the schema is that of *)
(* the code, unless there was a power cut, an undo step that failed or a   *)
(* second click.  Every variable has its type.                             *)
MatchedPair ==
    /\ TypeOK
    /\ At("watch") /\ (\A kind \in DOMAIN faults : faults[kind] = 0) =>
          dir.app \in Version /\ db.whole /\ db.schema = dir.app

(* "leaving the present-but-bad app\ beats deleting the operator's only    *)
(* runnable copy" (launcher/swap.py): after a cycle app\ holds a release   *)
(* with all of its files.                                                  *)
AppComplete == At("watch") => dir.app \in Version

(* What is installed can be started again: with the power cut anywhere,    *)
(* app\ is there to boot.                                                  *)
Bootable == At("off") => dir.app # Nothing

(* A release that works is never lost: wherever the power is cut, app\ or  *)
(* app.prev\ holds one with all of its files, unless an undo step failed   *)
(* too or a second click came in between.                                  *)
CodeSurvives ==
    faults["undo"] + faults["click"] = 0 => {dir.app, dir.prev} \cap Good # {}

(* The database file is replaced only when no process has it open.         *)
RestoreOffline ==
    [][At("restore") /\ At("restart")' /\ db' # db => Running = {}]_vars

(* A cycle that fails before the migration costs the operator no row.      *)
EarlyFailureKeepsRows ==
    [][db'.rows < db.rows => {"swapped", "migrated"} \subseteq launcher.did]_vars

(* The undo neither tears the database nor loses rows it need not lose.     *)
UndoSparesRows == RestoreOffline /\ EarlyFailureKeepsRows

(* After a successful cycle no other release serves than the marker's,     *)
(* also if a second click replaced staged\ in the meantime.                *)
SuccessServes ==
    [][At("done") /\ At("watch")' =>
          Serving \in {launcher.pending.version, Partial}]_vars

(* "The marker is ALWAYS consumed" (launcher/__main__.py): a marker does   *)
(* not stay while the launcher runs.                                       *)
MarkerConsumed == marker # Nothing ~> (marker = Nothing \/ At("off"))
=============================================================================
