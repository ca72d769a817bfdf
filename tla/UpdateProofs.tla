---------------------------- MODULE UpdateProofs ----------------------------
(***************************************************************************)
(* Proofs about the update, for every number of releases, faults, clicks   *)
(* and rows, and whichever releases work.                                  *)
(*                                                                         *)
(* The inductive invariant grows as fewer faults are admitted: the types   *)
(* and what the launcher knows of its processes hold always; what a click  *)
(* leaves in staged\ holds as long as no second click came; that the code  *)
(* which runs is the code in app\, as long as no undo step failed; that a  *)
(* working release is kept needs both; that code and database match needs  *)
(* that nothing failed at all.                                             *)
(***************************************************************************)
EXTENDS Update, TLAPS

All == {"kept", "swapped", "migrated"}
Forward == {"swap", "migrate", "start", "health", "done"}
Undoing == {"undo", "park", "unkeep", "restore", "restart"}
Early == {"off", "watch", "stop", "clear", "keep"}

(* An undo knows how far the update came.                                  *)
DidInv ==
    /\ launcher.did \in {{}, {"kept"}, All}
    /\ launcher.step \in Early => launcher.did = {}
    /\ At("swap") => launcher.did = {"kept"}
    /\ launcher.step \in Forward \ {"swap"} => launcher.did = All
    /\ launcher.stopped => launcher.step \in Undoing \ {"undo"}

(* app\ was renamed only when no process ran from it, and no other process *)
(* than the launcher's own child was started since.                        *)
ProcInv ==
    /\ launcher.step \in {"off", "clear", "keep", "swap", "migrate", "start"}
          => proc = Nothing
    /\ launcher.step \in {"park", "unkeep", "restore", "restart"}
       /\ launcher.stopped => proc = Nothing
    /\ launcher.step \in Forward \cup {"undo"} /\ launcher.did # {}
          => orphan = Nothing
    /\ launcher.step \in {"park", "unkeep", "restore"}
       /\ launcher.stopped /\ launcher.did # {} => orphan = Nothing

(* What a click knows and leaves.                                          *)
OrderInv ==
    /\ launcher.step \in (Forward \cup Undoing \cup Early) \ {"off", "watch"}
          => launcher.pending \in Order
    /\ \A r \in Request :
          /\ request[r].step # "idle" => request[r].release \in Version
          /\ request[r].step = "mark" => request[r].backup \in Snapshot

HealthInv == At("done") => proc \in {launcher.pending.version, Partial}

(* Without a second click: one request at a time, and it ends before the   *)
(* launcher begins; what a marker names lies in staged\, whole.            *)
ClickInv ==
    /\ \A r \in Request : request[r].step # "idle" =>
          /\ marker = Nothing /\ launcher.step \in {"off", "watch"}
          /\ \A s \in Request \ {r} : request[s].step = "idle"
          /\ request[r].step = "unpack" => request[r].whole
          /\ request[r].step = "mark" => dir.staged = request[r].release
    /\ marker # Nothing => dir.staged \in {Nothing, marker.version}
    /\ launcher.step \in {"stop", "clear", "keep", "swap"}
          => dir.staged = launcher.pending.version
    /\ "swapped" \in launcher.did => dir.staged = Nothing

(* Without a failed undo step: what runs is what lies in app\.             *)
CodeRuns ==
    /\ orphan # Nothing => orphan = dir.app
    /\ proc # Nothing => proc = dir.app
    /\ launcher.step \in {"park", "unkeep", "restore"} => launcher.stopped

(* Without either: where the working release is at every step.             *)
GoodInv ==
    /\ {dir.app, dir.prev} \cap Good # {}
    /\ \A r \in Request : request[r].step # "idle" => dir.app \in Good
    /\ launcher.step \in {"off", "watch"} /\ marker # Nothing /\ dir.staged # Nothing
          => dir.app \in Good \/ (At("off") /\ dir.app = Nothing)
    /\ launcher.step \in {"stop", "clear", "keep", "restore", "restart", "done"}
          => dir.app \in Good
    /\ launcher.step \in {"undo", "park", "unkeep"} /\ launcher.did = {}
          => dir.app \in Good
    /\ launcher.step \in Forward \cup {"undo", "park", "unkeep"} /\ launcher.did # {}
          => dir.prev \in Good
    /\ launcher.step \in {"swap", "undo", "park"} /\ launcher.did = {"kept"}
          => dir.app = Nothing
    /\ At("unkeep") /\ launcher.did # {} => dir.app = Nothing
    /\ launcher.step \in Forward \ {"swap"}
          => dir.app \in Version /\ dir.app = launcher.pending.version

Matches(code, data) == data.whole /\ data.schema = code

(* Without any fault: which copy of the database belongs to which code.    *)
PairInv ==
    /\ \A r \in Request :
          request[r].step = "mark" => Matches(dir.app, request[r].backup)
    /\ launcher.step \in {"off", "watch"} /\ marker # Nothing
          => Matches(dir.app, marker.backup)
    /\ launcher.step \in {"off", "watch"} => dir.app \in Good
    /\ launcher.step \in Early => Matches(dir.app, db)
    /\ launcher.step \in {"stop", "clear", "keep"}
          => Matches(dir.app, launcher.pending.backup)
    /\ launcher.step \in Forward \cup {"undo", "park", "unkeep"} /\ launcher.did # {}
          => Matches(dir.prev, launcher.pending.backup)
    /\ launcher.step \in {"swap", "undo", "park", "unkeep"} /\ launcher.did = {"kept"}
          => Matches(dir.prev, db)
    /\ launcher.step \in {"start", "health"} /\ dir.app \in Good
          => Matches(dir.app, db)
    /\ launcher.step \in {"done", "restart"} => Matches(dir.app, db)
    /\ launcher.step \in {"undo", "park", "unkeep", "restore"} /\ launcher.did = {}
          => Matches(dir.app, db)
    /\ At("restore") /\ launcher.did = {"kept"} => Matches(dir.app, db)
    /\ At("restore") /\ launcher.did # {}
          => Matches(dir.app, launcher.pending.backup)

NoClick == faults["click"] = 0
NoUndo == faults["undo"] = 0
NoCut == faults["cut"] = 0

IInv ==
    /\ TypeOK /\ DidInv /\ ProcInv /\ OrderInv /\ HealthInv
    /\ NoClick => ClickInv
    /\ NoUndo => CodeRuns
    /\ NoClick /\ NoUndo => GoodInv
    /\ NoClick /\ NoUndo /\ NoCut => PairInv

-----------------------------------------------------------------------------
(* Shapes of the records that steps build *)

LEMMA Distinct == /\ Nothing # Partial /\ Nothing \notin Version
                  /\ Partial \notin Version /\ Good \subseteq Version
                  /\ 1 \in Good /\ 1 \in Version
    BY Values, Releases DEF Version

LEMMA Numbers == MaxVersion \in Nat /\ MaxRows \in Nat /\ MaxFaults \in Nat
    BY Bounds

LauncherRecord == [step: Steps, pending: Marker, stopped: BOOLEAN, did: SUBSET All]
RequestRecord == [step: {"idle", "unpack", "mark"}, release: Code,
                  whole: BOOLEAN, backup: Snapshot \cup {Nothing}]

LEMMA IdleTyped == /\ Idle \in RequestRecord /\ Idle.step = "idle"
                   /\ ~Idle.whole
    BY DEF Idle, RequestRecord, Code

(* A second click tears what another one has unpacked.                     *)
LEMMA TornTyped ==
    ASSUME NEW q \in RequestRecord
    PROVE  [q EXCEPT !.whole = FALSE] \in RequestRecord
    BY DEF RequestRecord

LEMMA WatchingTyped ==
    /\ Watching \in LauncherRecord
    /\ Watching.step = "watch" /\ Watching.did = {} /\ ~Watching.stopped
    BY DEF Watching, LauncherRecord, Steps, Marker

(* A launcher that goes back to its watch, or is switched off.             *)
LEMMA WatchingGoes ==
    ASSUME NEW step \in Steps, NEW l, l = [Watching EXCEPT !.step = step]
    PROVE  /\ l \in LauncherRecord
           /\ l.step = step /\ l.did = {} /\ ~l.stopped
    BY DEF Watching, LauncherRecord, Steps, Marker

LEMMA GoesTyped ==
    ASSUME TypeOK, NEW step \in Steps, Goes(step)
    PROVE  /\ launcher' \in LauncherRecord
           /\ launcher'.step = step /\ launcher'.did = launcher.did
           /\ launcher'.pending = launcher.pending
           /\ launcher'.stopped = launcher.stopped
    BY DEF TypeOK, Goes, LauncherRecord, All

LEMMA DidTyped ==
    ASSUME TypeOK, NEW step \in Steps, NEW what \in SUBSET All, Did(what, step)
    PROVE  /\ launcher' \in LauncherRecord
           /\ launcher'.step = step /\ launcher'.did = launcher.did \cup what
           /\ launcher'.pending = launcher.pending
           /\ launcher'.stopped = launcher.stopped
    BY DEF TypeOK, Did, LauncherRecord, All

LEMMA FaultTyped ==
    ASSUME TypeOK, NEW kind \in {"cut", "undo", "click"}, Fault(kind)
    PROVE  /\ faults' \in [{"cut", "undo", "click"} -> 0..MaxFaults]
           /\ faults'[kind] # 0
           /\ \A k \in {"cut", "undo", "click"} \ {kind} : faults'[k] = faults[k]
<1>1. \A k \in {"cut", "undo", "click"} : faults[k] \in Nat
    BY Numbers DEF TypeOK
<1>2. faults' = [faults EXCEPT ![kind] = @ + 1]
    BY DEF Fault
<1>3. faults[kind] + 1 <= MaxFaults
    BY <1>1, Numbers DEF Fault
<1>4. faults'[kind] = faults[kind] + 1
    BY <1>2 DEF TypeOK
<1>5. QED
    BY <1>1, <1>2, <1>3, <1>4, Numbers DEF TypeOK

LEMMA MigratedTyped ==
    ASSUME TypeOK, Migrates \/ MigrationFails
    PROVE  db' \in Snapshot
    BY Distinct DEF TypeOK, Migrates, MigrationFails, Snapshot

(* Requests that died with their process.                                  *)
LEMMA DieTyped ==
    ASSUME RequestsDie
    PROVE  /\ request' \in [Request -> RequestRecord]
           /\ \A r \in Request : request'[r] = Idle
    BY IdleTyped DEF RequestsDie

LEMMA InitInv == Init => IInv
<1> SUFFICES ASSUME Init PROVE IInv
    OBVIOUS
<1>1. /\ request \in [Request -> RequestRecord]
      /\ \A r \in Request : request[r] = Idle
    BY IdleTyped DEF Init
<1>2. /\ launcher \in LauncherRecord
      /\ launcher.step = "off" /\ launcher.did = {}
      /\ ~launcher.stopped
    <2>1. launcher = [Watching EXCEPT !.step = "off"]
        BY DEF Init
    <2>2. "off" \in Steps
        BY DEF Steps
    <2>3. QED
        BY <2>1, <2>2, WatchingGoes
<1>3. /\ dir \in [app: Code, prev: Code, staged: Code, failed: Code]
      /\ dir.app = 1 /\ dir.staged = Nothing
    BY Distinct DEF Init, Code
<1>4. /\ db \in Snapshot /\ db.whole /\ db.schema = 1
    BY Distinct, Numbers DEF Init, Snapshot
<1>5. faults \in [{"cut", "undo", "click"} -> 0..MaxFaults]
    BY Numbers DEF Init
<1>6. /\ marker = Nothing /\ proc = Nothing /\ orphan = Nothing
    BY DEF Init
<1>7. TypeOK
    BY <1>1, <1>2, <1>3, <1>4, <1>5, <1>6
    DEF TypeOK, LauncherRecord, RequestRecord, Marker, Code, All
<1>8. DidInv /\ ProcInv
    BY <1>2, <1>6 DEF DidInv, ProcInv, Forward, Undoing, Early, At
<1>9. OrderInv /\ HealthInv
    BY <1>1, <1>2, IdleTyped DEF OrderInv, HealthInv, Forward, Undoing, Early, At
<1>10. ClickInv /\ CodeRuns
    BY <1>1, <1>2, <1>3, <1>6, IdleTyped DEF ClickInv, CodeRuns, All
<1>11. GoodInv
    BY <1>1, <1>2, <1>3, <1>6, IdleTyped, Distinct DEF GoodInv, Forward, At
<1>12. PairInv
    BY <1>1, <1>2, <1>3, <1>4, <1>6, IdleTyped, Distinct
    DEF PairInv, Matches, Early, Forward, At
<1>13. QED
    BY <1>7, <1>8, <1>9, <1>10, <1>11, <1>12 DEF IInv

-----------------------------------------------------------------------------
(* Types *)

LEMMA AppTyped ==
    ASSUME TypeOK, OrderInv, NEW r \in Request,
           \/ \E v \in Version : ApplyUnpacks(r, v)
           \/ ApplyBacksUp(r) \/ ApplyMarks(r)
    PROVE  TypeOK'
<1>1. ASSUME NEW v \in Version, ApplyUnpacks(r, v) PROVE TypeOK'
    <2>1. faults' \in [{"cut", "undo", "click"} -> 0..MaxFaults]
        BY <1>1, FaultTyped DEF ApplyUnpacks, NoFault, TypeOK
    <2>2. dir' \in [app: Code, prev: Code, staged: Code, failed: Code]
        BY <1>1 DEF ApplyUnpacks, TypeOK, Code
    <2>3. PICK q : q = [Idle EXCEPT !.step = "unpack", !.release = v, !.whole = TRUE]
        OBVIOUS
    <2>4. q \in RequestRecord
        BY <2>3 DEF Idle, RequestRecord, Code
    <2>5. \A s \in Request : [request[s] EXCEPT !.whole = FALSE] \in RequestRecord
        <3>1. \A s \in Request : request[s] \in RequestRecord
            BY DEF TypeOK, RequestRecord
        <3>2. QED
            BY <3>1, TornTyped
    <2>6. request' = [s \in Request |->
              IF s = r THEN q ELSE [request[s] EXCEPT !.whole = FALSE]]
        BY <1>1, <2>3 DEF ApplyUnpacks
    <2>7. request' \in [Request -> RequestRecord]
        BY <2>4, <2>5, <2>6
    <2>8. QED
        BY <1>1, <2>1, <2>2, <2>7 DEF ApplyUnpacks, TypeOK, RequestRecord
<1>2. CASE ApplyBacksUp(r)
    <2>1. request[r].release \in Code
        BY DEF TypeOK
    <2>2. \E v \in Code : dir' = [dir EXCEPT !.staged = v]
        <3>1. CASE request[r].whole
            BY <1>2, <2>1, <3>1, Zenon DEF ApplyBacksUp
        <3>2. CASE ~request[r].whole
            <4>1. dir.staged \in Code
                BY DEF TypeOK
            <4>2. dir' = [dir EXCEPT !.staged = dir.staged]
                BY <1>2, <3>2, Zenon DEF ApplyBacksUp
            <4>3. QED
                BY <4>1, <4>2
        <3>3. QED
            BY <3>1, <3>2
    <2>3. dir' \in [app: Code, prev: Code, staged: Code, failed: Code]
        BY <2>2 DEF TypeOK
    <2>4. request' \in [Request -> RequestRecord]
        <3>1. PICK q : q = [request[r] EXCEPT !.step = "mark", !.backup = db]
            OBVIOUS
        <3>2. q \in RequestRecord
            <4>1. request[r] \in RequestRecord /\ db \in Snapshot \cup {Nothing}
                BY DEF TypeOK, RequestRecord
            <4>2. "mark" \in {"idle", "unpack", "mark"}
                OBVIOUS
            <4>3. QED
                BY <3>1, <4>1, <4>2, Zenon DEF RequestRecord
        <3>3. request' = [request EXCEPT ![r] = q]
            BY <1>2, <3>1 DEF ApplyBacksUp
        <3>4. QED
            BY <3>2, <3>3 DEF TypeOK, RequestRecord
    <2>5. QED
        BY <1>2, <2>3, <2>4 DEF ApplyBacksUp, TypeOK, RequestRecord
<1>3. CASE ApplyMarks(r)
    <2>1. request[r].release \in Version /\ request[r].backup \in Snapshot
        BY <1>3 DEF ApplyMarks, OrderInv
    <2>2. marker' \in Order
        BY <1>3, <2>1 DEF ApplyMarks, Order
    <2>3. request' \in [Request -> RequestRecord]
        BY <1>3, IdleTyped DEF ApplyMarks, TypeOK, RequestRecord
    <2>4. QED
        BY <1>3, <2>2, <2>3 DEF ApplyMarks, TypeOK, RequestRecord, Marker
<1>4. QED
    BY <1>1, <1>2, <1>3

(* A step of update.apply leaves the launcher and its processes alone.     *)
LEMMA AppStays ==
    ASSUME NEW r \in Request,
           \/ \E v \in Version : ApplyUnpacks(r, v)
           \/ ApplyBacksUp(r) \/ ApplyMarks(r)
    PROVE  UNCHANGED <<db, proc, orphan, launcher>>
    BY DEF ApplyUnpacks, ApplyBacksUp, ApplyMarks

LEMMA BootTyped ==
    ASSUME TypeOK, Boot \/ Quit \/ PowerCut \/ WriteRow \/ Refuse
    PROVE  TypeOK'
<1>1. CASE Boot
    <2>1. db' \in Snapshot /\ proc' \in Code /\ launcher' \in LauncherRecord
        BY <1>1, MigratedTyped, WatchingTyped DEF Boot, TypeOK, Started, Code
    <2>2. QED
        BY <1>1, <2>1 DEF Boot, TypeOK, LauncherRecord, All
<1>2. CASE Quit
    <2>1. request' \in [Request -> RequestRecord]
        BY <1>2, DieTyped DEF Quit, TypeOK, RequestRecord
    <2>2. launcher' \in LauncherRecord
        BY <1>2, WatchingGoes DEF Quit, Steps
    <2>3. QED
        BY <1>2, <2>1, <2>2
        DEF Quit, TypeOK, LauncherRecord, All, RequestRecord, Code
<1>3. CASE PowerCut
    <2>1. request' \in [Request -> RequestRecord]
        BY <1>3, DieTyped DEF PowerCut
    <2>2. launcher' \in LauncherRecord
        BY <1>3, WatchingGoes DEF PowerCut, Steps
    <2>3. db' \in Snapshot
        BY <1>3, MigratedTyped DEF PowerCut, TypeOK, Snapshot
    <2>4. faults' \in [{"cut", "undo", "click"} -> 0..MaxFaults]
        BY <1>3, FaultTyped DEF PowerCut
    <2>5. QED
        BY <1>3, <2>1, <2>2, <2>3, <2>4
        DEF PowerCut, TypeOK, LauncherRecord, All, RequestRecord, Code
<1>4. CASE WriteRow
    <2>1. db' \in Snapshot
        BY <1>4, Numbers DEF WriteRow, TypeOK, Snapshot
    <2>2. QED
        BY <1>4, <2>1 DEF WriteRow, TypeOK
<1>5. CASE Refuse
    <2>1. faults' \in [{"cut", "undo", "click"} -> 0..MaxFaults]
        BY <1>5, FaultTyped DEF Refuse, PutsAside, NoFault, TypeOK
    <2>2. marker' \in Marker
        BY <1>5 DEF Refuse, PutsAside, TypeOK, Marker
    <2>3. QED
        BY <1>5, <2>1, <2>2 DEF Refuse, TypeOK
<1>6. QED
    BY <1>1, <1>2, <1>3, <1>4, <1>5

LEMMA ForwardTyped ==
    ASSUME TypeOK, \/ Begin \/ Stop \/ Clear \/ KeepOld \/ SwapIn \/ Migrate
                   \/ Start \/ Health \/ Finish
    PROVE  TypeOK'
<1>1. CASE Begin
    <2>1. launcher' \in LauncherRecord
        BY <1>1 DEF Begin, TypeOK, Watching, LauncherRecord, Steps
    <2>2. QED
        BY <1>1, <2>1 DEF Begin, TypeOK, LauncherRecord, All
<1>2. CASE Stop
    <2>1. launcher' \in LauncherRecord
        BY <1>2, GoesTyped DEF Stop, Steps
    <2>2. request' \in [Request -> RequestRecord]
        BY <1>2, DieTyped DEF Stop, StopOk, StopFails, TypeOK, RequestRecord
    <2>3. proc' \in Code /\ orphan' \in Code
        BY <1>2 DEF Stop, StopOk, StopFails, TypeOK, Code
    <2>4. QED
        BY <1>2, <2>1, <2>2, <2>3
        DEF Stop, TypeOK, LauncherRecord, All, RequestRecord
<1>3. CASE Clear
    <2>1. launcher' \in LauncherRecord
        BY <1>3, GoesTyped DEF Clear, Steps
    <2>2. dir' \in [app: Code, prev: Code, staged: Code, failed: Code]
        BY <1>3 DEF Clear, TypeOK, Code
    <2>3. QED
        BY <1>3, <2>1, <2>2 DEF Clear, TypeOK, LauncherRecord, All
<1>4. CASE KeepOld
    <2>1. launcher' \in LauncherRecord
        BY <1>4, GoesTyped, DidTyped DEF KeepOld, Steps, All
    <2>2. dir' \in [app: Code, prev: Code, staged: Code, failed: Code]
        BY <1>4 DEF KeepOld, TypeOK, Code
    <2>3. QED
        BY <1>4, <2>1, <2>2 DEF KeepOld, TypeOK, LauncherRecord, All
<1>5. CASE SwapIn
    <2>1. launcher' \in LauncherRecord
        BY <1>5, GoesTyped, DidTyped DEF SwapIn, Steps, All
    <2>2. dir' \in [app: Code, prev: Code, staged: Code, failed: Code]
        BY <1>5 DEF SwapIn, TypeOK, Code
    <2>3. QED
        BY <1>5, <2>1, <2>2 DEF SwapIn, TypeOK, LauncherRecord, All
<1>6. CASE Migrate
    <2>1. launcher' \in LauncherRecord
        BY <1>6, GoesTyped DEF Migrate, Steps
    <2>2. db' \in Snapshot
        BY <1>6, MigratedTyped DEF Migrate
    <2>3. QED
        BY <1>6, <2>1, <2>2 DEF Migrate, TypeOK, LauncherRecord, All
<1>7. CASE Start
    <2>1. launcher' \in LauncherRecord
        BY <1>7, GoesTyped DEF Start, Steps
    <2>2. proc' \in Code
        BY <1>7 DEF Start, Started, TypeOK, Code
    <2>3. QED
        BY <1>7, <2>1, <2>2 DEF Start, TypeOK, LauncherRecord, All
<1>8. CASE Health
    <2>1. launcher' \in LauncherRecord
        BY <1>8, GoesTyped DEF Health, Steps
    <2>2. QED
        BY <1>8, <2>1 DEF Health, TypeOK, LauncherRecord, All
<1>9. CASE Finish
    <2>1. dir' \in [app: Code, prev: Code, staged: Code, failed: Code]
        BY <1>9 DEF Finish, TypeOK, Code
    <2>2. launcher' \in LauncherRecord
        BY <1>9, WatchingTyped DEF Finish
    <2>3. QED
        BY <1>9, <2>1, <2>2 DEF Finish, TypeOK, LauncherRecord, All, Marker
<1>10. QED
    BY <1>1, <1>2, <1>3, <1>4, <1>5, <1>6, <1>7, <1>8, <1>9

LEMMA UndoTyped ==
    ASSUME TypeOK, OrderInv,
           UndoStop \/ Park \/ PutBack \/ RestoreDb \/ Restart
    PROVE  TypeOK'
<1>1. CASE UndoStop
    <2>1. launcher' \in LauncherRecord
        <3>1. CASE launcher' = [launcher EXCEPT !.step = "park", !.stopped = TRUE]
            BY <3>1 DEF TypeOK, LauncherRecord, Steps, All
        <3>2. CASE Goes("park")
            BY <3>2, GoesTyped DEF Steps
        <3>3. QED
            BY <1>1, <3>1, <3>2 DEF UndoStop
    <2>2. request' \in [Request -> RequestRecord]
        BY <1>1, DieTyped DEF UndoStop, StopOk, StopFails, TypeOK, RequestRecord
    <2>3. proc' \in Code /\ orphan' \in Code
        BY <1>1 DEF UndoStop, StopOk, StopFails, TypeOK, Code
    <2>4. faults' \in [{"cut", "undo", "click"} -> 0..MaxFaults]
        BY <1>1, FaultTyped DEF UndoStop, NoFault, TypeOK
    <2>5. QED
        BY <1>1, <2>1, <2>2, <2>3, <2>4
        DEF UndoStop, TypeOK, LauncherRecord, All, RequestRecord
<1>2. CASE Park
    <2>1. launcher' \in LauncherRecord
        BY <1>2, GoesTyped DEF Park, Steps
    <2>2. dir' \in [app: Code, prev: Code, staged: Code, failed: Code]
        <3>1. \/ dir' = dir
              \/ dir' = [dir EXCEPT !.failed = dir.app, !.app = Nothing]
              \/ \E left, f \in {Nothing, Partial} :
                    dir' = [dir EXCEPT !.app = left, !.failed = f]
            BY <1>2 DEF Park
        <3>2. dir \in [app: Code, prev: Code, staged: Code, failed: Code]
            BY DEF TypeOK
        <3>3. Nothing \in Code /\ Partial \in Code
            BY DEF Code
        <3>4. QED
            BY <3>1, <3>2, <3>3
    <2>3. faults' \in [{"cut", "undo", "click"} -> 0..MaxFaults]
        BY <1>2, FaultTyped DEF Park, NoFault, TypeOK
    <2>4. QED
        BY <1>2, <2>1, <2>2, <2>3 DEF Park, TypeOK, LauncherRecord, All
<1>3. CASE PutBack
    <2>1. launcher' \in LauncherRecord
        BY <1>3, GoesTyped DEF PutBack, Steps
    <2>2. dir' \in [app: Code, prev: Code, staged: Code, failed: Code]
        BY <1>3 DEF PutBack, TypeOK, Code
    <2>3. faults' \in [{"cut", "undo", "click"} -> 0..MaxFaults]
        BY <1>3, FaultTyped DEF PutBack, NoFault, TypeOK
    <2>4. QED
        BY <1>3, <2>1, <2>2, <2>3 DEF PutBack, TypeOK, LauncherRecord, All
<1>4. CASE RestoreDb
    <2>1. launcher' \in LauncherRecord
        BY <1>4, GoesTyped DEF RestoreDb, Steps
    <2>2. launcher.pending \in Order
        BY <1>4 DEF RestoreDb, At, OrderInv, Undoing
    <2>3. db' \in Snapshot
        BY <1>4, <2>2 DEF RestoreDb, TypeOK, Order, Snapshot
    <2>4. faults' \in [{"cut", "undo", "click"} -> 0..MaxFaults]
        BY <1>4, FaultTyped DEF RestoreDb, NoFault, TypeOK
    <2>5. QED
        BY <1>4, <2>1, <2>3, <2>4 DEF RestoreDb, TypeOK, LauncherRecord, All
<1>5. CASE Restart
    <2>1. proc' \in Code /\ orphan' \in Code
        BY <1>5 DEF Restart, StartsAgain, StartsOver, Started, TypeOK, Code
    <2>2. faults' \in [{"cut", "undo", "click"} -> 0..MaxFaults]
        BY <1>5, FaultTyped DEF Restart, StartsAgain, NoFault, TypeOK
    <2>3. launcher' \in LauncherRecord
        BY <1>5, WatchingTyped DEF Restart
    <2>4. QED
        BY <1>5, <2>1, <2>2, <2>3
        DEF Restart, TypeOK, LauncherRecord, All, Marker
<1>6. QED
    BY <1>1, <1>2, <1>3, <1>4, <1>5

LEMMA NextTyped == TypeOK /\ OrderInv /\ [Next]_vars => TypeOK'
<1> SUFFICES ASSUME TypeOK, OrderInv, [Next]_vars PROVE TypeOK'
    OBVIOUS
<1>1. CASE UNCHANGED vars
    BY <1>1 DEF vars, TypeOK
<1>2. QED
    BY <1>1, AppTyped, BootTyped, ForwardTyped, UndoTyped DEF Next, Cycle
-----------------------------------------------------------------------------
(* What the launcher has done, and the processes it knows *)

(* Every step of a cycle either goes on, without a trace or with one in    *)
(* did, or ends it.                                                        *)
LEMMA NextDid == TypeOK /\ DidInv /\ [Next]_vars => DidInv'
<1> SUFFICES ASSUME TypeOK, DidInv, [Next]_vars PROVE DidInv'
    OBVIOUS
<1> USE DEF DidInv, Forward, Early, Undoing, At
<1>1. CASE launcher' = launcher
    BY <1>1
<1>2. CASE /\ launcher'.step \in {"off", "watch"} /\ launcher'.did = {}
           /\ ~launcher'.stopped
    BY <1>2
<1>3. CASE Boot \/ Quit \/ PowerCut \/ Finish \/ Restart
    BY <1>2, <1>3, WatchingTyped, WatchingGoes
    DEF Boot, Quit, PowerCut, Finish, Restart, Steps
<1>4. CASE Begin
    <2>1. /\ launcher'.step = "stop" /\ launcher'.did = {}
          /\ ~launcher'.stopped
        BY <1>4 DEF Begin, Watching
    <2>2. QED
        BY <2>1
<1>5. CASE Stop \/ Clear \/ Migrate \/ Start \/ Health
    BY <1>5, GoesTyped DEF Stop, Clear, Migrate, Start, Health, Steps
<1>6. CASE KeepOld
    BY <1>6, GoesTyped, DidTyped DEF KeepOld, Steps, All
<1>7. CASE SwapIn
    BY <1>7, GoesTyped, DidTyped DEF SwapIn, Steps, All
<1>8. CASE UndoStop
    <2>1. launcher'.step = "park" /\ launcher'.did = launcher.did
        BY <1>8, GoesTyped DEF UndoStop, TypeOK, Steps
    <2>2. QED
        BY <2>1
<1>9. CASE Park \/ PutBack \/ RestoreDb
    BY <1>9, GoesTyped DEF Park, PutBack, RestoreDb, Steps
<1>10. QED
    BY <1>1, <1>3, <1>4, <1>5, <1>6, <1>7, <1>8, <1>9, AppStays
    DEF Next, Cycle, vars, WriteRow, Refuse

LEMMA NextProc == TypeOK /\ DidInv /\ ProcInv /\ [Next]_vars => ProcInv'
<1> SUFFICES ASSUME TypeOK, DidInv, ProcInv, [Next]_vars PROVE ProcInv'
    OBVIOUS
<1> USE DEF ProcInv, Forward, At
<1>1. CASE UNCHANGED <<launcher, proc, orphan>>
    BY <1>1
<1>2. CASE Boot \/ Quit \/ PowerCut \/ Finish \/ Restart
    <2>1. /\ launcher'.step \in {"off", "watch"}
          /\ launcher'.step = "off" => proc' = Nothing
        <3>1. CASE Boot \/ Finish \/ Restart
            BY <3>1, WatchingTyped DEF Boot, Finish, Restart
        <3>2. CASE Quit \/ PowerCut
            BY <3>2, WatchingGoes DEF Quit, PowerCut, Steps
        <3>3. QED
            BY <1>2, <3>1, <3>2
    <2>2. QED
        BY <2>1
<1>3. CASE Begin
    <2>1. launcher'.step = "stop"
        BY <1>3 DEF Begin, Watching
    <2>2. QED
        BY <2>1
<1>4. CASE Stop
    <2>1. /\ launcher'.step \in {"clear", "undo"} /\ launcher'.did = {}
          /\ launcher'.step = "clear" => proc' = Nothing
        BY <1>4, GoesTyped DEF Stop, StopOk, StopFails, DidInv, Early, Steps
    <2>2. QED
        BY <2>1
<1>5. CASE Clear
    BY <1>5, GoesTyped DEF Clear, DidInv, Early, Steps
<1>6. CASE KeepOld
    <2>1. CASE Goes("undo")
        <3>1. launcher'.step = "undo" /\ launcher'.did = {}
            BY <1>6, <2>1, GoesTyped DEF KeepOld, DidInv, Early, Steps
        <3>2. QED
            BY <3>1
    <2>2. CASE ~Locked /\ Did({"kept"}, "swap")
        <3>1. launcher'.step = "swap" /\ orphan' = Nothing /\ proc' = Nothing
            BY <1>6, <2>2, DidTyped DEF KeepOld, Locked, Running, Steps, All
        <3>2. QED
            BY <3>1
    <2>3. QED
        BY <1>6, <2>1, <2>2 DEF KeepOld
<1>7. CASE SwapIn
    <2>1. launcher.did # {} /\ orphan = Nothing
        BY <1>7 DEF SwapIn, DidInv
    <2>2. launcher'.step \in {"migrate", "undo"}
        BY <1>7, GoesTyped, DidTyped DEF SwapIn, Steps, All
    <2>3. QED
        BY <1>7, <2>1, <2>2 DEF SwapIn
<1>8. CASE Migrate \/ Start \/ Health
    <2>1. /\ launcher.did # {} /\ orphan = Nothing /\ orphan' = orphan
          /\ launcher'.step \in {"start", "health", "done", "undo"}
          /\ launcher'.step = "start" => proc' = proc /\ launcher.step = "migrate"
        <3>1. launcher.did # {}
            BY <1>8 DEF Migrate, Start, Health, DidInv, All
        <3>2. orphan = Nothing /\ orphan' = orphan
            BY <1>8, <3>1 DEF Migrate, Start, Health
        <3>3. /\ launcher'.step \in {"start", "health", "done", "undo"}
              /\ launcher'.step = "start" => proc' = proc /\ launcher.step = "migrate"
            BY <1>8, GoesTyped DEF Migrate, Start, Health, Steps
        <3>4. QED
            BY <3>1, <3>2, <3>3
    <2>2. QED
        BY <2>1
<1>9. CASE UndoStop
    <2>1. launcher'.step = "park" /\ launcher'.did = launcher.did
        BY <1>9, GoesTyped DEF UndoStop, TypeOK, Steps
    <2>2. CASE StopOk
        BY <1>9, <2>1, <2>2 DEF UndoStop, StopOk
    <2>3. CASE Fault("undo") /\ Goes("park")
        <3>1. launcher'.stopped = launcher.stopped /\ ~launcher.stopped
            BY <1>9, <2>3, GoesTyped DEF UndoStop, DidInv, Undoing, TypeOK, Steps
        <3>2. QED
            BY <2>1, <3>1
    <2>4. QED
        BY <1>9, <2>2, <2>3 DEF UndoStop
<1>10. CASE Park \/ PutBack \/ RestoreDb
    <2>1. /\ launcher.step \in {"park", "unkeep", "restore"}
          /\ launcher'.step \in {"unkeep", "restore", "restart"}
          /\ launcher'.did = launcher.did /\ launcher'.stopped = launcher.stopped
          /\ UNCHANGED <<proc, orphan>>
        BY <1>10, GoesTyped DEF Park, PutBack, RestoreDb, Steps
    <2>2. QED
        BY <2>1
<1>11. QED
    BY <1>1, <1>2, <1>3, <1>4, <1>5, <1>6, <1>7, <1>8, <1>9, <1>10, AppStays
    DEF Next, Cycle, vars, WriteRow, Refuse
-----------------------------------------------------------------------------
(* What a click knows and leaves *)

LEMMA Unpacked ==
    ASSUME TypeOK, NEW r \in Request, NEW v \in Version, ApplyUnpacks(r, v)
    PROVE  /\ request'[r].step = "unpack" /\ request'[r].release = v
           /\ request'[r].whole
           /\ \A s \in Request \ {r} : /\ request'[s].step = request[s].step
                                       /\ request'[s].release = request[s].release
                                       /\ request'[s].backup = request[s].backup
           /\ dir'.staged = Partial
           /\ dir'.app = dir.app /\ dir'.prev = dir.prev
<1>1. request'[r] = [Idle EXCEPT !.step = "unpack", !.release = v, !.whole = TRUE]
    BY DEF ApplyUnpacks
<1>2. \A s \in Request \ {r} : request'[s] = [request[s] EXCEPT !.whole = FALSE]
    BY DEF ApplyUnpacks
<1>3. request'[r].step = "unpack" /\ request'[r].release = v /\ request'[r].whole
    BY <1>1 DEF Idle
<1>4. \A s \in Request \ {r} : /\ request'[s].step = request[s].step
                               /\ request'[s].release = request[s].release
                               /\ request'[s].backup = request[s].backup
    <2>1. \A s \in Request : request[s] \in RequestRecord
        BY DEF TypeOK, RequestRecord
    <2>2. QED
        BY <1>2, <2>1 DEF RequestRecord
<1>5. /\ dir'.staged = Partial
      /\ dir'.app = dir.app /\ dir'.prev = dir.prev
    BY DEF ApplyUnpacks, TypeOK
<1>6. QED
    BY <1>3, <1>4, <1>5

LEMMA BackedUp ==
    ASSUME TypeOK, NEW r \in Request, ApplyBacksUp(r)
    PROVE  /\ request'[r].step = "mark"
           /\ request'[r].release = request[r].release
           /\ request'[r].backup = db
           /\ \A s \in Request \ {r} : request'[s] = request[s]
           /\ request[r].whole => dir'.staged = request[r].release
           /\ dir'.app = dir.app /\ dir'.prev = dir.prev
<1>1. PICK q : q = [request[r] EXCEPT !.step = "mark", !.backup = db]
    OBVIOUS
<1>2. request' = [request EXCEPT ![r] = q]
    BY <1>1 DEF ApplyBacksUp
<1>3. request[r] \in RequestRecord
    BY DEF TypeOK, RequestRecord
<1>4. q.step = "mark" /\ q.release = request[r].release /\ q.backup = db
    BY <1>1, <1>3 DEF RequestRecord
<1>5. /\ request'[r] = q
      /\ \A s \in Request \ {r} : request'[s] = request[s]
    BY <1>2 DEF TypeOK
<1>6. /\ request[r].whole => dir'.staged = request[r].release
      /\ dir'.app = dir.app /\ dir'.prev = dir.prev
    BY DEF ApplyBacksUp, TypeOK
<1>7. QED
    BY <1>4, <1>5, <1>6

LEMMA Marked ==
    ASSUME TypeOK, NEW r \in Request, ApplyMarks(r)
    PROVE  /\ request'[r] = Idle
           /\ \A s \in Request \ {r} : request'[s] = request[s]
           /\ marker'.version = request[r].release
           /\ marker'.backup = request[r].backup
           /\ dir' = dir
    BY DEF ApplyMarks, TypeOK

(* Requests go on only by their own steps, or die with their process.      *)
LEMMA RequestsStay ==
    ASSUME [Next]_vars,
           ~\E r \in Request : \/ \E v \in Version : ApplyUnpacks(r, v)
                               \/ ApplyBacksUp(r) \/ ApplyMarks(r)
    PROVE  /\ request' = request \/ \A r \in Request : request'[r] = Idle
           /\ marker' = marker \/ marker' = Nothing
<1>1. request' = request \/ RequestsDie
    BY DEF Next, Cycle, Boot, Quit, PowerCut, WriteRow, Refuse, Begin, Stop,
       StopOk, StopFails, Clear, KeepOld, SwapIn, Migrate, Start, Health, Finish,
       UndoStop, Park, PutBack, RestoreDb, Restart, vars
<1>2. marker' = marker \/ marker' = Nothing
    BY DEF Next, Cycle, Boot, Quit, PowerCut, WriteRow, Refuse, PutsAside,
       Begin, Stop, Clear, KeepOld, SwapIn, Migrate, Start, Health, Finish,
       UndoStop, Park, PutBack, RestoreDb, Restart, vars
<1>3. QED
    BY <1>1, <1>2, DieTyped

(* The marker a cycle works on is the one its beginning read.              *)
LEMMA PendingStays ==
    ASSUME TypeOK, [Next]_vars, launcher'.step \notin {"off", "watch"}
    PROVE  \/ /\ Begin /\ launcher'.step = "stop"
              /\ launcher'.pending = marker /\ marker \in Order
           \/ /\ launcher.step \notin {"off", "watch"}
              /\ launcher'.pending = launcher.pending
           \/ launcher' = launcher
<1> USE DEF At
<1>1. CASE Boot \/ Quit \/ PowerCut \/ Finish \/ Restart
    <2>1. CASE Boot \/ Finish \/ Restart
        BY <2>1, WatchingTyped DEF Boot, Finish, Restart
    <2>2. CASE Quit \/ PowerCut
        BY <2>2, WatchingGoes DEF Quit, PowerCut, Steps
    <2>3. QED
        BY <1>1, <2>1, <2>2
<1>2. CASE Begin
    BY <1>2 DEF Begin, Watching, TypeOK, Marker
<1>3. CASE \/ Stop \/ Clear \/ Migrate \/ Start \/ Health \/ Park \/ PutBack
           \/ RestoreDb
    BY <1>3, GoesTyped DEF Stop, Clear, Migrate, Start, Health, Park, PutBack,
       RestoreDb, Steps
<1>4. CASE KeepOld \/ SwapIn
    BY <1>4, GoesTyped, DidTyped DEF KeepOld, SwapIn, Steps, All
<1>5. CASE UndoStop
    BY <1>5, GoesTyped DEF UndoStop, TypeOK, Steps
<1>6. CASE launcher' = launcher
    BY <1>6
<1>7. QED
    BY <1>1, <1>2, <1>3, <1>4, <1>5, <1>6, AppStays
    DEF Next, Cycle, vars, WriteRow, Refuse

LEMMA NextOrder == TypeOK /\ OrderInv /\ [Next]_vars => OrderInv'
<1> SUFFICES ASSUME TypeOK, OrderInv, [Next]_vars PROVE OrderInv'
    OBVIOUS
<1> DEFINE Known(q) == /\ q.step # "idle" => q.release \in Version
                       /\ q.step = "mark" => q.backup \in Snapshot
<1>1. \A r \in Request : Known(request[r])
    BY DEF OrderInv
<1>2. Known(Idle)
    BY IdleTyped
<1>3. \A r \in Request : Known(request'[r])
    <2>1. ASSUME NEW r \in Request, NEW v \in Version, ApplyUnpacks(r, v)
          PROVE  \A s \in Request : Known(request'[s])
        BY <1>1, <2>1, Unpacked
    <2>2. ASSUME NEW r \in Request, ApplyBacksUp(r)
          PROVE  \A s \in Request : Known(request'[s])
        <3>1. db \in Snapshot /\ request[r].step = "unpack"
            BY <2>2 DEF TypeOK, ApplyBacksUp
        <3>2. QED
            BY <1>1, <2>2, <3>1, BackedUp
    <2>3. ASSUME NEW r \in Request, ApplyMarks(r)
          PROVE  \A s \in Request : Known(request'[s])
        BY <1>1, <1>2, <2>3, Marked
    <2>4. QED
        BY <1>1, <1>2, <2>1, <2>2, <2>3, RequestsStay
<1>4. launcher'.step \in (Forward \cup Undoing \cup Early) \ {"off", "watch"}
        => launcher'.pending \in Order
    BY PendingStays DEF OrderInv, TypeOK, Steps, Forward, Undoing, Early
<1>5. QED
    BY <1>3, <1>4 DEF OrderInv

(* Nothing comes between the answer and the end of the cycle.              *)
LEMMA NextHealth ==
    TypeOK /\ DidInv /\ ProcInv /\ HealthInv /\ [Next]_vars => HealthInv'
<1> SUFFICES ASSUME TypeOK, DidInv, ProcInv, HealthInv, [Next]_vars, At("done")'
             PROVE  HealthInv'
    BY DEF HealthInv
<1>1. CASE Health
    <2>1. orphan = Nothing
        BY <1>1 DEF Health, At, ProcInv, DidInv, Forward, All
    <2>2. Healthy /\ Goes("done")
        BY <1>1, GoesTyped DEF Health, At, Steps
    <2>3. proc \in {launcher.pending.version, Partial}
        BY <2>1, <2>2 DEF Healthy, Serving
    <2>4. launcher'.pending = launcher.pending /\ proc' = proc
        BY <1>1, <2>2, GoesTyped DEF Health, Steps
    <2>5. QED
        BY <2>3, <2>4 DEF HealthInv
<1>2. CASE UNCHANGED <<launcher, proc>>
    BY <1>2 DEF HealthInv, At
<1>3. CASE Boot \/ Quit \/ PowerCut \/ Finish \/ Restart \/ Begin
    <2>1. CASE Boot \/ Finish \/ Restart
        BY <2>1, WatchingTyped DEF Boot, Finish, Restart, At
    <2>2. CASE Quit \/ PowerCut
        BY <2>2, WatchingGoes DEF Quit, PowerCut, Steps, At
    <2>3. CASE Begin
        BY <2>3 DEF Begin, Watching, At
    <2>4. QED
        BY <1>3, <2>1, <2>2, <2>3
<1>4. CASE \/ Stop \/ Clear \/ Migrate \/ Start \/ Park \/ PutBack \/ RestoreDb
    BY <1>4, GoesTyped DEF Stop, Clear, Migrate, Start, Park, PutBack, RestoreDb,
       Steps, At
<1>5. CASE KeepOld \/ SwapIn
    BY <1>5, GoesTyped, DidTyped DEF KeepOld, SwapIn, Steps, All, At
<1>6. CASE UndoStop
    BY <1>6, GoesTyped DEF UndoStop, TypeOK, Steps, At
<1>7. QED
    BY <1>1, <1>2, <1>3, <1>4, <1>5, <1>6, AppStays
    DEF Next, Cycle, vars, WriteRow, Refuse

(* Faults are counted, never taken back.                                   *)
LEMMA FaultsGrow ==
    ASSUME TypeOK, [Next]_vars, NEW k \in {"cut", "undo", "click"}, faults'[k] = 0
    PROVE  faults[k] = 0
<1>1. ASSUME NEW kind \in {"cut", "undo", "click"}, Fault(kind)
      PROVE  faults[k] = 0
    <2>1. k # kind
        BY <1>1, FaultTyped
    <2>2. QED
        BY <1>1, <2>1, FaultTyped
<1>2. CASE faults' = faults
    BY <1>2
<1>3. \/ faults' = faults
      \/ \E kind \in {"cut", "undo", "click"} : Fault(kind)
    BY DEF Next, Cycle, Boot, Quit, PowerCut, WriteRow, Refuse, PutsAside,
       Begin, Stop, Clear, KeepOld, SwapIn, Migrate, Start, Health, Finish,
       UndoStop, Park, PutBack, RestoreDb, Restart, StartsAgain, ApplyUnpacks, ApplyBacksUp,
       ApplyMarks, NoFault, vars
<1>4. QED
    BY <1>1, <1>2, <1>3

(* Without a second click a request begins alone, at the watch.            *)
LEMMA Alone ==
    ASSUME TypeOK, NEW r \in Request, NEW v \in Version, ApplyUnpacks(r, v),
           faults'["click"] = 0
    PROVE  /\ marker = Nothing /\ marker' = Nothing /\ At("watch")
           /\ \A s \in Request : request[s].step = "idle"
           /\ Serving \in Good
<1>1. ~Fault("click")
    BY FaultTyped
<1>2. marker = Nothing /\ At("watch") /\ \A s \in Request : request[s] = Idle
    BY <1>1 DEF ApplyUnpacks
<1>3. QED
    BY <1>2, IdleTyped DEF ApplyUnpacks

LEMMA AppClick ==
    ASSUME TypeOK, DidInv, ClickInv, faults'["click"] = 0, NEW r \in Request,
           \/ \E v \in Version : ApplyUnpacks(r, v)
           \/ ApplyBacksUp(r) \/ ApplyMarks(r)
    PROVE  ClickInv'
<1>1. launcher' = launcher
    BY AppStays
<1>2. ASSUME launcher.step \in {"off", "watch"}
      PROVE  "swapped" \notin launcher.did
    BY <1>2 DEF DidInv, Early
<1>3. ASSUME NEW v \in Version, ApplyUnpacks(r, v) PROVE ClickInv'
    <2>1. /\ marker' = Nothing /\ launcher.step = "watch"
          /\ \A s \in Request : request[s].step = "idle"
        BY <1>3, Alone DEF At
    <2>2. /\ request'[r].step = "unpack" /\ request'[r].whole
          /\ \A s \in Request \ {r} : request'[s].step = "idle"
        BY <1>3, <2>1, Unpacked
    <2>3. QED
        BY <1>1, <1>2, <2>1, <2>2 DEF ClickInv
<1>4. CASE ApplyBacksUp(r)
    <2>1. /\ marker' = Nothing /\ launcher.step \in {"off", "watch"}
          /\ \A s \in Request \ {r} : request[s].step = "idle"
          /\ request[r].whole
        BY <1>4 DEF ApplyBacksUp, ClickInv
    <2>2. /\ request'[r].step = "mark"
          /\ request'[r].release = dir'.staged
          /\ \A s \in Request \ {r} : request'[s].step = "idle"
        BY <1>4, <2>1, BackedUp
    <2>3. QED
        BY <1>1, <1>2, <2>1, <2>2 DEF ClickInv
<1>5. CASE ApplyMarks(r)
    <2>1. /\ launcher.step \in {"off", "watch"}
          /\ \A s \in Request \ {r} : request[s].step = "idle"
          /\ dir.staged = request[r].release
        BY <1>5 DEF ApplyMarks, ClickInv
    <2>2. /\ dir'.staged = marker'.version
          /\ \A s \in Request : request'[s].step = "idle"
        BY <1>5, <2>1, Marked, IdleTyped
    <2>3. QED
        BY <1>1, <1>2, <2>1, <2>2 DEF ClickInv
<1>6. QED
    BY <1>3, <1>4, <1>5

(* staged\ is left alone, or taken over as app\.                           *)
LEMMA StagedStays ==
    ASSUME TypeOK, [Next]_vars,
           ~\E r \in Request : \/ \E v \in Version : ApplyUnpacks(r, v)
                               \/ ApplyBacksUp(r) \/ ApplyMarks(r)
    PROVE  /\ dir'.staged = dir.staged \/ (SwapIn /\ dir'.staged = Nothing)
           /\ "swapped" \in launcher'.did =>
                 "swapped" \in launcher.did \/ (SwapIn /\ dir'.staged = Nothing)
<1>1. CASE UNCHANGED <<dir, launcher>>
    BY <1>1
<1>2. CASE Boot \/ Quit \/ PowerCut \/ Finish \/ Restart
    <2>1. launcher'.did = {}
        <3>1. CASE Boot \/ Finish \/ Restart
            BY <3>1, WatchingTyped DEF Boot, Finish, Restart
        <3>2. CASE Quit \/ PowerCut
            BY <3>2, WatchingGoes DEF Quit, PowerCut, Steps
        <3>3. QED
            BY <1>2, <3>1, <3>2
    <2>2. dir'.staged = dir.staged
        BY <1>2 DEF Boot, Quit, PowerCut, Finish, Restart, TypeOK
    <2>3. QED
        BY <2>1, <2>2
<1>3. CASE Begin
    BY <1>3 DEF Begin, Watching
<1>4. CASE \/ Stop \/ Clear \/ Migrate \/ Start \/ Health \/ PutBack \/ RestoreDb
    <2>1. launcher'.did = launcher.did
        BY <1>4, GoesTyped DEF Stop, Clear, Migrate, Start, Health, PutBack,
           RestoreDb, Steps
    <2>2. dir'.staged = dir.staged
        BY <1>4 DEF Stop, Clear, Migrate, Start, Health, PutBack, RestoreDb, TypeOK
    <2>3. QED
        BY <2>1, <2>2
<1>5. CASE Park
    <2>1. launcher'.did = launcher.did
        BY <1>5, GoesTyped DEF Park, Steps
    <2>2. dir'.staged = dir.staged
        BY <1>5 DEF Park, TypeOK
    <2>3. QED
        BY <2>1, <2>2
<1>6. CASE KeepOld
    <2>1. "swapped" \in launcher'.did => "swapped" \in launcher.did
        BY <1>6, GoesTyped, DidTyped DEF KeepOld, Steps, All
    <2>2. dir'.staged = dir.staged
        BY <1>6 DEF KeepOld, TypeOK
    <2>3. QED
        BY <2>1, <2>2
<1>7. CASE SwapIn
    <2>1. CASE Goes("undo") /\ UNCHANGED dir
        BY <2>1, GoesTyped DEF Steps
    <2>2. CASE dir' = [dir EXCEPT !.app = dir.staged, !.staged = Nothing]
        BY <1>7, <2>2 DEF TypeOK
    <2>3. QED
        BY <1>7, <2>1, <2>2 DEF SwapIn
<1>8. CASE UndoStop
    BY <1>8, GoesTyped DEF UndoStop, TypeOK, Steps
<1>9. QED
    BY <1>1, <1>2, <1>3, <1>4, <1>5, <1>6, <1>7, <1>8
    DEF Next, Cycle, vars, WriteRow, Refuse

(* The launcher reaches the swap from its beginning, step by step.         *)
LEMMA TowardsSwap ==
    ASSUME TypeOK, [Next]_vars,
           launcher'.step \in {"stop", "clear", "keep", "swap"}
    PROVE  \/ Begin
           \/ launcher.step \in {"stop", "clear", "keep"} /\ (Stop \/ Clear \/ KeepOld)
           \/ launcher' = launcher
<1> USE DEF At
<1>1. ~(Boot \/ Finish \/ Restart)
    BY WatchingTyped DEF Boot, Finish, Restart
<1>2. ~(Quit \/ PowerCut)
    BY WatchingGoes DEF Quit, PowerCut, Steps
<1>3. ~(Migrate \/ Start \/ Health \/ Park \/ PutBack \/ RestoreDb)
    BY GoesTyped DEF Migrate, Start, Health, Park, PutBack, RestoreDb, Steps
<1>4. ~SwapIn
    BY GoesTyped, DidTyped DEF SwapIn, Steps, All
<1>5. ~UndoStop
    BY GoesTyped DEF UndoStop, TypeOK, Steps
<1>6. QED
    BY <1>1, <1>2, <1>3, <1>4, <1>5, AppStays
    DEF Next, Cycle, vars, WriteRow, Refuse, Stop, Clear, KeepOld

LEMMA NextClick ==
    ASSUME TypeOK, DidInv, OrderInv, ClickInv, [Next]_vars, faults'["click"] = 0
    PROVE  ClickInv'
<1>1. CASE \E r \in Request : \/ \E v \in Version : ApplyUnpacks(r, v)
                              \/ ApplyBacksUp(r) \/ ApplyMarks(r)
    BY <1>1, AppClick
<1>2. CASE ~\E r \in Request : \/ \E v \in Version : ApplyUnpacks(r, v)
                               \/ ApplyBacksUp(r) \/ ApplyMarks(r)
    <2>1. /\ request' = request \/ \A r \in Request : request'[r].step = "idle"
          /\ marker' = marker \/ marker' = Nothing
        BY <1>2, RequestsStay, IdleTyped
    <2>2. /\ dir'.staged = dir.staged \/ (SwapIn /\ dir'.staged = Nothing)
          /\ "swapped" \in launcher'.did =>
                "swapped" \in launcher.did \/ (SwapIn /\ dir'.staged = Nothing)
        BY <1>2, StagedStays
    <2>3. marker' # Nothing => dir'.staged \in {Nothing, marker'.version}
        BY <2>1, <2>2 DEF ClickInv
    <2>4. "swapped" \in launcher'.did => dir'.staged = Nothing
        BY <2>2 DEF ClickInv
    <2>5. launcher'.step \in {"stop", "clear", "keep", "swap"}
            => dir'.staged = launcher'.pending.version
        <3>1. SUFFICES ASSUME launcher'.step \in {"stop", "clear", "keep", "swap"}
                       PROVE  dir'.staged = launcher'.pending.version
            OBVIOUS
        <3>2. CASE Begin
            <4>1. /\ marker # Nothing /\ dir.staged # Nothing
                  /\ launcher'.pending = marker /\ dir' = dir
                BY <3>2 DEF Begin, Watching
            <4>2. QED
                BY <4>1 DEF ClickInv
        <3>3. CASE launcher.step \in {"stop", "clear", "keep"}
                   /\ (Stop \/ Clear \/ KeepOld)
            <4>1. launcher'.pending = launcher.pending
                BY <3>3, GoesTyped, DidTyped DEF Stop, Clear, KeepOld, Steps, All
            <4>2. ~SwapIn
                BY <3>3 DEF SwapIn, At
            <4>3. QED
                BY <2>2, <3>3, <4>1, <4>2 DEF ClickInv
        <3>4. CASE launcher' = launcher
            <4>1. ~SwapIn
                BY <3>4, GoesTyped, DidTyped DEF SwapIn, At, Steps, All
            <4>2. QED
                BY <2>2, <3>1, <3>4, <4>1 DEF ClickInv
        <3>5. QED
            BY <3>1, <3>2, <3>3, <3>4, TowardsSwap
    <2>6. ASSUME NEW r \in Request, request'[r].step # "idle"
          PROVE  /\ marker' = Nothing /\ launcher'.step \in {"off", "watch"}
                 /\ \A s \in Request \ {r} : request'[s].step = "idle"
                 /\ request'[r].step = "unpack" => request'[r].whole
                 /\ request'[r].step = "mark" => dir'.staged = request'[r].release
        <3>1. request' = request
            BY <2>1, <2>6
        <3>2. /\ marker = Nothing /\ launcher.step \in {"off", "watch"}
              /\ \A s \in Request \ {r} : request[s].step = "idle"
              /\ request[r].step = "unpack" => request[r].whole
              /\ request[r].step = "mark" => dir.staged = request[r].release
            BY <2>6, <3>1 DEF ClickInv
        <3>3. ~SwapIn
            BY <3>2 DEF SwapIn, At
        <3>4. launcher'.step \in {"off", "watch"}
            <4>1. ~Begin
                BY <3>2 DEF Begin
            <4>2. QED
                BY <3>2, <4>1, PendingStays
        <3>5. QED
            BY <2>1, <2>2, <3>1, <3>2, <3>3, <3>4
    <2>7. QED
        BY <2>3, <2>4, <2>5, <2>6 DEF ClickInv
<1>3. QED
    BY <1>1, <1>2
-----------------------------------------------------------------------------
(* What runs is what lies in app\ *)

LEMMA NextCode ==
    ASSUME TypeOK, DidInv, ProcInv, CodeRuns, [Next]_vars, faults'["undo"] = 0
    PROVE  CodeRuns'
<1> USE DEF At
<1>1. CASE UNCHANGED <<proc, orphan, launcher>> /\ dir'.app = dir.app
    BY <1>1 DEF CodeRuns
<1>2. CASE \E r \in Request : \/ \E v \in Version : ApplyUnpacks(r, v)
                              \/ ApplyBacksUp(r) \/ ApplyMarks(r)
    BY <1>1, <1>2, AppStays, Unpacked, BackedUp, Marked
<1>3. CASE Boot \/ Finish \/ Restart
    <2>1. launcher'.step = "watch"
        BY <1>3, WatchingTyped DEF Boot, Finish, Restart
    <2>2. /\ orphan' \in {orphan, proc} /\ dir'.app = dir.app
          /\ proc' \in {proc, Started, Nothing}
        BY <1>3 DEF Boot, Finish, Restart, StartsAgain, StartsOver, TypeOK
    <2>3. QED
        BY <2>1, <2>2 DEF CodeRuns, Started
<1>4. CASE Quit \/ PowerCut
    <2>1. launcher'.step = "off"
        BY <1>4, WatchingGoes DEF Quit, PowerCut, Steps
    <2>2. proc' = Nothing /\ orphan' \in {orphan, Nothing} /\ dir' = dir
        BY <1>4 DEF Quit, PowerCut
    <2>3. QED
        BY <2>1, <2>2 DEF CodeRuns
<1>5. CASE Begin
    BY <1>5 DEF Begin, Watching, CodeRuns
<1>6. CASE Stop
    <2>1. launcher'.step \in {"clear", "undo"} /\ dir' = dir
        BY <1>6, GoesTyped DEF Stop, Steps
    <2>2. proc' \in {proc, Nothing} /\ orphan' \in {orphan, proc}
        BY <1>6 DEF Stop, StopOk, StopFails
    <2>3. QED
        BY <2>1, <2>2 DEF CodeRuns
<1>7. CASE Clear
    <2>1. launcher'.step = "keep" /\ dir'.app = dir.app
        BY <1>7, GoesTyped DEF Clear, Steps, TypeOK
    <2>2. QED
        BY <1>7, <2>1 DEF Clear, CodeRuns
<1>8. CASE KeepOld
    <2>1. launcher'.step \in {"swap", "undo"}
        BY <1>8, GoesTyped, DidTyped DEF KeepOld, Steps, All
    <2>2. \/ dir' = dir
          \/ proc = Nothing /\ orphan = Nothing
        BY <1>8 DEF KeepOld, Locked, Running
    <2>3. QED
        BY <1>8, <2>1, <2>2 DEF KeepOld, CodeRuns
<1>9. CASE SwapIn
    <2>1. launcher'.step \in {"migrate", "undo"}
        BY <1>9, GoesTyped, DidTyped DEF SwapIn, Steps, All
    <2>2. proc = Nothing /\ orphan = Nothing
        BY <1>9 DEF SwapIn, ProcInv, DidInv, Forward
    <2>3. QED
        BY <1>9, <2>1, <2>2 DEF SwapIn, CodeRuns
<1>10. CASE Migrate \/ Start \/ Health
    <2>1. launcher'.step \in {"start", "health", "done", "undo"}
        BY <1>10, GoesTyped DEF Migrate, Start, Health, Steps
    <2>2. /\ dir' = dir /\ orphan' = orphan
          /\ proc' \in {proc, Started}
        BY <1>10 DEF Migrate, Start, Health
    <2>3. QED
        BY <2>1, <2>2 DEF CodeRuns, Started
<1>11. CASE UndoStop
    <2>1. ~Fault("undo")
        BY FaultTyped
    <2>2. /\ StopOk /\ dir' = dir
          /\ launcher' = [launcher EXCEPT !.step = "park", !.stopped = TRUE]
        BY <1>11, <2>1 DEF UndoStop
    <2>3. launcher'.stopped
        BY <2>2 DEF TypeOK
    <2>4. QED
        BY <2>2, <2>3 DEF StopOk, CodeRuns
<1>12. CASE Park \/ PutBack
    <2>1. /\ launcher.stopped /\ launcher'.stopped = launcher.stopped
          /\ UNCHANGED <<proc, orphan>>
        BY <1>12, GoesTyped DEF Park, PutBack, CodeRuns, Steps
    <2>2. launcher.did # {} => proc = Nothing /\ orphan = Nothing
        BY <1>12, <2>1 DEF Park, PutBack, ProcInv
    <2>3. launcher.did = {} => dir' = dir
        BY <1>12 DEF Park, PutBack
    <2>4. QED
        BY <2>1, <2>2, <2>3 DEF CodeRuns
<1>13. CASE RestoreDb
    <2>1. launcher'.step = "restart" /\ UNCHANGED <<dir, proc, orphan>>
        BY <1>13, GoesTyped DEF RestoreDb, Steps
    <2>2. QED
        BY <2>1 DEF CodeRuns
<1>14. QED
    BY <1>1, <1>2, <1>3, <1>4, <1>5, <1>6, <1>7, <1>8, <1>9, <1>10, <1>11,
       <1>12, <1>13 DEF Next, Cycle, vars, WriteRow, Refuse

-----------------------------------------------------------------------------
(* Where the working release is *)

(* An operator clicks in a release that works.                             *)
LEMMA ServesGood ==
    ASSUME CodeRuns, Serving \in Good
    PROVE  dir.app \in Good
<1>1. Serving # Nothing
    BY Distinct
<1>2. QED
    BY <1>1 DEF Serving, CodeRuns

LEMMA AppGood ==
    ASSUME TypeOK, DidInv, ClickInv, CodeRuns, GoodInv, faults'["click"] = 0,
           NEW r \in Request,
           \/ \E v \in Version : ApplyUnpacks(r, v)
           \/ ApplyBacksUp(r) \/ ApplyMarks(r)
    PROVE  GoodInv'
<1>1. /\ launcher' = launcher /\ launcher.step \in {"off", "watch"}
      /\ dir.app \in Good
    <2>1. ASSUME NEW v \in Version, ApplyUnpacks(r, v)
          PROVE  launcher.step \in {"off", "watch"} /\ dir.app \in Good
        BY <2>1, Alone, ServesGood DEF At
    <2>2. ASSUME ApplyBacksUp(r) \/ ApplyMarks(r)
          PROVE  launcher.step \in {"off", "watch"} /\ dir.app \in Good
        BY <2>2 DEF ApplyBacksUp, ApplyMarks, ClickInv, GoodInv
    <2>3. QED
        BY <2>1, <2>2, AppStays
<1>2. dir'.app = dir.app
    BY Unpacked, BackedUp, Marked
<1>3. QED
    BY <1>1, <1>2 DEF GoodInv, Forward, At

LEMMA NextGood ==
    ASSUME TypeOK, DidInv, ProcInv, OrderInv, ClickInv, CodeRuns, GoodInv,
           [Next]_vars, faults'["click"] = 0, faults'["undo"] = 0
    PROVE  GoodInv'
<1> USE DEF At, Forward
<1>1. CASE \E r \in Request : \/ \E v \in Version : ApplyUnpacks(r, v)
                              \/ ApplyBacksUp(r) \/ ApplyMarks(r)
    BY <1>1, AppGood
<1> SUFFICES ASSUME ~\E r \in Request : \/ \E v \in Version : ApplyUnpacks(r, v)
                                        \/ ApplyBacksUp(r) \/ ApplyMarks(r)
             PROVE  GoodInv'
    BY <1>1
<1>2. /\ request' = request \/ \A r \in Request : request'[r].step = "idle"
      /\ marker' = marker \/ marker' = Nothing
    BY RequestsStay, IdleTyped
<1>3. ASSUME \E r \in Request : request'[r].step # "idle"
      PROVE  dir.app \in Good /\ launcher.step \in {"off", "watch"}
    BY <1>2, <1>3 DEF GoodInv, ClickInv
<1>4. CASE UNCHANGED <<dir, launcher>>
    BY <1>2, <1>3, <1>4 DEF GoodInv
<1>5. CASE Boot
    <2>1. launcher'.step = "watch" /\ launcher'.did = {} /\ dir' = dir
        BY <1>5, WatchingTyped DEF Boot
    <2>2. marker' # Nothing /\ dir.staged # Nothing => dir.app \in Good
        BY <1>5 DEF Boot, CanStart, GoodInv
    <2>3. QED
        BY <1>2, <1>3, <2>1, <2>2 DEF GoodInv
<1>6. CASE Quit
    <2>1. launcher'.step = "off" /\ launcher'.did = {} /\ dir' = dir
        <3>1. "off" \in Steps /\ launcher' = [Watching EXCEPT !.step = "off"]
            BY <1>6 DEF Quit, Steps
        <3>2. launcher'.step = "off" /\ launcher'.did = {}
            BY <3>1, WatchingGoes
        <3>3. QED
            BY <1>6, <3>2 DEF Quit
    <2>2. QED
        BY <1>2, <1>3, <1>6, <2>1 DEF GoodInv, Quit
<1>7. CASE PowerCut
    <2>1. /\ launcher'.step = "off" /\ launcher'.did = {} /\ dir' = dir
          /\ marker' = marker /\ \A r \in Request : request'[r].step = "idle"
        <3>1. "off" \in Steps /\ launcher' = [Watching EXCEPT !.step = "off"]
            BY <1>7 DEF PowerCut, Steps
        <3>2. launcher'.step = "off" /\ launcher'.did = {}
            BY <3>1, WatchingGoes
        <3>3. \A r \in Request : request'[r].step = "idle"
            BY <1>7, DieTyped, IdleTyped DEF PowerCut
        <3>4. QED
            BY <1>7, <3>2, <3>3 DEF PowerCut
    <2>2. ASSUME marker # Nothing, dir.staged # Nothing
          PROVE  dir.app \in Good \/ dir.app = Nothing
        <3>1. launcher.did \in {{}, {"kept"}}
            BY <2>2 DEF ClickInv, DidInv, All
        <3>2. CASE launcher.step \in {"watch", "stop", "clear", "keep", "swap",
                                      "undo", "park", "restore", "restart"}
            BY <1>7, <2>2, <3>1, <3>2 DEF GoodInv, DidInv, PowerCut
        <3>3. CASE At("unkeep")
            BY <3>1, <3>3 DEF GoodInv
        <3>4. CASE launcher.step \in Forward \ {"swap"}
            BY <3>1, <3>4 DEF DidInv, All
        <3>5. QED
            BY <1>7, <3>2, <3>3, <3>4 DEF PowerCut, TypeOK, Steps
    <2>3. QED
        BY <2>1, <2>2 DEF GoodInv
<1>8. CASE Begin
    <2>1. /\ launcher'.step = "stop" /\ launcher'.did = {} /\ dir' = dir
          /\ dir.app \in Good
        BY <1>8 DEF Begin, Watching, GoodInv
    <2>2. QED
        BY <1>2, <2>1 DEF GoodInv
<1>9. CASE Stop \/ Clear
    <2>1. /\ launcher'.step \in {"clear", "keep", "undo"} /\ launcher'.did = {}
          /\ dir'.app = dir.app /\ dir.app \in Good
        <3>1. launcher'.step \in {"clear", "keep", "undo"} /\ launcher'.did = {}
            BY <1>9, GoesTyped DEF Stop, Clear, DidInv, Early, Steps
        <3>2. dir'.app = dir.app /\ dir.app \in Good
            BY <1>9 DEF Stop, Clear, GoodInv, TypeOK
        <3>3. QED
            BY <3>1, <3>2
    <2>2. QED
        BY <1>2, <2>1 DEF GoodInv
<1>10. CASE KeepOld
    <2>1. dir.app \in Good /\ launcher.did = {}
        BY <1>10 DEF KeepOld, GoodInv, DidInv, Early
    <2>2. \A r \in Request : request'[r].step = "idle"
        BY <1>3, <1>10 DEF KeepOld
    <2>3. CASE Goes("undo") /\ UNCHANGED dir
        <3>1. launcher'.step = "undo" /\ launcher'.did = {}
            BY <2>1, <2>3, GoesTyped DEF Steps
        <3>2. QED
            BY <2>1, <2>2, <2>3, <3>1 DEF GoodInv
    <2>4. CASE /\ dir' = [dir EXCEPT !.prev = dir.app, !.app = Nothing]
               /\ Did({"kept"}, "swap")
        <3>1. launcher'.step = "swap" /\ launcher'.did = {"kept"}
            BY <2>1, <2>4, DidTyped DEF Steps, All
        <3>2. dir'.prev \in Good /\ dir'.app = Nothing
            BY <2>1, <2>4 DEF TypeOK
        <3>3. QED
            BY <2>2, <3>1, <3>2 DEF GoodInv
    <2>5. QED
        BY <1>10, <2>3, <2>4 DEF KeepOld
<1>11. CASE SwapIn
    <2>1. /\ dir.prev \in Good /\ dir.app = Nothing /\ launcher.did = {"kept"}
          /\ dir.staged = launcher.pending.version
          /\ launcher.pending.version \in Version
        BY <1>11 DEF SwapIn, GoodInv, DidInv, ClickInv, OrderInv, Order
    <2>2. \A r \in Request : request'[r].step = "idle"
        BY <1>3, <1>11 DEF SwapIn
    <2>3. CASE Goes("undo") /\ UNCHANGED dir
        <3>1. launcher'.step = "undo" /\ launcher'.did = {"kept"}
            BY <2>1, <2>3, GoesTyped DEF Steps
        <3>2. QED
            BY <2>1, <2>2, <2>3, <3>1 DEF GoodInv
    <2>4. CASE /\ dir' = [dir EXCEPT !.app = dir.staged, !.staged = Nothing]
               /\ Did({"swapped", "migrated"}, "migrate")
        <3>1. /\ launcher'.step = "migrate" /\ launcher'.did = All
              /\ launcher'.pending = launcher.pending
            BY <2>1, <2>4, DidTyped DEF Steps, All
        <3>2. dir'.prev = dir.prev /\ dir'.app = launcher.pending.version
            BY <2>1, <2>4 DEF TypeOK
        <3>3. QED
            BY <2>1, <2>2, <3>1, <3>2 DEF GoodInv, All
    <2>5. QED
        BY <1>11, <2>3, <2>4 DEF SwapIn
<1>12. CASE Migrate \/ Start \/ Health
    <2>1. /\ dir.prev \in Good /\ dir.app \in Version /\ launcher.did = All
          /\ dir.app = launcher.pending.version
        BY <1>12 DEF Migrate, Start, Health, GoodInv, DidInv, All
    <2>2. \A r \in Request : request'[r].step = "idle"
        BY <1>3, <1>12 DEF Migrate, Start, Health
    <2>3. /\ launcher'.step \in {"start", "health", "done", "undo"}
          /\ launcher'.did = All /\ launcher'.pending = launcher.pending
          /\ dir' = dir
        BY <1>12, <2>1, GoesTyped DEF Migrate, Start, Health, Steps
    <2>4. ASSUME launcher'.step = "done"
          PROVE  dir.app \in Good
        <3>1. Health /\ Healthy
            BY <1>12, <2>4, GoesTyped DEF Migrate, Start, Health, Steps
        <3>2. orphan = Nothing /\ Serving = proc
            BY <2>1, <3>1 DEF Health, ProcInv, All, Serving
        <3>3. proc # Nothing
            BY <3>1, <3>2, Distinct DEF Healthy
        <3>4. proc = dir.app
            BY <3>3 DEF CodeRuns
        <3>5. QED
            BY <2>1, <3>1, <3>2, <3>4, Distinct DEF Healthy
    <2>5. QED
        BY <2>1, <2>2, <2>3, <2>4 DEF GoodInv, All
<1>13. CASE Finish
    <2>1. launcher'.step = "watch" /\ launcher'.did = {} /\ marker' = Nothing
        BY <1>13, WatchingTyped DEF Finish
    <2>2. dir'.app = dir.app /\ dir.app \in Good
        BY <1>13 DEF Finish, TypeOK, GoodInv
    <2>3. QED
        BY <2>1, <2>2 DEF GoodInv
<1>14. CASE UndoStop
    <2>1. /\ launcher.step = "undo" /\ launcher'.step = "park" /\ dir' = dir
          /\ launcher'.did = launcher.did
        BY <1>14, GoesTyped DEF UndoStop, TypeOK, Steps
    <2>2. \A r \in Request : request'[r].step = "idle"
        BY <1>3, <2>1
    <2>3. QED
        BY <2>1, <2>2 DEF GoodInv
<1>15. CASE Park
    <2>1. /\ launcher.step = "park" /\ launcher'.step = "unkeep"
          /\ launcher'.did = launcher.did
        BY <1>15, GoesTyped DEF Park, Steps
    <2>2. \A r \in Request : request'[r].step = "idle"
        BY <1>3, <2>1
    <2>3. CASE "swapped" \in launcher.did
        <3>1. ~Locked
            BY <2>1, <2>3 DEF Locked, Running, ProcInv, CodeRuns
        <3>2. ~Fault("undo")
            BY FaultTyped
        <3>3. dir' = [dir EXCEPT !.failed = dir.app, !.app = Nothing]
            BY <1>15, <2>3, <3>1, <3>2 DEF Park
        <3>4. dir'.app = Nothing /\ dir'.prev = dir.prev
            BY <3>3 DEF TypeOK
        <3>5. QED
            BY <2>1, <2>2, <2>3, <3>4 DEF GoodInv
    <2>4. CASE "swapped" \notin launcher.did
        <3>1. dir' = dir /\ launcher.did \in {{}, {"kept"}}
            BY <1>15, <2>4 DEF Park, DidInv, All
        <3>2. QED
            BY <2>1, <2>2, <3>1 DEF GoodInv
    <2>5. QED
        BY <2>3, <2>4
<1>16. CASE PutBack
    <2>1. /\ launcher.step = "unkeep" /\ launcher'.step = "restore"
          /\ launcher'.did = launcher.did
        BY <1>16, GoesTyped DEF PutBack, Steps
    <2>2. \A r \in Request : request'[r].step = "idle"
        BY <1>3, <2>1
    <2>3. dir'.app \in Good
        <3>1. CASE launcher.did = {}
            BY <1>16, <3>1 DEF PutBack, GoodInv
        <3>2. CASE launcher.did # {}
            <4>1. /\ "kept" \in launcher.did
                  /\ dir.app = Nothing /\ dir.prev \in Good
                BY <2>1, <3>2 DEF DidInv, All, GoodInv
            <4>2. ~Fault("undo")
                BY FaultTyped
            <4>3. dir' = [dir EXCEPT !.app = dir.prev, !.prev = Nothing]
                BY <1>16, <4>1, <4>2 DEF PutBack
            <4>4. QED
                BY <4>1, <4>3 DEF TypeOK
        <3>3. QED
            BY <3>1, <3>2
    <2>4. QED
        BY <2>1, <2>2, <2>3 DEF GoodInv
<1>17. CASE RestoreDb
    <2>1. /\ launcher.step = "restore" /\ launcher'.step = "restart"
          /\ dir' = dir
        BY <1>17, GoesTyped DEF RestoreDb, Steps
    <2>2. QED
        BY <1>2, <2>1 DEF GoodInv
<1>18. CASE Restart
    <2>1. /\ launcher.step = "restart" /\ launcher'.step = "watch"
          /\ launcher'.did = {} /\ dir' = dir
        BY <1>18, WatchingTyped DEF Restart
    <2>2. ~Fault("undo")
        BY FaultTyped
    <2>3. marker' = Nothing
        BY <1>18, <2>2 DEF Restart
    <2>4. QED
        BY <1>2, <2>1, <2>3 DEF GoodInv
<1>19. QED
    BY <1>4, <1>5, <1>6, <1>7, <1>8, <1>9, <1>10, <1>11, <1>12, <1>13, <1>14,
       <1>15, <1>16, <1>17, <1>18 DEF Next, Cycle, vars, WriteRow, Refuse
-----------------------------------------------------------------------------
(* Code and database belong together *)

LEMMA AppPair ==
    ASSUME TypeOK, DidInv, ClickInv, PairInv, NEW r \in Request,
           \/ \E v \in Version : ApplyUnpacks(r, v)
           \/ ApplyBacksUp(r) \/ ApplyMarks(r)
    PROVE  PairInv'
<1> USE DEF At
<1>1. ASSUME NEW v \in Version, ApplyUnpacks(r, v) PROVE PairInv'
    <2>1. \A s \in Request : request'[s].step = "mark" =>
              request[s].step = "mark" /\ request'[s].backup = request[s].backup
        BY <1>1, Unpacked
    <2>2. dir'.app = dir.app /\ dir'.prev = dir.prev
        BY <1>1, Unpacked
    <2>3. UNCHANGED <<db, marker, launcher>>
        BY <1>1, Zenon DEF ApplyUnpacks
    <2>4. QED
        BY <2>1, <2>2, <2>3 DEF PairInv, Matches
<1>2. CASE ApplyBacksUp(r)
    <2>1. launcher.step \in {"off", "watch"}
        BY <1>2 DEF ApplyBacksUp, ClickInv
    <2>2. Matches(dir.app, db)
        BY <2>1 DEF PairInv, Early
    <2>3. \A s \in Request : request'[s].step = "mark" =>
              \/ request'[s].backup = db
              \/ /\ request[s].step = "mark"
                 /\ request'[s].backup = request[s].backup
        BY <1>2, BackedUp
    <2>4. dir'.app = dir.app /\ dir'.prev = dir.prev
        BY <1>2, BackedUp
    <2>5. UNCHANGED <<db, marker, launcher>>
        BY <1>2 DEF ApplyBacksUp
    <2>6. QED
        BY <2>2, <2>3, <2>4, <2>5 DEF PairInv, Matches
<1>3. CASE ApplyMarks(r)
    <2>1. Matches(dir.app, marker'.backup)
        BY <1>3, Marked DEF ApplyMarks, PairInv
    <2>2. \A s \in Request : request'[s].step = "mark" =>
              request[s].step = "mark" /\ request'[s].backup = request[s].backup
        BY <1>3, Marked, IdleTyped
    <2>3. UNCHANGED <<db, dir, launcher>>
        BY <1>3, Marked DEF ApplyMarks
    <2>4. QED
        BY <2>1, <2>2, <2>3 DEF PairInv, Matches
<1>4. QED
    BY <1>1, <1>2, <1>3

(* A migration that ends well leaves the schema of a working release.      *)
LEMMA MigratesTo ==
    ASSUME Migrates, dir.app \in Good
    PROVE  Matches(dir.app, db')
<1>1. db.whole /\ (db' = [db EXCEPT !.schema = dir.app])
    BY Distinct DEF Migrates
<1>2. QED
    BY <1>1 DEF Matches

LEMMA NextPair ==
    ASSUME TypeOK, DidInv, ProcInv, OrderInv, ClickInv, CodeRuns, GoodInv,
           GoodInv', PairInv, [Next]_vars,
           faults'["click"] = 0, faults'["undo"] = 0, faults'["cut"] = 0
    PROVE  PairInv'
<1> USE DEF At, Forward, Early, Matches
<1>1. CASE \E r \in Request : \/ \E v \in Version : ApplyUnpacks(r, v)
                              \/ ApplyBacksUp(r) \/ ApplyMarks(r)
    BY <1>1, AppPair
<1> SUFFICES ASSUME ~\E r \in Request : \/ \E v \in Version : ApplyUnpacks(r, v)
                                        \/ ApplyBacksUp(r) \/ ApplyMarks(r)
             PROVE  PairInv'
    BY <1>1
<1>2. /\ request' = request \/ \A r \in Request : request'[r].step = "idle"
      /\ marker' = marker \/ marker' = Nothing
    BY RequestsStay, IdleTyped
<1>3. launcher.step \notin {"off", "watch"} =>
          \A r \in Request : request'[r].step # "mark"
    BY <1>2 DEF ClickInv
<1>4. \A r \in Request : request'[r].step = "mark" =>
          /\ request' = request
          /\ dir.app \in Good /\ Matches(dir.app, request'[r].backup)
    BY <1>2 DEF PairInv, GoodInv
<1>5. ~PowerCut /\ ~Fault("undo")
    BY FaultTyped DEF PowerCut
<1>6. CASE WriteRow
    <2>1. UNCHANGED <<dir, launcher, request, marker>>
        BY <1>6 DEF WriteRow
    <2>2. db'.whole = db.whole /\ db'.schema = db.schema
        BY <1>6 DEF WriteRow, TypeOK, Snapshot
    <2>3. QED
        BY <2>1, <2>2 DEF PairInv
<1>7. CASE UNCHANGED <<dir, db, launcher>>
    BY <1>2, <1>7 DEF PairInv
<1>8. CASE Boot
    <2>1. /\ launcher.step = "off" /\ launcher'.step = "watch" /\ launcher'.did = {}
          /\ dir' = dir
        BY <1>8, WatchingTyped DEF Boot
    <2>2. dir.app \in Good
        BY <2>1 DEF PairInv
    <2>3. Matches(dir.app, db')
        BY <1>8, <2>2, MigratesTo DEF Boot
    <2>4. marker' # Nothing => Matches(dir.app, marker'.backup)
        BY <1>2, <2>1 DEF PairInv
    <2>5. QED
        BY <1>4, <2>1, <2>2, <2>3, <2>4 DEF PairInv
<1>9. CASE Quit
    <2>1. "off" \in Steps /\ launcher' = [Watching EXCEPT !.step = "off"]
        BY <1>9 DEF Quit, Steps
    <2>2. launcher'.step = "off" /\ launcher'.did = {}
        BY <2>1, WatchingGoes
    <2>3. launcher.step = "watch" /\ UNCHANGED <<dir, db, marker>>
        BY <1>9 DEF Quit
    <2>4. QED
        BY <1>4, <2>2, <2>3 DEF PairInv
<1>10. CASE Begin
    <2>1. /\ launcher'.step = "stop" /\ launcher'.did = {}
          /\ launcher'.pending = marker /\ marker # Nothing
          /\ launcher.step = "watch" /\ UNCHANGED <<dir, db>>
        BY <1>10 DEF Begin, Watching
    <2>2. QED
        BY <1>4, <2>1 DEF PairInv
<1>11. CASE Stop \/ Clear
    <2>1. launcher.step \in {"stop", "clear"} /\ launcher.did = {}
        BY <1>11 DEF Stop, Clear, DidInv
    <2>2. /\ launcher'.step \in {"clear", "keep", "undo"} /\ launcher'.did = {}
          /\ launcher'.pending = launcher.pending
        BY <1>11, <2>1, GoesTyped DEF Stop, Clear, Steps
    <2>3. dir'.app = dir.app /\ db' = db
        BY <1>11 DEF Stop, Clear, TypeOK
    <2>4. QED
        BY <1>3, <2>1, <2>2, <2>3 DEF PairInv
<1>12. CASE KeepOld
    <2>1. launcher.step = "keep" /\ launcher.did = {} /\ db' = db
        BY <1>12 DEF KeepOld, DidInv
    <2>2. CASE Goes("undo") /\ UNCHANGED dir
        <3>1. launcher'.step = "undo" /\ launcher'.did = {}
            BY <2>1, <2>2, GoesTyped DEF Steps
        <3>2. QED
            BY <1>3, <2>1, <2>2, <3>1 DEF PairInv
    <2>3. CASE /\ dir' = [dir EXCEPT !.prev = dir.app, !.app = Nothing]
               /\ Did({"kept"}, "swap")
        <3>1. /\ launcher'.step = "swap" /\ launcher'.did = {"kept"}
              /\ launcher'.pending = launcher.pending
            BY <2>1, <2>3, DidTyped DEF Steps, All
        <3>2. dir'.prev = dir.app
            BY <2>3 DEF TypeOK
        <3>3. QED
            BY <1>3, <2>1, <3>1, <3>2 DEF PairInv
    <2>4. QED
        BY <1>12, <2>2, <2>3 DEF KeepOld
<1>13. CASE SwapIn
    <2>1. launcher.step = "swap" /\ launcher.did = {"kept"} /\ db' = db
        BY <1>13 DEF SwapIn, DidInv
    <2>2. CASE Goes("undo") /\ UNCHANGED dir
        <3>1. /\ launcher'.step = "undo" /\ launcher'.did = {"kept"}
              /\ launcher'.pending = launcher.pending
            BY <2>1, <2>2, GoesTyped DEF Steps
        <3>2. QED
            BY <1>3, <2>1, <2>2, <3>1 DEF PairInv
    <2>3. CASE /\ dir' = [dir EXCEPT !.app = dir.staged, !.staged = Nothing]
               /\ Did({"swapped", "migrated"}, "migrate")
        <3>1. /\ launcher'.step = "migrate" /\ launcher'.did = All
              /\ launcher'.pending = launcher.pending
            BY <2>1, <2>3, DidTyped DEF Steps, All
        <3>2. dir'.prev = dir.prev
            BY <2>3 DEF TypeOK
        <3>3. QED
            BY <1>3, <2>1, <3>1, <3>2 DEF PairInv, All
    <2>4. QED
        BY <1>13, <2>2, <2>3 DEF SwapIn
<1>14. CASE Migrate
    <2>1. launcher.step = "migrate" /\ launcher.did = All /\ dir' = dir
        BY <1>14 DEF Migrate, DidInv
    <2>2. /\ launcher'.step \in {"start", "undo"} /\ launcher'.did = All
          /\ launcher'.pending = launcher.pending
        BY <1>14, <2>1, GoesTyped DEF Migrate, Steps
    <2>3. launcher'.step = "start" => Migrates
        BY <1>14, GoesTyped DEF Migrate, Steps
    <2>4. launcher'.step = "start" /\ dir.app \in Good => Matches(dir.app, db')
        BY <2>3, MigratesTo
    <2>5. QED
        BY <1>3, <2>1, <2>2, <2>4 DEF PairInv, All
<1>15. CASE Start \/ Health
    <2>1. /\ launcher.step \in {"start", "health"} /\ launcher.did = All
          /\ UNCHANGED <<dir, db>>
        BY <1>15 DEF Start, Health, DidInv
    <2>2. /\ launcher'.step \in {"health", "done", "undo"} /\ launcher'.did = All
          /\ launcher'.pending = launcher.pending
        BY <1>15, <2>1, GoesTyped DEF Start, Health, Steps
    <2>3. launcher'.step = "done" => dir.app \in Good
        BY <2>1 DEF GoodInv
    <2>4. QED
        BY <1>3, <2>1, <2>2, <2>3 DEF PairInv, All
<1>16. CASE Finish
    <2>1. /\ launcher.step = "done" /\ launcher'.step = "watch"
          /\ launcher'.did = {} /\ marker' = Nothing
        BY <1>16, WatchingTyped DEF Finish
    <2>2. dir'.app = dir.app /\ dir.app \in Good /\ db' = db
        BY <1>16 DEF Finish, TypeOK, GoodInv
    <2>3. QED
        BY <1>3, <2>1, <2>2 DEF PairInv
<1>17. CASE UndoStop
    <2>1. launcher.step = "undo" /\ UNCHANGED <<dir, db>>
        BY <1>17 DEF UndoStop
    <2>2. /\ launcher'.step = "park" /\ launcher'.did = launcher.did
          /\ launcher'.pending = launcher.pending
        BY <1>17, GoesTyped DEF UndoStop, TypeOK, Steps
    <2>3. QED
        BY <1>3, <2>1, <2>2 DEF PairInv
<1>18. CASE Park
    <2>1. /\ launcher.step = "park" /\ launcher'.step = "unkeep"
          /\ launcher'.did = launcher.did
          /\ launcher'.pending = launcher.pending /\ db' = db
        BY <1>18, GoesTyped DEF Park, Steps
    <2>2. "swapped" \notin launcher.did => dir' = dir
        BY <1>18 DEF Park
    <2>3. "swapped" \in launcher.did => launcher.did = All
        BY DEF DidInv, All
    <2>4. dir'.prev = dir.prev
        BY <1>18 DEF Park, TypeOK
    <2>5. QED
        BY <1>3, <2>1, <2>2, <2>3, <2>4 DEF PairInv, All
<1>19. CASE PutBack
    <2>1. /\ launcher.step = "unkeep" /\ launcher'.step = "restore"
          /\ launcher'.did = launcher.did
          /\ launcher'.pending = launcher.pending /\ db' = db
        BY <1>19, GoesTyped DEF PutBack, Steps
    <2>2. CASE launcher.did = {}
        <3>1. dir' = dir
            BY <1>19, <2>2 DEF PutBack
        <3>2. QED
            BY <1>3, <2>1, <2>2, <3>1 DEF PairInv
    <2>3. CASE launcher.did # {}
        <3>1. "kept" \in launcher.did /\ dir.app = Nothing
            BY <2>1, <2>3 DEF DidInv, All, GoodInv
        <3>2. dir' = [dir EXCEPT !.app = dir.prev, !.prev = Nothing]
            BY <1>5, <1>19, <3>1 DEF PutBack
        <3>3. dir'.app = dir.prev
            BY <3>2 DEF TypeOK
        <3>4. QED
            BY <1>3, <2>1, <2>3, <3>3 DEF PairInv
    <2>4. QED
        BY <2>2, <2>3
<1>20. CASE RestoreDb
    <2>1. /\ launcher.step = "restore" /\ launcher'.step = "restart" /\ dir' = dir
        BY <1>20, GoesTyped DEF RestoreDb, Steps
    <2>2. launcher.stopped
        BY <2>1 DEF CodeRuns
    <2>3. CASE "migrated" \in launcher.did
        <3>1. db' = launcher.pending.backup
            BY <1>5, <1>20, <2>2, <2>3 DEF RestoreDb
        <3>2. QED
            BY <1>3, <2>1, <2>3, <3>1 DEF PairInv
    <2>4. CASE "migrated" \notin launcher.did
        <3>1. db' = db /\ launcher.did \in {{}, {"kept"}}
            BY <1>20, <2>4 DEF RestoreDb, DidInv, All
        <3>2. QED
            BY <1>3, <2>1, <3>1 DEF PairInv
    <2>5. QED
        BY <2>3, <2>4
<1>21. CASE Restart
    <2>1. /\ launcher.step = "restart" /\ launcher'.step = "watch"
          /\ launcher'.did = {} /\ UNCHANGED <<dir, db>>
        BY <1>21, WatchingTyped DEF Restart
    <2>2. dir.app \in Good
        BY <2>1 DEF GoodInv
    <2>3. ~Fault("undo")
        BY FaultTyped
    <2>4. marker' = Nothing
        BY <1>21, <2>3 DEF Restart
    <2>5. QED
        BY <1>3, <2>1, <2>2, <2>4 DEF PairInv
<1>22. QED
    BY <1>5, <1>6, <1>7, <1>8, <1>9, <1>10, <1>11, <1>12, <1>13, <1>14, <1>15,
       <1>16, <1>17, <1>18, <1>19, <1>20, <1>21 DEF Next, Cycle, vars, Refuse
-----------------------------------------------------------------------------
(* The invariant, and what follows from it *)

LEMMA Invariance == Spec => []IInv
<1>1. IInv /\ [Next]_vars => IInv'
    <2> SUFFICES ASSUME IInv, [Next]_vars PROVE IInv'
        OBVIOUS
    <2> USE DEF IInv
    <2>1. /\ NoClick' => NoClick
          /\ NoUndo' => NoUndo
          /\ NoCut' => NoCut
        BY FaultsGrow DEF NoClick, NoUndo, NoCut
    <2>2. TypeOK' /\ DidInv' /\ ProcInv' /\ OrderInv'
        BY NextTyped, NextDid, NextProc, NextOrder
    <2>3. HealthInv'
        BY NextHealth
    <2>4. NoClick' => ClickInv'
        BY <2>1, NextClick DEF NoClick
    <2>5. NoUndo' => CodeRuns'
        BY <2>1, NextCode DEF NoUndo
    <2>6. NoClick' /\ NoUndo' => GoodInv'
        BY <2>1, NextGood DEF NoClick, NoUndo
    <2>7. NoClick' /\ NoUndo' /\ NoCut' => PairInv'
        BY <2>1, <2>6, NextPair DEF NoClick, NoUndo, NoCut
    <2>8. QED
        BY <2>2, <2>3, <2>4, <2>5, <2>6, <2>7
<1>2. QED
    BY <1>1, InitInv, PTL DEF Spec

(* "Code and DB revert together" (launcher/swap.py): without a fault the    *)
(* launcher's watch finds a whole release and the database of that release. *)
THEOREM CodeAndDatabaseMatch == Spec => []MatchedPair
<1>1. IInv => MatchedPair
    <2> SUFFICES ASSUME IInv,
                        At("watch"), \A kind \in DOMAIN faults : faults[kind] = 0
                 PROVE  dir.app \in Version /\ db.whole /\ db.schema = dir.app
        BY DEF MatchedPair, IInv
    <2>1. NoClick /\ NoUndo /\ NoCut
        BY DEF NoClick, NoUndo, NoCut, IInv, TypeOK
    <2>2. dir.app \in Good /\ Matches(dir.app, db)
        BY <2>1 DEF IInv, PairInv, Early, At
    <2>3. QED
        BY <2>2, Distinct DEF Matches
<1>2. QED
    BY <1>1, Invariance, PTL

(* launcher/swap.py keeps the working release in app\ or app.prev\ at      *)
(* every step: the power may fail anywhere.                                 *)
THEOREM WorkingReleaseKept == Spec => []CodeSurvives
<1>1. IInv => CodeSurvives
    <2> SUFFICES ASSUME IInv, faults["undo"] + faults["click"] = 0
                 PROVE  {dir.app, dir.prev} \cap Good # {}
        BY DEF CodeSurvives
    <2>1. faults["undo"] \in Nat /\ faults["click"] \in Nat
        BY Numbers DEF IInv, TypeOK
    <2>2. NoClick /\ NoUndo
        BY <2>1 DEF NoClick, NoUndo
    <2>3. QED
        BY <2>2 DEF IInv, GoodInv
<1>2. QED
    BY <1>1, Invariance, PTL

(* What changes the database between the undo's restore and its restart.    *)
LEMMA RestoreKeeps ==
    ASSUME IInv, [Next]_vars, At("restore"), At("restart")', db' # db
    PROVE  Running = {}
<1>1. RestoreDb
    <2> USE DEF At
    <2>1. CASE Boot \/ Finish \/ Restart
        BY <2>1, WatchingTyped DEF Boot, Finish, Restart
    <2>2. CASE Quit \/ PowerCut
        BY <2>2, WatchingGoes DEF Quit, PowerCut, Steps
    <2>3. ~WriteRow /\ ~Refuse
        BY DEF WriteRow, Refuse
    <2>4. QED
        BY <2>1, <2>2, <2>3, AppStays
        DEF Next, Cycle, vars, Begin, Stop, Clear, KeepOld, SwapIn, Migrate,
            Start, Health, UndoStop, Park, PutBack
<1>2. "migrated" \in launcher.did /\ launcher.stopped
    BY <1>1 DEF RestoreDb
<1>3. proc = Nothing /\ orphan = Nothing
    BY <1>2 DEF IInv, ProcInv, At
<1>4. QED
    BY <1>3 DEF Running

(* Only a migrated update may take rows back: with the copy it restores.    *)
LEMMA RowsStay ==
    ASSUME IInv, [Next]_vars, db'.rows < db.rows
    PROVE  {"swapped", "migrated"} \subseteq launcher.did
<1>1. db.rows \in Nat
    BY Numbers DEF IInv, TypeOK, Snapshot
<1>2. CASE RestoreDb
    <2>1. CASE "migrated" \in launcher.did
        BY <2>1 DEF IInv, DidInv, All
    <2>2. CASE "migrated" \notin launcher.did
        BY <1>1, <1>2, <2>2 DEF RestoreDb
    <2>3. QED
        BY <2>1, <2>2
<1>3. ASSUME Migrates \/ MigrationFails PROVE db'.rows = db.rows
    BY <1>3 DEF Migrates, MigrationFails, IInv, TypeOK, Snapshot
<1>4. CASE Boot \/ Migrate
    BY <1>1, <1>3, <1>4 DEF Boot, Migrate
<1>5. CASE PowerCut
    <2>1. \/ db' = db
          \/ MigrationFails
          \/ db' = [db EXCEPT !.whole = FALSE]
        BY <1>5 DEF PowerCut
    <2>2. db'.rows = db.rows
        BY <1>3, <2>1 DEF IInv, TypeOK, Snapshot
    <2>3. QED
        BY <1>1, <2>2
<1>6. CASE WriteRow
    <2>1. db'.rows = db.rows + 1
        BY <1>6 DEF WriteRow, IInv, TypeOK, Snapshot
    <2>2. QED
        BY <1>1, <2>1
<1>7. CASE db' = db
    BY <1>1, <1>7
<1>8. QED
    BY <1>2, <1>4, <1>5, <1>6, <1>7, AppStays
    DEF Next, Cycle, vars, Quit, Refuse, Begin, Stop, Clear, KeepOld, SwapIn,
        Start, Health, Finish, UndoStop, Park, PutBack, Restart

(* apply_update's undo puts the database back only after migrate_attempted  *)
(* and only under no process that has it open.                              *)
THEOREM UndoIsCareful == Spec => UndoSparesRows
<1> DEFINE Offline == At("restore") /\ At("restart")' /\ db' # db => Running = {}
           Keeps == db'.rows < db.rows => {"swapped", "migrated"} \subseteq launcher.did
<1>1. IInv /\ [Next]_vars => [Offline]_vars /\ [Keeps]_vars
    BY RestoreKeeps, RowsStay
<1>2. QED
    BY <1>1, Invariance, PTL DEF Spec, UndoSparesRows, RestoreOffline,
       EarlyFailureKeepsRows

(* A cycle that ends well serves the release its marker names: the check of *)
(* /health compares the version, and no second process is left behind.      *)
THEOREM SuccessIsTheMarkers == Spec => SuccessServes
<1> DEFINE A == At("done") /\ At("watch")' =>
                    Serving \in {launcher.pending.version, Partial}
<1>1. IInv => A
    <2> SUFFICES ASSUME IInv, At("done") PROVE Serving \in {launcher.pending.version, Partial}
        OBVIOUS
    <2>1. orphan = Nothing
        BY DEF IInv, ProcInv, DidInv, At, Forward, All
    <2>2. QED
        BY <2>1 DEF IInv, HealthInv, Serving
<1>2. IInv /\ [Next]_vars => [A]_vars
    BY <1>1
<1>3. QED
    BY <1>2, Invariance, PTL DEF Spec, SuccessServes
=============================================================================
