--------------------------- MODULE TransportProofs ---------------------------
(***************************************************************************)
(* Proofs about the driver of the synchronisation and the offline file,    *)
(* for every number of rows, clicks, files, faults and schema versions,    *)
(* and every choice of the intervals.                                      *)
(*                                                                         *)
(* The inductive invariant has three parts beside the types: who is inside *)
(* the lock, what is known of rows on their way, and what the loop has     *)
(* waited since the server last refused its schema.                        *)
(***************************************************************************)
EXTENDS Transport, TLAPS

LockInv ==
    /\ \A s, t \in Runner :
          run[s].pc # "off" /\ run[t].pc # "off" => s = t
    /\ held <=> \E t \in Runner : run[t].pc # "off"
    /\ loop.pc = "wait" <=> run["tick"].pc # "off"

(* A group of rows that travels under a schema version: every row is       *)
(* written, with columns that version has.                                 *)
Travels(rows, schema) == \A r \in rows : born[r] # 0 /\ born[r] <= schema

RowsInv ==
    /\ \A r \in Row : born[r] <= cliSchema
    /\ \A r \in Row : stored[r] # 0 => stored[r] = born[r]
    /\ synced \subseteq Stored
    /\ \A b \in bundles : Travels(b.rows, b.schema)
    /\ \A t \in Runner : run[t].pc = "pushing" =>
          /\ Travels(run[t].rows, run[t].schema)
          /\ run[t].merged => run[t].rows \subseteq Stored

QuietInv ==
    /\ loop.pc = "sleep" => quiet + loop.pause >= MaxInterval
    /\ loop.pc \in {"read", "call"} => quiet = MaxInterval
    /\ run["tick"].pc \in {"held", "pushing", "pulling"} => quiet = MaxInterval
    /\ run["tick"].pc = "recording" =>
          quiet = MaxInterval \/ run["tick"].result = "schema_mismatch"
    /\ loop.pc = "after" => quiet = MaxInterval \/ status = "schema_mismatch"

IInv == TypeOK /\ LockInv /\ RowsInv /\ QuietInv

(* The steps of one runner.                                                *)
RunnerStep(t) ==
    \/ Collect(t) \/ PushMerged(t) \/ Stamp(t)
    \/ \E result \in Results : PushFails(t, result) \/ PullEnds(t, result)
    \/ RecordResult(t) \/ RecordLost(t)

(* A runner that is outside the lock.                                      *)
LEMMA OffTyped == Off \in RunState /\ Off.pc = "off"
    BY Pauses DEF Off, RunState, Phases, Schema, Results

(* The initial states have every part.                                     *)
LEMMA InitInv == Init => IInv
<1> SUFFICES ASSUME Init PROVE IInv
    OBVIOUS
<1>1. TypeOK
    <2>1. /\ run \in [Runner -> RunState]
          /\ loop \in LoopState
        BY Pauses, OffTyped DEF Init, LoopState, AtStart
    <2>2. /\ auto \in [enabled: BOOLEAN, interval: Intervals]
          /\ cliSchema \in Schema /\ srvSchema \in Schema
          /\ quiet \in 0..MaxInterval
        BY Pauses DEF Init, Schema
    <2>3. bundles \in SUBSET [rows: SUBSET Row, schema: Schema]
        BY DEF Init
    <2>4. /\ born \in [Row -> 0..MaxSchema]
          /\ stored \in [Row -> 0..MaxSchema]
        BY Pauses DEF Init
    <2>5. QED
        BY <2>1, <2>2, <2>3, <2>4 DEF Init, TypeOK, Results
<1>2. LockInv
    BY OffTyped DEF Init, LockInv, AtStart, Runner
<1>3. RowsInv
    BY Pauses, OffTyped DEF Init, RowsInv, Stored
<1>4. QuietInv
    BY OffTyped DEF Init, QuietInv, AtStart, Runner
<1>5. QED
    BY <1>1, <1>2, <1>3, <1>4 DEF IInv

-----------------------------------------------------------------------------
(* Types *)

LEMMA MergedTyped ==
    ASSUME TypeOK, NEW rows \in SUBSET Row
    PROVE  Merged(rows) \in [Row -> 0..MaxSchema]
    BY Pauses DEF TypeOK, Merged, Schema

(* A phase that ended with a result, which is then recorded.               *)
LEMMA FailedTyped ==
    ASSUME TypeOK, NEW t \in Runner, NEW result \in Results,
           run' = [run EXCEPT ![t].pc = "recording", ![t].result = result]
    PROVE  run' \in [Runner -> RunState]
<1>1. PICK q : q = [run[t] EXCEPT !.pc = "recording", !.result = result]
    OBVIOUS
<1>2. run[t] \in RunState /\ "recording" \in Phases
    BY DEF TypeOK, Phases
<1>3. q \in RunState
    BY <1>1, <1>2 DEF RunState
<1>4. run' = [run EXCEPT ![t] = q]
    BY <1>1 DEF TypeOK
<1>5. QED
    BY <1>3, <1>4 DEF TypeOK

LEMMA RunnerTyped ==
    ASSUME TypeOK, NEW t \in Runner, RunnerStep(t)
    PROVE  TypeOK'
<1>1. CASE Collect(t)
    <2>1. PICK q : q = [pc |-> "pushing", rows |-> Unsynced,
                        schema |-> cliSchema, merged |-> FALSE,
                        result |-> "offline"]
        OBVIOUS
    <2>2. q \in RunState
        BY <2>1 DEF TypeOK, RunState, Phases, Results, Unsynced
    <2>3. run' = [run EXCEPT ![t] = q]
        BY <1>1, <2>1 DEF Collect
    <2>4. QED
        BY <1>1, <2>2, <2>3 DEF TypeOK, Collect, rowVars, schemaVars, stateVars
<1>2. CASE PushMerged(t)
    <2>1. run[t].rows \in SUBSET Row
        BY DEF TypeOK, RunState
    <2>2. stored' \in [Row -> 0..MaxSchema]
        BY <1>2, <2>1, MergedTyped DEF PushMerged
    <2>3. run' \in [Runner -> RunState]
        BY <1>2 DEF PushMerged, TypeOK, RunState
    <2>4. QED
        BY <1>2, <2>2, <2>3 DEF TypeOK, PushMerged, schemaVars, stateVars
<1>3. CASE Stamp(t)
    BY <1>3 DEF TypeOK, Stamp, RunState, Phases, schemaVars, stateVars
<1>4. ASSUME NEW result \in Results, PushFails(t, result)
      PROVE  TypeOK'
    <2>1. quiet' \in 0..MaxInterval
        BY <1>4, Pauses DEF TypeOK, PushFails
    <2>2. run' \in [Runner -> RunState]
        BY <1>4, FailedTyped DEF PushFails
    <2>3. QED
        BY <1>4, <2>1, <2>2 DEF TypeOK, PushFails, rowVars, schemaVars, stateVars
<1>5. ASSUME NEW result \in Results, PullEnds(t, result)
      PROVE  TypeOK'
    <2>1. run' \in [Runner -> RunState]
        BY <1>5, FailedTyped DEF PullEnds
    <2>2. QED
        BY <1>5, <2>1 DEF TypeOK, PullEnds, rowVars, schemaVars, stateVars
<1>6. CASE RecordResult(t)
    <2>1. /\ quiet' \in 0..MaxInterval
          /\ run[t].result \in Results
        BY <1>6, Pauses DEF TypeOK, RecordResult, RunState
    <2>2. run' \in [Runner -> RunState]
        BY <1>6, OffTyped DEF RecordResult, Leave, TypeOK
    <2>3. loop' \in LoopState
        BY <1>6 DEF RecordResult, Leave, TypeOK, LoopState
    <2>4. QED
        BY <1>6, <2>1, <2>2, <2>3
        DEF TypeOK, RecordResult, Leave, rowVars, schemaVars
<1>7. CASE RecordLost(t)
    <2>1. /\ quiet' \in 0..MaxInterval
          /\ faults' \in Nat
        BY <1>7, Pauses DEF TypeOK, RecordLost
    <2>2. run' \in [Runner -> RunState]
        BY <1>7, OffTyped DEF RecordLost, Leave, TypeOK
    <2>3. loop' \in LoopState
        BY <1>7 DEF RecordLost, Leave, TypeOK, LoopState
    <2>4. QED
        BY <1>7, <2>1, <2>2, <2>3
        DEF TypeOK, RecordLost, Leave, rowVars, schemaVars, stateVars
<1>8. QED
    BY <1>1, <1>2, <1>3, <1>4, <1>5, <1>6, <1>7 DEF RunnerStep

LEMMA LoopTyped ==
    ASSUME TypeOK, LoopStep \/ LoopError
    PROVE  TypeOK'
<1>1. CASE ReadConfig
    <2>1. auto.interval \in 0..MaxInterval
        <3>1. auto.interval \in Intervals
            BY DEF TypeOK
        <3>2. Intervals \subseteq 0..MaxInterval
            BY Pauses
        <3>3. QED
            BY <3>1, <3>2
    <2>2. \/ loop' = [pc |-> "call", pause |-> auto.interval]
          \/ loop' = [pc |-> "sleep", pause |-> auto.interval]
        BY <1>1, Zenon DEF ReadConfig
    <2>3. loop' \in LoopState
        BY <2>1, <2>2 DEF LoopState
    <2>4. QED
        BY <1>1, <2>3 DEF TypeOK, ReadConfig, rowVars, schemaVars, stateVars
<1>2. CASE CallTick
    <2>1. run' \in [Runner -> RunState]
        BY <1>2 DEF TypeOK, CallTick, Runner, RunState, Phases
    <2>2. QED
        BY <1>2, <2>1
        DEF TypeOK, CallTick, LoopState, rowVars, schemaVars, stateVars
<1>3. CASE SkipTick
    BY <1>3 DEF TypeOK, SkipTick, LoopState, rowVars, schemaVars, stateVars
<1>4. CASE TickDisabled
    <2>1. run' \in [Runner -> RunState] /\ loop' \in LoopState
        BY <1>4, OffTyped DEF TickDisabled, Leave, TypeOK, LoopState, Runner
    <2>2. QED
        BY <1>4, <2>1
        DEF TypeOK, TickDisabled, Leave, rowVars, schemaVars, stateVars
<1>5. CASE GoToSleep
    BY <1>5, Pauses DEF TypeOK, GoToSleep, Pause, LoopState, rowVars,
       schemaVars, stateVars
<1>6. CASE WakeUp
    BY <1>6, Pauses DEF TypeOK, WakeUp, AtStart, LoopState, rowVars,
       schemaVars, stateVars
<1>7. CASE LoopError
    BY <1>7, Pauses DEF TypeOK, LoopError, LoopState, rowVars, schemaVars,
       stateVars
<1>8. QED
    BY <1>1, <1>2, <1>3, <1>4, <1>5, <1>6, <1>7 DEF LoopStep

LEMMA NextTyped == TypeOK /\ [Next]_vars => TypeOK'
<1> SUFFICES ASSUME TypeOK, [Next]_vars PROVE TypeOK'
    OBVIOUS
<1>1. ASSUME NEW r \in Row, Write(r) PROVE TypeOK'
    BY <1>1, Pauses DEF TypeOK, Write, Schema, schemaVars, stateVars, runVars
<1>2. ASSUME NEW c \in Click, ClickRun(c) PROVE TypeOK'
    BY <1>2 DEF TypeOK, ClickRun, Runner, RunState, Phases, rowVars, schemaVars,
       stateVars
<1>3. ASSUME NEW t \in Runner, RunnerStep(t) PROVE TypeOK'
    BY <1>3, RunnerTyped
<1>4. CASE LoopStep \/ LoopError
    BY <1>4, LoopTyped
<1>5. ASSUME NEW enabled \in BOOLEAN, NEW i \in Intervals,
             SaveAutosyncConfig(enabled, i)
      PROVE  TypeOK'
    BY <1>5 DEF TypeOK, SaveAutosyncConfig, rowVars, schemaVars, runVars
<1>6. CASE OfflineExport
    <2>1. PICK b : b = [rows |-> Unsynced, schema |-> cliSchema]
        OBVIOUS
    <2>2. b \in [rows: SUBSET Row, schema: Schema]
        BY <2>1 DEF TypeOK, Unsynced
    <2>3. bundles' = bundles \cup {b}
        BY <1>6, <2>1 DEF OfflineExport
    <2>4. QED
        BY <1>6, <2>2, <2>3
        DEF TypeOK, OfflineExport, rowVars, schemaVars, stateVars, runVars
<1>7. ASSUME NEW b \in bundles, OfflineUpload(b) PROVE TypeOK'
    <2>1. b.rows \in SUBSET Row
        BY DEF TypeOK
    <2>2. QED
        BY <1>7, <2>1, MergedTyped
        DEF TypeOK, OfflineUpload, schemaVars, stateVars, runVars
<1>8. CASE Pass
    BY <1>8, Pauses DEF TypeOK, Pass, LoopState, rowVars, schemaVars, stateVars
<1>9. CASE UpgradeServer
    BY <1>9, Pauses DEF TypeOK, UpgradeServer, Schema, rowVars, stateVars,
       runVars
<1>10. ASSUME NEW version \in Schema, Restart(version) PROVE TypeOK'
    <2>1. run' \in [Runner -> RunState]
        BY <1>10, OffTyped DEF Restart
    <2>2. /\ loop' \in LoopState
          /\ quiet' \in 0..MaxInterval
        BY <1>10, Pauses DEF Restart, AtStart, LoopState
    <2>3. cliSchema' \in Schema /\ faults' \in Nat
        BY <1>10 DEF Restart, TypeOK
    <2>4. UNCHANGED <<rowVars, srvSchema, stateVars, bundles>> /\ held' = FALSE
        BY <1>10 DEF Restart
    <2>5. QED
        BY <2>1, <2>2, <2>3, <2>4 DEF TypeOK, rowVars, stateVars
<1>11. CASE UNCHANGED vars
    BY <1>11 DEF TypeOK, vars, rowVars, schemaVars, stateVars, runVars
<1>12. QED
    BY <1>1, <1>2, <1>3, <1>4, <1>5, <1>6, <1>7, <1>8, <1>9, <1>10, <1>11
    DEF Next, RunnerStep

-----------------------------------------------------------------------------
(* The lock *)

(* Entering and leaving are the only steps that change who is inside.      *)
LEMMA Entered ==
    ASSUME TypeOK, LockInv, ~held, NEW t \in Runner, held' = TRUE,
           run' = [run EXCEPT ![t].pc = "held"],
           loop'.pc = "wait" <=> (t = "tick" \/ loop.pc = "wait")
    PROVE  LockInv'
<1>1. \A s \in Runner : run[s].pc = "off"
    BY DEF LockInv
<1>2. \A s \in Runner : run'[s].pc = IF s = t THEN "held" ELSE "off"
    BY <1>1 DEF TypeOK, RunState
<1>3. "tick" \in Runner
    BY DEF Runner
<1>4. QED
    BY <1>1, <1>2, <1>3 DEF LockInv

LEMMA Left ==
    ASSUME TypeOK, LockInv, NEW t \in Runner, run[t].pc # "off", Leave(t)
    PROVE  LockInv'
<1>1. \A s \in Runner : s # t => run[s].pc = "off"
    BY DEF LockInv
<1>2. \A s \in Runner : run'[s].pc = "off"
    BY <1>1, OffTyped DEF Leave, TypeOK
<1>3. "tick" \in Runner
    BY DEF Runner
<1>4. loop'.pc # "wait"
    BY <1>1, <1>3 DEF Leave, LockInv, TypeOK, LoopState
<1>5. QED
    BY <1>2, <1>3, <1>4 DEF LockInv, Leave

(* A step of a runner that stays inside.                                   *)
LEMMA Stayed ==
    ASSUME LockInv, UNCHANGED <<held, loop>>,
           \A t \in Runner : run'[t].pc = "off" <=> run[t].pc = "off"
    PROVE  LockInv'
<1>1. "tick" \in Runner
    BY DEF Runner
<1>2. QED
    BY <1>1 DEF LockInv

LEMMA RunnerLock ==
    ASSUME TypeOK, LockInv, NEW t \in Runner, RunnerStep(t)
    PROVE  LockInv'
<1>1. CASE Collect(t)
    BY <1>1, Stayed DEF Collect, TypeOK
<1>2. CASE PushMerged(t)
    BY <1>2, Stayed DEF PushMerged, TypeOK, RunState
<1>3. CASE Stamp(t)
    BY <1>3, Stayed DEF Stamp, TypeOK, RunState
<1>4. ASSUME NEW result \in Results, PushFails(t, result) PROVE LockInv'
    BY <1>4, Stayed DEF PushFails, TypeOK, RunState
<1>5. ASSUME NEW result \in Results, PullEnds(t, result) PROVE LockInv'
    BY <1>5, Stayed DEF PullEnds, TypeOK, RunState
<1>6. CASE RecordResult(t)
    BY <1>6, Left DEF RecordResult
<1>7. CASE RecordLost(t)
    BY <1>7, Left DEF RecordLost
<1>8. QED
    BY <1>1, <1>2, <1>3, <1>4, <1>5, <1>6, <1>7 DEF RunnerStep

LEMMA NextLock == TypeOK /\ LockInv /\ [Next]_vars => LockInv'
<1> SUFFICES ASSUME TypeOK, LockInv, [Next]_vars PROVE LockInv'
    OBVIOUS
<1> USE DEF Runner
<1>1. ASSUME NEW r \in Row, Write(r) PROVE LockInv'
    BY <1>1 DEF LockInv, Write, runVars
<1>2. ASSUME NEW c \in Click, ClickRun(c) PROVE LockInv'
    BY <1>2, Entered, TickIsNoClick DEF ClickRun, LockFree
<1>3. ASSUME NEW t \in Runner, RunnerStep(t) PROVE LockInv'
    BY <1>3, RunnerLock
<1>4. CASE LoopStep
    <2>1. CASE CallTick
        BY <2>1, Entered DEF CallTick, LockFree, TypeOK, LoopState
    <2>2. CASE TickDisabled
        BY <2>2, Left DEF TickDisabled
    <2>3. CASE ReadConfig \/ SkipTick \/ GoToSleep \/ WakeUp
        BY <2>3 DEF LockInv, ReadConfig, SkipTick, GoToSleep, WakeUp, AtStart,
           TypeOK, LoopState
    <2>4. QED
        BY <1>4, <2>1, <2>2, <2>3 DEF LoopStep
<1>5. CASE LoopError
    BY <1>5 DEF LockInv, LoopError, TypeOK, LoopState
<1>6. ASSUME NEW enabled \in BOOLEAN, NEW i \in Intervals,
             SaveAutosyncConfig(enabled, i)
      PROVE  LockInv'
    BY <1>6 DEF LockInv, SaveAutosyncConfig, runVars
<1>7. CASE OfflineExport
    BY <1>7 DEF LockInv, OfflineExport, runVars
<1>8. ASSUME NEW b \in bundles, OfflineUpload(b) PROVE LockInv'
    BY <1>8 DEF LockInv, OfflineUpload, runVars
<1>9. CASE Pass
    BY <1>9 DEF LockInv, Pass, TypeOK, LoopState
<1>10. CASE UpgradeServer
    BY <1>10 DEF LockInv, UpgradeServer, runVars
<1>11. ASSUME NEW version \in Schema, Restart(version) PROVE LockInv'
    BY <1>11, OffTyped DEF LockInv, Restart, AtStart
<1>12. CASE UNCHANGED vars
    BY <1>12 DEF LockInv, vars, runVars
<1>13. QED
    BY <1>1, <1>2, <1>3, <1>4, <1>5, <1>6, <1>7, <1>8, <1>9, <1>10, <1>11,
       <1>12 DEF Next, RunnerStep

-----------------------------------------------------------------------------
(* Rows on their way *)

(* A row the server has keeps its copy, and a row that arrives under a     *)
(* version the server has is stored as it was written: no column is lost.  *)
LEMMA MergedRows ==
    ASSUME TypeOK, RowsInv, NEW rows \in SUBSET Row, NEW schema \in Schema,
           Travels(rows, schema), schema <= srvSchema, stored' = Merged(rows)
    PROVE  /\ \A r \in Row : stored'[r] # 0 => stored'[r] = born[r]
           /\ Stored' = Stored \cup rows
<1>1. \A r \in Row :
        stored'[r] = IF r \notin rows \/ stored[r] # 0 THEN stored[r]
                     ELSE IF born[r] <= srvSchema THEN born[r] ELSE srvSchema
    BY DEF Merged
<1>2. \A r \in rows : born[r] # 0 /\ born[r] <= srvSchema
    BY Pauses DEF Travels, TypeOK, Schema
<1>3. \A r \in Row : stored'[r] = IF r \in rows /\ stored[r] = 0
                                  THEN born[r] ELSE stored[r]
    BY <1>1, <1>2
<1>4. QED
    BY <1>2, <1>3 DEF RowsInv, Stored

(* The driver collects what is written here, under the version it has.     *)
LEMMA Collected ==
    ASSUME TypeOK, RowsInv
    PROVE  Travels(Unsynced, cliSchema)
    BY DEF RowsInv, Travels, Unsynced

(* A runner whose rows are not looked at.                                  *)
LEMMA RowsStay ==
    ASSUME RowsInv, UNCHANGED <<rowVars, cliSchema, bundles>>,
           \A t \in Runner : run'[t].pc = "pushing" => run'[t] = run[t]
    PROVE  RowsInv'
<1>1. \A t \in Runner : run'[t].pc = "pushing" =>
          /\ Travels(run'[t].rows, run'[t].schema)
          /\ run'[t].merged => run'[t].rows \subseteq Stored
    BY DEF RowsInv
<1>2. QED
    BY <1>1, Zenon DEF RowsInv, Stored, Travels, rowVars

LEMMA RunnerRows ==
    ASSUME TypeOK, RowsInv, NEW t \in Runner, RunnerStep(t)
    PROVE  RowsInv'
<1>1. CASE Collect(t)
    <2>1. /\ run'[t].pc = "pushing" /\ run'[t].rows = Unsynced
          /\ run'[t].schema = cliSchema /\ run'[t].merged = FALSE
          /\ \A s \in Runner \ {t} : run'[s] = run[s]
          /\ UNCHANGED <<rowVars, cliSchema, bundles>>
        BY <1>1 DEF Collect, TypeOK, schemaVars
    <2>2. ASSUME NEW s \in Runner, run'[s].pc = "pushing"
          PROVE  /\ Travels(run'[s].rows, run'[s].schema)
                 /\ run'[s].merged => run'[s].rows \subseteq Stored
        <3>1. CASE s = t
            BY <2>1, <3>1, Collected
        <3>2. CASE s # t
            BY <2>1, <2>2, <3>2 DEF RowsInv
        <3>3. QED
            BY <3>1, <3>2
    <2>3. QED
        BY <2>1, <2>2, Zenon DEF RowsInv, Stored, Travels, rowVars
<1>2. CASE PushMerged(t)
    <2>1. /\ run[t].rows \in SUBSET Row /\ run[t].schema \in Schema
          /\ Travels(run[t].rows, run[t].schema)
        BY <1>2 DEF PushMerged, TypeOK, RunState, RowsInv
    <2>2. /\ \A r \in Row : stored'[r] # 0 => stored'[r] = born[r]
          /\ Stored' = Stored \cup run[t].rows
        BY <1>2, <2>1, MergedRows DEF PushMerged
    <2>3. /\ \A s \in Runner : /\ run'[s].pc = run[s].pc
                                /\ run'[s].rows = run[s].rows
                                /\ run'[s].schema = run[s].schema
          /\ \A s \in Runner \ {t} : run'[s].merged = run[s].merged
          /\ UNCHANGED <<born, synced, cliSchema, bundles>>
        BY <1>2 DEF PushMerged, TypeOK, RunState, schemaVars
    <2>4. ASSUME NEW s \in Runner, run'[s].pc = "pushing"
          PROVE  /\ Travels(run[s].rows, run[s].schema)'
                 /\ run'[s].merged => run'[s].rows \subseteq Stored'
        <3>1. /\ run[s].pc = "pushing"
              /\ run'[s].rows = run[s].rows /\ run'[s].schema = run[s].schema
            BY <2>3, <2>4
        <3>2. Travels(run[s].rows, run[s].schema)'
            <4>1. Travels(run[s].rows, run[s].schema)
                BY <3>1 DEF RowsInv
            <4>2. born' = born
                BY <2>3
            <4>3. QED
                BY <3>1, <4>1, <4>2 DEF Travels
        <3>3. CASE s = t
            BY <2>2, <3>1, <3>2, <3>3
        <3>4. CASE s # t
            BY <2>2, <2>3, <3>1, <3>2, <3>4 DEF RowsInv
        <3>5. QED
            BY <3>3, <3>4
    <2>5. QED
        BY <2>2, <2>3, <2>4 DEF RowsInv, Travels
<1>3. CASE Stamp(t)
    <2>1. run[t].rows \subseteq Stored
        BY <1>3 DEF Stamp, RowsInv
    <2>2. /\ synced' = synced \cup run[t].rows
          /\ UNCHANGED <<born, stored, cliSchema, bundles>>
          /\ \A s \in Runner : run'[s].pc = "pushing" => run'[s] = run[s]
        BY <1>3 DEF Stamp, TypeOK, RunState, schemaVars
    <2>3. \A s \in Runner : run'[s].pc = "pushing" =>
              /\ Travels(run'[s].rows, run'[s].schema)
              /\ run'[s].merged => run'[s].rows \subseteq Stored
        BY <2>2 DEF RowsInv
    <2>4. QED
        BY <2>1, <2>2, <2>3 DEF RowsInv, Stored, Travels
<1>4. ASSUME NEW result \in Results, PushFails(t, result) PROVE RowsInv'
    BY <1>4, RowsStay DEF PushFails, TypeOK, RunState, schemaVars
<1>5. ASSUME NEW result \in Results, PullEnds(t, result) PROVE RowsInv'
    BY <1>5, RowsStay DEF PullEnds, TypeOK, RunState, schemaVars
<1>6. CASE RecordResult(t)
    BY <1>6, RowsStay, OffTyped DEF RecordResult, Leave, TypeOK, schemaVars
<1>7. CASE RecordLost(t)
    BY <1>7, RowsStay, OffTyped DEF RecordLost, Leave, TypeOK, schemaVars
<1>8. QED
    BY <1>1, <1>2, <1>3, <1>4, <1>5, <1>6, <1>7 DEF RunnerStep

LEMMA NextRows == TypeOK /\ RowsInv /\ [Next]_vars => RowsInv'
<1> SUFFICES ASSUME TypeOK, RowsInv, [Next]_vars PROVE RowsInv'
    OBVIOUS
<1>1. ASSUME NEW r \in Row, Write(r) PROVE RowsInv'
    <2>1. /\ born[r] = 0 /\ born'[r] = cliSchema
          /\ \A s \in Row \ {r} : born'[s] = born[s]
          /\ UNCHANGED <<stored, synced, cliSchema, bundles, run>>
        BY <1>1 DEF Write, TypeOK, schemaVars, runVars
    <2>2. stored[r] = 0
        BY <2>1 DEF RowsInv
    <2>3. ASSUME NEW rows \in SUBSET Row, NEW schema \in Nat,
                 Travels(rows, schema)
          PROVE  Travels(rows, schema)'
        BY <2>1, <2>3 DEF Travels
    <2>4. /\ \A b \in bundles : b.rows \in SUBSET Row /\ b.schema \in Nat
          /\ \A t \in Runner : run[t].rows \in SUBSET Row /\ run[t].schema \in Nat
        BY DEF TypeOK, RunState, Schema
    <2>5. \A b \in bundles : Travels(b.rows, b.schema)'
        BY <2>3, <2>4 DEF RowsInv
    <2>6. ASSUME NEW t \in Runner, run'[t].pc = "pushing"
          PROVE  /\ Travels(run[t].rows, run[t].schema)'
                 /\ run'[t].merged => run'[t].rows \subseteq Stored'
        <3>1. /\ Travels(run[t].rows, run[t].schema)
              /\ run[t].merged => run[t].rows \subseteq Stored
            BY <2>1, <2>6 DEF RowsInv
        <3>2. \A s \in run[t].rows : born'[s] # 0 /\ born'[s] <= run[t].schema
            BY <2>1, <2>4, <3>1 DEF Travels
        <3>3. QED
            BY <2>1, <3>1, <3>2 DEF Travels, Stored
    <2>7. /\ \A s \in Row : born'[s] <= cliSchema'
          /\ \A s \in Row : stored'[s] # 0 => stored'[s] = born'[s]
          /\ synced' \subseteq Stored'
        BY <2>1, <2>2 DEF RowsInv, Stored, TypeOK, Schema
    <2>8. QED
        BY <2>1, <2>5, <2>6, <2>7 DEF RowsInv
<1>2. ASSUME NEW c \in Click, ClickRun(c) PROVE RowsInv'
    BY <1>2, RowsStay DEF ClickRun, TypeOK, RunState, Runner, schemaVars
<1>3. ASSUME NEW t \in Runner, RunnerStep(t) PROVE RowsInv'
    BY <1>3, RunnerRows
<1>4. CASE LoopStep \/ LoopError
    <2>1. CASE CallTick
        BY <2>1, RowsStay DEF CallTick, TypeOK, RunState, Runner, schemaVars
    <2>2. CASE TickDisabled
        BY <2>2, RowsStay, OffTyped
        DEF TickDisabled, Leave, TypeOK, Runner, schemaVars
    <2>3. CASE ReadConfig \/ SkipTick \/ GoToSleep \/ WakeUp \/ LoopError
        BY <2>3, RowsStay DEF ReadConfig, SkipTick, GoToSleep, WakeUp,
           LoopError, schemaVars
    <2>4. QED
        BY <1>4, <2>1, <2>2, <2>3 DEF LoopStep
<1>5. ASSUME NEW enabled \in BOOLEAN, NEW i \in Intervals,
             SaveAutosyncConfig(enabled, i)
      PROVE  RowsInv'
    BY <1>5, RowsStay DEF SaveAutosyncConfig, schemaVars, runVars
<1>6. CASE OfflineExport
    <2>1. PICK b : b = [rows |-> Unsynced, schema |-> cliSchema]
        OBVIOUS
    <2>2. /\ bundles' = bundles \cup {b}
          /\ UNCHANGED <<rowVars, cliSchema, run>>
        BY <1>6, <2>1 DEF OfflineExport, schemaVars, runVars
    <2>3. Travels(b.rows, b.schema)
        BY <2>1, Collected
    <2>4. /\ \A c \in bundles' : Travels(c.rows, c.schema)
          /\ UNCHANGED <<born, stored, synced>>
        BY <2>2, <2>3 DEF RowsInv, rowVars
    <2>5. QED
        BY <2>2, <2>4 DEF RowsInv, Stored, Travels
<1>7. ASSUME NEW b \in bundles, OfflineUpload(b) PROVE RowsInv'
    <2>1. /\ b.rows \in SUBSET Row /\ b.schema \in Schema
          /\ Travels(b.rows, b.schema)
        BY DEF TypeOK, RowsInv
    <2>2. b.schema <= srvSchema
        BY <1>7, <2>1 DEF OfflineUpload, SchemaVersionOk, Schema
    <2>3. /\ \A r \in Row : stored'[r] # 0 => stored'[r] = born[r]
          /\ Stored' = Stored \cup b.rows
        BY <1>7, <2>1, <2>2, MergedRows DEF OfflineUpload
    <2>4. UNCHANGED <<born, synced, cliSchema, bundles, run>>
        BY <1>7 DEF OfflineUpload, schemaVars, runVars
    <2>5. QED
        BY <2>3, <2>4 DEF RowsInv, Travels
<1>8. CASE Pass
    BY <1>8, RowsStay DEF Pass, schemaVars
<1>9. CASE UpgradeServer
    BY <1>9, RowsStay DEF UpgradeServer, runVars
<1>10. ASSUME NEW version \in Schema, Restart(version) PROVE RowsInv'
    <2>1. /\ \A t \in Runner : run'[t].pc = "off"
          /\ cliSchema' \in Schema /\ cliSchema' >= cliSchema
          /\ UNCHANGED <<born, stored, synced, bundles>>
        BY <1>10, OffTyped DEF Restart, TypeOK, Schema, rowVars
    <2>2. \A r \in Row : born[r] <= cliSchema'
        BY <2>1, Pauses DEF RowsInv, TypeOK, Schema
    <2>3. QED
        BY <2>1, <2>2 DEF RowsInv, Stored, Travels
<1>11. CASE UNCHANGED vars
    BY <1>11, RowsStay DEF vars, schemaVars, runVars
<1>12. QED
    BY <1>1, <1>2, <1>3, <1>4, <1>5, <1>6, <1>7, <1>8, <1>9, <1>10, <1>11
    DEF Next, RunnerStep

-----------------------------------------------------------------------------
(* What the loop has waited *)

(* Steps that the loop and its tick do not notice.                         *)
LEMMA QuietStays ==
    ASSUME QuietInv, UNCHANGED <<loop, quiet, status>>,
           run'["tick"] = run["tick"]
    PROVE  QuietInv'
    BY DEF QuietInv

(* A step of the tick: the loop waits for it.                              *)
LEMMA TickQuiet ==
    ASSUME TypeOK, LockInv, QuietInv, RunnerStep("tick")
    PROVE  QuietInv'
<1> USE DEF Runner
<1>1. loop.pc = "wait"
    BY DEF RunnerStep, LockInv, Collect, PushMerged, Stamp, PushFails, PullEnds,
       RecordResult, RecordLost
<1>2. CASE Collect("tick")
    BY <1>1, <1>2 DEF Collect, QuietInv, TypeOK
<1>3. CASE PushMerged("tick")
    <2>1. run'["tick"].pc = "pushing" /\ UNCHANGED <<loop, quiet>>
        BY <1>3 DEF PushMerged, TypeOK, RunState
    <2>2. quiet = MaxInterval
        BY <1>3 DEF PushMerged, QuietInv
    <2>3. QED
        BY <1>1, <2>1, <2>2 DEF QuietInv
<1>4. CASE Stamp("tick")
    <2>1. run'["tick"].pc = "pulling" /\ UNCHANGED <<loop, quiet>>
        BY <1>4 DEF Stamp, TypeOK, RunState
    <2>2. quiet = MaxInterval
        BY <1>4 DEF Stamp, QuietInv
    <2>3. QED
        BY <1>1, <2>1, <2>2 DEF QuietInv
<1>5. ASSUME NEW result \in Results, PushFails("tick", result) PROVE QuietInv'
    <2>1. /\ run'["tick"].pc = "recording" /\ run'["tick"].result = result
          /\ loop' = loop
        BY <1>5 DEF PushFails, TypeOK, RunState
    <2>2. quiet = MaxInterval
        BY <1>5 DEF PushFails, QuietInv
    <2>3. result # "schema_mismatch" => quiet' = quiet
        BY <1>5 DEF PushFails
    <2>4. QED
        BY <1>1, <2>1, <2>2, <2>3 DEF QuietInv
<1>6. ASSUME NEW result \in Results, PullEnds("tick", result) PROVE QuietInv'
    <2>1. /\ run'["tick"].pc = "recording" /\ UNCHANGED <<loop, quiet>>
        BY <1>6 DEF PullEnds, TypeOK, RunState
    <2>2. quiet = MaxInterval
        BY <1>6 DEF PullEnds, QuietInv
    <2>3. QED
        BY <1>1, <2>1, <2>2 DEF QuietInv
<1>7. CASE RecordResult("tick")
    <2>1. /\ run'["tick"].pc = "off" /\ loop'.pc = "after"
          /\ status' = run["tick"].result /\ quiet' = quiet
        BY <1>7, OffTyped DEF RecordResult, Leave, TypeOK, LoopState
    <2>2. quiet = MaxInterval \/ run["tick"].result = "schema_mismatch"
        BY <1>7 DEF RecordResult, QuietInv
    <2>3. QED
        BY <2>1, <2>2 DEF QuietInv
<1>8. CASE RecordLost("tick")
    <2>1. /\ run'["tick"].pc = "off" /\ loop'.pc = "after"
          /\ quiet' = MaxInterval
        BY <1>8, OffTyped DEF RecordLost, Leave, TypeOK, LoopState
    <2>2. QED
        BY <2>1 DEF QuietInv
<1>9. QED
    BY <1>2, <1>3, <1>4, <1>5, <1>6, <1>7, <1>8 DEF RunnerStep

(* A click inside the lock: the tick is outside it, and what the click     *)
(* records the loop takes for a refusal, or is excused by.                 *)
LEMMA ClickQuiet ==
    ASSUME TypeOK, LockInv, QuietInv, NEW t \in Click, RunnerStep(t)
    PROVE  QuietInv'
<1> USE DEF Runner
<1>1. t # "tick"
    BY TickIsNoClick
<1>2. run["tick"].pc = "off"
    BY <1>1 DEF RunnerStep, LockInv, Collect, PushMerged, Stamp, PushFails,
       PullEnds, RecordResult, RecordLost
<1>3. run'["tick"] = run["tick"] /\ loop' = loop
    BY <1>1 DEF RunnerStep, Collect, PushMerged, Stamp, PushFails, PullEnds,
       RecordResult, RecordLost, Leave, TypeOK
<1>4. CASE UNCHANGED <<quiet, status>>
    BY <1>3, <1>4, QuietStays
<1>5. CASE quiet' = MaxInterval
    BY <1>2, <1>3, <1>5, Pauses DEF QuietInv, TypeOK, LoopState
<1>6. CASE status' = "schema_mismatch" /\ quiet' = quiet
    BY <1>2, <1>3, <1>6 DEF QuietInv
<1>7. QED
    BY <1>1, <1>4, <1>5, <1>6 DEF RunnerStep, Collect, PushMerged, Stamp,
       PushFails, PullEnds, RecordResult, RecordLost, stateVars

LEMMA LoopQuiet ==
    ASSUME TypeOK, LockInv, QuietInv, LoopStep \/ LoopError
    PROVE  QuietInv'
<1> USE DEF Runner
<1>1. CASE ReadConfig
    <2>1. /\ loop'.pc \in {"call", "sleep"} /\ loop'.pause = auto.interval
          /\ quiet = MaxInterval /\ run["tick"].pc = "off"
          /\ UNCHANGED <<quiet, run>>
        BY <1>1 DEF ReadConfig, QuietInv, LockInv
    <2>2. auto.interval \in Nat
        <3>1. auto.interval \in Intervals
            BY DEF TypeOK
        <3>2. Intervals \subseteq Nat
            <4>1. Intervals \subseteq 1..MaxInterval /\ MaxInterval \in Nat
                BY Pauses
            <4>2. 1..MaxInterval \subseteq Nat
                BY <4>1
            <4>3. QED
                BY <4>1, <4>2
        <3>3. QED
            BY <3>1, <3>2
    <2>3. QED
        BY <2>1, <2>2, Pauses DEF QuietInv
<1>2. CASE CallTick
    <2>1. /\ run'["tick"].pc = "held" /\ loop'.pc = "wait"
          /\ quiet = MaxInterval /\ quiet' = quiet
        BY <1>2 DEF CallTick, QuietInv, TypeOK, RunState, LoopState
    <2>2. QED
        BY <2>1 DEF QuietInv
<1>3. CASE SkipTick
    <2>1. /\ loop'.pc = "after" /\ quiet = MaxInterval
          /\ UNCHANGED <<quiet, run>> /\ run["tick"].pc = "off"
        BY <1>3 DEF SkipTick, QuietInv, LockInv, TypeOK, LoopState
    <2>2. QED
        BY <2>1 DEF QuietInv
<1>4. CASE TickDisabled
    <2>1. /\ run'["tick"].pc = "off" /\ loop'.pc = "after"
          /\ quiet = MaxInterval /\ quiet' = quiet
        BY <1>4, OffTyped
        DEF TickDisabled, Leave, QuietInv, TypeOK, LoopState
    <2>2. QED
        BY <2>1 DEF QuietInv
<1>5. CASE GoToSleep
    <2>1. /\ loop'.pc = "sleep" /\ loop'.pause = Pause
          /\ UNCHANGED <<quiet, run>> /\ run["tick"].pc = "off"
          /\ quiet = MaxInterval \/ status = "schema_mismatch"
        BY <1>5 DEF GoToSleep, QuietInv, LockInv
    <2>2. /\ Pause \in Nat
          /\ status = "schema_mismatch" => Pause = MaxInterval
        BY Pauses DEF Pause, TypeOK, LoopState
    <2>3. quiet + Pause >= MaxInterval
        BY <2>1, <2>2, Pauses DEF TypeOK
    <2>4. QED
        BY <2>1, <2>3 DEF QuietInv
<1>6. CASE WakeUp
    <2>1. /\ loop.pc = "sleep" /\ loop.pause = 0
          /\ loop'.pc = "read" /\ UNCHANGED <<quiet, run>>
        BY <1>6 DEF WakeUp, AtStart
    <2>2. quiet = MaxInterval /\ run["tick"].pc = "off"
        BY <2>1, Pauses DEF QuietInv, LockInv, TypeOK
    <2>3. QED
        BY <2>1, <2>2 DEF QuietInv
<1>7. CASE LoopError
    <2>1. /\ loop'.pc = "sleep" /\ loop'.pause \in Nat
          /\ quiet' = MaxInterval /\ run' = run
        BY <1>7, Pauses DEF LoopError, TypeOK, LoopState
    <2>2. run["tick"].pc = "off"
        BY <1>7 DEF LoopError, LockInv
    <2>3. QED
        BY <2>1, <2>2, Pauses DEF QuietInv
<1>8. QED
    BY <1>1, <1>2, <1>3, <1>4, <1>5, <1>6, <1>7 DEF LoopStep

(* The loop sleeps as fast as time passes.                                 *)
LEMMA PassQuiet ==
    ASSUME TypeOK, QuietInv, Pass
    PROVE  QuietInv'
<1>1. /\ loop.pause \in Nat /\ quiet \in 0..MaxInterval
      /\ MaxInterval \in Nat
    BY Pauses DEF TypeOK, LoopState
<1>2. quiet' = IF quiet < MaxInterval THEN quiet + 1 ELSE quiet
    BY DEF Pass
<1>3. /\ loop'.pc = loop.pc /\ run' = run /\ status' = status
      /\ loop'.pause = IF loop.pc = "sleep" /\ loop.pause > 0
                       THEN loop.pause - 1 ELSE loop.pause
    BY DEF Pass, TypeOK, LoopState, stateVars
<1>4. quiet = MaxInterval => quiet' = MaxInterval
    BY <1>1, <1>2
<1>5. quiet + loop.pause >= MaxInterval => quiet' + loop'.pause >= MaxInterval
    BY <1>1, <1>2, <1>3
<1>6. (\/ run["tick"].pc \in {"held", "pushing", "pulling"}
       \/ loop.pc \in {"read", "call"}) => quiet = MaxInterval
    BY DEF QuietInv
<1>7. QED
    BY <1>3, <1>4, <1>5, <1>6 DEF QuietInv

LEMMA NextQuiet == TypeOK /\ LockInv /\ QuietInv /\ [Next]_vars => QuietInv'
<1> SUFFICES ASSUME TypeOK, LockInv, QuietInv, [Next]_vars PROVE QuietInv'
    OBVIOUS
<1>1. ASSUME NEW r \in Row, Write(r) PROVE QuietInv'
    BY <1>1, QuietStays DEF Write, stateVars, runVars
<1>2. ASSUME NEW c \in Click, ClickRun(c) PROVE QuietInv'
    BY <1>2, QuietStays, TickIsNoClick
    DEF ClickRun, TypeOK, Runner, stateVars
<1>3. ASSUME NEW t \in Runner, RunnerStep(t) PROVE QuietInv'
    BY <1>3, TickQuiet, ClickQuiet DEF Runner
<1>4. CASE LoopStep \/ LoopError
    BY <1>4, LoopQuiet
<1>5. ASSUME NEW enabled \in BOOLEAN, NEW i \in Intervals,
             SaveAutosyncConfig(enabled, i)
      PROVE  QuietInv'
    BY <1>5, QuietStays DEF SaveAutosyncConfig, runVars
<1>6. CASE OfflineExport
    BY <1>6, QuietStays DEF OfflineExport, stateVars, runVars
<1>7. ASSUME NEW b \in bundles, OfflineUpload(b) PROVE QuietInv'
    BY <1>7, QuietStays DEF OfflineUpload, stateVars, runVars
<1>8. CASE Pass
    BY <1>8, PassQuiet
<1>9. CASE UpgradeServer
    BY <1>9, QuietStays DEF UpgradeServer, stateVars, runVars
<1>10. ASSUME NEW version \in Schema, Restart(version) PROVE QuietInv'
    <2>1. /\ run'["tick"].pc = "off" /\ loop'.pc = "read"
          /\ quiet' = MaxInterval
        BY <1>10, OffTyped DEF Restart, AtStart, Runner
    <2>2. QED
        BY <2>1 DEF QuietInv
<1>11. CASE UNCHANGED vars
    BY <1>11, QuietStays DEF vars, stateVars, runVars
<1>12. QED
    BY <1>1, <1>2, <1>3, <1>4, <1>5, <1>6, <1>7, <1>8, <1>9, <1>10, <1>11
    DEF Next, RunnerStep

LEMMA Invariance == Spec => []IInv
<1>1. IInv /\ [Next]_vars => IInv'
    BY NextTyped, NextLock, NextRows, NextQuiet DEF IInv
<1>2. QED
    BY InitInv, <1>1, PTL DEF Spec

-----------------------------------------------------------------------------
(* The loop's ticks and all the clicks never run side by side, however     *)
(* many, and the lock is neither leaked nor released by another (D-09, and *)
(* the finally blocks of run_sync_tick and sync_run).                      *)
THEOREM OneRunAtATime == Spec => []OneRun
<1>1. IInv => OneRun
    BY DEF IInv, LockInv, OneRun
<1>2. QED
    BY Invariance, <1>1, PTL

(* A refused client knocks once per longest interval, whatever pause is    *)
(* set and however the clicks fall (D-09 of _auto_sync_iteration).         *)
THEOREM LoopBacksOff == Spec => BackOff
<1> DEFINE A == (run["tick"].pc = "held" /\ run'["tick"].pc = "pushing")
                   => quiet = MaxInterval
<1>1. IInv => (A \/ UNCHANGED vars)
    BY DEF IInv, QuietInv
<1>2. QED
    BY Invariance, <1>1, PTL DEF BackOff

(* A step of the driver or of an upload is a step of the promise: rows are *)
(* stored together as they were written, and stamped only when stored.     *)
LEMMA StoreStep ==
    ASSUME TypeOK, RowsInv, NEW rows \in SUBSET Row, NEW schema \in Schema,
           Travels(rows, schema), schema <= srvSchema,
           stored' = Merged(rows), UNCHANGED <<born, synced>>
    PROVE  Promise!Next
<1> DEFINE S == {r \in rows : stored[r] = 0}
<1>1. \A r \in rows : born[r] # 0 /\ born[r] <= srvSchema
    BY Pauses DEF Travels, TypeOK, Schema
<1>2. stored' = [r \in Row |-> IF r \in S THEN born[r] ELSE stored[r]]
    <2>1. \A r \in Row :
            (IF r \notin rows \/ stored[r] # 0 THEN stored[r]
             ELSE IF born[r] <= srvSchema THEN born[r] ELSE srvSchema)
            = IF r \in S THEN born[r] ELSE stored[r]
        BY <1>1
    <2>2. QED
        BY <2>1 DEF Merged
<1>3. Promise!Store(S)
    BY <1>1, <1>2 DEF Promise!Store
<1>4. S \in SUBSET Row
    OBVIOUS
<1>5. QED
    BY <1>3, <1>4 DEF Promise!Next

LEMMA NextDelivers ==
    ASSUME IInv, [Next]_vars
    PROVE  [Promise!Next]_(Promise!vars)
<1> USE DEF IInv
<1>1. ASSUME NEW r \in Row, Write(r) PROVE Promise!Write(r)
    <2>1. /\ born[r] = 0 /\ born' = [born EXCEPT ![r] = cliSchema]
          /\ UNCHANGED <<stored, synced>>
        BY <1>1 DEF Write
    <2>2. born'[r] = cliSchema /\ cliSchema \in Nat \ {0}
        BY <2>1, Pauses DEF TypeOK, Schema
    <2>3. QED
        BY <2>1, <2>2 DEF Promise!Write
<1>2. ASSUME NEW t \in Runner, PushMerged(t) PROVE Promise!Next
    <2>1. /\ run[t].rows \in SUBSET Row /\ run[t].schema \in Schema
          /\ Travels(run[t].rows, run[t].schema)
        BY <1>2 DEF PushMerged, TypeOK, RunState, RowsInv
    <2>2. QED
        BY <1>2, <2>1, StoreStep DEF PushMerged
<1>3. ASSUME NEW t \in Runner, Stamp(t) PROVE Promise!Next
    <2>1. /\ run[t].rows \in SUBSET Row
          /\ run[t].rows \subseteq Stored
        BY <1>3 DEF Stamp, TypeOK, RunState, RowsInv
    <2>2. Promise!Ack(run[t].rows)
        BY <1>3, <2>1 DEF Stamp, Stored, Promise!Ack
    <2>3. QED
        BY <2>1, <2>2 DEF Promise!Next
<1>4. ASSUME NEW b \in bundles, OfflineUpload(b) PROVE Promise!Next
    <2>1. /\ b.rows \in SUBSET Row /\ b.schema \in Schema
          /\ Travels(b.rows, b.schema)
        BY DEF TypeOK, RowsInv
    <2>2. b.schema <= srvSchema
        BY <1>4, <2>1 DEF OfflineUpload, SchemaVersionOk, Schema
    <2>3. QED
        BY <1>4, <2>1, <2>2, StoreStep DEF OfflineUpload
<1>5. \/ \E r \in Row : Write(r)
      \/ \E t \in Runner : PushMerged(t) \/ Stamp(t)
      \/ \E b \in bundles : OfflineUpload(b)
      \/ UNCHANGED rowVars
    BY DEF Next, LoopStep, ClickRun, Collect, PushFails, PullEnds, RecordResult,
       RecordLost, ReadConfig, CallTick, SkipTick, TickDisabled, GoToSleep,
       WakeUp, LoopError, SaveAutosyncConfig, OfflineExport, Pass,
       UpgradeServer, Restart, vars
<1>6. QED
    BY <1>1, <1>2, <1>3, <1>4, <1>5 DEF Promise!Next, Promise!vars, rowVars

(* By push or by file, through upgrades, repeated uploads, cut runs and    *)
(* restarts, a row is stored once, as written, and stamped only when       *)
(* stored: the transport implements module Delivery.                       *)
THEOREM TransportDelivers == Spec => Delivers
<1>1. Init => Promise!Init
    BY DEF Init, Promise!Init
<1>2. IInv /\ [Next]_vars => [Promise!Next]_(Promise!vars)
    BY NextDelivers
<1>3. QED
    BY <1>1, <1>2, Invariance, PTL DEF Spec, Delivers, Promise!Spec
=============================================================================
