------------------------------ MODULE Transport ------------------------------
(***************************************************************************)
(* The two ways a client's rows travel, and what starts them: the          *)
(* automatic loop (app/main.py) and the button (app/routes/sync.py), which *)
(* share one run lock and one driver (app/services/sync_client.py), and    *)
(* the file that a client without a connection exports and somebody        *)
(* uploads later from another computer (app/routes/offline.py).            *)
(*                                                                         *)
(* Module Push follows a request through the server and the foreign keys   *)
(* of its rows; here the driver is followed through its schedule: the lock,*)
(* the settings read afresh, the status each run leaves, the pause of an   *)
(* hour after a schema refusal, and restarts.  Time passes in units; the   *)
(* constants keep the order of the code's sixty seconds, five minutes and  *)
(* one hour, not their ratio.                                              *)
(***************************************************************************)
EXTENDS Naturals, FiniteSets

CONSTANTS
    Row,             \* UUIDs of the client's ledger rows
    Click,           \* requests for /sync/run that may be under way at once
    MaxSchema,       \* bound: number of schema versions
    Intervals,       \* the pauses an administrator may set, clamped
    DefaultInterval, \* the pause after an error
    MaxInterval,     \* the pause while the server refuses the schema
    MaxBundles,      \* bound: exported files
    MaxFaults        \* bound: restarts and database errors

ASSUME Pauses ==
    /\ MaxInterval \in Nat
    /\ Intervals \subseteq 1..MaxInterval
    /\ DefaultInterval \in Intervals
    /\ MaxSchema \in Nat \ {0}

ASSUME TickIsNoClick == "tick" \notin Click

VARIABLES
    born,      \* schema version each row was written under, 0: not written
    stored,    \* schema version of each row's copy on the server, 0: none
    synced,    \* rows with synced_at set
    cliSchema, \* schema version of the client
    srvSchema, \* schema version of the server
    auto,      \* sync_state: the switch and the pause of the loop
    status,    \* sync_state.last_status
    held,      \* the run lock
    run,       \* what each runner is doing
    loop,      \* the automatic loop
    bundles,   \* exported files
    quiet,     \* time since a tick of the loop was refused for its schema
    faults     \* restarts and database errors so far

rowVars == <<born, stored, synced>>
schemaVars == <<cliSchema, srvSchema>>
stateVars == <<auto, status>>
runVars == <<held, run, loop>>
vars == <<rowVars, schemaVars, stateVars, runVars, bundles, quiet, faults>>

Runner == {"tick"} \cup Click
Schema == 1..MaxSchema
Results == {"ok", "partial", "schema_mismatch", "error", "offline"}

(* A runner: outside the lock, inside it and about to collect, waiting for *)
(* the answer to its push, pulling, or about to record its result.         *)
Phases == {"off", "held", "pushing", "pulling", "recording"}
RunState == [pc: Phases, rows: SUBSET Row, schema: Schema,
             merged: BOOLEAN, result: Results]
Off == [pc |-> "off", rows |-> {}, schema |-> 1,
        merged |-> FALSE, result |-> "error"]

(* The loop: reading its settings, about to run, running, looking at the   *)
(* status the run left, asleep.  pause is the interval it read, and what   *)
(* is left of it while it sleeps.                                          *)
LoopState == [pc: {"read", "call", "wait", "after", "sleep"},
              pause: 0..MaxInterval]
AtStart == [pc |-> "read", pause |-> 0]

Stored == {r \in Row : stored[r] # 0}

(* Mutant: a row in an exported file counts as sent.                       *)
NotExported ==
    {r \in Row : born[r] # 0} \ (synced \cup UNION {b.rows : b \in bundles})

Unsynced == {r \in Row : born[r] # 0} \ synced

-----------------------------------------------------------------------------
(* merge.apply_merge: rows the server has are left alone, of a new one the *)
(* columns it knows are kept.                                              *)
Merged(rows) ==
    [r \in Row |->
        IF r \notin rows \/ stored[r] # 0 THEN stored[r]
        ELSE IF born[r] <= srvSchema THEN born[r] ELSE srvSchema]

(* Mutant: the gate of the upload is forgotten.                            *)
AnySchemaOk(file, server) == TRUE

(* offline.schema_version_ok *)
SchemaVersionOk(file, server) == file = server

(* One ledger row, written by a request handler.                           *)
Write(r) ==
    /\ born[r] = 0
    /\ born' = [born EXCEPT ![r] = cliSchema]
    /\ UNCHANGED <<stored, synced, schemaVars, stateVars, runVars, bundles,
                   quiet, faults>>

-----------------------------------------------------------------------------
(* The run lock and the driver *)

(* Mutant: the answer of acquire() is not looked at.                       *)
LockIgnored == TRUE

LockFree == ~held

(* The button.  A click that finds the lock taken is told so and changes   *)
(* nothing.                                                                *)
ClickRun(c) ==
    /\ run[c].pc = "off"
    /\ LockFree
    /\ held' = TRUE
    /\ run' = [run EXCEPT ![c].pc = "held"]
    /\ UNCHANGED <<rowVars, schemaVars, stateVars, loop, bundles, quiet,
                   faults>>

(* collect_push_records, serialise and POST.  A tick reads the switch once *)
(* more inside the lock.                                                   *)
Collect(t) ==
    /\ run[t].pc = "held"
    /\ t = "tick" => auto.enabled
    /\ run' = [run EXCEPT ![t] = [pc |-> "pushing", rows |-> Unsynced,
                                  schema |-> cliSchema, merged |-> FALSE,
                                  result |-> "offline"]]
    /\ UNCHANGED <<rowVars, schemaVars, stateVars, held, loop, bundles,
                   quiet, faults>>

(* sync_push: the schema gate, then the one transaction of the merge.      *)
PushMerged(t) ==
    /\ run[t].pc = "pushing"
    /\ ~run[t].merged
    /\ run[t].schema <= srvSchema
    /\ stored' = Merged(run[t].rows)
    /\ run' = [run EXCEPT ![t].merged = TRUE]
    /\ UNCHANGED <<born, synced, schemaVars, stateVars, held, loop, bundles,
                   quiet, faults>>

(* The 2xx arrives: the collected rows are stamped, and committed.         *)
Stamp(t) ==
    /\ run[t].pc = "pushing"
    /\ run[t].merged
    /\ synced' = synced \cup run[t].rows
    /\ run' = [run EXCEPT ![t].pc = "pulling"]
    /\ UNCHANGED <<born, stored, schemaVars, stateVars, held, loop, bundles,
                   quiet, faults>>

(* The push ends without a stamp: the gate refused it, the server answered *)
(* with another error, no answer came, or an exception was caught, whether *)
(* or not the rows were merged.  Nothing is pulled.                        *)
PushFails(t, result) ==
    /\ run[t].pc = "pushing"
    /\ \/ result = "schema_mismatch" /\ run[t].schema > srvSchema
       \/ result \in {"error", "offline"}
    /\ run' = [run EXCEPT ![t].pc = "recording", ![t].result = result]
    /\ quiet' = IF t = "tick" /\ result = "schema_mismatch" THEN 0 ELSE quiet
    /\ UNCHANGED <<rowVars, schemaVars, stateVars, held, loop, bundles,
                   faults>>

(* _pull_all: the reference data, module Catalogue.                        *)
PullEnds(t, result) ==
    /\ run[t].pc = "pulling"
    /\ result \in {"ok", "partial"}
    /\ run' = [run EXCEPT ![t].pc = "recording", ![t].result = result]
    /\ UNCHANGED <<rowVars, schemaVars, stateVars, held, loop, bundles,
                   quiet, faults>>

(* The runner leaves: the lock is released in a finally, and a tick gives  *)
(* the control back to the loop.                                           *)
Leave(t) ==
    /\ held' = FALSE
    /\ run' = [run EXCEPT ![t] = Off]
    /\ loop' = IF t = "tick" THEN [loop EXCEPT !.pc = "after"] ELSE loop

(* record_sync_result and its commit.  A status the button recorded takes  *)
(* the place of the one the loop has yet to look at.                       *)
RecordResult(t) ==
    /\ run[t].pc = "recording"
    /\ status' = run[t].result
    /\ quiet' = IF t # "tick" /\ run[t].result # "schema_mismatch"
                THEN MaxInterval ELSE quiet
    /\ Leave(t)
    /\ UNCHANGED <<rowVars, schemaVars, auto, bundles, faults>>

(* A commit that fails is swallowed: the old status stays.                 *)
RecordLost(t) ==
    /\ run[t].pc = "recording"
    /\ faults < MaxFaults
    /\ faults' = faults + 1
    /\ quiet' = MaxInterval
    /\ Leave(t)
    /\ UNCHANGED <<rowVars, schemaVars, stateVars, bundles>>

(* A tick that finds itself switched off returns.                          *)
TickDisabled ==
    /\ run["tick"].pc = "held"
    /\ ~auto.enabled
    /\ Leave("tick")
    /\ UNCHANGED <<rowVars, schemaVars, stateVars, bundles, quiet, faults>>

-----------------------------------------------------------------------------
(* The loop: _auto_sync_iteration and the sleep after it *)

ReadConfig ==
    /\ loop.pc = "read"
    /\ loop' = [pc |-> IF auto.enabled THEN "call" ELSE "sleep",
                pause |-> auto.interval]
    /\ UNCHANGED <<rowVars, schemaVars, stateVars, held, run, bundles,
                   quiet, faults>>

(* run_sync_tick: the lock is tried, not waited for.                       *)
CallTick ==
    /\ loop.pc = "call"
    /\ LockFree
    /\ held' = TRUE
    /\ run' = [run EXCEPT !["tick"].pc = "held"]
    /\ loop' = [loop EXCEPT !.pc = "wait"]
    /\ UNCHANGED <<rowVars, schemaVars, stateVars, bundles, quiet, faults>>

SkipTick ==
    /\ loop.pc = "call"
    /\ ~LockFree
    /\ loop' = [loop EXCEPT !.pc = "after"]
    /\ UNCHANGED <<rowVars, schemaVars, stateVars, held, run, bundles,
                   quiet, faults>>

(* Mutant: the interval read at the top is slept whatever the status.      *)
PauseRead == loop.pause

Pause == IF status = "schema_mismatch" THEN MaxInterval ELSE loop.pause

GoToSleep ==
    /\ loop.pc = "after"
    /\ loop' = [pc |-> "sleep", pause |-> Pause]
    /\ UNCHANGED <<rowVars, schemaVars, stateVars, held, run, bundles,
                   quiet, faults>>

(* The broad guard: an error while the settings are read, or the status    *)
(* afterwards, leaves the pause that is known so far.                      *)
LoopError ==
    /\ loop.pc \in {"read", "after"}
    /\ faults < MaxFaults
    /\ faults' = faults + 1
    /\ quiet' = MaxInterval
    /\ loop' = [pc |-> "sleep",
                pause |-> IF loop.pc = "read" THEN DefaultInterval
                                              ELSE loop.pause]
    /\ UNCHANGED <<rowVars, schemaVars, stateVars, held, run, bundles>>

WakeUp ==
    /\ loop = [pc |-> "sleep", pause |-> 0]
    /\ loop' = AtStart
    /\ UNCHANGED <<rowVars, schemaVars, stateVars, held, run, bundles,
                   quiet, faults>>

(* save_autosync_config, from the settings page.                           *)
SaveAutosyncConfig(enabled, interval) ==
    /\ auto' = [enabled |-> enabled, interval |-> interval]
    /\ auto' # auto
    /\ UNCHANGED <<rowVars, schemaVars, status, runVars, bundles, quiet,
                   faults>>

-----------------------------------------------------------------------------
(* The file *)

(* offline_export collects what a push would, and stamps nothing.          *)
OfflineExport ==
    /\ Cardinality(bundles) < MaxBundles
    /\ bundles' = bundles \cup {[rows |-> Unsynced, schema |-> cliSchema]}
    /\ bundles' # bundles
    /\ UNCHANGED <<rowVars, schemaVars, stateVars, runVars, quiet, faults>>

(* offline_upload: the schema of the file, then the one transaction of the *)
(* merge.  The file can be lost, or uploaded any number of times.  Whose   *)
(* token opens the door is the business of module Access.                  *)
OfflineUpload(b) ==
    /\ SchemaVersionOk(b.schema, srvSchema)
    /\ stored' = Merged(b.rows)
    /\ UNCHANGED <<born, synced, schemaVars, stateVars, runVars, bundles,
                   quiet, faults>>

-----------------------------------------------------------------------------
(* Time, upgrades and restarts *)

Pass ==
    /\ loop' = IF loop.pc = "sleep" /\ loop.pause > 0
               THEN [loop EXCEPT !.pause = @ - 1] ELSE loop
    /\ quiet' = IF quiet < MaxInterval THEN quiet + 1 ELSE quiet
    /\ UNCHANGED <<rowVars, schemaVars, stateVars, held, run, bundles, faults>>

UpgradeServer ==
    /\ srvSchema < MaxSchema
    /\ srvSchema' = srvSchema + 1
    /\ UNCHANGED <<rowVars, cliSchema, stateVars, runVars, bundles, quiet,
                   faults>>

(* The client is stopped, by a crash or by an update, and started again,   *)
(* which migrates it: the lock and the loop are those of a new process.    *)
Restart(version) ==
    /\ faults < MaxFaults
    /\ faults' = faults + 1
    /\ version \in {cliSchema, cliSchema + 1} \cap Schema
    /\ cliSchema' = version
    /\ held' = FALSE
    /\ run' = [t \in Runner |-> Off]
    /\ loop' = AtStart
    /\ quiet' = MaxInterval
    /\ UNCHANGED <<rowVars, srvSchema, stateVars, bundles>>

-----------------------------------------------------------------------------
Init ==
    /\ born = [r \in Row |-> 0]
    /\ stored = [r \in Row |-> 0]
    /\ synced = {}
    /\ cliSchema = 1
    /\ srvSchema = 1
    /\ auto = [enabled |-> FALSE, interval |-> DefaultInterval]
    /\ status = "ok"
    /\ held = FALSE
    /\ run = [t \in Runner |-> Off]
    /\ loop = AtStart
    /\ bundles = {}
    /\ quiet = MaxInterval
    /\ faults = 0

LoopStep == ReadConfig \/ CallTick \/ SkipTick \/ TickDisabled \/ GoToSleep
            \/ WakeUp

Next ==
    \/ \E r \in Row : Write(r)
    \/ \E c \in Click : ClickRun(c)
    \/ \E t \in Runner :
          \/ Collect(t) \/ PushMerged(t) \/ Stamp(t)
          \/ \E result \in Results : PushFails(t, result) \/ PullEnds(t, result)
          \/ RecordResult(t) \/ RecordLost(t)
    \/ LoopStep
    \/ LoopError
    \/ \E enabled \in BOOLEAN, i \in Intervals : SaveAutosyncConfig(enabled, i)
    \/ OfflineExport
    \/ \E b \in bundles : OfflineUpload(b)
    \/ Pass
    \/ UpgradeServer
    \/ \E version \in Schema : Restart(version)

Spec == Init /\ [][Next]_vars

(* The loop never stops and time passes; a run under way goes on; the      *)
(* server is upgraded in the end; and of the requests that the server      *)
(* could merge, and of its answers, not all are lost.                      *)
Fairness ==
    /\ WF_vars(LoopStep)
    /\ WF_vars(Pass)
    /\ WF_vars(UpgradeServer)
    /\ \A t \in Runner :
          /\ WF_vars(Collect(t))
          /\ WF_vars(\E result \in Results : PushFails(t, result))
          /\ WF_vars(\E result \in Results : PullEnds(t, result))
          /\ WF_vars(RecordResult(t))
          /\ SF_vars(PushMerged(t))
          /\ SF_vars(Stamp(t))

FairSpec == Spec /\ Fairness

-----------------------------------------------------------------------------
(* Properties *)

TypeOK ==
    /\ born \in [Row -> 0..MaxSchema]
    /\ stored \in [Row -> 0..MaxSchema]
    /\ synced \in SUBSET Row
    /\ cliSchema \in Schema /\ srvSchema \in Schema
    /\ auto \in [enabled: BOOLEAN, interval: Intervals]
    /\ status \in Results
    /\ held \in BOOLEAN
    /\ run \in [Runner -> RunState]
    /\ loop \in LoopState
    /\ bundles \in SUBSET [rows: SUBSET Row, schema: Schema]
    /\ quiet \in 0..MaxInterval
    /\ faults \in Nat

(* The variables have their types, and of the loop's ticks and the clicks  *)
(* at most one is inside the driver, exactly while the lock is held; the   *)
(* loop waits for its tick and for no other (D-09, and the finally blocks  *)
(* of run_sync_tick and sync_run).                                         *)
OneRun ==
    /\ TypeOK
    /\ \A s, t \in Runner :
          run[s].pc # "off" /\ run[t].pc # "off" => s = t
    /\ held <=> \E t \in Runner : run[t].pc # "off"
    /\ loop.pc = "wait" <=> run["tick"].pc # "off"

(* By push or by file, in whatever order the two sides are upgraded, the   *)
(* file is uploaded again and runs are cut: a row is stored once, exactly  *)
(* as written, and stamped only when stored.                               *)
Promise == INSTANCE Delivery WITH written <- born, acked <- synced
Delivers == Promise!Spec

(* While the server refuses the schema, the loop tries once per longest    *)
(* interval, whatever pause is set (D-09 of _auto_sync_iteration); a       *)
(* restart, a database error and a click with another outcome excepted.    *)
BackOff ==
    [][(run["tick"].pc = "held" /\ run'["tick"].pc = "pushing")
          => quiet = MaxInterval]_vars

(* Once the switch stays on, every row is stamped in the end: neither the  *)
(* clicks that take the lock before the loop's tick, nor an hour's pause   *)
(* that began before the server was upgraded, nor errors and restarts stop *)
(* the loop.                                                               *)
Arrives ==
    <>[]auto.enabled => \A r \in Row : born[r] # 0 ~> r \in synced
=============================================================================
