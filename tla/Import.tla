-------------------------------- MODULE Import --------------------------------
(***************************************************************************)
(* The price history and the dictionary, and the scripts that fill them    *)
(* from a console while the shop is open (scripts/import_prices.py,        *)
(* import_catalogs.py, import_master_pricelist.py, services/dictionary.py).*)
(*                                                                         *)
(* The price lists live on a workstation.  Its price history reaches the   *)
(* server in an accumulative file that is kept under version control.  The *)
(* server also imports the master price list, which replaces its whole     *)
(* dictionary and leaves a snapshot of the old one.  A script reads first  *)
(* and writes in one transaction at its end, or in one rename; a user may  *)
(* type into the dictionary in between, and the process may be killed.     *)
(***************************************************************************)
EXTENDS Naturals, FiniteSets

CONSTANTS
    Listed,   \* codes of the price lists
    OffList,  \* codes of rubric_overrides.json that no price list has
    HandMade, \* codes that only a user types
    Issue,    \* the catalogues, numbered in the order of (year, number)
    Desk,     \* consoles on the workstation
    Host,     \* consoles on the server
    Together  \* bound: scripts that run at the same time

ASSUME Consoles == Desk \cap Host = {}
ASSUME Issues == Issue \subseteq Nat

VARIABLES
    prices,    \* catalog_prices of each machine: what is known of a triple
    file,      \* catalog_prices.json.gz: what it knows of a triple
    dict,      \* dictionary of the server: the name of a code
    overrides, \* codes with a full name in rubric_overrides.json
    snaps,     \* codes that some dictionary-*.json snapshot holds
    job        \* what runs on each console

tables == <<prices, dict>>
files == <<file, overrides, snaps>>
importVars == <<tables, files, job>>

DictCode == Listed \cup OffList \cup HandMade
Console == Desk \cup Host
Machine == {"workstation", "server"}
On(c) == IF c \in Desk THEN "workstation" ELSE "server"

(* A triple of the code and the issue (year, number).  What is known of it *)
(* is a set of fields; of a triple without a row nothing is.  Every row    *)
(* has a price, only the price lists of the archive have bonus points.     *)
Triple == Listed \X Issue
Field == {"price", "points"}
Known == {{}, {"price"}, {"price", "points"}}
History == [Triple -> Known]
Nothing == [t \in Triple |-> {}]

(* A name: no row, a bare shade, the full name of the override, or a name  *)
(* typed by hand.                                                          *)
Name == {"none", "shade", "full", "hand"}

(* resolve_name for a code and the name a file has for it.                 *)
ResolvedEntry(x) ==
    CASE x \in overrides -> "full"
      [] x \in Listed \ overrides -> "shade"
      [] OTHER -> "hand"

Entries == {x \in DictCode : dict[x] # "none"}
CodesOf(h) == {x \in Listed : \E i \in Issue : h[<<x, i>>] # {}}

(* A job: the step it is at, the price rows it brings and what it has read *)
(* of the stored ones, the codes it brings and what it has read of those,  *)
(* its switch (--only-missing, --force), and what users typed meanwhile.   *)
Steps == {"idle", "upsert", "missing", "export",
          "counting", "replace", "catalogs", "shades"}
OnDictionary == {"counting", "replace", "shades"}
Job == [step: Steps, rows: History, seen: History,
        codes: SUBSET DictCode, known: SUBSET DictCode,
        switch: BOOLEAN, typed: SUBSET DictCode]
NoJob == [step |-> "idle", rows |-> Nothing, seen |-> Nothing, codes |-> {},
         known |-> {}, switch |-> FALSE, typed |-> {}]

Starts(c, j) ==
    /\ job[c] = NoJob
    /\ Cardinality({d \in Console : job[d] # NoJob}) < Together
    /\ job' = [job EXCEPT ![c] = j]
Ends(c) == job' = [job EXCEPT ![c] = NoJob]

-----------------------------------------------------------------------------
(* The price history *)

(* An incoming None never overwrites a stored value.                       *)
MergeNothing(old, new) == new      \* mutant: the record replaces the row
MergeFields(old, new) == old \cup new

(* upsert_price_rows: h is the table, seen what was read of it.  A row     *)
(* that differs is written whole, from what was read; values are not       *)
(* compared here, so a row that is brought is taken to differ.             *)
Upserted(h, seen, rows) ==
    [t \in Triple |->
        CASE rows[t] = {} -> h[t]
          [] rows[t] # {} /\ seen[t] = {} -> rows[t]
          [] rows[t] # {} /\ seen[t] # {} -> MergeFields(seen[t], rows[t])]

(* The unique constraint on (year, number, code).                          *)
Clash(h, seen, rows) == \E t \in Triple : rows[t] # {} /\ seen[t] = {} /\ h[t] # {}

ReadForUpsert(c, rows) ==
    Starts(c, [NoJob EXCEPT !.step = "upsert", !.rows = rows,
                           !.seen = prices[On(c)]])

(* The price lists, in which there is at least one row.                    *)
Archive(c) ==
    /\ c \in Desk
    /\ \E rows \in History \ {Nothing} : ReadForUpsert(c, rows)
    /\ UNCHANGED <<tables, files>>

FromExport(c) ==
    /\ ReadForUpsert(c, file)
    /\ UNCHANGED <<tables, files>>

(* The commit, or the rollback of everything on a duplicate triple.        *)
UpsertWrite(c) ==
    LET m == On(c)
        j == job[c]
    IN  /\ j.step = "upsert"
        /\ prices' = IF Clash(prices[m], j.seen, j.rows) THEN prices
                     ELSE [prices EXCEPT ![m] = Upserted(@, j.seen, j.rows)]
        /\ Ends(c)
        /\ UNCHANGED <<dict, files>>

(* --from-export --only-missing: rows of codes that have none at all.      *)
FromExportMissing(c) ==
    /\ Starts(c, [NoJob EXCEPT !.step = "missing", !.rows = file,
                              !.known = CodesOf(prices[On(c)])])
    /\ UNCHANGED <<tables, files>>

MissingRows(m, j) ==
    [t \in Triple |-> IF t[1] \in j.known THEN {} ELSE j.rows[t]]

InsertMissing(c) ==
    LET m == On(c)
        fresh == MissingRows(m, job[c])
    IN  /\ job[c].step = "missing"
        /\ prices' = IF Clash(prices[m], Nothing, fresh) THEN prices
                     ELSE [prices EXCEPT ![m] = Upserted(@, Nothing, fresh)]
        /\ Ends(c)
        /\ UNCHANGED <<dict, files>>

(* merge_price_export: a record of the table replaces the file's record.   *)
Accumulated(m) ==
    [t \in Triple |-> IF prices[m][t] = {} THEN file[t] ELSE prices[m][t]]

(* Mutant: the file is opened for writing, and thereby emptied, first.     *)
TruncatedFile == file' = Nothing
SameFile == UNCHANGED file

(* The merged rows are written to a temporary file beside it.  That no     *)
(* other export runs meanwhile is an assumption on the operators: the      *)
(* script takes no lock, and the temporary file has one name for all.      *)
Export(c) ==
    /\ \A d \in Console : job[d].step # "export"
    /\ Starts(c, [NoJob EXCEPT !.step = "export", !.rows = Accumulated(On(c))])
    /\ SameFile
    /\ UNCHANGED <<tables, overrides, snaps>>

(* os.replace.                                                             *)
ExportReplace(c) ==
    /\ job[c].step = "export"
    /\ file' = job[c].rows
    /\ Ends(c)
    /\ UNCHANGED <<tables, overrides, snaps>>

(* --restore-shades --apply writes full names for codes of the lists.      *)
RestoreShades(c) ==
    /\ c \in Desk /\ job[c] = NoJob
    /\ \E S \in SUBSET Listed : overrides' = overrides \cup S
    /\ UNCHANGED <<tables, file, snaps, job>>

-----------------------------------------------------------------------------
(* The dictionary *)

(* snapshot_dictionary: every code, before anything is deleted.            *)
NoSnapshot == snaps               \* mutant: VACUUM INTO only, so none here
Snapshot == snaps \cup Entries

(* main of the master price list, up to the snapshot.  It carries prices   *)
(* of one issue of each of its codes, and no bonus points.                 *)
Master(c) ==
    /\ c \in Host
    /\ \E codes \in SUBSET Listed \ {{}}, i \in Issue, force \in BOOLEAN :
          Starts(c, [NoJob EXCEPT
              !.step = "counting", !.codes = codes, !.switch = force,
              !.rows = [t \in Triple |->
                          IF t[1] \in codes /\ t[2] = i THEN {"price"} ELSE {}]])
    /\ snaps' = Snapshot
    /\ UNCHANGED <<tables, file, overrides>>

(* build_dictionary_rows: the list's codes and the override-only ones.     *)
Replacement(j) == j.codes \cup overrides

(* apply_master_import refuses a smaller dictionary unless --force.        *)
MasterCount(c) ==
    LET j == job[c]
    IN  /\ j.step = "counting"
        /\ IF Cardinality(Replacement(j)) < Cardinality(Entries) /\ ~j.switch
           THEN Ends(c)
           ELSE job' = [job EXCEPT ![c].step = "replace"]
        /\ UNCHANGED <<tables, files>>

(* Everything is deleted and the new rows inserted; the prices are upserted*)
(* in the same transaction.                                                *)
MasterReplace(c) ==
    LET j == job[c]
        rows == Replacement(j)
    IN  /\ j.step = "replace"
        /\ dict' = [x \in DictCode |-> IF x \in rows THEN ResolvedEntry(x) ELSE "none"]
        /\ prices' = [prices EXCEPT ![On(c)] = Upserted(@, @, j.rows)]
        /\ Ends(c)
        /\ UNCHANGED files

(* --only-missing of the master price list: the override-only codes.       *)
MasterMissing(c) ==
    /\ c \in Host /\ job[c] = NoJob
    /\ \E codes \in SUBSET Listed \ {{}} :
          dict' = [x \in DictCode |-> IF x \in (overrides \ codes) \ Entries
                                 THEN "full" ELSE dict[x]]
    /\ UNCHANGED <<prices, files, job>>

(* import_catalogs.py on products.json, or on the snapshots.               *)
Catalogs(c) ==
    /\ c \in Host
    /\ \E codes \in {Listed, snaps}, only \in BOOLEAN :
          Starts(c, [NoJob EXCEPT !.step = "catalogs", !.codes = codes,
                                 !.known = Entries, !.switch = only])
    /\ UNCHANGED <<tables, files>>

(* Mutant: --only-missing refreshes an existing row too.                   *)
RefreshedAlways(j) == j.codes
Refreshed(j) == IF j.switch THEN j.codes \ j.known ELSE j.codes

(* Rolled back when a code it inserts was typed meanwhile, or a row it     *)
(* refreshes has been deleted.                                             *)
CatalogsWrite(c) ==
    LET j == job[c]
        fails == \E x \in Refreshed(j) : x \in j.known <=> x \notin Entries
    IN  /\ j.step = "catalogs"
        /\ IF fails
           THEN UNCHANGED dict
           ELSE dict' = [x \in DictCode |->
                           IF x \in Refreshed(j) THEN ResolvedEntry(x) ELSE dict[x]]
        /\ Ends(c)
        /\ UNCHANGED <<prices, files>>

(* plan_shade_name_updates: rows whose name is nothing but the shade.      *)
WithOverride == Entries \cap overrides                          \* mutant
ShadeRows == {x \in Entries \cap overrides : dict[x] = "shade"}

PlanShades(c) ==
    /\ c \in Host
    /\ Starts(c, [NoJob EXCEPT !.step = "shades", !.codes = ShadeRows])
    /\ UNCHANGED <<tables, files>>

(* apply_shade_name_updates gives up, and all is rolled back, when a name  *)
(* would become no longer; a name typed meanwhile may be shorter.          *)
ApplyShades(c) ==
    LET plan == job[c].codes \cap Entries
        shrinks == \E x \in plan : dict[x] = "full"
    IN  /\ job[c].step = "shades"
        /\ \/ ~shrinks
              /\ dict' = [x \in DictCode |-> IF x \in plan THEN "full" ELSE dict[x]]
           \/ (\E x \in plan : dict[x] \in {"full", "hand"}) /\ UNCHANGED dict
        /\ Ends(c)
        /\ UNCHANGED <<prices, files>>

(* add_entry and update_entry: a user types a name.                        *)
Type(x) ==
    /\ dict' = [dict EXCEPT ![x] = "hand"]
    /\ job' = [c \in Console |->
                 IF job[c].step \in OnDictionary
                 THEN [job[c] EXCEPT !.typed = @ \cup {x}] ELSE job[c]]
    /\ UNCHANGED <<prices, files>>

AddEntry(x) == dict[x] = "none" /\ Type(x)
UpdateEntry(x) == dict[x] # "none" /\ Type(x)

(* The process is killed: its transaction or its temporary file is gone.   *)
Killed(c) ==
    /\ job[c] # NoJob
    /\ Ends(c)
    /\ UNCHANGED <<tables, files>>

-----------------------------------------------------------------------------
ImportInit ==
    /\ prices = [m \in Machine |-> Nothing]
    /\ file = Nothing
    /\ dict = [x \in DictCode |-> "none"]
    /\ overrides = OffList
    /\ snaps = {}
    /\ job = [c \in Console |-> NoJob]

ImportNext ==
    \/ \E c \in Console :
          \/ Archive(c) \/ FromExport(c) \/ UpsertWrite(c)
          \/ FromExportMissing(c) \/ InsertMissing(c)
          \/ Export(c) \/ ExportReplace(c) \/ RestoreShades(c)
          \/ Master(c) \/ MasterCount(c) \/ MasterReplace(c) \/ MasterMissing(c)
          \/ Catalogs(c) \/ CatalogsWrite(c) \/ PlanShades(c) \/ ApplyShades(c)
          \/ Killed(c)
    \/ \E x \in DictCode : AddEntry(x) \/ UpdateEntry(x)

ImportSpec == ImportInit /\ [][ImportNext]_importVars

-----------------------------------------------------------------------------
(* Properties *)

ImportTypeOK ==
    /\ prices \in [Machine -> History]
    /\ file \in History
    /\ dict \in [DictCode -> Name]
    /\ overrides \in SUBSET DictCode
    /\ snaps \in SUBSET DictCode
    /\ job \in [Console -> Job]

(* The variables have their types, and there is a way back from every      *)
(* replacement of the dictionary (snapshot_dictionary, "the way back"): a  *)
(* code that disappears is in a snapshot that stays, unless a user typed   *)
(* it between the snapshot and the deletion.                               *)
WayBack ==
    /\ []ImportTypeOK
    /\ [][/\ snaps \subseteq snaps'
          /\ \A x \in DictCode :
                dict[x] # "none" /\ dict'[x] = "none" =>
                   \/ x \in snaps
                   \/ \E c \in Console :
                         job[c].step = "replace" /\ x \in job[c].typed]_importVars

(* No script makes a price history poorer (upsert_price_rows, "neither     *)
(* source may make the other poorer"): a triple that is stored stays, and  *)
(* so does each of its fields that is known.                               *)
NeverPoorer ==
    [][\A m \in Machine, t \in Triple : prices[m][t] \subseteq prices'[m][t]]_importVars

(* The exported file only ever gains triples (merge_price_export, "the     *)
(* file only ever grows"; atomic_write), whoever exports and whenever a    *)
(* process is killed.                                                      *)
FileGrows == [][\A t \in Triple : file[t] # {} => file'[t] # {}]_importVars

(* --only-missing does not shadow the latest price of a code that has one  *)
(* (insert_missing_price_rows).                                            *)
LatestKept ==
    [][\A c \in Console, t \in Triple :
          InsertMissing(c) /\ t[1] \in CodesOf(prices[On(c)])
             => prices'[On(c)][t] = prices[On(c)][t]]_importVars

(* The price history keeps what it knows, and what it shows as the latest. *)
HistoryKept == NeverPoorer /\ LatestKept

(* A name typed by hand is replaced only by the two imports that are       *)
(* authoritative for it, the master price list and import_catalogs.py      *)
(* without --only-missing; the restoration of shades takes a typed name    *)
(* only if it was typed while it ran.                                      *)
HandKept ==
    [][\A x \in DictCode :
          dict[x] = "hand" /\ dict'[x] # "hand" =>
             \E c \in Console :
                \/ job[c].step = "replace"
                \/ job[c].step = "catalogs" /\ ~job[c].switch
                \/ job[c].step = "shades" /\ x \in job[c].typed]_importVars

(* The docstring of merge_price_export: exporting from a machine with a    *)
(* thinner price history can never impoverish the accumulated file.  It    *)
(* does: a record without points replaces the one that has them.           *)
FileNeverPoorer == [][\A t \in Triple : file[t] \subseteq file'[t]]_importVars
=============================================================================
