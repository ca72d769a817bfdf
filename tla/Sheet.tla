-------------------------------- MODULE Sheet --------------------------------
(***************************************************************************)
(* The inventory sheet that is booked as a goods receipt                   *)
(* (scripts/import_inventory_receipt.py): first a dry run that writes      *)
(* nothing, then --apply, which walks the same rows, registers one receipt *)
(* for each and commits after each, while the shop's pages are open.  A    *)
(* row that register_receipt refuses stops the run; it may be killed; it   *)
(* may be started again, which adds everything a second time.              *)
(***************************************************************************)
EXTENDS Naturals, Sequences, FiniteSets

CONSTANTS
    SheetCode, \* product codes
    Month,     \* months of expiry
    Mark,      \* condition markers of the last column, NoMark among them
    NoMark,
    MaxRows,   \* bound: rows of the sheet
    MaxLots,   \* bound: batches
    MaxRuns    \* bound: runs with --apply

ASSUME Marks == NoMark \in Mark
ASSUME SheetBounds == MaxRows \in Nat /\ MaxLots \in Nat /\ MaxRuns \in Nat

VARIABLES
    sheet,     \* the rows that are not skipped
    card,      \* the active product card of a code and where its price is from
    lots,      \* the batches of the warehouse, oldest first
    mode,      \* what the console does
    attempt,   \* number of runs with --apply so far
    line,      \* rows done in this run
    decision,  \* what resolve_row said of the next row
    pending,   \* Pending
    predicted, \* what the dry run said of each row
    done,      \* what --apply has done for each row
    touched    \* somebody wrote since the dry run began

shop == <<card, lots, touched>>
script == <<mode, attempt, line, decision, pending, predicted, done>>
sheetVars == <<sheet, shop, script>>

(* ok: register_receipt accepts the quantity, the name and the date.  Only *)
(* the last row of a sheet may be refused, no run gets further.            *)
SheetRow == [code: SheetCode, month: Month, mark: Mark, ok: BOOLEAN]
Key(r) == <<r.code, r.month, r.mark>>
Keys == SheetCode \X Month \X Mark

(* A batch, and the rows booked into it by <<attempt, line>>.              *)
Lot == [code: SheetCode, month: Month, rows: SUBSET ((1..MaxRuns) \X (1..MaxRows))]
LotId == 1..Len(lots)

(* "own": the price was typed by a user; "catalog": taken from             *)
(* catalog_prices by the script.                                           *)
Cards == {"none", "own", "catalog"}

(* What a row does: a new batch or a top-up, of which batch (0: predicted  *)
(* only), whether the card is there, and whether catalogue prices are sent.*)
Decision == [action: {"new", "topup"}, lot: 0..MaxLots, exists: BOOLEAN,
             prices: BOOLEAN]
Undecided == [action |-> "new", lot |-> 0, exists |-> TRUE, prices |-> FALSE]
Seen(d) == [action |-> d.action, exists |-> d.exists]

(* Pending: codes and keys a dry run would have created; the batches this  *)
(* run has made for rows with a marker.                                    *)
Empty == [codes |-> {}, keys |-> {}, marked |-> {}]

-----------------------------------------------------------------------------
(* resolve_row *)

(* _month_batches: the lots of the same month.  Their order, by the day of *)
(* expiry, is left out.                                                    *)
MonthLots(r) ==
    {i \in LotId : /\ lots[i].code = r.code /\ lots[i].month = r.month
                   /\ i \notin {p[2] : p \in pending.marked}}

(* The batches the row may top up: with a marker only one of this run, for *)
(* the same marker; otherwise one of its month.  The code takes the one    *)
(* with the earliest day, here it may be any.                              *)
Candidates(r) ==
    IF r.mark # NoMark
    THEN {p[2] : p \in {q \in pending.marked : q[1] = Key(r)}}
    ELSE IF card[r.code] = "none" THEN {} ELSE MonthLots(r)

Exists(r) == card[r.code] # "none" \/ r.code \in pending.codes

(* Mutant: catalogue prices are always sent.                               *)
AlwaysPriced(r) == TRUE
SendPrices(r) == ~Exists(r)

(* A decision that resolve_row may return for the row.                     *)
Resolves(r, d) ==
    /\ d.exists = Exists(r)
    /\ d.prices = SendPrices(r)
    /\ CASE Candidates(r) # {} -> d.action = "topup" /\ d.lot \in Candidates(r)
         [] Candidates(r) = {} /\ Key(r) \in pending.keys ->
               d.action = "topup" /\ d.lot = 0
         [] OTHER -> d.action = "new" /\ d.lot = 0

-----------------------------------------------------------------------------
(* run_import *)

DryRun ==
    /\ mode = "idle" /\ predicted = <<>>
    /\ mode' = "dry"
    /\ pending' = Empty
    /\ line' = 0
    /\ touched' = FALSE
    /\ UNCHANGED <<sheet, card, lots, attempt, decision, predicted, done>>

(* Mutant: a batch that would be made is forgotten.                        *)
ForgottenKeys(r, d) == pending.keys
RememberedKeys(r, d) ==
    IF d.action = "new" THEN pending.keys \cup {Key(r)} ELSE pending.keys

DryRow ==
    /\ mode = "dry" /\ line < Len(sheet)
    /\ LET r == sheet[line + 1]
       IN  \E d \in Decision :
              /\ Resolves(r, d)
              /\ predicted' = Append(predicted, Seen(d))
              /\ pending' = [pending EXCEPT
                                !.codes = IF d.exists THEN @ ELSE @ \cup {r.code},
                                !.keys = RememberedKeys(r, d)]
    /\ line' = line + 1
    /\ UNCHANGED <<sheet, shop, mode, attempt, decision, done>>

DryEnds ==
    /\ mode = "dry" /\ line = Len(sheet)
    /\ mode' = "idle"
    /\ UNCHANGED <<sheet, shop, attempt, line, decision, pending, predicted, done>>

Apply ==
    /\ mode = "idle" /\ Len(predicted) = Len(sheet) /\ attempt < MaxRuns
    /\ mode' = "resolve"
    /\ attempt' = attempt + 1
    /\ line' = 0
    /\ pending' = Empty
    /\ done' = <<>>
    /\ touched' = (touched \/ attempt > 0)
    /\ UNCHANGED <<sheet, card, lots, decision, predicted>>

ResolveRow ==
    /\ mode = "resolve" /\ line < Len(sheet)
    /\ \E d \in Decision : Resolves(sheet[line + 1], d) /\ decision' = d
    /\ mode' = "register"
    /\ UNCHANGED <<sheet, shop, attempt, line, pending, predicted, done>>

(* register_receipt looks the card up again.  Prices it is given change    *)
(* the card's, whoever made it.                                            *)
NewCard(c) == IF decision.prices THEN "catalog" ELSE card[c]

(* The receipt is committed; a new batch for a row with a marker is        *)
(* remembered.  What _apply_topup_notes changes, the day of expiry within  *)
(* the month and the comment, is left out.                                 *)
Register ==
    LET r == sheet[line + 1]
        goods == <<attempt, line + 1>>
        target == IF decision.action = "new" THEN Len(lots) + 1 ELSE decision.lot
    IN  /\ mode = "register" /\ r.ok
        /\ target <= MaxLots
        /\ lots' = IF decision.action = "new"
                   THEN Append(lots, [code |-> r.code, month |-> r.month,
                                      rows |-> {goods}])
                   ELSE [lots EXCEPT ![target].rows = @ \cup {goods}]
        /\ card' = [card EXCEPT ![r.code] = NewCard(r.code)]
        /\ pending' = IF decision.action = "new" /\ r.mark # NoMark
                      THEN [pending EXCEPT !.marked = @ \cup {<<Key(r), target>>}]
                      ELSE pending
        /\ done' = Append(done, Seen(decision))
        /\ line' = line + 1
        /\ mode' = "resolve"
        /\ UNCHANGED <<sheet, touched, attempt, decision, predicted>>

(* The first refused row ends the run; the rows before it stay booked.     *)
Stop ==
    /\ \/ mode = "register" /\ ~sheet[line + 1].ok
       \/ mode = "resolve" /\ line = Len(sheet)
    /\ mode' = "idle"
    /\ UNCHANGED <<sheet, shop, attempt, line, decision, pending, predicted, done>>

(* Killed between two commits.                                             *)
SheetKilled ==
    /\ mode \in {"resolve", "register"}
    /\ mode' = "idle"
    /\ UNCHANGED <<sheet, shop, attempt, line, decision, pending, predicted, done>>

-----------------------------------------------------------------------------
(* The shop's pages: a card is made, with a batch or without one.          *)
WebCard(c) ==
    /\ card[c] = "none"
    /\ card' = [card EXCEPT ![c] = "own"]
    /\ touched' = TRUE
    /\ UNCHANGED <<sheet, lots, script>>

WebReceipt(c, m) ==
    /\ card[c] # "none" /\ Len(lots) < MaxLots
    /\ lots' = Append(lots, [code |-> c, month |-> m, rows |-> {}])
    /\ touched' = TRUE
    /\ UNCHANGED <<sheet, card, script>>

SheetInit ==
    /\ sheet \in UNION {[1..n -> SheetRow] : n \in 1..MaxRows}
    /\ \A k \in DOMAIN sheet : ~sheet[k].ok => k = Len(sheet)
    /\ card = [c \in SheetCode |-> "none"]
    /\ lots = <<>>
    /\ mode = "idle"
    /\ attempt = 0
    /\ line = 0
    /\ decision = Undecided
    /\ pending = Empty
    /\ predicted = <<>>
    /\ done = <<>>
    /\ touched = FALSE

SheetNext ==
    \/ DryRun \/ DryRow \/ DryEnds
    \/ Apply \/ ResolveRow \/ Register \/ Stop \/ SheetKilled
    \/ \E c \in SheetCode : WebCard(c) \/ \E m \in Month : WebReceipt(c, m)

SheetSpec == SheetInit /\ [][SheetNext]_sheetVars

-----------------------------------------------------------------------------
(* Properties *)

SheetTypeOK ==
    /\ sheet \in Seq(SheetRow) /\ Len(sheet) <= MaxRows
    /\ card \in [SheetCode -> Cards]
    /\ lots \in Seq(Lot) /\ Len(lots) <= MaxLots
    /\ mode \in {"idle", "dry", "resolve", "register"}
    /\ attempt \in 0..MaxRuns
    /\ line \in 0..MaxRows
    /\ decision \in Decision
    /\ pending \in [codes: SUBSET SheetCode, keys: SUBSET Keys,
                    marked: SUBSET (Keys \X (1..MaxLots))]
    /\ predicted \in Seq([action: {"new", "topup"}, exists: BOOLEAN])
    /\ done \in Seq([action: {"new", "topup"}, exists: BOOLEAN])
    /\ touched \in BOOLEAN

(* The variables have their types, and the dry run predicts what --apply   *)
(* does to every row it gets to, as far as the summary counts it: a new    *)
(* batch or a top-up, a new card or not (Pending, "so a dry run predicts   *)
(* exactly what --apply would do"), if nobody else has written since.      *)
(* Which of two batches of one month is topped up is not part of it.       *)
Predicted ==
    /\ SheetTypeOK
    /\ ~touched => \A k \in DOMAIN done : done[k] = predicted[k]

(* Goods with a condition marker lie in a batch of their own (rule 2.2):   *)
(* the same run made it, and put into it nothing without that marker.      *)
MarkedApart ==
    \A i \in LotId : \A g \in lots[i].rows :
        sheet[g[2]].mark # NoMark =>
           \A h \in lots[i].rows : h[1] = g[1] => Key(sheet[h[2]]) = Key(sheet[g[2]])

(* Nothing with a marker is added to a batch that was there before the run *)
(* (rule 2.2), and the catalogue's prices never replace those of a card    *)
(* that was there when the row was resolved (rule 4).                      *)
OthersKept ==
    [][Register =>
          /\ \A i \in LotId :
                /\ lots'[i] # lots[i]
                /\ sheet[line + 1].mark # NoMark
                => \E g \in lots[i].rows : g[1] = attempt
          /\ \A c \in SheetCode :
                card[c] # "none" /\ card'[c] # card[c] => ~decision.exists]_sheetVars

(* Rules 2.2 and 4 of the script: a condition marker keeps its goods apart *)
(* and a card keeps its prices.                                            *)
RulesKept == []MarkedApart /\ OthersKept

(* What rule 4 says of every card: an existing card keeps its own prices.  *)
(* A card made between the two look-ups loses them.                        *)
OwnPrices == [][\A c \in SheetCode : card[c] = "own" => card'[c] = "own"]_sheetVars
=============================================================================
