------------------------------ MODULE Wizard ------------------------------
(***************************************************************************)
(* The pages with which one clerk sells, receives, writes off, corrects    *)
(* and moves goods: the forms of the desktop (app/routes/sales.py and its  *)
(* neighbours) and the step by step wizards of the phone (mobile_*.py).    *)
(*                                                                         *)
(* The server keeps nothing between two requests.  Whatever was typed      *)
(* lives in the page: a handler answers with the next fragment, and a      *)
(* value survives only if the button sends it and the handler echoes it.   *)
(* Meanwhile other clerks change the stock.  The variable intent is what   *)
(* the clerk has entered and not taken back; the properties compare it     *)
(* with what is stored in the end.                                         *)
(*                                                                         *)
(* A button with hx-post sends its whole form, one with hx-get only what   *)
(* hx-include names, and hx-vals overrides a field of the form: so does    *)
(* the htmx 2.0.10 that the pages load.                                    *)
(*                                                                         *)
(* Left out: quantities other than one piece a line, prices and notes, the *)
(* hints and searches that only display, and the batches that receipts and *)
(* transfers create.                                                       *)
(***************************************************************************)
EXTENDS Integers, Sequences, FiniteSets, FiniteSetsExt, SequencesExt

CONSTANTS
    Code,         \* product codes a clerk may type
    Dictionary,   \* those the dictionary of names knows as well
    Batch,
    CodeOf,       \* the product of a batch
    Place,        \* warehouses; every batch is in one of them
    PlaceOf,
    Default,      \* the warehouse a receipt starts with
    Flows,        \* what is opened: see Flow
    Devices,      \* "desk" or "phone"
    Ann,          \* a customer
    New,          \* a customer typed but not added; a batch to be created
    None,         \* an empty field
    Dates,        \* what may be typed into a date field
    MaxHeld,      \* bound: pieces other clerks put into a batch
    MaxLines,     \* bound: lines of a basket
    MaxShort      \* bound: pieces a batch may be short of

ASSUME Typed == Dates \subseteq {"past", "future"}
ASSUME Placed == CodeOf \in [Batch -> Code] /\ PlaceOf \in [Batch -> Place]
(* An empty field is no batch and no product, and a new batch has none of  *)
(* the numbers there are.                                                  *)
ASSUME Fields == {New, None} \cap Batch = {} /\ None \notin Code /\ New # None
ASSUME WizardBounds == {MaxHeld, MaxLines, MaxShort} \subseteq Nat
ASSUME Sections ==
    /\ Flows \subseteq {"sale", "receipt", "writeoff", "correction", "transfer"}
    /\ Devices \subseteq {"desk", "phone"}

VARIABLES
    held,     \* batches.quantity
    gone,     \* codes whose card is deleted
    page,     \* the page the clerk looks at
    intent,   \* what the clerk has entered, and which of it a button dropped
    stored    \* the last document saved, until the next page is opened

wizardVars == <<held, gone, page, intent, stored>>

(* One piece of a product out of, or into, a batch. *)
Line(c, b) == [code |-> c, batch |-> b]

-----------------------------------------------------------------------------
(* What the handlers read *)
find_product(c) == c # None /\ c \notin gone

open_batches(c) ==
    IF find_product(c) THEN {b \in Batch : CodeOf[b] = c /\ held[b] > 0} ELSE {}

(* The batch a request names, when it is one of the product it names. *)
pick_batch(c, b) ==
    IF b # None /\ find_product(c) /\ b \in Batch /\ CodeOf[b] = c THEN b ELSE None

Only(S) == IF Cardinality(S) = 1 THEN CHOOSE b \in S : TRUE ELSE None

-----------------------------------------------------------------------------
(* The page *)
Blank(flow, device) ==
    [flow |-> flow, device |-> device,
     step |-> IF device = "desk" THEN "form" ELSE "product",
     code |-> None,       \* the code typed
     named |-> FALSE,     \* a name has been filled in for it
     batch |-> None,      \* the batch picked
     next |-> FALSE,      \* the page offers to go on
     picked |-> FALSE,    \* the line came through the batch step
     place |-> IF flow = "receipt" THEN Default ELSE None,
     acc |-> <<>>,        \* the lines of the basket
     mode |-> "existing", \* how the customer is chosen
     customer |-> None,   \* the customer chosen, visible or kept hidden
     typed |-> FALSE,     \* the fields of a new customer are filled
     date |-> None,       \* the date the page would send; empty is today
     echo |-> None,       \* the date the server rendered into it
     warned |-> FALSE]

Nothing == [lines |-> <<>>, date |-> None, customer |-> None, place |-> None,
            lost |-> {}]

At(flow, device, steps) ==
    page.flow = flow /\ page.device = device /\ page.step \in steps

(* A handler that only renders: the page changes, the database does not. *)
Shows(p, i) ==
    /\ page' = p
    /\ intent' = i
    /\ UNCHANGED <<held, gone, stored>>

Drops(what, i) ==
    [i EXCEPT !.lost = @ \cup {what},
              !.lines = IF what = "lines" THEN <<>> ELSE @,
              !.date = IF what = "date" THEN None ELSE @,
              !.customer = IF what = "customer" THEN None ELSE @]

(* A page is opened from the menu, in whatever state the last one is. *)
Opens(flow, device) ==
    /\ page' = Blank(flow, device)
    /\ intent' = Nothing
    /\ stored' = None
    /\ UNCHANGED <<held, gone>>

(* The date is in the page around the steps, or on the last step. *)
DateSteps(flow, device) ==
    IF device = "phone" /\ flow \in {"correction", "transfer"}
    THEN {"value", "dest"}
    ELSE {"form", "product", "batch", "qty", "reason", "details", "confirm", "basket"}

TypeDate(d) ==
    /\ page.step \in DateSteps(page.flow, page.device)
    /\ Shows([page EXCEPT !.date = d], [intent EXCEPT !.date = d])

-----------------------------------------------------------------------------
(* Saving.  The register_ services answer with errors, with a warning and  *)
(* no write, or with the document.  A page with errors or a warning is     *)
(* the page that was sent.                                                 *)

(* Mutant: a batch of another product will do. *)
RefusedUnlessLive(lines, date) ==
    \/ date = "future"
    \/ lines = <<>>
    \/ \E l \in ToSet(lines) : ~find_product(l.code) \/ l.batch = None

(* A date to come, an empty basket, a product that is gone or unknown, no  *)
(* batch or that of another product.                                       *)
Refused(lines, date) ==
    \/ date = "future"
    \/ lines = <<>>
    \/ \E l \in ToSet(lines) :
          ~find_product(l.code) \/ (l.batch # New /\ pick_batch(l.code, l.batch) = None)

Taken(lines, b) == Cardinality({i \in DOMAIN lines : lines[i].batch = b})

(* A batch has less than all lines together take. *)
Short(lines) ==
    \E l \in ToSet(lines) : l.batch # New /\ Taken(lines, l.batch) > held[l.batch]

Stores(lines, customer, sign) ==
    /\ held' = [b \in Batch |-> held[b] - sign * Taken(lines, b)]
    /\ \A b \in Batch : held'[b] \in -MaxShort..MaxHeld
    /\ stored' = [lines |-> lines, date |-> page.date, customer |-> customer,
                  place |-> page.place]
    /\ page' = [Blank(page.flow, page.device) EXCEPT !.step = "saved"]
    /\ intent' = Nothing
    /\ UNCHANGED gone

(* A page rendered again shows the date it was sent, and the customer only *)
(* when the mode is to choose an existing one.                             *)
Again(p) ==
    [p EXCEPT !.echo = IF p.step = "dest" THEN p.date ELSE @,
              !.named = @ /\ p.flow # "sale",
              !.customer = IF p.mode = "existing" THEN @ ELSE None]

(* The button that confirms is on a warning, and goes with it.  Errors may *)
(* also come from a field that is left out here, or from the database.     *)
Submits(lines, customer, sign, confirm) ==
    /\ confirm => page.warned
    /\ \/ Shows([Again(page) EXCEPT !.warned = FALSE], intent)
       \/ /\ ~Refused(lines, page.date)
          /\ sign = 1 /\ ~confirm /\ Short(lines)
          /\ Shows([Again(page) EXCEPT !.warned = TRUE], intent)
       \/ /\ ~Refused(lines, page.date)
          /\ sign = 1 /\ ~confirm => ~Short(lines)
          /\ Stores(lines, customer, sign)

-----------------------------------------------------------------------------
(* The customer of a sale, on both devices *)
CustomerHeader ==
    At("sale", "desk", {"form"}) \/ At("sale", "phone", {"basket"})

(* What the header shows is what the clerk means. *)
Means(p) ==
    CASE p.mode = "existing" -> p.customer
      [] p.mode = "new" -> IF p.typed THEN New ELSE None
      [] p.mode = "anon" -> None

Header(p) == Shows(p, [intent EXCEPT !.customer = Means(p)])

(* The three modes keep each other's fields in hidden ones. *)
customer_mode(m) == CustomerHeader /\ Header([page EXCEPT !.mode = m])

PickCustomer(c) ==
    /\ CustomerHeader /\ page.mode = "existing"
    /\ Header([page EXCEPT !.customer = c])

TypeCustomer ==
    /\ CustomerHeader /\ page.mode = "new"
    /\ Header([page EXCEPT !.typed = TRUE])

(* The button that adds the customer: on success the header shows it. *)
customer_create ==
    /\ CustomerHeader /\ page.mode = "new" /\ page.typed
    /\ Header([page EXCEPT !.mode = "existing", !.customer = Ann, !.typed = FALSE])

sale_customer_mode(m) == page.device = "desk" /\ customer_mode(m)
sale_customer_create == page.device = "desk" /\ customer_create
mobile_sale_customer_mode(m) == page.device = "phone" /\ customer_mode(m)
mobile_sale_customer_create == page.device = "phone" /\ customer_create

(* The field customer_id is empty in the other modes. *)
SentCustomer == IF page.mode = "existing" THEN page.customer ELSE None

-----------------------------------------------------------------------------
(* The sale wizard of the phone *)
mobile_sales_page == Opens("sale", "phone")

(* A code was typed: on to its batches, the only one picked; a code of the *)
(* dictionary alone goes straight to the quantity; else an error.          *)
mobile_sale_step_product(c) ==
    /\ At("sale", "phone", {"product"})
    /\ Shows(
         CASE find_product(c) ->
                [page EXCEPT !.step = "batch", !.code = c, !.batch = Only(open_batches(c)),
                             !.next = open_batches(c) # {}]
           [] ~find_product(c) /\ c \in Dictionary ->
                [page EXCEPT !.step = "qty", !.code = c, !.batch = None, !.picked = FALSE]
           [] OTHER -> [page EXCEPT !.code = c],
         intent)

(* Back to the first step, from a page that sends its form. *)
BackToProduct ==
    /\ At("sale", "phone", {"batch"}) \/ (At("sale", "phone", {"qty"}) /\ ~page.picked)
    /\ Shows([page EXCEPT !.step = "product", !.batch = None, !.next = FALSE], intent)

(* From the basket on to the next product: the header of the customer is   *)
(* in the part of the page that is replaced.                               *)
AddMore ==
    /\ At("sale", "phone", {"basket"})
    /\ Shows([page EXCEPT !.step = "product", !.code = None, !.mode = "existing",
                          !.customer = None, !.typed = FALSE, !.warned = FALSE],
             IF intent.customer = None THEN intent ELSE Drops("customer", intent))

(* A card is tapped; the cards send the form. *)
mobile_sale_step_batch(b) ==
    /\ At("sale", "phone", {"batch"}) /\ page.next
    /\ Shows([page EXCEPT !.batch = pick_batch(page.code, b),
                          !.next = open_batches(page.code) # {}], intent)

(* The same request from the button Back of the quantity sends nothing. *)
BackToBatch ==
    /\ At("sale", "phone", {"qty"}) /\ page.picked
    /\ Shows([page EXCEPT !.step = "batch", !.code = None, !.batch = None,
                          !.picked = FALSE, !.acc = <<>>],
             IF page.acc = <<>> THEN intent ELSE Drops("lines", intent))

mobile_sale_step_qty_price ==
    /\ At("sale", "phone", {"batch"}) /\ page.next
    /\ Shows([page EXCEPT !.step = "qty", !.batch = pick_batch(page.code, @),
                          !.picked = TRUE, !.next = FALSE], intent)

Basket(lines) ==
    [page EXCEPT !.step = "basket", !.acc = lines, !.code = None, !.batch = None,
                 !.next = FALSE, !.picked = FALSE]

Adds(line) ==
    IF "lines" \in intent.lost THEN intent ELSE [intent EXCEPT !.lines = Append(@, line)]

mobile_sale_step_basket_add ==
    /\ At("sale", "phone", {"qty"}) /\ Len(page.acc) < MaxLines
    /\ Shows(Basket(Append(page.acc, Line(page.code, page.batch))),
             Adds(Line(page.code, page.batch)))

(* A line is removed in the browser. *)
RemoveLine(i) ==
    /\ At("sale", "phone", {"basket"}) /\ i \in DOMAIN page.acc
    /\ LET rest == RemoveAt(page.acc, i)
       IN  Shows([page EXCEPT !.acc = rest],
                 IF "lines" \in intent.lost THEN intent ELSE [intent EXCEPT !.lines = rest])

mobile_sale_create(confirm) ==
    /\ At("sale", "phone", {"basket"})
    /\ Submits(page.acc, SentCustomer, 1, confirm)

-----------------------------------------------------------------------------
(* The other wizards of the phone: receipts *)
mobile_receipt_new == Opens("receipt", "phone")

(* The code and the warehouse; then the open batches there. *)
mobile_receipt_step_batch(c, w) ==
    /\ At("receipt", "phone", {"product", "details"})
    /\ page.step = "details" => c = page.code /\ w = page.place
    /\ LET here == {b \in open_batches(c) : PlaceOf[b] = w}
       IN  Shows([page EXCEPT !.step = "batch", !.code = c, !.place = w,
                              !.batch = IF here = {} THEN New ELSE None],
                 IF "place" \in intent.lost THEN intent ELSE [intent EXCEPT !.place = w])

(* One of the batches listed there, or a new one. *)
mobile_receipt_step_details(b) ==
    /\ At("receipt", "phone", {"batch"})
    /\ b # New => CodeOf[b] = page.code /\ PlaceOf[b] = page.place
    /\ Shows([page EXCEPT !.step = "details", !.batch = b],
             [intent EXCEPT !.lines = <<Line(page.code, b)>>])

mobile_receipt_step_confirm ==
    /\ At("receipt", "phone", {"details"})
    /\ Shows([page EXCEPT !.step = "confirm"], intent)

BackToDetails ==
    /\ At("receipt", "phone", {"confirm"})
    /\ Shows([page EXCEPT !.step = "details"], intent)

(* Back to the first step asks for the page anew, and the handler takes    *)
(* only the code from it: the warehouse is the default one again.          *)
BackToWarehouse ==
    /\ At("receipt", "phone", {"batch"})
    /\ Shows([page EXCEPT !.step = "product", !.place = Default, !.batch = None],
             IF page.place = Default THEN intent ELSE Drops("place", intent))

mobile_receipt_create ==
    /\ At("receipt", "phone", {"confirm"})
    /\ Submits(<<Line(page.code, page.batch)>>, None, -1, FALSE)

-----------------------------------------------------------------------------
(* The other wizards of the phone: goods that leave a batch *)
Intends(b, i) == [i EXCEPT !.lines = <<Line(page.code, b)>>]

(* The second step of the three: the batches of the code, none picked yet. *)
Batches(c, p) ==
    [p EXCEPT !.step = "batch", !.code = c, !.batch = None,
              !.next = open_batches(c) # {}, !.warned = FALSE]

mobile_writeoff_start ==
    \/ Opens("writeoff", "phone")
    \/ /\ At("writeoff", "phone", {"batch"})
       /\ Shows([page EXCEPT !.step = "product", !.batch = None, !.next = FALSE], intent)

(* From the first step, or back from the third. *)
mobile_writeoff_step_batch(c) ==
    /\ At("writeoff", "phone", {"product", "qty"})
    /\ page.step = "qty" => c = page.code
    /\ Shows(IF find_product(c) THEN Batches(c, page)
             ELSE [page EXCEPT !.step = "product", !.code = c], intent)

(* Only the cards are replaced, not the button that goes on. *)
mobile_writeoff_step_batch_pick(b) ==
    /\ At("writeoff", "phone", {"batch"}) /\ page.next
    /\ Shows([page EXCEPT !.batch = pick_batch(page.code, b)], Intends(b, intent))

(* From the second step, or back from the fourth. *)
mobile_writeoff_step_qty ==
    /\ At("writeoff", "phone", {"batch", "reason"})
    /\ page.step = "batch" => page.next
    /\ Shows([page EXCEPT !.step = "qty", !.next = FALSE, !.warned = FALSE], intent)

mobile_writeoff_step_reason ==
    /\ At("writeoff", "phone", {"qty"})
    /\ Shows([page EXCEPT !.step = "reason"], intent)

mobile_writeoff_submit(confirm) ==
    /\ At("writeoff", "phone", {"reason"})
    /\ Submits(<<Line(page.code, page.batch)>>, None, 1, confirm)

mobile_correction_start ==
    \/ Opens("correction", "phone")
    \/ /\ At("correction", "phone", {"batch"})
       /\ Shows([page EXCEPT !.step = "product", !.batch = None, !.next = FALSE], intent)

(* From the first step, or back from the third; each carries the date. *)
mobile_correction_step_batch(c) ==
    /\ At("correction", "phone", {"product", "mode"})
    /\ page.step = "mode" => c = page.code
    /\ Shows(IF find_product(c) THEN Batches(c, page)
             ELSE [page EXCEPT !.step = "product", !.code = c], intent)

mobile_correction_batch_pick(b) ==
    /\ At("correction", "phone", {"batch"}) /\ page.next
    /\ Shows([page EXCEPT !.batch = pick_batch(page.code, b),
                          !.next = open_batches(page.code) # {}], Intends(b, intent))

(* Mutant: the step does not pass the date on. *)
step_mode_undated ==
    /\ At("correction", "phone", {"batch", "value"})
    /\ page.step = "batch" => page.next /\ page.batch # None
    /\ Shows([page EXCEPT !.step = "mode", !.date = None, !.next = FALSE,
                          !.warned = FALSE], intent)

(* From the second step, once a card is tapped, or back from the fourth. *)
mobile_correction_step_mode ==
    /\ At("correction", "phone", {"batch", "value"})
    /\ page.step = "batch" => page.next /\ page.batch # None
    /\ Shows([page EXCEPT !.step = "mode", !.next = FALSE, !.warned = FALSE], intent)

mobile_correction_step_value ==
    /\ At("correction", "phone", {"mode"})
    /\ Shows([page EXCEPT !.step = "value"], intent)

(* Up, down, or to a count, which is either. *)
mobile_correction_create(sign, confirm) ==
    /\ At("correction", "phone", {"value"})
    /\ Submits(<<Line(page.code, page.batch)>>, None, sign, confirm)

transfers_step_product ==
    \/ Opens("transfer", "phone")
    \/ /\ At("transfer", "phone", {"batch"})
       /\ Shows([page EXCEPT !.step = "product", !.batch = None, !.next = FALSE], intent)

(* From the first step, or back from the third.  That button sends the     *)
(* date the server rendered, not the one typed since.                      *)
transfers_step_batch(c) ==
    /\ At("transfer", "phone", {"product", "dest"})
    /\ page.step = "dest" => c = page.code
    /\ Shows([Batches(c, page) EXCEPT !.date = page.echo],
             IF page.date = page.echo THEN intent ELSE Drops("date", intent))

(* A tapped card leads on; one that is no longer of the product does not. *)
transfers_step_batch_pick(b) ==
    /\ At("transfer", "phone", {"batch"}) /\ page.next
    /\ Shows(IF pick_batch(page.code, b) = None THEN Batches(page.code, page)
             ELSE [page EXCEPT !.step = "dest", !.batch = b, !.next = FALSE], Intends(b, intent))

(* The select of the destination; the prices are rendered for it. *)
transfers_step_dest_prices(w) ==
    /\ At("transfer", "phone", {"dest"})
    /\ Shows([page EXCEPT !.place = w], [intent EXCEPT !.place = w])

(* Without a destination the service refuses. *)
MovesGoods(confirm) ==
    /\ page.place # None
    /\ Submits(<<Line(page.code, page.batch)>>, None, 1, confirm)

mobile_transfers_create(confirm) == At("transfer", "phone", {"dest"}) /\ MovesGoods(confirm)

-----------------------------------------------------------------------------
(* The forms of the desktop *)
Rows == IF page.code = None THEN page.acc ELSE Append(page.acc, Line(page.code, page.batch))

RowsOf(p) == IF p.code = None THEN p.acc ELSE Append(p.acc, Line(p.code, p.batch))

Form(flow) == At(flow, "desk", {"form"})
Edits(p) == Shows(p, [intent EXCEPT !.lines = RowsOf(p)])

(* A code is typed and looked up.  A name that is filled in is never       *)
(* overwritten: then, and for a code nobody knows, the answer is empty,    *)
(* and what was picked for the code before stays.                          *)
Lookup(c, picked) ==
    Edits(IF page.named \/ (~find_product(c) /\ c \notin Dictionary)
          THEN [page EXCEPT !.code = c]
          ELSE [page EXCEPT !.code = c, !.named = TRUE, !.batch = picked])

(* A sale picks the only open batch; the other forms pick none. *)
sale_lookup(c) == Form("sale") /\ Lookup(c, Only(open_batches(c)))
writeoff_lookup(c) == Form("writeoff") /\ Lookup(c, None)
correction_lookup(c) == Form("correction") /\ Lookup(c, None)
transfers_lookup(c) == Form("transfer") /\ Lookup(c, None)
receipt_lookup(c) == Form("receipt") /\ Lookup(c, New)

(* One of the open batches listed, if it is still one of the product. *)
Pick(b) == Edits([page EXCEPT !.batch = pick_batch(page.code, b)])

sale_batch_pick(b) == Form("sale") /\ Pick(b)
writeoff_batch_pick(b) == Form("writeoff") /\ Pick(b)
correction_batch_pick(b) == Form("correction") /\ Pick(b)
transfers_batch_pick(b) == Form("transfer") /\ Pick(b)

(* The batches of the code in a warehouse, and a new one. *)
receipt_batches(w, b) ==
    /\ Form("receipt")
    /\ b # New => b \in open_batches(page.code) /\ PlaceOf[b] = w
    /\ LET p == [page EXCEPT !.place = w, !.batch = b]
       IN  Shows(p, [intent EXCEPT !.lines = RowsOf(p), !.place = w])

transfers_dest_pick(w) ==
    /\ Form("transfer") /\ page.batch # None
    /\ Shows([page EXCEPT !.place = w], [intent EXCEPT !.place = w])

(* A further row of the basket. *)
sale_row ==
    /\ Form("sale") /\ page.code # None /\ Len(page.acc) + 1 < MaxLines
    /\ Edits([page EXCEPT !.acc = Rows, !.code = None, !.batch = None, !.named = FALSE])

(* A customer who is typed and not added stops the sale. *)
sale_create(confirm) ==
    /\ Form("sale")
    /\ IF page.mode = "new" /\ page.typed
       THEN Shows([Again(page) EXCEPT !.warned = FALSE], intent)
       ELSE Submits(Rows, SentCustomer, 1, confirm)

receipt_create == Form("receipt") /\ Submits(Rows, None, -1, FALSE)
writeoff_create(confirm) == Form("writeoff") /\ Submits(Rows, None, 1, confirm)
correction_create(sign, confirm) == Form("correction") /\ Submits(Rows, None, sign, confirm)
transfers_create(confirm) == Form("transfer") /\ MovesGoods(confirm)

sale_new_page == Opens("sale", "desk")
receipt_new_page == Opens("receipt", "desk")
writeoff_page == Opens("writeoff", "desk")
correction_page == Opens("correction", "desk")
transfers_page == Opens("transfer", "desk")

-----------------------------------------------------------------------------
(* Other clerks, who are not asked to confirm anything here. *)
Elsewhere ==
    /\ \/ \E b \in Batch, d \in {-1, 1} :
             /\ held[b] + d \in 0..MaxHeld
             /\ held' = [held EXCEPT ![b] = @ + d]
             /\ UNCHANGED gone
       \/ \E c \in Code : gone' = gone \cup {c} /\ UNCHANGED held
    /\ UNCHANGED <<page, intent, stored>>

WizardInit ==
    /\ held \in [Batch -> {MaxHeld}]
    /\ gone = {}
    /\ \E f \in Flows, d \in Devices : page = Blank(f, d)
    /\ intent = Nothing
    /\ stored = None

OpenPage ==
    \/ "phone" \in Devices /\
          \/ "sale" \in Flows /\ mobile_sales_page
          \/ "receipt" \in Flows /\ mobile_receipt_new
    \/ "desk" \in Devices /\
          \/ "sale" \in Flows /\ sale_new_page
          \/ "receipt" \in Flows /\ receipt_new_page
          \/ "writeoff" \in Flows /\ writeoff_page
          \/ "correction" \in Flows /\ correction_page
          \/ "transfer" \in Flows /\ transfers_page

CustomerStep ==
    \/ \E m \in {"new", "existing", "anon"} :
          sale_customer_mode(m) \/ mobile_sale_customer_mode(m)
    \/ \E c \in {None, Ann} : PickCustomer(c)
    \/ TypeCustomer \/ sale_customer_create \/ mobile_sale_customer_create

SaleWizard ==
    \/ \E c \in Code : mobile_sale_step_product(c)
    \/ \E b \in Batch : CodeOf[b] = page.code /\ mobile_sale_step_batch(b)
    \/ BackToProduct \/ AddMore \/ BackToBatch
    \/ mobile_sale_step_qty_price \/ mobile_sale_step_basket_add
    \/ \E i \in 1..MaxLines : RemoveLine(i)
    \/ \E confirm \in BOOLEAN : mobile_sale_create(confirm)

ReceiptWizard ==
    \/ \E c \in Code, w \in Place : mobile_receipt_step_batch(c, w)
    \/ \E b \in Batch \cup {New} : mobile_receipt_step_details(b)
    \/ mobile_receipt_step_confirm \/ BackToDetails \/ BackToWarehouse
    \/ mobile_receipt_create

StockWizards ==
    \/ "phone" \in Devices /\
          \/ "writeoff" \in Flows /\ mobile_writeoff_start
          \/ "correction" \in Flows /\ mobile_correction_start
          \/ "transfer" \in Flows /\ transfers_step_product
    \/ \E c \in Code : mobile_writeoff_step_batch(c) \/ mobile_correction_step_batch(c)
                         \/ transfers_step_batch(c)
    \/ \E b \in {b \in Batch : CodeOf[b] = page.code} :
          mobile_writeoff_step_batch_pick(b) \/ mobile_correction_batch_pick(b)
          \/ transfers_step_batch_pick(b)
    \/ mobile_writeoff_step_qty \/ mobile_writeoff_step_reason
    \/ mobile_correction_step_mode \/ mobile_correction_step_value
    \/ \E w \in Place : transfers_step_dest_prices(w)
    \/ \E confirm \in BOOLEAN :
          \/ mobile_writeoff_submit(confirm) \/ mobile_transfers_create(confirm)
          \/ \E sign \in {-1, 1} : mobile_correction_create(sign, confirm)

Desktop ==
    \/ \E c \in Code : sale_lookup(c) \/ receipt_lookup(c) \/ writeoff_lookup(c)
                         \/ correction_lookup(c) \/ transfers_lookup(c)
    \/ \E b \in Batch : sale_batch_pick(b) \/ writeoff_batch_pick(b)
                          \/ correction_batch_pick(b) \/ transfers_batch_pick(b)
    \/ \E w \in Place : transfers_dest_pick(w)
                          \/ \E b \in Batch \cup {New} : receipt_batches(w, b)
    \/ sale_row \/ receipt_create
    \/ \E confirm \in BOOLEAN :
          \/ sale_create(confirm) \/ writeoff_create(confirm) \/ transfers_create(confirm)
          \/ \E sign \in {-1, 1} : correction_create(sign, confirm)

WizardNext ==
    \/ OpenPage \/ CustomerStep \/ SaleWizard \/ ReceiptWizard \/ StockWizards
    \/ Desktop \/ Elsewhere
    \/ \E d \in Dates : TypeDate(d)

WizardSpec == WizardInit /\ [][WizardNext]_wizardVars

-----------------------------------------------------------------------------
(* Properties *)

(* Every variable has its type, and the last steps of a correction and of  *)
(* a transfer are reached with a batch only.                               *)
WizardTypeOK ==
    /\ held \in [Batch -> Int]
    /\ gone \subseteq Code
    /\ DOMAIN page = DOMAIN Blank(page.flow, page.device)
    /\ page.batch \in Batch \cup {None, New}
    /\ page.step \in {"mode", "value", "dest"} => page.batch \in Batch
    /\ Len(page.acc) <= MaxLines
    /\ intent.lost \subseteq {"lines", "date", "customer", "place"}
    /\ stored = None \/ DOMAIN stored = {"lines", "date", "customer", "place"}

Saves == stored = None /\ stored' # None

(* "accumulated basket-so-far rides along untouched on every step response" *)
(* (templates/mobile_partials/sale_step_product.html): what is stored are   *)
(* the lines the clerk entered and did not remove, whatever way led through *)
(* the steps, apart from the one button known to send nothing.              *)
LinesStored == [][Saves /\ "lines" \notin intent.lost => stored'.lines = intent.lines]_wizardVars

(* The document carries the date the clerk typed last, through every step, *)
(* warning and error, apart from the one button known to send another.     *)
DateStored == [][Saves /\ "date" \notin intent.lost => stored'.date = intent.date]_wizardVars

(* On the desktop the sale names the customer its header showed or that    *)
(* was being typed (NEW_CUSTOMER_REQUIRES_BUTTON_ERROR in routes/sales.py).*)
DeskCustomerStored ==
    [][Saves /\ page.device = "desk" /\ page.flow = "sale" =>
          stored'.customer = intent.customer]_wizardVars

(* The document that is stored is the one the clerk entered, whatever way  *)
(* led through the steps: its lines, its date and, on the desktop, its     *)
(* customer.                                                               *)
EnteredStored == LinesStored /\ DateStored /\ DeskCustomerStored

(* A batch goes below zero only by a document that was stored after a      *)
(* warning was on the screen.                                              *)
ShortOnlyWarned ==
    [][\A b \in Batch : held'[b] < held[b] /\ held'[b] < 0 => page.warned]_wizardVars

(* No line takes from or adds to a batch of another product, and none is   *)
(* of a deleted one, also when the code was changed after the pick or the  *)
(* product deleted while the page was open.                                *)
OwnBatches ==
    [][Saves => \A l \in ToSet(stored'.lines) :
          l.code \notin gone /\ (l.batch # New => CodeOf[l.batch] = l.code)]_wizardVars

(* A document takes from the batches of its own products, and from none of *)
(* them more than it holds unless the clerk was warned.  Every variable    *)
(* has its type.                                                           *)
BatchesRespected == []WizardTypeOK /\ OwnBatches /\ ShortOnlyWarned

(* "the mobile write path guards this the same way desktop does"           *)
(* (templates/mobile_partials/sale_customer.html): no sale drops a         *)
(* customer whose name is typed in its header.                             *)
TypedCustomerKept == [][Saves /\ intent.customer = New => stored'.customer # None]_wizardVars

(* "accumulated basket-so-far rides along untouched on every step response" *)
(* (sale_step_product.html): going back one step keeps the basket.          *)
BackKeepsBasket ==
    [][page.step = "qty" /\ page'.step = "batch" => page'.acc = page.acc]_wizardVars
=============================================================================
