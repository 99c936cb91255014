-------------------------------- MODULE Cadeg -------------------------------
(***************************************************************************)
(* The migration of a tenant from its legacy exports, in modules/cadeg:    *)
(* provisionTenant (master data, and a staged import batch),               *)
(* importPurchases (received purchase orders reconstructed from monthly    *)
(* amounts) and postSalesInventory (a shipment for every line of a posted  *)
(* sales order).  Each is run by hand from a script or a platform request  *)
(* and may be run again.                                                   *)
(*                                                                         *)
(* Units, aliases and supplier links are upserts of a fixed list and are   *)
(* left out.  A purchase order is named by its product and month.          *)
(***************************************************************************)
EXTENDS Imports

CONSTANTS
    Scripts,      \* the operations, each of them real or dry, that are run
    Provisioned,  \* the entries provisioning looks up or upserts, in its order
    Upserted,     \* those of them that are upserted by a unique key
    Staged,       \* the batch provisioning may stage
    Sales,        \* the sales as the purchases import reads them
    Purchased,    \* rows of the purchases export: product and amount by month
    Months,       \* months the export has columns for
    Suppliers,    \* entries that are suppliers
    Fallback,     \* the supplier made up when there is none
    Place         \* the warehouse and its zone

VARIABLES
    task,         \* scripts: step and locals
    purchases,    \* purchase orders with their receipts, by product and month
    shipped,      \* shipment entries of each sales order line, named by its row
    together      \* history: kinds of scripts two of which ran at once

(* What every export has, and what provisionTenant and the catalogue do:    *)
(* the warehouse is not provisioned, and no sale names the supplier the     *)
(* import makes up.                                                         *)
ASSUME CadegAssumption ==
    /\ Scripts \subseteq {"provision", "stage", "purchases", "shipments"} \X BOOLEAN
    /\ Blank \notin Entries /\ Staged \in Batches
    /\ Provisioned \in Seq(Entries \ {Place}) /\ Place \in Entries \ Suppliers
    /\ Suppliers \subseteq Entries /\ Fallback \in Suppliers
    /\ Len(Sales) \in Nat /\ DOMAIN Sales = 1 .. Len(Sales)
    /\ Len(Purchased) \in Nat /\ DOMAIN Purchased = 1 .. Len(Purchased)
    /\ Months \in Nat \ {0}
    /\ \A k \in DOMAIN Sales :
          /\ Sales[k].qty \in Texts /\ Sales[k].cost \in Texts /\ Sales[k].unitCost \in Texts
          /\ Sales[k].supplier \in (Suppliers \ {Fallback}) \cup {Blank}
    /\ \A k \in DOMAIN Purchased : \A m \in 1 .. Months : Purchased[k].fob[m] \in Texts

cadegVars == <<task, purchases, shipped, together>>
vars == <<batch, rows, orders, queue, redelivered, master, proc, started, crashes, parses, lost,
          task, purchases, shipped, together>>

(* The amounts of the export one by one: row by row, month by month.  What  *)
(* was sold of the product in the month gives the quantity bought, and the  *)
(* supplier.  A month without an amount gives none, and the row of totals,  *)
(* which has no product code, names no item.                                *)
Bills ==
    [k \in 1 .. Len(Purchased) * Months |->
        LET row == Purchased[((k - 1) \div Months) + 1]
            month == ((k - 1) % Months) + 1
        IN  [name |-> <<row.sku, month>>, fob |-> Amount(row.fob[month])]]
BillSet == {Bills[k].name : k \in DOMAIN Bills}
Sold == [k \in DOMAIN Bills |-> SalesOf(Sales, Bills[k].name[1], Bills[k].name[2])]
Derived ==
    [k \in DOMAIN Bills |->
        {q \in DerivePurchaseQuantity(Bills[k].fob, Sales, Sold[k]) :
            Bills[k].fob > 0 /\ q > 0}]
Top == [k \in DOMAIN Bills |-> TopSupplier(Sales, Sold[k])]

NoPurchase == [vendor |-> Blank, qty |-> 0, total |-> 0]

(* A script: its operation, whether it only pretends, its place in the list *)
(* it walks, the master data it read, the suppliers it knows by name, the   *)
(* numbers it knows and the lines it has still to ship.                     *)
NoTask == [step |-> "idle", op |-> "none", dry |-> FALSE, at |-> 1, items |-> {},
           listed |-> {}, names |-> {}, numbers |-> {}, lines |-> {}, line |-> {}]

Tasks ==
    [step: {"idle", "walk", "create", "place", "build", "items", "suppliers", "orders",
            "bills", "lines", "ship"},
     op: {"none", "provision", "stage", "purchases", "shipments"}, dry: BOOLEAN, at: Nat \ {0},
     items: SUBSET Entries, listed: SUBSET Suppliers, names: SUBSET Suppliers,
     numbers: SUBSET BillSet, lines: SUBSET Rows, line: SUBSET Rows]

CadegTypeOK ==
    /\ task \in [Procs -> Tasks]
    /\ purchases \in [BillSet -> [vendor: Suppliers \cup {Blank}, qty: Nat, total: Nat]]
    /\ shipped \in [Rows -> Nat]
    /\ together \subseteq {"master", "shipments"}

CadegInit ==
    /\ task = [p \in Procs |-> NoTask]
    /\ purchases = [bill \in BillSet |-> NoPurchase]
    /\ shipped = [r \in Rows |-> 0]
    /\ together = {}

Doing(p, op, step) == task[p].op \in op /\ task[p].step = step
Move(p, step) == task' = [task EXCEPT ![p] = [task[p] EXCEPT !.step = step]]
Advance(p) == task' = [task EXCEPT ![p] = [task[p] EXCEPT !.step = "walk", !.at = @ + 1]]
End(p) == task' = [task EXCEPT ![p] = NoTask]
Kind(op) == IF op = "shipments" THEN "shipments" ELSE "master"

unchangedImport == <<batch, rows, orders, queue, redelivered, proc, parses, lost>>

StartTask(p, op, dry) ==
    /\ Start(p) /\ task[p] = NoTask
    /\ task' = [task EXCEPT ![p] =
                   [NoTask EXCEPT !.op = op, !.dry = dry,
                       !.step = IF op \in {"provision", "stage"} THEN "walk" ELSE "place"]]
    /\ together' = together \cup
           {k \in {Kind(op)} : \E q \in Procs : task[q] # NoTask /\ Kind(task[q].op) = k}
    /\ UNCHANGED <<unchangedImport, master, crashes, purchases, shipped>>

-----------------------------------------------------------------------------
(* provisionTenant walks a list; what has no unique key is looked for and   *)
(* created when it is not there.                                            *)

Provisioning == {"provision", "stage"}

Upsert(p) ==
    LET e == Provisioned[task[p].at]
    IN  /\ Doing(p, Provisioning, "walk") /\ task[p].at <= Len(Provisioned)
        /\ e \in Upserted
        /\ master' = [master EXCEPT ![e] = IF @ = 0 THEN 1 ELSE @]
        /\ Advance(p)
        /\ UNCHANGED <<unchangedImport, started, crashes, purchases, shipped, together>>

(* Mutant: one that is there is not found. *)
FindSecond(p) ==
    LET e == Provisioned[task[p].at]
    IN  /\ Doing(p, Provisioning, "walk") /\ task[p].at <= Len(Provisioned)
        /\ e \notin Upserted
        /\ IF master[e] > 1 THEN Advance(p) ELSE Move(p, "create")
        /\ UNCHANGED <<unchangedImport, master, started, crashes, purchases, shipped,
                       together>>

Find(p) ==
    LET e == Provisioned[task[p].at]
    IN  /\ Doing(p, Provisioning, "walk") /\ task[p].at <= Len(Provisioned)
        /\ e \notin Upserted
        /\ IF master[e] > 0 THEN Advance(p) ELSE Move(p, "create")
        /\ UNCHANGED <<unchangedImport, master, started, crashes, purchases, shipped,
                       together>>

Create(p) ==
    /\ Doing(p, Provisioning, "create")
    /\ master' = [master EXCEPT ![Provisioned[task[p].at]] = @ + 1]
    /\ Advance(p)
    /\ UNCHANGED <<unchangedImport, started, crashes, purchases, shipped, together>>

(* At the end the sales file may be staged, as a request would stage it.    *)
FinishProvision(p) ==
    /\ Doing(p, Provisioning, "walk") /\ task[p].at > Len(Provisioned)
    /\ End(p)
    /\ IF task[p].op = "stage" /\ batch[Staged] = "NONE"
       THEN /\ batch' = [batch EXCEPT ![Staged] = "UPLOADED"]
            /\ Begin(p, "add", "request", Staged)
       ELSE UNCHANGED <<batch, proc>>
    /\ UNCHANGED <<rows, orders, queue, redelivered, master, started, crashes, parses, lost,
                   purchases, shipped, together>>

-----------------------------------------------------------------------------
(* ensureDefaultWarehouse: the code of a warehouse is unique, so the slower *)
(* of two scripts that create it fails.  A dry run creates it too.          *)

FindPlace(p) ==
    /\ Doing(p, {"purchases", "shipments"}, "place")
    /\ Move(p, IF master[Place] = 0 THEN "build"
               ELSE IF task[p].op = "purchases" THEN "items" ELSE "orders")
    /\ UNCHANGED <<unchangedImport, master, started, crashes, purchases, shipped, together>>

BuildPlace(p) ==
    /\ Doing(p, {"purchases", "shipments"}, "build")
    /\ IF master[Place] = 0
       THEN /\ master' = [master EXCEPT ![Place] = 1]
            /\ Move(p, IF task[p].op = "purchases" THEN "items" ELSE "orders")
       ELSE End(p) /\ UNCHANGED master
    /\ UNCHANGED <<unchangedImport, started, crashes, purchases, shipped, together>>

-----------------------------------------------------------------------------
(* importPurchases.                                                         *)

ReadItems(p) ==
    /\ Doing(p, {"purchases"}, "items")
    /\ task' = [task EXCEPT ![p] = [task[p] EXCEPT !.step = "suppliers", !.items = Known]]
    /\ UNCHANGED <<unchangedImport, master, started, crashes, purchases, shipped, together>>

ReadSuppliers(p) ==
    LET known == Known \cap Suppliers
    IN  /\ Doing(p, {"purchases"}, "suppliers")
        /\ task' = [task EXCEPT ![p] =
                       [task[p] EXCEPT !.step = "orders", !.listed = known, !.names = known]]
        /\ UNCHANGED <<unchangedImport, master, started, crashes, purchases, shipped,
                       together>>

ReadPurchases(p) ==
    /\ Doing(p, {"purchases"}, "orders")
    /\ task' = [task EXCEPT ![p] =
                   [task[p] EXCEPT !.step = "bills",
                             !.numbers = {bill \in BillSet : purchases[bill] # NoPurchase}]]
    /\ UNCHANGED <<unchangedImport, master, started, crashes, purchases, shipped, together>>

Bill(p) == Bills[task[p].at].name
AtBill(p) == Doing(p, {"purchases"}, "bills") /\ task[p].at <= Len(Bills)
Wanted(p) ==
    /\ Bill(p)[1] \in task[p].items
    /\ Bill(p) \notin task[p].numbers
    /\ Derived[task[p].at] # {}

(* The supplier most of the month's sales name, else the first one listed.  *)
Vendors(p) ==
    IF Top[task[p].at] # {} THEN Top[task[p].at] \cap task[p].names ELSE task[p].listed

SkipBill(p) ==
    /\ AtBill(p) /\ ~Wanted(p)
    /\ task' = [task EXCEPT ![p] = [task[p] EXCEPT !.at = @ + 1]]
    /\ UNCHANGED <<unchangedImport, master, started, crashes, purchases, shipped, together>>

(* A supplier that is not known is created, outside the transaction of the  *)
(* order, and by a dry run too.                                             *)
CreateVendor(p) ==
    /\ AtBill(p) /\ Wanted(p) /\ Vendors(p) = {}
    /\ \E v \in IF Top[task[p].at] # {} THEN Top[task[p].at] ELSE {Fallback} :
           /\ master' = [master EXCEPT ![v] = @ + 1]
           /\ task' = [task EXCEPT ![p] =
                          [task[p] EXCEPT !.names = @ \cup {v},
                                    !.listed = IF Top[task[p].at] # {} THEN @ ELSE @ \cup {v}]]
    /\ UNCHANGED <<unchangedImport, started, crashes, purchases, shipped, together>>

(* The order, its line, receipt, lot, value and ledger entry: one           *)
(* transaction.  A number used meanwhile ends the run.                      *)
PostPurchase(p) ==
    LET bill == Bill(p)
        next == [task EXCEPT ![p] = [task[p] EXCEPT !.at = @ + 1, !.numbers = @ \cup {bill}]]
    IN  /\ AtBill(p) /\ Wanted(p)
        /\ \E v \in Vendors(p), q \in Derived[task[p].at] :
               IF task[p].dry THEN task' = next /\ UNCHANGED purchases
               ELSE IF purchases[bill] = NoPurchase
               THEN /\ purchases' = [purchases EXCEPT ![bill] =
                                        [vendor |-> v, qty |-> q,
                                         total |-> Bills[task[p].at].fob]]
                    /\ task' = next
               ELSE End(p) /\ UNCHANGED purchases
        /\ UNCHANGED <<unchangedImport, master, started, crashes, shipped, together>>

FinishPurchases(p) ==
    /\ Doing(p, {"purchases"}, "bills") /\ task[p].at > Len(Bills)
    /\ End(p)
    /\ UNCHANGED <<unchangedImport, master, started, crashes, purchases, shipped, together>>

-----------------------------------------------------------------------------
(* postSalesInventory.  Only imports leave an order POSTED.                 *)

ReadLines(p) ==
    /\ Doing(p, {"shipments"}, "orders")
    /\ task' = [task EXCEPT ![p] =
                   [task[p] EXCEPT !.step = "lines",
                             !.lines = {l.row : l \in UNION {orders[m].lines : m \in Numbers}}]]
    /\ UNCHANGED <<unchangedImport, master, started, crashes, purchases, shipped, together>>

LookForShipment(p) ==
    /\ Doing(p, {"shipments"}, "lines")
    /\ \E r \in task[p].lines :
           task' = [task EXCEPT ![p] =
                       IF shipped[r] > 0 \/ task[p].dry
                       THEN [task[p] EXCEPT !.lines = @ \ {r}]
                       ELSE [task[p] EXCEPT !.lines = @ \ {r}, !.line = {r}, !.step = "ship"]]
    /\ UNCHANGED <<unchangedImport, master, started, crashes, purchases, shipped, together>>

Ship(p) ==
    /\ Doing(p, {"shipments"}, "ship")
    /\ shipped' = [r \in Rows |-> IF r \in task[p].line THEN shipped[r] + 1 ELSE shipped[r]]
    /\ task' = [task EXCEPT ![p] = [task[p] EXCEPT !.line = {}, !.step = "lines"]]
    /\ UNCHANGED <<unchangedImport, master, started, crashes, purchases, together>>

FinishShipments(p) ==
    /\ Doing(p, {"shipments"}, "lines") /\ task[p].lines = {}
    /\ End(p)
    /\ UNCHANGED <<unchangedImport, master, started, crashes, purchases, shipped, together>>

-----------------------------------------------------------------------------
ScriptDies(p) ==
    /\ task[p] # NoTask
    /\ crashes < MaxCrashes
    /\ crashes' = crashes + 1
    /\ End(p)
    /\ UNCHANGED <<unchangedImport, master, started, purchases, shipped, together>>

Carry(p) ==
    \/ Upsert(p) \/ Find(p) \/ Create(p) \/ FinishProvision(p)
    \/ FindPlace(p) \/ BuildPlace(p)
    \/ ReadItems(p) \/ ReadSuppliers(p) \/ ReadPurchases(p)
    \/ SkipBill(p) \/ CreateVendor(p) \/ PostPurchase(p) \/ FinishPurchases(p)
    \/ ReadLines(p) \/ LookForShipment(p) \/ Ship(p) \/ FinishShipments(p)

CadegNext(p) ==
    \/ \E s \in Scripts : StartTask(p, s[1], s[2])
    \/ Carry(p)
    \/ ScriptDies(p)
=============================================================================
