------------------------------ MODULE Migration ------------------------------
(***************************************************************************)
(* Imports and the scripts of the migration together: provisioning creates *)
(* the items and customers the imports look up and may stage a batch, and  *)
(* the shipments are posted for the orders the imports leave.              *)
(***************************************************************************)
EXTENDS Cadeg

CONSTANT MasterInit    \* records of each entry before the migration

ASSUME MasterAssumption == MasterInit \in [Entries -> {0, 1}]

Init == ImportInit /\ CadegInit /\ master = MasterInit

Next ==
    \E p \in Procs :
        \/ task[p] = NoTask /\ ImportNext(p) /\ UNCHANGED cadegVars
        \/ proc[p] = Idle /\ CadegNext(p)

Spec == Init /\ [][Next]_vars

-----------------------------------------------------------------------------
TypeOK == ImportTypeOK /\ CadegTypeOK

(* However commits, parses and redelivered jobs interleave, an order is     *)
(* posted once for a number, whole, and a row is marked COMMITTED only when *)
(* the order of its number exists (imports.service.ts commitSalesRows).     *)
Register ==
    INSTANCE InvoiceRegister WITH
        RowNumber <- Number,
        invoices <- [m \in Numbers |-> {l.row : l \in orders[m].lines}],
        imported <- {r \in Rows : rows[r[1]][r[2]] = "COMMITTED"}

RegisterKept == Register!Spec

(* A COMMITTED row that sells something is a line of the order of its       *)
(* number, unless two groups share that number (another customer's, another *)
(* file's) or the batch was parsed again.                                   *)
Shared ==
    {r \in Rows : \E s \in Rows :
        Number[s] = Number[r] /\ (s[1] # r[1] \/ Invoice(s) # Invoice(r))}

RowIsLine ==
    \A r \in Rows :
        rows[r[1]][r[2]] = "COMMITTED" /\ Quantity[r] > 0 /\ r \notin Shared /\ parses[r[1]] = 1
            => \E l \in orders[Number[r]].lines : l.row = r

(* A line sells the quantity its row states, where a comma is the decimal   *)
(* mark (docs/csv-import-spec.md).                                          *)
LineKeepsQuantity ==
    \A m \in Numbers : \A l \in orders[m].lines :
        l.qty = Denotes(Files[l.row[1]][l.row[2]].qty)

(* Found before created: nothing of the master data is there twice, and no *)
(* line is shipped twice, however often scripts die and are run again,      *)
(* unless two of them ran at once (parties, companies, policies and ledger  *)
(* entries have no unique key); and only what is a line of a posted order   *)
(* is shipped.                                                              *)
LoadedOnce ==
    /\ "master" \notin together => \A e \in Entries : master[e] <= 1
    /\ \A r \in Rows :
          /\ shipped[r] > 1 => "shipments" \in together
          /\ shipped[r] > 0 => \E l \in orders[Number[r]].lines : l.row = r

(* The rows a commit leaves out.                                            *)
LeftOut(r, known) ==
    \/ Customer[r] = Blank \/ Number[r] = Blank \/ Customer[r] \notin known
    \/ \A s \in Rows :
           /\ s[1] = r[1] /\ Invoice(s) = Invoice(r)
           /\ rows[s[1]][s[2]] \in {"VALID", "COMMITTED"}
           => Quantity[s] <= 0

(* What a load that comes to its end has loaded.  When a commit declares    *)
(* its batch COMMITTED, every valid row of it has been imported, but for    *)
(* those without an address, of a customer unknown to the commit, or of an  *)
(* invoice whose good rows sell nothing; unless the rows were replaced by   *)
(* a second parse.  A COMMITTED batch is never committed again, so what is  *)
(* left out then is left out for good.  And a run of the purchases import   *)
(* leaves an order for every amount it could derive a quantity of, the ones *)
(* an earlier run left behind included.                                     *)
LoadComplete ==
    [][\A p \in Procs :
          /\ \A b \in Batches :
                At(p, "groups", b) /\ proc'[p] = Idle /\ batch'[b] = "COMMITTED"
                /\ batch[b] # "COMMITTED" /\ parses[b] = 1
                    => \A n \in RowsOf(b) :
                           rows[b][n] = "VALID" => LeftOut(<<b, n>>, proc[p].known)
          /\ FinishPurchases(p) /\ ~task[p].dry
                => \A k \in DOMAIN Bills :
                       Bills[k].name[1] \in task[p].items /\ Derived[k] # {}
                           => purchases[Bills[k].name] # NoPurchase]_vars

(* A batch that is not parsed to its end is being parsed, waits in the      *)
(* queue, or is one of those a process left where nothing starts again: it  *)
(* died between the batch and its job, in a script, or for the second time  *)
(* in a worker, or its parse job threw, which has a single attempt.         *)
ParseOwned ==
    \A b \in Batches :
        batch[b] \in {"UPLOADED", "PARSING"} /\ b \notin lost =>
            \/ <<b, "parse">> \in queue
            \/ \E p \in Procs :
                   /\ proc[p].batch = {b}
                   /\ proc[p].step \in {"add", "lookup", "parsing", "delete", "insert",
                                        "settle"}
=============================================================================
