---------------------------- MODULE MCMigration -----------------------------
(* Model checking Migration: one file of four rows, two processes.          *)
EXTENDS Migration, TLC

CONSTANTS b1, p1, p2

MCHeaders == [b \in Batches |-> <<"Unidade NF", "NF", "Cod. Cliente", "Cod. Prod", "Qtd">>]

Row(nf, customer, sku, qty) ==
    [cells |-> "Unidade NF" :> "cx" @@ "NF" :> nf @@ "Cod. Cliente" :> customer
               @@ "Cod. Prod" :> sku @@ "Qtd" :> "given",
     qty |-> qty]

(* Two lines of invoice 1, the second of 1.234,5 and of an item             *)
(* provisioning brings; an invoice of a customer it brings; one that gives  *)
(* the same order number and sells nothing.                                 *)
MCFiles == [b \in Batches |->
    <<Row("1", "c1", "i1", Whole(2)),
      Row("1", "c1", "i2", Text(1234, 5, 1, "comma", TRUE)),
      Row("2", "c2", "i1", Whole(3)),
      Row("2/", "c1", "i1", NoText)>>]

MCDecimalFiles == [b \in Batches |-> <<Row("1", "c1", "i1", Text(12, 5, 1, "comma", FALSE))>>]

MCNumberOf == "1" :> "1" @@ "2" :> "2" @@ "2/" :> "2" @@ "cx" :> "cx" @@ Blank :> Blank

MCScripts == {<<"stage", FALSE>>, <<"purchases", FALSE>>, <<"purchases", TRUE>>,
              <<"shipments", FALSE>>}
MCEntries == {"i1", "i2", "c1", "c2", "s1", "s2", "place"}
MCProvisioned == <<"i2", "c2">>
MCUpserted == {"i1", "i2"}
MCMasterInit == [e \in MCEntries |-> IF e \in {"i1", "c1"} THEN 1 ELSE 0]

Sale(period, qty, cost, supplier) ==
    [sku |-> "i1", period |-> period, qty |-> qty, cost |-> cost, unitCost |-> NoText,
     supplier |-> supplier]
MCSales == <<Sale(1, Whole(2), Whole(10), "s1"), Sale(2, Whole(3), NoText, Blank)>>
MCPurchased == <<[sku |-> "i1", fob |-> 1 :> Whole(15) @@ 2 :> Whole(7)],
                 [sku |-> Blank, fob |-> 1 :> Whole(15) @@ 2 :> NoText]>>
MCSuppliers == {"s1", "s2"}

Symmetry == Permutations(Procs)
=============================================================================
