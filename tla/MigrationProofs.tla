--------------------------- MODULE MigrationProofs ---------------------------
(***************************************************************************)
(* Theorems about Migration: types, the register of invoices it keeps,     *)
(* what becomes of the rows of a batch, and what its scripts load, for any *)
(* files, exports, master data, processes, starts and deaths.              *)
(***************************************************************************)
EXTENDS Migration, SummationProofs

-----------------------------------------------------------------------------
(* The constants.                                                           *)

LEMMA AmountType ==
    ASSUME NEW t \in Texts
    PROVE  Amount(t) \in Int
  <1>1. NormalizeDecimal(t) \in Texts
    BY DEF NormalizeDecimal, Texts
  <1>2. ASSUME NEW u \in Texts
        PROVE  ParseBrDecimal(u) \in Int
    <2>1. u.places \in 0 .. 2 /\ u.int \in Int /\ u.frac \in Int
      BY DEF Texts
    <2>2. Power[3 - u.places] \in Int /\ Power[u.places + 1] \in Int
      BY <2>1 DEF Power
    <2>3. u.frac * Power[3 - u.places] \in Int /\ u.int * Power[u.places + 1] \in Int
      BY <2>1, <2>2
    <2>4. QED
      BY <2>1, <2>3 DEF ParseBrDecimal
  <1>3. QED
    BY <1>1, <1>2 DEF Amount

LEMMA RowFacts ==
    ASSUME NEW b \in Batches, NEW n \in RowsOf(b)
    PROVE  /\ <<b, n>> \in Rows /\ n \in RowNos /\ n \in Nat
           /\ Quantity[<<b, n>>] \in Int
           /\ Number[<<b, n>>] \in Numbers \cup {Blank}
  <1>1. n \in Nat
    BY ImportsAssumption DEF RowsOf
  <1>2. n \in RowNos
    BY DEF RowNos
  <1>3. <<b, n>> \in Rows
    BY <1>2 DEF Rows
  <1>4. Quantity[<<b, n>>] \in Int
    <2>1. Files[b][n].qty \in Texts
      BY <1>3, ImportsAssumption
    <2>2. Quantity[<<b, n>>] = Amount(Files[b][n].qty)
      BY <1>3 DEF Quantity
    <2>3. QED
      BY <2>1, <2>2, AmountType
  <1>5. Number[<<b, n>>] \in Numbers \cup {Blank}
    <2>1. Nf[<<b, n>>] \in DOMAIN NumberOf
      BY <1>3, ImportsAssumption
    <2>2. QED
      BY <1>3, <2>1 DEF Number, Numbers
  <1>6. QED
    BY <1>1, <1>2, <1>3, <1>4, <1>5

LEMMA RowsAreNumbered ==
    /\ RowNos \subseteq Nat
    /\ \A b \in Batches : RowsOf(b) \subseteq RowNos
    /\ \A r \in Rows : r[1] \in Batches /\ r[2] \in RowsOf(r[1]) /\ r = <<r[1], r[2]>>
  <1>1. \A b \in Batches : RowsOf(b) \subseteq Nat
    BY RowFacts
  <1>2. QED
    BY <1>1 DEF RowNos, Rows

(* The rows of a group are all of one invoice, and so of one number.        *)
LEMMA GroupFacts ==
    ASSUME NEW b \in Batches, NEW left \in SUBSET RowsOf(b), left # {}
    PROVE  LET group == GroupOf(b, left)
               first == <<b, Min(group)>>
           IN  /\ group # {} /\ group \subseteq left
               /\ Min(group) \in group /\ first \in Rows
               /\ \A n \in group : /\ Invoice(<<b, n>>) = Invoice(first)
                                   /\ Customer[<<b, n>>] = Customer[first]
                                   /\ Number[<<b, n>>] = Number[first]
               /\ \A n \in left : Invoice(<<b, n>>) = Invoice(first) => n \in group
  <1> DEFINE group == GroupOf(b, left)
             first == <<b, Min(group)>>
  <1>1. Min(left) \in left
    <2>1. left \in SUBSET Nat
      BY RowFacts
    <2>2. QED
      BY <2>1, MinIn
  <1>2. group \subseteq left /\ Min(left) \in group
    BY <1>1 DEF GroupOf
  <1>3. Min(group) \in group
    <2>1. group \in SUBSET Nat /\ group # {}
      BY <1>2, RowFacts
    <2>2. QED
      BY <2>1, MinIn
  <1>4. \A n \in group : Invoice(<<b, n>>) = Invoice(<<b, Min(left)>>)
    BY DEF GroupOf
  <1>5. \A n \in group : Invoice(<<b, n>>) = Invoice(first)
    BY <1>3, <1>4
  <1>6. \A n \in left : Invoice(<<b, n>>) = Invoice(first) => n \in group
    BY <1>3, <1>4 DEF GroupOf
  <1>7. \A n \in group : <<b, n>> \in Rows
    BY <1>2, RowFacts
  <1>8. ASSUME NEW n \in group
        PROVE  Customer[<<b, n>>] = Customer[first] /\ Number[<<b, n>>] = Number[first]
    <2>1. Customer[<<b, n>>] = Customer[first] /\ Nf[<<b, n>>] = Nf[first]
      BY <1>5 DEF Invoice
    <2>2. QED
      BY <2>1, <1>3, <1>7 DEF Number
  <1>9. QED
    BY <1>2, <1>3, <1>5, <1>6, <1>7, <1>8

LEMMA BillsAreNumbered ==
    /\ DOMAIN Bills = 1 .. Len(Purchased) * Months
    /\ Len(Bills) \in Nat /\ DOMAIN Bills = 1 .. Len(Bills)
  <1>1. Len(Purchased) * Months \in Nat
    BY CadegAssumption
  <1>2. DOMAIN Bills = 1 .. Len(Purchased) * Months
    BY DEF Bills
  <1>3. Len(Bills) = Len(Purchased) * Months
    BY <1>1, <1>2
  <1>4. QED
    BY <1>1, <1>2, <1>3

LEMMA Divided ==
    ASSUME NEW a \in Nat, NEW m \in Nat, m > 0, NEW n \in Nat, a < n * m
    PROVE  a \div m \in Nat /\ a \div m < n /\ a % m \in 0 .. (m - 1)
  OBVIOUS

(* The amounts of the export are read within it.                            *)
LEMMA BillFob ==
    ASSUME NEW k \in DOMAIN Bills
    PROVE  Bills[k].fob \in Int /\ Bills[k].name \in BillSet
  <1> DEFINE n == Len(Purchased)
             d == (k - 1) \div Months
             m == ((k - 1) % Months) + 1
  <1>1. k \in 1 .. n * Months /\ n \in Nat /\ Months \in Nat \ {0} /\ DOMAIN Purchased = 1 .. n
    BY BillsAreNumbered, CadegAssumption
  <1> HIDE DEF n
  <1>2. k - 1 \in Nat /\ k - 1 < n * Months /\ Months \in Nat /\ Months > 0
    BY <1>1
  <1>3. d \in Nat /\ d < n /\ (k - 1) % Months \in 0 .. (Months - 1)
    BY <1>1, <1>2, Divided
  <1> HIDE DEF d
  <1>4. d + 1 \in DOMAIN Purchased /\ m \in 1 .. Months
    <2> DEFINE e == (k - 1) % Months
    <2> HIDE DEF e
    <2>1. e + 1 \in 1 .. Months
      BY <1>1, <1>3 DEF e
    <2>2. QED
      BY <1>1, <1>3, <2>1 DEF e
  <1>5. Purchased[d + 1].fob[m] \in Texts
    BY <1>4, CadegAssumption
  <1>6. Bills[k].fob = Amount(Purchased[d + 1].fob[m])
    BY DEF Bills, d
  <1>7. QED
    BY <1>5, <1>6, AmountType DEF BillSet

LEMMA SoldFacts ==
    ASSUME NEW k \in DOMAIN Bills
    PROVE  /\ Sold[k] \in SUBSET DOMAIN Sales /\ Sold[k] \in SUBSET Nat
           /\ IsFiniteSet(Sold[k])
           /\ \A j \in Sold[k] : Amount(Sales[j].qty) \in Nat
  <1>1. Sold[k] \subseteq DOMAIN Sales
    BY DEF Sold, SalesOf
  <1>2. DOMAIN Sales \subseteq Nat /\ IsFiniteSet(DOMAIN Sales)
    BY CadegAssumption, FS_Interval
  <1>3. ASSUME NEW j \in Sold[k]
        PROVE  Amount(Sales[j].qty) \in Nat
    <2>1. Amount(Sales[j].qty) > 0
      BY DEF Sold, SalesOf
    <2>2. Amount(Sales[j].qty) \in Int
      BY <1>1, CadegAssumption, AmountType
    <2>3. QED
      BY <2>1, <2>2
  <1>4. QED
    BY <1>1, <1>2, <1>3, FS_Subset

LEMMA Rounded ==
    ASSUME NEW n \in Int, NEW d \in Int, d > 0
    PROVE  Round(n, d) \in Int
  BY DEF Round

LEMMA DerivedFacts ==
    ASSUME NEW k \in DOMAIN Bills
    PROVE  /\ \A q \in Derived[k] : q \in Nat
           /\ Derived[k] # {} => Bills[k].fob \in Nat /\ Bills[k].fob > 0
  <1> DEFINE fob == Bills[k].fob
             qty == TotalQtySold(Sales, Sold[k])
             cost == TotalCostFob(Sales, Sold[k])
  <1>1. fob \in Int
    BY BillFob
  <1>2. qty \in Int
    <2> DEFINE f == [j \in Sold[k] |-> Amount(Sales[j].qty)]
    <2>1. \A j \in Sold[k] : f[j] \in Int
      BY SoldFacts
    <2> HIDE DEF f
    <2>2. SumOver(f, Sold[k]) \in Int
      BY <2>1, SoldFacts, SumType
    <2>3. QED
      BY <2>2 DEF TotalQtySold, f
  <1>3. cost \in Int
    <2> DEFINE f == [j \in Sold[k] |-> LineCostFob(Sales[j])]
    <2>1. ASSUME NEW j \in Sold[k]
          PROVE  LineCostFob(Sales[j]) \in Int
      <3>1. j \in DOMAIN Sales
        BY SoldFacts
      <3>2. /\ Amount(Sales[j].qty) \in Int /\ Amount(Sales[j].cost) \in Int
            /\ Amount(Sales[j].unitCost) \in Int
        BY <3>1, CadegAssumption, AmountType
      <3>3. Times(Amount(Sales[j].qty), Amount(Sales[j].unitCost)) \in Int
        BY <3>2 DEF Times
      <3>4. QED
        BY <3>2, <3>3 DEF LineCostFob
    <2>2. \A j \in Sold[k] : f[j] \in Int
      BY <2>1
    <2> HIDE DEF f
    <2>3. SumOver(f, Sold[k]) \in Int
      BY <2>2, SoldFacts, SumType
    <2>4. QED
      BY <2>3 DEF TotalCostFob, f
  <1> DEFINE quantities == DerivePurchaseQuantity(fob, Sales, Sold[k])
  <1>4. \A q \in quantities : q \in Int
    <2> HIDE DEF fob, qty, cost
    <2>1. fob * qty * 100 \in Int /\ qty * 100 \in Int
      BY <1>1, <1>2
    <2>2. cost > 0 => Round(fob * qty * 100, cost) \in Int
      BY <2>1, <1>3, Rounded
    <2>3. quantities = IF cost > 0 THEN {Round(fob * qty * 100, cost)}
                       ELSE IF qty > 0 THEN {qty * 100} ELSE {}
      BY DEF DerivePurchaseQuantity, qty, cost
    <2>4. QED
      BY <2>1, <2>2, <2>3
  <1>5. Derived[k] = {q \in quantities : fob > 0 /\ q > 0}
    BY DEF Derived
  <1> HIDE DEF quantities, fob
  <1>6. QED
    BY <1>1, <1>4, <1>5 DEF fob

LEMMA TopFacts ==
    ASSUME NEW k \in DOMAIN Bills
    PROVE  Top[k] \subseteq Suppliers \ {Fallback}
  <1> DEFINE S == Sold[k]
             named == {j \in S : Sales[j].supplier # Blank}
             count(j) == Cardinality({i \in S : Sales[i].supplier = Sales[j].supplier})
             best == {j \in named : \A i \in named : count(i) <= count(j)}
  <1>1. Top[k] = IF best = {} THEN {} ELSE {Sales[Min(best)].supplier}
    BY DEF Top, TopSupplier
  <1>2. best \in SUBSET Nat
    BY SoldFacts
  <1>3. best # {} => Min(best) \in best
    BY <1>2, MinIn
  <1>4. \A j \in best : Sales[j].supplier \in Suppliers \ {Fallback}
    <2>1. \A j \in best : j \in DOMAIN Sales /\ Sales[j].supplier # Blank
      BY SoldFacts
    <2>2. QED
      BY <2>1, CadegAssumption
  <1> HIDE DEF best
  <1>5. QED
    BY <1>1, <1>3, <1>4

-----------------------------------------------------------------------------
(* Types.  A process has one batch, and commits rows of that batch.         *)

RowsWithin ==
    \A p \in Procs, b \in Batches : proc[p].batch = {b} => proc[p].rows \subseteq RowsOf(b)

Typing == TypeOK /\ RowsWithin

Housed(v) ==
    /\ v \in Processes
    /\ v.step # "idle" => \E b \in Batches : v.batch = {b}
    /\ \A b \in Batches : v.batch = {b} => v.rows \subseteq RowsOf(b)

ProcsTyped == DOMAIN proc = Procs /\ proc = [p \in Procs |-> proc[p]] /\ \A p \in Procs : Housed(proc[p])

StatusTyped ==
    /\ batch \in [Batches -> {"NONE", "UPLOADED", "PARSING", "READY_TO_COMMIT", "FAILED",
                              "COMMITTED"}]
    /\ rows \in [Batches -> [RowNos -> {"NONE", "VALID", "ERROR", "COMMITTED"}]]

OrdersTyped ==
    /\ DOMAIN orders = Numbers
    /\ \A m \in Numbers :
           /\ DOMAIN orders[m] = {"customer", "lines"}
           /\ orders[m].lines \subseteq [row: Rows, qty: Int]

RestTyped ==
    /\ queue \subseteq Batches \X {"parse", "validate"}
    /\ redelivered \subseteq Batches
    /\ master \in [Entries -> Nat]
    /\ started \in 0 .. MaxStarts /\ crashes \in 0 .. MaxCrashes
    /\ parses \in [Batches -> 0 .. 2] /\ lost \subseteq Batches

LEMMA TypesSplit ==
    ImportTypeOK /\ RowsWithin <=> ProcsTyped /\ StatusTyped /\ OrdersTyped /\ RestTyped
  <1>1. proc \in [Procs -> Processes] <=>
            /\ DOMAIN proc = Procs /\ proc = [p \in Procs |-> proc[p]]
            /\ \A p \in Procs : proc[p] \in Processes
    OBVIOUS
  <1>2. QED
    BY <1>1 DEF ImportTypeOK, RowsWithin, ProcsTyped, Housed, StatusTyped, OrdersTyped, RestTyped

LEMMA SetProc ==
    ASSUME ProcsTyped, NEW p \in Procs, NEW v, Housed(v), proc' = [proc EXCEPT ![p] = v]
    PROVE  ProcsTyped'
  BY DEF ProcsTyped

LEMMA IdleHoused == Housed(Idle)
  BY DEF Housed, Idle, Processes

LEMMA BegunHoused ==
    ASSUME NEW b \in Batches,
           NEW step \in {"add", "lookup", "fresh", "rows", "ack"},
           NEW flow \in {"none", "request", "job", "script", "stage"}
    PROVE  Housed([Idle EXCEPT !.step = step, !.flow = flow, !.batch = {b}])
  BY DEF Housed, Idle, Processes

LEMMA StopTyped ==
    ASSUME ProcsTyped, NEW p \in Procs, Stop(p)
    PROVE  ProcsTyped'
  BY SetProc, IdleHoused DEF Stop

LEMMA BeginTyped ==
    ASSUME ProcsTyped, NEW p \in Procs, NEW b \in Batches,
           NEW step \in {"add", "lookup", "fresh", "rows", "ack"},
           NEW flow \in {"none", "request", "job", "script", "stage"}, Begin(p, step, flow, b)
    PROVE  ProcsTyped'
  BY SetProc, BegunHoused DEF Begin

LEMMA GoTyped ==
    ASSUME ProcsTyped, NEW p \in Procs, NEW step \in {"check", "rows", "delete"},
           proc[p].step # "idle", Go(p, step)
    PROVE  ProcsTyped'
  <1>1. Housed([proc[p] EXCEPT !.step = step])
    BY DEF ProcsTyped, Housed, Processes
  <1>2. QED
    BY <1>1, SetProc DEF Go

LEMMA FlowKnown ==
    ASSUME ProcsTyped, NEW p \in Procs
    PROVE  proc[p].flow \in {"none", "request", "job", "script", "stage"}
  BY DEF ProcsTyped, Housed, Processes

LEMMA ImportTyped ==
    ASSUME ProcsTyped, StatusTyped, OrdersTyped, RestTyped, NEW p \in Procs, ImportNext(p)
    PROVE  ProcsTyped' /\ StatusTyped' /\ OrdersTyped' /\ RestTyped'
  <1> USE DEF StatusTyped, OrdersTyped, RestTyped
  <1>1. ASSUME NEW b \in Batches, CreateBatch(p, b)
        PROVE  ProcsTyped' /\ StatusTyped' /\ OrdersTyped' /\ RestTyped'
    <2>1. ProcsTyped'
      BY <1>1, BeginTyped DEF CreateBatch
    <2>2. StatusTyped' /\ OrdersTyped' /\ RestTyped'
      BY <1>1, ImportsAssumption DEF CreateBatch, Start
    <2>3. QED
      BY <2>1, <2>2
  <1>2. ASSUME NEW b \in Batches, CommitBatch(p, b)
        PROVE  ProcsTyped' /\ StatusTyped' /\ OrdersTyped' /\ RestTyped'
    <2>1. ProcsTyped'
      BY <1>2, BeginTyped DEF CommitBatch
    <2>2. StatusTyped' /\ OrdersTyped' /\ RestTyped'
      BY <1>2, ImportsAssumption DEF CommitBatch, Start
    <2>3. QED
      BY <2>1, <2>2
  <1>3. ASSUME NEW b \in Batches, TakeParse(p, b)
        PROVE  ProcsTyped' /\ StatusTyped' /\ OrdersTyped' /\ RestTyped'
    <2>1. ProcsTyped'
      BY <1>3, BeginTyped DEF TakeParse
    <2>2. StatusTyped' /\ OrdersTyped' /\ RestTyped'
      BY <1>3 DEF TakeParse
    <2>3. QED
      BY <2>1, <2>2
  <1>4. ASSUME NEW b \in Batches, NEW flow \in {"script", "stage"}, Ingest(p, b, flow)
        PROVE  ProcsTyped' /\ StatusTyped' /\ OrdersTyped' /\ RestTyped'
    <2>1. ProcsTyped'
      <3>1. proc' = proc => ProcsTyped'
        BY DEF ProcsTyped
      <3>2. QED
        BY <1>4, <3>1, BeginTyped DEF Ingest
    <2>2. StatusTyped' /\ OrdersTyped' /\ RestTyped'
      <3>1. /\ UNCHANGED rows
            /\ UNCHANGED batch \/ batch' = [batch EXCEPT ![b] = "UPLOADED"]
        BY <1>4 DEF Ingest
      <3>2. StatusTyped'
        BY <3>1 DEF StatusTyped
      <3>3. UNCHANGED <<orders, queue, redelivered, master, crashes, parses, lost>>
        BY <1>4 DEF Ingest
      <3>4. OrdersTyped'
        BY <3>3 DEF OrdersTyped
      <3>5. started' \in 0 .. MaxStarts
        BY <1>4, ImportsAssumption DEF Ingest, Start, RestTyped
      <3>6. RestTyped'
        BY <3>3, <3>5 DEF RestTyped
      <3>7. QED
        BY <3>2, <3>4, <3>6
    <2>3. QED
      BY <2>1, <2>2
  <1>5. ASSUME NEW b \in Batches, ValidateBatch(p, b)
        PROVE  ProcsTyped' /\ StatusTyped' /\ OrdersTyped' /\ RestTyped'
    <2>1. ProcsTyped'
      BY <1>5 DEF ValidateBatch, ProcsTyped
    <2>2. StatusTyped' /\ OrdersTyped' /\ RestTyped'
      BY <1>5, ImportsAssumption DEF ValidateBatch, Start
    <2>3. QED
      BY <2>1, <2>2
  <1>6. ASSUME NEW b \in Batches, TakeValidate(p, b)
        PROVE  ProcsTyped' /\ StatusTyped' /\ OrdersTyped' /\ RestTyped'
    <2>1. ProcsTyped'
      BY <1>6 DEF TakeValidate, ProcsTyped
    <2>2. StatusTyped' /\ OrdersTyped' /\ RestTyped'
      BY <1>6 DEF TakeValidate
    <2>3. QED
      BY <2>1, <2>2
  <1>7. ASSUME NEW b \in Batches, QueueParse(p, b)
        PROVE  ProcsTyped' /\ StatusTyped' /\ OrdersTyped' /\ RestTyped'
    <2>1. ProcsTyped'
      BY <1>7, StopTyped DEF QueueParse
    <2>2. StatusTyped' /\ OrdersTyped' /\ RestTyped'
      BY <1>7 DEF QueueParse
    <2>3. QED
      BY <2>1, <2>2
  <1>8. ASSUME NEW b \in Batches, Acknowledge(p, b)
        PROVE  ProcsTyped' /\ StatusTyped' /\ OrdersTyped' /\ RestTyped'
    <2>1. ProcsTyped'
      BY <1>8, StopTyped DEF Acknowledge
    <2>2. StatusTyped' /\ OrdersTyped' /\ RestTyped'
      BY <1>8 DEF Acknowledge
    <2>3. QED
      BY <2>1, <2>2
  <1>9. ASSUME NEW b \in Batches, FinishCommit(p, b)
        PROVE  ProcsTyped' /\ StatusTyped' /\ OrdersTyped' /\ RestTyped'
    <2>1. ProcsTyped'
      BY <1>9, StopTyped DEF FinishCommit
    <2>2. StatusTyped' /\ OrdersTyped' /\ RestTyped'
      BY <1>9 DEF FinishCommit
    <2>3. QED
      BY <2>1, <2>2
  <1>10. ASSUME NEW b \in Batches, Reread(p, b)
        PROVE  ProcsTyped' /\ StatusTyped' /\ OrdersTyped' /\ RestTyped'
    <2>1. ProcsTyped'
      <3>1. proc[p].step # "idle"
        BY <1>10 DEF Reread, At
      <3>2. QED
        BY <1>10, <3>1, StopTyped, GoTyped DEF Reread
    <2>2. StatusTyped' /\ OrdersTyped' /\ RestTyped'
      BY <1>10 DEF Reread
    <2>3. QED
      BY <2>1, <2>2
  <1>11. ASSUME NEW b \in Batches, MarkParsing(p, b)
        PROVE  ProcsTyped' /\ StatusTyped' /\ OrdersTyped' /\ RestTyped'
    <2>1. ProcsTyped'
      <3>1. proc[p].step # "idle"
        BY <1>11 DEF MarkParsing, At
      <3>2. QED
        BY <1>11, <3>1, GoTyped DEF MarkParsing
    <2>2. StatusTyped' /\ OrdersTyped' /\ RestTyped'
      BY <1>11 DEF MarkParsing
    <2>3. QED
      BY <2>1, <2>2
  <1>12. ASSUME NEW b \in Batches, Settle(p, b)
        PROVE  ProcsTyped' /\ StatusTyped' /\ OrdersTyped' /\ RestTyped'
    <2>1. ProcsTyped'
      BY <1>12, StopTyped, BeginTyped, FlowKnown DEF Settle
    <2>2. StatusTyped' /\ OrdersTyped' /\ RestTyped'
      BY <1>12 DEF Settle
    <2>3. QED
      BY <2>1, <2>2
  <1>13. ASSUME NEW b \in Batches, Lookup(p, b)
        PROVE  ProcsTyped' /\ StatusTyped' /\ OrdersTyped' /\ RestTyped'
    <2>1. ProcsTyped'
      <3> DEFINE v == [proc[p] EXCEPT !.step = "parsing", !.known = Known]
      <3>1. Housed(proc[p]) /\ proc[p].step # "idle" /\ proc[p].batch = {b}
        BY <1>13 DEF Lookup, At, ProcsTyped
      <3>2. Housed(v)
        BY <3>1 DEF Housed, Processes, Known
      <3>3. proc' = [proc EXCEPT ![p] = v]
        BY <1>13 DEF Lookup
      <3>4. QED
        BY <3>2, <3>3, SetProc
    <2>2. StatusTyped' /\ OrdersTyped' /\ RestTyped'
      BY <1>13 DEF Lookup
    <2>3. QED
      BY <2>1, <2>2
  <1>14. ASSUME NEW b \in Batches, ReadCustomers(p, b)
        PROVE  ProcsTyped' /\ StatusTyped' /\ OrdersTyped' /\ RestTyped'
    <2>1. ProcsTyped'
      <3> DEFINE v == [proc[p] EXCEPT !.step = "numbers", !.known = Known]
      <3>1. Housed(proc[p]) /\ proc[p].step # "idle" /\ proc[p].batch = {b}
        BY <1>14 DEF ReadCustomers, At, ProcsTyped
      <3>2. Housed(v)
        BY <3>1 DEF Housed, Processes, Known
      <3>3. proc' = [proc EXCEPT ![p] = v]
        BY <1>14 DEF ReadCustomers
      <3>4. QED
        BY <3>2, <3>3, SetProc
    <2>2. StatusTyped' /\ OrdersTyped' /\ RestTyped'
      BY <1>14 DEF ReadCustomers
    <2>3. QED
      BY <2>1, <2>2
  <1>15. ASSUME NEW b \in Batches, ReadNumbers(p, b)
        PROVE  ProcsTyped' /\ StatusTyped' /\ OrdersTyped' /\ RestTyped'
    <2>1. ProcsTyped'
      <3> DEFINE v == [proc[p] EXCEPT !.step = "groups",
                               !.numbers = {m \in Numbers : orders[m] # NoOrder}]
      <3>1. Housed(proc[p]) /\ proc[p].step # "idle" /\ proc[p].batch = {b}
        BY <1>15 DEF ReadNumbers, At, ProcsTyped
      <3>2. Housed(v)
        BY <3>1 DEF Housed, Processes
      <3>3. proc' = [proc EXCEPT ![p] = v]
        BY <1>15 DEF ReadNumbers
      <3>4. QED
        BY <3>2, <3>3, SetProc
    <2>2. StatusTyped' /\ OrdersTyped' /\ RestTyped'
      BY <1>15 DEF ReadNumbers
    <2>3. QED
      BY <2>1, <2>2
  <1>16. ASSUME NEW b \in Batches, ReadRows(p, b)
        PROVE  ProcsTyped' /\ StatusTyped' /\ OrdersTyped' /\ RestTyped'
    <2>1. ProcsTyped'
      <3> DEFINE v == [proc[p] EXCEPT !.step = "customers",
                               !.rows = {n \in RowsOf(b) : rows[b][n] = "VALID"},
                               !.alive = {n \in RowsOf(b) : rows[b][n] = "VALID"}]
      <3>1. Housed(proc[p]) /\ proc[p].step # "idle" /\ proc[p].batch = {b}
        BY <1>16 DEF ReadRows, At, ProcsTyped
      <3>2. Housed(v)
        BY <3>1, RowsAreNumbered DEF Housed, Processes
      <3>3. proc' = [proc EXCEPT ![p] = v]
        BY <1>16 DEF ReadRows
      <3>4. QED
        BY <3>2, <3>3, SetProc
    <2>2. StatusTyped' /\ OrdersTyped' /\ RestTyped'
      BY <1>16 DEF ReadRows
    <2>3. QED
      BY <2>1, <2>2
  <1>17. ASSUME NEW b \in Batches, InsertRows(p, b)
        PROVE  ProcsTyped' /\ StatusTyped' /\ OrdersTyped' /\ RestTyped'
    <2>1. ProcsTyped'
      <3> DEFINE v == IF proc[p].next + Chunk > Len(Files[b])
                      THEN [proc[p] EXCEPT !.step = "settle"]
                      ELSE [proc[p] EXCEPT !.next = @ + Chunk]
      <3>1. Housed(proc[p]) /\ proc[p].step # "idle" /\ proc[p].batch = {b}
        BY <1>17 DEF InsertRows, At, ProcsTyped
      <3>2. Housed(v)
        <4>1. proc[p].next + Chunk \in Nat
          BY <3>1, ImportsAssumption DEF Housed, Processes
        <4>2. QED
          BY <3>1, <4>1 DEF Housed, Processes
      <3>3. proc' = [proc EXCEPT ![p] = v]
        BY <1>17 DEF InsertRows
      <3>4. QED
        BY <3>2, <3>3, SetProc
    <2>2. StatusTyped' /\ OrdersTyped' /\ RestTyped'
      BY <1>17 DEF InsertRows
    <2>3. QED
      BY <2>1, <2>2
  <1>18. ASSUME NEW b \in Batches, DeleteRows(p, b)
        PROVE  ProcsTyped' /\ StatusTyped' /\ OrdersTyped' /\ RestTyped'
    <2>1. ProcsTyped'
      <3> DEFINE w(q) == IF q = p THEN [proc[q] EXCEPT !.step = "insert", !.next = 1]
                         ELSE [proc[q] EXCEPT !.alive =
                                  IF proc[q].batch = {b} THEN {} ELSE proc[q].alive]
      <3>1. /\ \A q \in Procs : Housed(proc[q])
            /\ proc[p].step # "idle" /\ proc[p].batch = {b}
        BY <1>18 DEF DeleteRows, At, ProcsTyped
      <3>2. ASSUME NEW q \in Procs
            PROVE  Housed(w(q))
        <4>1. CASE q = p
          <5> DEFINE v == [proc[p] EXCEPT !.step = "insert", !.next = 1]
          <5>0. Housed(proc[p]) /\ proc[p].step # "idle" /\ proc[p].batch = {b}
            BY <3>1
          <5>1. Housed(v)
            BY <5>0 DEF Housed, Processes
          <5>2. w(q) = v
            BY <4>1
          <5>3. QED
            BY <5>1, <5>2
        <4>2. CASE q # p
          <5> DEFINE a == IF proc[q].batch = {b} THEN {} ELSE proc[q].alive
                     v == [proc[q] EXCEPT !.alive = a]
          <5>0. Housed(proc[q])
            BY <3>1
          <5>1. a = {} \/ a = proc[q].alive
            OBVIOUS
          <5>2. w(q) = v
            BY <4>2
          <5> HIDE DEF a
          <5>3. Housed(v)
            BY <5>0, <5>1 DEF Housed, Processes
          <5>4. QED
            BY <5>2, <5>3
        <4>3. QED
          BY <4>1, <4>2
      <3>3. proc' = [q \in Procs |-> w(q)]
        BY <1>18 DEF DeleteRows
      <3> HIDE DEF w
      <3>4. QED
        BY <3>2, <3>3 DEF ProcsTyped
    <2>2. StatusTyped' /\ OrdersTyped' /\ RestTyped'
      <3>1. NoRows \in [RowNos -> {"NONE", "VALID", "ERROR", "COMMITTED"}]
        BY DEF NoRows
      <3>2. parses' \in [Batches -> 0 .. 2]
        <4> DEFINE n == IF parses[b] = 0 THEN 1 ELSE 2
        <4>1. parses' = [parses EXCEPT ![b] = n]
          BY <1>18, Zenon DEF DeleteRows
        <4>a. n \in 0 .. 2
          OBVIOUS
        <4> HIDE DEF n
        <4>2. QED
          BY <4>1, <4>a
      <3>3. rows' \in [Batches -> [RowNos -> {"NONE", "VALID", "ERROR", "COMMITTED"}]]
        BY <1>18, <3>1 DEF DeleteRows
      <3>4. QED
        BY <1>18, <3>2, <3>3 DEF DeleteRows
    <2>3. QED
      BY <2>1, <2>2
  <1>19. ASSUME NEW b \in Batches, SkipGroup(p, b)
        PROVE  ProcsTyped' /\ StatusTyped' /\ OrdersTyped' /\ RestTyped'
    <2>1. ProcsTyped'
      <3> DEFINE v == [proc[p] EXCEPT !.rows = @ \ GroupOf(b, proc[p].rows)]
      <3>1. Housed(proc[p]) /\ proc[p].step # "idle" /\ proc[p].batch = {b}
        BY <1>19 DEF SkipGroup, At, ProcsTyped
      <3>2. Housed(v)
        BY <3>1 DEF Housed, Processes
      <3>3. proc' = [proc EXCEPT ![p] = v]
        BY <1>19 DEF SkipGroup
      <3>4. QED
        BY <3>2, <3>3, SetProc
    <2>2. StatusTyped' /\ OrdersTyped' /\ RestTyped'
      BY <1>19 DEF SkipGroup
    <2>3. QED
      BY <2>1, <2>2
  <1>20. ASSUME NEW b \in Batches, MarkGroup(p, b)
        PROVE  ProcsTyped' /\ StatusTyped' /\ OrdersTyped' /\ RestTyped'
    <2>1. ProcsTyped'
      <3> DEFINE v == [proc[p] EXCEPT !.rows = @ \ GroupOf(b, proc[p].rows)]
      <3>1. Housed(proc[p]) /\ proc[p].step # "idle" /\ proc[p].batch = {b}
        BY <1>20 DEF MarkGroup, At, ProcsTyped
      <3>2. Housed(v)
        BY <3>1 DEF Housed, Processes
      <3>3. proc' = [proc EXCEPT ![p] = v]
        BY <1>20 DEF MarkGroup
      <3>4. QED
        BY <3>2, <3>3, SetProc
    <2>2. StatusTyped' /\ OrdersTyped' /\ RestTyped'
      BY <1>20 DEF MarkGroup, Mark
    <2>3. QED
      BY <2>1, <2>2
  <1>21. ASSUME NEW b \in Batches, PostGroup(p, b)
        PROVE  ProcsTyped' /\ StatusTyped' /\ OrdersTyped' /\ RestTyped'
    <2>1. ProcsTyped'
      <3> DEFINE number == Number[<<b, Min(GroupOf(b, proc[p].rows))>>]
                 v == [proc[p] EXCEPT !.rows = @ \ GroupOf(b, proc[p].rows),
                                      !.numbers = @ \cup {number}]
      <3>1. /\ Housed(proc[p]) /\ proc[p].step # "idle" /\ proc[p].batch = {b}
            /\ proc[p].rows # {} /\ number # Blank
        BY <1>21 DEF PostGroup, At, ProcsTyped, Addressed
      <3>2. number \in Numbers
        <4>1. proc[p].rows \in SUBSET RowsOf(b)
          BY <3>1 DEF Housed
        <4>2. Min(GroupOf(b, proc[p].rows)) \in RowsOf(b)
          BY <3>1, <4>1, GroupFacts
        <4>3. QED
          BY <3>1, <4>2, RowFacts
      <3> HIDE DEF number
      <3>3. Housed(v)
        BY <3>1, <3>2 DEF Housed, Processes
      <3>4. proc' = [proc EXCEPT ![p] = v] \/ Stop(p)
        BY <1>21 DEF PostGroup, number
      <3>5. QED
        BY <3>3, <3>4, SetProc, StopTyped
    <2>2. StatusTyped' /\ OrdersTyped' /\ RestTyped'
      <3> DEFINE group == GroupOf(b, proc[p].rows)
                 number == Number[<<b, Min(group)>>]
                 lines == {[row |-> <<b, n>>, qty |-> Quantity[<<b, n>>]] :
                              n \in Billable(b, group)}
      <3>1. lines \subseteq [row: Rows, qty: Int]
        <4>1. proc[p].batch = {b} /\ proc[p].rows # {}
          BY <1>21 DEF PostGroup, At
        <4>2. proc[p].rows \in SUBSET RowsOf(b)
          BY <4>1 DEF ProcsTyped, Housed
        <4>3. Billable(b, group) \subseteq RowsOf(b)
          <5>1. group \subseteq proc[p].rows
            BY <4>1, <4>2, GroupFacts
          <5>2. Billable(b, group) \subseteq group
            BY DEF Billable
          <5>3. QED
            BY <4>2, <5>1, <5>2
        <4>4. \A n \in Billable(b, group) :
                  <<b, n>> \in Rows /\ Quantity[<<b, n>>] \in Int
          BY <4>3, RowFacts
        <4>5. ASSUME NEW l \in lines
              PROVE  l \in [row: Rows, qty: Int]
          <5>1. PICK n \in Billable(b, group) : l = [row |-> <<b, n>>, qty |-> Quantity[<<b, n>>]]
            OBVIOUS
          <5>2. QED
            BY <5>1, <4>4
        <4>6. QED
          BY <4>5
      <3>2. OrdersTyped'
        <4> DEFINE o == [customer |-> Customer[<<b, Min(group)>>], lines |-> lines]
        <4>1. orders' = [orders EXCEPT ![number] = o] \/ UNCHANGED orders
          BY <1>21 DEF PostGroup
        <4>2. DOMAIN o = {"customer", "lines"} /\ o.lines = lines
          OBVIOUS
        <4> HIDE DEF o, lines, number
        <4>3. QED
          BY <3>1, <4>1, <4>2
      <3>3. StatusTyped'
        <4>1. Mark(b, group \cap proc[p].alive) \/ UNCHANGED rows
          BY <1>21 DEF PostGroup
        <4>2. UNCHANGED batch
          BY <1>21 DEF PostGroup
        <4>3. QED
          BY <4>1, <4>2 DEF Mark
      <3>4. RestTyped'
        BY <1>21 DEF PostGroup
      <3>5. QED
        BY <3>2, <3>3, <3>4
    <2>3. QED
      BY <2>1, <2>2
  <1>22. ASSUME Crash(p) \/ ParseThrows(p)
        PROVE  ProcsTyped' /\ StatusTyped' /\ OrdersTyped' /\ RestTyped'
    <2>1. ProcsTyped'
      BY <1>22, StopTyped DEF Crash, ParseThrows
    <2>2. proc[p].batch \subseteq Batches
      BY DEF ProcsTyped, Housed, Processes
    <2>3. StatusTyped' /\ OrdersTyped' /\ RestTyped'
      BY <1>22, <2>2, ImportsAssumption DEF Crash, ParseThrows
    <2>4. QED
      BY <2>1, <2>3
  <1> QED
    BY <1>1, <1>2, <1>3, <1>4, <1>5, <1>6, <1>7, <1>8, <1>9, <1>10, <1>11, <1>12, <1>13,
       <1>14, <1>15, <1>16, <1>17, <1>18, <1>19, <1>20, <1>21, <1>22 DEF ImportNext,
       Proceed

(* What a script does leaves all of an import's state but the master data   *)
(* alone; provisioning may end with a batch of its own.                     *)
LEMMA OneMore ==
    ASSUME NEW S, NEW f \in [S -> Nat], NEW x
    PROVE  [f EXCEPT ![x] = @ + 1] \in [S -> Nat]
  <1>1. CASE x \in S
    BY <1>1
  <1>2. CASE x \notin S
    <2>1. [f EXCEPT ![x] = @ + 1] = f
      BY <1>2
    <2>2. QED
      BY <2>1
  <1>3. QED
    BY <1>1, <1>2

LEMMA SetTask ==
    ASSUME CadegTypeOK, NEW p \in Procs, NEW v \in Tasks, task' = [task EXCEPT ![p] = v]
    PROVE  task' \in [Procs -> Tasks]
  BY DEF CadegTypeOK

LEMMA TaskOf ==
    ASSUME CadegTypeOK, NEW p \in Procs
    PROVE  /\ task[p] \in Tasks
           /\ task[p].at \in Nat \ {0} /\ task[p].at + 1 \in Nat \ {0}
  <1>1. task[p] \in Tasks
    BY DEF CadegTypeOK
  <1>2. task[p].at \in Nat \ {0}
    BY <1>1 DEF Tasks
  <1>3. QED
    BY <1>1, <1>2

LEMMA BillAt ==
    ASSUME CadegTypeOK, NEW p \in Procs, AtBill(p)
    PROVE  task[p].at \in DOMAIN Bills /\ Bill(p) \in BillSet
  <1>1. task[p].at \in Nat \ {0} /\ task[p].at <= Len(Bills)
    BY TaskOf DEF AtBill
  <1>2. task[p].at \in 1 .. Len(Bills)
    BY <1>1, BillsAreNumbered
  <1>3. task[p].at \in DOMAIN Bills
    BY <1>2, BillsAreNumbered
  <1>4. QED
    BY <1>3, BillFob DEF Bill

LEMMA NoTaskTyped == NoTask \in Tasks
  BY DEF NoTask, Tasks

LEMMA EndTyped ==
    ASSUME CadegTypeOK, NEW p \in Procs, End(p)
    PROVE  task' \in [Procs -> Tasks]
  BY SetTask, NoTaskTyped DEF End

LEMMA MoveTyped ==
    ASSUME CadegTypeOK, NEW p \in Procs,
           NEW step \in {"create", "build", "items", "orders"}, Move(p, step)
    PROVE  task' \in [Procs -> Tasks]
  <1>1. [task[p] EXCEPT !.step = step] \in Tasks
    BY TaskOf DEF Tasks
  <1>2. QED
    BY <1>1, SetTask DEF Move

LEMMA AdvanceTyped ==
    ASSUME CadegTypeOK, NEW p \in Procs, Advance(p)
    PROVE  task' \in [Procs -> Tasks]
  <1> DEFINE k == task[p].at + 1
  <1>a. task[p] \in Tasks /\ k \in Nat \ {0}
    BY TaskOf
  <1> HIDE DEF k
  <1>1. [task[p] EXCEPT !.step = "walk", !.at = k] \in Tasks
    BY <1>a DEF Tasks
  <1>2. QED
    BY <1>1, SetTask DEF Advance, k

LEMMA StatusKept ==
    ASSUME ProcsTyped, StatusTyped, OrdersTyped, UNCHANGED unchangedImport
    PROVE  ProcsTyped' /\ StatusTyped' /\ OrdersTyped'
  BY DEF ProcsTyped, StatusTyped, OrdersTyped, unchangedImport

LEMMA CadegTyped ==
    ASSUME ProcsTyped, StatusTyped, OrdersTyped, RestTyped, CadegTypeOK,
           NEW p \in Procs, CadegNext(p)
    PROVE  ProcsTyped' /\ StatusTyped' /\ OrdersTyped' /\ RestTyped' /\ CadegTypeOK'
  <1> DEFINE Frame == UNCHANGED unchangedImport
             Data == RestTyped' /\ purchases' \in [BillSet -> [vendor: Suppliers \cup {Blank},
                                                              qty: Nat, total: Nat]]
                     /\ shipped' \in [Rows -> Nat] /\ together' \subseteq {"master", "shipments"}
             Done == task' \in [Procs -> Tasks]
  <1> USE DEF RestTyped, unchangedImport
  <1>1. ASSUME NEW s \in Scripts, StartTask(p, s[1], s[2])
        PROVE  Frame /\ Data /\ Done
    <2>1. Done
      <3> DEFINE step == IF s[1] \in {"provision", "stage"} THEN "walk" ELSE "place"
                 v == [NoTask EXCEPT !.op = s[1], !.dry = s[2], !.step = step]
      <3>1. /\ s[1] \in {"provision", "stage", "purchases", "shipments"} /\ s[2] \in BOOLEAN
            /\ step \in {"walk", "place"}
        BY CadegAssumption
      <3>3. task' = [task EXCEPT ![p] = v]
        BY <1>1 DEF StartTask
      <3> HIDE DEF step
      <3> DEFINE r1 == [NoTask EXCEPT !.op = s[1]]
                 r2 == [r1 EXCEPT !.dry = s[2]]
      <3>4. r1 \in Tasks
        BY <3>1, NoTaskTyped DEF Tasks
      <3>5. r2 \in Tasks
        <4> HIDE DEF r1
        <4>1. QED
          BY <3>1, <3>4 DEF Tasks
      <3>6. [r2 EXCEPT !.step = step] \in Tasks
        <4> HIDE DEF r2
        <4>1. QED
          BY <3>1, <3>5 DEF Tasks
      <3>2. v \in Tasks
        BY <3>6
      <3>7. QED
        BY <3>2, <3>3, SetTask
    <2>2. Frame /\ Data
      BY <1>1, ImportsAssumption DEF StartTask, Start, CadegTypeOK, Kind
    <2>3. QED
      BY <2>1, <2>2
  <1>2. ASSUME Upsert(p)
        PROVE  Frame /\ Data /\ Done
    <2>1. Done
      BY <1>2, AdvanceTyped DEF Upsert
    <2>2. Frame /\ Data
      BY <1>2 DEF Upsert, CadegTypeOK
    <2>3. QED
      BY <2>1, <2>2
  <1>3. ASSUME Find(p)
        PROVE  Frame /\ Data /\ Done
    <2>1. Done
      BY <1>3, AdvanceTyped, MoveTyped DEF Find
    <2>2. Frame /\ Data
      BY <1>3 DEF Find, CadegTypeOK
    <2>3. QED
      BY <2>1, <2>2
  <1>4. ASSUME Create(p)
        PROVE  Frame /\ Data /\ Done
    <2>1. Done
      BY <1>4, AdvanceTyped DEF Create
    <2>2. Frame /\ Data
      <3>1. master' \in [Entries -> Nat]
        BY <1>4, OneMore DEF Create
      <3>2. QED
        BY <1>4, <3>1 DEF Create, CadegTypeOK
    <2>3. QED
      BY <2>1, <2>2
  <1>5. ASSUME FindPlace(p)
        PROVE  Frame /\ Data /\ Done
    <2>1. Done
      BY <1>5, MoveTyped DEF FindPlace
    <2>2. Frame /\ Data
      BY <1>5 DEF FindPlace, CadegTypeOK
    <2>3. QED
      BY <2>1, <2>2
  <1>6. ASSUME BuildPlace(p)
        PROVE  Frame /\ Data /\ Done
    <2>1. Done
      BY <1>6, MoveTyped, EndTyped DEF BuildPlace
    <2>2. Frame /\ Data
      BY <1>6 DEF BuildPlace, CadegTypeOK
    <2>3. QED
      BY <2>1, <2>2
  <1>7. ASSUME ReadItems(p)
        PROVE  Frame /\ Data /\ Done
    <2>1. Done
      <3> DEFINE k == Known
                 v == [task[p] EXCEPT !.step = "suppliers", !.items = k]
      <3>a. task[p] \in Tasks /\ k \in SUBSET Entries
        BY TaskOf DEF Known
      <3> HIDE DEF k
      <3>1. v \in Tasks
        BY <3>a DEF Tasks
      <3> USE DEF k
      <3>2. task' = [task EXCEPT ![p] = v]
        BY <1>7 DEF ReadItems
      <3>3. QED
        BY <3>1, <3>2, SetTask
    <2>2. Frame /\ Data
      BY <1>7 DEF ReadItems, CadegTypeOK
    <2>3. QED
      BY <2>1, <2>2
  <1>8. ASSUME ReadSuppliers(p)
        PROVE  Frame /\ Data /\ Done
    <2>1. Done
      <3> DEFINE v == [task[p] EXCEPT !.step = "orders",
                               !.listed = Known \cap Suppliers, !.names = Known \cap Suppliers]
      <3>a. task[p] \in Tasks /\ Known \cap Suppliers \in SUBSET Suppliers
        BY TaskOf
      <3>b. [task[p] EXCEPT !.step = "orders", !.listed = Known \cap Suppliers] \in Tasks
        BY <3>a DEF Tasks
      <3>c. v = [[task[p] EXCEPT !.step = "orders", !.listed = Known \cap Suppliers]
                    EXCEPT !.names = Known \cap Suppliers]
        BY <3>a DEF Tasks
      <3>1. v \in Tasks
        BY <3>a, <3>b, <3>c DEF Tasks
      <3>2. task' = [task EXCEPT ![p] = v]
        BY <1>8 DEF ReadSuppliers
      <3>3. QED
        BY <3>1, <3>2, SetTask
    <2>2. Frame /\ Data
      BY <1>8 DEF ReadSuppliers, CadegTypeOK
    <2>3. QED
      BY <2>1, <2>2
  <1>9. ASSUME ReadPurchases(p)
        PROVE  Frame /\ Data /\ Done
    <2>1. Done
      <3> DEFINE k == {bill \in BillSet : purchases[bill] # NoPurchase}
                 v == [task[p] EXCEPT !.step = "bills", !.numbers = k]
      <3>a. task[p] \in Tasks /\ k \in SUBSET BillSet
        BY TaskOf
      <3> HIDE DEF k
      <3>1. v \in Tasks
        BY <3>a DEF Tasks
      <3> USE DEF k
      <3>2. task' = [task EXCEPT ![p] = v]
        BY <1>9 DEF ReadPurchases
      <3>3. QED
        BY <3>1, <3>2, SetTask
    <2>2. Frame /\ Data
      BY <1>9 DEF ReadPurchases, CadegTypeOK
    <2>3. QED
      BY <2>1, <2>2
  <1>10. ASSUME SkipBill(p)
        PROVE  Frame /\ Data /\ Done
    <2>1. Done
      <3> DEFINE v == [task[p] EXCEPT !.at = @ + 1]
      <3>1. v \in Tasks
        BY TaskOf DEF Tasks
      <3>2. task' = [task EXCEPT ![p] = v]
        BY <1>10 DEF SkipBill
      <3>3. QED
        BY <3>1, <3>2, SetTask
    <2>2. Frame /\ Data
      BY <1>10 DEF SkipBill, CadegTypeOK
    <2>3. QED
      BY <2>1, <2>2
  <1>11. ASSUME CreateVendor(p)
        PROVE  Frame /\ Data /\ Done
    <2>1. Done
      <3>1. PICK v \in IF Top[task[p].at] # {} THEN Top[task[p].at] ELSE {Fallback} :
                 task' = [task EXCEPT ![p] =
                             [task[p] EXCEPT !.names = @ \cup {v},
                                    !.listed = IF Top[task[p].at] # {} THEN @ ELSE @ \cup {v}]]
        BY <1>11 DEF CreateVendor
      <3>2. task[p].at \in DOMAIN Bills
        BY <1>11, BillAt DEF CreateVendor
      <3>3. v \in Suppliers
        BY <3>2, TopFacts, CadegAssumption
      <3> DEFINE listed == IF Top[task[p].at] # {} THEN task[p].listed ELSE task[p].listed \cup {v}
      <3>4. listed \in SUBSET Suppliers
        BY <3>3, TaskOf DEF Tasks
      <3> HIDE DEF listed
      <3>5. [task[p] EXCEPT !.names = @ \cup {v}, !.listed = listed] \in Tasks
        <4>1. task[p] \in Tasks
          BY TaskOf
        <4>2. task[p].names \cup {v} \in SUBSET Suppliers
          BY <3>3, <4>1 DEF Tasks
        <4> DEFINE u == [task[p] EXCEPT !.names = @ \cup {v}]
        <4>3. u \in Tasks
          BY <4>1, <4>2 DEF Tasks
        <4>4. [u EXCEPT !.listed = listed] \in Tasks
          <5> HIDE DEF u
          <5>1. QED
            BY <3>4, <4>3 DEF Tasks
        <4>5. QED
          BY <4>4
      <3>6. task' = [task EXCEPT ![p] =
                        [task[p] EXCEPT !.names = @ \cup {v}, !.listed = listed]]
        BY <3>1 DEF listed
      <3>7. QED
        BY <3>5, <3>6, SetTask
    <2>2. Frame /\ Data
      <3>1. PICK v : master' = [master EXCEPT ![v] = @ + 1]
        BY <1>11 DEF CreateVendor
      <3>2. master' \in [Entries -> Nat]
        BY <3>1, OneMore
      <3>3. QED
        BY <1>11, <3>2 DEF CreateVendor, CadegTypeOK
    <2>3. QED
      BY <2>1, <2>2
  <1>12. ASSUME PostPurchase(p)
        PROVE  Frame /\ Data /\ Done
    <2>1. Done
      <3> DEFINE v == [task[p] EXCEPT !.at = @ + 1, !.numbers = @ \cup {Bill(p)}]
      <3>1. task' = [task EXCEPT ![p] = v] \/ End(p)
        BY <1>12 DEF PostPurchase
      <3>2. Bill(p) \in BillSet
        BY <1>12, BillAt DEF PostPurchase
      <3>a. task[p].numbers \cup {Bill(p)} \in SUBSET BillSet
        BY <3>2, TaskOf DEF Tasks
      <3>b. task[p] \in Tasks /\ task[p].at + 1 \in Nat \ {0}
        BY TaskOf
      <3>c. v = [[task[p] EXCEPT !.at = task[p].at + 1] EXCEPT
                     !.numbers = task[p].numbers \cup {Bill(p)}]
        BY <3>b DEF Tasks
      <3>d. [task[p] EXCEPT !.at = task[p].at + 1] \in Tasks
        BY <3>b DEF Tasks
      <3>3. v \in Tasks
        BY <3>a, <3>c, <3>d DEF Tasks
      <3> HIDE DEF v
      <3>4. QED
        BY <3>1, <3>3, SetTask, EndTyped
    <2>2. Frame /\ Data
      <3>1. purchases' \in [BillSet -> [vendor: Suppliers \cup {Blank}, qty: Nat, total: Nat]]
        <4> DEFINE k == task[p].at
        <4>1. PICK v \in Vendors(p), q \in Derived[k] :
                  \/ UNCHANGED purchases
                  \/ purchases' = [purchases EXCEPT ![Bill(p)] =
                                      [vendor |-> v, qty |-> q, total |-> Bills[k].fob]]
          BY <1>12 DEF PostPurchase
        <4>2. k \in DOMAIN Bills
          BY <1>12, BillAt DEF PostPurchase
        <4>3. q \in Nat /\ Bills[k].fob \in Nat
          BY <4>2, DerivedFacts
        <4>4. v \in Suppliers
          BY <4>2, TopFacts, TaskOf DEF Vendors, Tasks
        <4> DEFINE record == [vendor |-> v, qty |-> q, total |-> Bills[k].fob]
        <4>5. record \in [vendor: Suppliers \cup {Blank}, qty: Nat, total: Nat]
          BY <4>3, <4>4
        <4>6. \/ UNCHANGED purchases
              \/ purchases' = [purchases EXCEPT ![Bill(p)] = record]
          BY <4>1
        <4> HIDE DEF record
        <4>7. QED
          BY <4>5, <4>6 DEF CadegTypeOK
      <3>2. QED
        BY <1>12, <3>1 DEF PostPurchase, CadegTypeOK
    <2>3. QED
      BY <2>1, <2>2
  <1>13. ASSUME FinishPurchases(p)
        PROVE  Frame /\ Data /\ Done
    <2>1. Done
      BY <1>13, EndTyped DEF FinishPurchases
    <2>2. Frame /\ Data
      BY <1>13 DEF FinishPurchases, CadegTypeOK
    <2>3. QED
      BY <2>1, <2>2
  <1>14. ASSUME ReadLines(p)
        PROVE  Frame /\ Data /\ Done
    <2>1. Done
      <3> DEFINE all == {l.row : l \in UNION {orders[m].lines : m \in Numbers}}
                 v == [task[p] EXCEPT !.step = "lines", !.lines = all]
      <3>1. all \subseteq Rows
        BY DEF OrdersTyped
      <3>2. task' = [task EXCEPT ![p] = v]
        BY <1>14 DEF ReadLines
      <3> HIDE DEF all
      <3>3. v \in Tasks
        <4>1. task[p] \in Tasks
          BY TaskOf
        <4> DEFINE u == [task[p] EXCEPT !.step = "lines"]
        <4>2. u \in Tasks
          BY <4>1 DEF Tasks
        <4>3. [u EXCEPT !.lines = all] \in Tasks
          <5> HIDE DEF u
          <5>1. QED
            BY <3>1, <4>2 DEF Tasks
        <4>4. QED
          BY <4>3
      <3>4. QED
        BY <3>2, <3>3, SetTask
    <2>2. Frame /\ Data
      BY <1>14 DEF ReadLines, CadegTypeOK
    <2>3. QED
      BY <2>1, <2>2
  <1>15. ASSUME LookForShipment(p)
        PROVE  Frame /\ Data /\ Done
    <2>1. Done
      <3>1. PICK r \in task[p].lines :
                 \/ task' = [task EXCEPT ![p] = [task[p] EXCEPT !.lines = @ \ {r}]]
                 \/ task' = [task EXCEPT ![p] = [task[p] EXCEPT !.lines = @ \ {r},
                                                   !.line = {r}, !.step = "ship"]]
        BY <1>15 DEF LookForShipment
      <3>2. /\ [task[p] EXCEPT !.lines = @ \ {r}] \in Tasks
            /\ [task[p] EXCEPT !.lines = @ \ {r}, !.line = {r}, !.step = "ship"] \in Tasks
        <4>1. task[p] \in Tasks
          BY TaskOf
        <4>2. r \in Rows
          BY <4>1 DEF Tasks
        <4> DEFINE u == [task[p] EXCEPT !.lines = @ \ {r}]
        <4>3. u \in Tasks
          BY <4>1 DEF Tasks
        <4>4. [u EXCEPT !.line = {r}, !.step = "ship"] \in Tasks
          <5> HIDE DEF u
          <5> DEFINE x == [u EXCEPT !.line = {r}]
          <5>1. x \in Tasks
            BY <4>2, <4>3 DEF Tasks
          <5>2. [x EXCEPT !.step = "ship"] \in Tasks
            <6> HIDE DEF x
            <6>1. QED
              BY <5>1 DEF Tasks
          <5>3. QED
            BY <5>2
        <4>5. QED
          BY <4>3, <4>4
      <3>3. QED
        BY <3>1, <3>2, SetTask
    <2>2. Frame /\ Data
      BY <1>15 DEF LookForShipment, CadegTypeOK
    <2>3. QED
      BY <2>1, <2>2
  <1>16. ASSUME Ship(p)
        PROVE  Frame /\ Data /\ Done
    <2>1. Done
      <3> DEFINE v == [task[p] EXCEPT !.line = {}, !.step = "lines"]
      <3>1. v \in Tasks
        <4>1. task[p] \in Tasks
          BY TaskOf
        <4> DEFINE u == [task[p] EXCEPT !.line = {}]
        <4>2. u \in Tasks
          BY <4>1 DEF Tasks
        <4>3. [u EXCEPT !.step = "lines"] \in Tasks
          <5> HIDE DEF u
          <5>1. QED
            BY <4>2 DEF Tasks
        <4>4. QED
          BY <4>3
      <3>2. task' = [task EXCEPT ![p] = v]
        BY <1>16 DEF Ship
      <3>3. QED
        BY <3>1, <3>2, SetTask
    <2>2. Frame /\ Data
      BY <1>16 DEF Ship, CadegTypeOK
    <2>3. QED
      BY <2>1, <2>2
  <1>17. ASSUME FinishShipments(p)
        PROVE  Frame /\ Data /\ Done
    <2>1. Done
      BY <1>17, EndTyped DEF FinishShipments
    <2>2. Frame /\ Data
      BY <1>17 DEF FinishShipments, CadegTypeOK
    <2>3. QED
      BY <2>1, <2>2
  <1>18. ASSUME ScriptDies(p)
        PROVE  Frame /\ Data /\ Done
    <2>1. Done
      BY <1>18, EndTyped DEF ScriptDies
    <2>2. Frame /\ Data
      BY <1>18, ImportsAssumption DEF ScriptDies, CadegTypeOK
    <2>3. QED
      BY <2>1, <2>2
  <1>19. ASSUME FinishProvision(p)
        PROVE  ProcsTyped' /\ StatusTyped' /\ OrdersTyped' /\ RestTyped' /\ CadegTypeOK'
    <2>1. ProcsTyped'
      <3>1. proc' = proc => ProcsTyped'
        BY DEF ProcsTyped
      <3>2. QED
        BY <1>19, <3>1, BeginTyped, CadegAssumption DEF FinishProvision
    <2>2. StatusTyped' /\ OrdersTyped' /\ RestTyped'
      BY <1>19, CadegAssumption DEF FinishProvision, StatusTyped, OrdersTyped
    <2>3. CadegTypeOK'
      <3>1. task' \in [Procs -> Tasks]
        BY <1>19, EndTyped DEF FinishProvision
      <3>2. QED
        BY <1>19, <3>1 DEF FinishProvision, CadegTypeOK
    <2>4. QED
      BY <2>1, <2>2, <2>3
  <1>s. Frame /\ Data /\ Done =>
            ProcsTyped' /\ StatusTyped' /\ OrdersTyped' /\ RestTyped' /\ CadegTypeOK'
    BY StatusKept DEF CadegTypeOK
  <1> HIDE DEF Frame, Data, Done
  <1> QED
    BY <1>s, <1>1, <1>2, <1>3, <1>4, <1>5, <1>6, <1>7, <1>8, <1>9, <1>10, <1>11, <1>12,
       <1>13, <1>14, <1>15, <1>16, <1>17, <1>18, <1>19 DEF CadegNext, Carry

LEMMA InitTyped == Init => Typing
  <1> SUFFICES ASSUME Init
               PROVE  Typing
    OBVIOUS
  <1>1. ProcsTyped
    BY IdleHoused DEF Init, ImportInit, ProcsTyped
  <1>2. StatusTyped
    BY DEF Init, ImportInit, StatusTyped, NoRows
  <1>3. OrdersTyped
    BY DEF Init, ImportInit, OrdersTyped, NoOrder
  <1>4. RestTyped
    BY ImportsAssumption, MasterAssumption DEF Init, ImportInit, RestTyped
  <1>5. CadegTypeOK
    BY NoTaskTyped DEF Init, CadegInit, CadegTypeOK, NoPurchase
  <1>6. QED
    BY <1>1, <1>2, <1>3, <1>4, <1>5, TypesSplit DEF Typing, TypeOK

LEMMA NextTyped == Typing /\ [Next]_vars => Typing'
  <1> SUFFICES ASSUME Typing, [Next]_vars
               PROVE  Typing'
    OBVIOUS
  <1>1. ProcsTyped /\ StatusTyped /\ OrdersTyped /\ RestTyped /\ CadegTypeOK
    BY TypesSplit DEF Typing, TypeOK
  <1>2. ASSUME ProcsTyped' /\ StatusTyped' /\ OrdersTyped' /\ RestTyped' /\ CadegTypeOK'
        PROVE  Typing'
    <2>1. (ImportTypeOK /\ RowsWithin <=> ProcsTyped /\ StatusTyped /\ OrdersTyped /\ RestTyped)'
      BY TypesSplit, PTL
    <2>2. QED
      BY <1>2, <2>1 DEF Typing, TypeOK
  <1>3. ASSUME NEW p \in Procs, ImportNext(p), UNCHANGED cadegVars
        PROVE  Typing'
    <2>1. CadegTypeOK'
      BY <1>1, <1>3 DEF CadegTypeOK, cadegVars
    <2>2. QED
      BY <1>1, <1>2, <1>3, <2>1, ImportTyped
  <1>4. ASSUME NEW p \in Procs, CadegNext(p)
        PROVE  Typing'
    BY <1>1, <1>2, <1>4, CadegTyped
  <1>5. ASSUME UNCHANGED vars
        PROVE  Typing'
    BY <1>5 DEF Typing, TypeOK, ImportTypeOK, CadegTypeOK, RowsWithin, vars
  <1>6. QED
    BY <1>3, <1>4, <1>5 DEF Next

(* The variables keep their types.                                          *)
THEOREM TypeCorrect == Spec => []TypeOK
  <1>1. Init => Typing
    BY InitTyped
  <1>2. Typing /\ [Next]_vars => Typing'
    BY NextTyped
  <1>3. Typing => TypeOK
    BY DEF Typing
  <1>4. QED
    BY <1>1, <1>2, <1>3, PTL DEF Spec

-----------------------------------------------------------------------------
(* The register of invoices.  A line belongs to the number of its order, an *)
(* order has lines, and the numbers a commit knows of are taken.            *)

Booked ==
    /\ \A m \in Numbers :
          /\ \A l \in orders[m].lines : Number[l.row] = m
          /\ orders[m].lines = {} => orders[m] = NoOrder
    /\ \A p \in Procs : \A m \in proc[p].numbers : orders[m] # NoOrder

Entered == [m \in Numbers |-> {l.row : l \in orders[m].lines}]
Imported == {r \in Rows : rows[r[1]][r[2]] = "COMMITTED"}

(* Whatever follows is about the state of the imports: the scripts of the   *)
(* migration touch it only by staging a batch.                              *)
ParseJobs == {b \in Batches : <<b, "parse">> \in queue}
imports == <<batch, rows, orders, ParseJobs, proc, parses, lost>>

Stage(p) ==
    /\ proc[p] = Idle /\ batch[Staged] = "NONE"
    /\ batch' = [batch EXCEPT ![Staged] = "UPLOADED"]
    /\ Begin(p, "add", "request", Staged)
    /\ UNCHANGED <<rows, orders, queue, parses, lost>>

LEMMA ImportSteps ==
    ASSUME [Next]_vars
    PROVE  \/ UNCHANGED imports
           \/ \E p \in Procs : Stage(p) \/ Crash(p) \/ ParseThrows(p)
           \/ \E p \in Procs, b \in Batches :
                 \/ CreateBatch(p, b) \/ CommitBatch(p, b)
                 \/ \E flow \in {"script", "stage"} : Ingest(p, b, flow)
                 \/ TakeParse(p, b) \/ Proceed(p, b)
  <1> USE DEF imports
  <1>q. UNCHANGED queue => UNCHANGED ParseJobs
    BY DEF ParseJobs
  <1>1. ASSUME NEW p \in Procs, ImportNext(p)
        PROVE  \/ UNCHANGED imports
               \/ Crash(p) \/ ParseThrows(p)
               \/ \E b \in Batches :
                     \/ CreateBatch(p, b) \/ CommitBatch(p, b)
                     \/ \E flow \in {"script", "stage"} : Ingest(p, b, flow)
                     \/ TakeParse(p, b) \/ Proceed(p, b)
    <2>1. ASSUME NEW b \in Batches, ValidateBatch(p, b) \/ TakeValidate(p, b)
          PROVE  UNCHANGED imports
      <3>1. \A c \in Batches : <<c, "parse">> \in queue' <=> <<c, "parse">> \in queue
        BY <2>1 DEF ValidateBatch, TakeValidate
      <3>2. UNCHANGED ParseJobs
        BY <3>1 DEF ParseJobs
      <3>3. QED
        BY <2>1, <3>2 DEF ValidateBatch, TakeValidate
    <2>2. QED
      BY <1>1, <2>1 DEF ImportNext
  <1>2. ASSUME NEW p \in Procs, CadegNext(p), proc[p] = Idle
        PROVE  UNCHANGED imports \/ Stage(p)
    <2>1. ASSUME NEW s \in Scripts, StartTask(p, s[1], s[2])
          PROVE  UNCHANGED imports
      BY <1>q, <2>1 DEF StartTask, unchangedImport
    <2>2. ASSUME FinishProvision(p)
          PROVE  UNCHANGED imports \/ Stage(p)
      BY <1>2, <1>q, <2>2 DEF FinishProvision, Stage
    <2>3. ASSUME Carry(p), ~FinishProvision(p)
          PROVE  UNCHANGED imports
      BY <1>q, <2>3 DEF Carry, Upsert, Find, Create, FindPlace, BuildPlace, ReadItems,
         ReadSuppliers, ReadPurchases, SkipBill, CreateVendor, PostPurchase, FinishPurchases,
         ReadLines, LookForShipment, Ship, FinishShipments, unchangedImport
    <2>4. ASSUME ScriptDies(p)
          PROVE  UNCHANGED imports
      BY <1>q, <2>4 DEF ScriptDies, unchangedImport
    <2>5. QED
      BY <1>2, <2>1, <2>2, <2>3, <2>4 DEF CadegNext
  <1>3. ASSUME UNCHANGED vars
        PROVE  UNCHANGED imports
    BY <1>3, <1>q DEF vars
  <1>4. QED
    BY <1>1, <1>2, <1>3 DEF Next

(* One process at a time moves.                                             *)
LEMMA Moved ==
    ASSUME ProcsTyped, NEW p \in Procs, NEW v, proc' = [proc EXCEPT ![p] = v]
    PROVE  proc'[p] = v /\ \A q \in Procs : q # p => proc'[q] = proc[q]
  BY DEF ProcsTyped

(* A parse leaves what another process does as it is, but for the rows that *)
(* are gone.                                                                *)
LEMMA DeleteRowsDoes ==
    ASSUME ProcsTyped, NEW p \in Procs, NEW b \in Batches, DeleteRows(p, b)
    PROVE  /\ proc[p].step = "delete" /\ proc[p].batch = {b}
           /\ proc'[p].step = "insert" /\ proc'[p].next = 1
           /\ \A q \in Procs :
                 /\ q # p => proc'[q].step = proc[q].step /\ proc'[q].next = proc[q].next
                 /\ proc'[q].batch = proc[q].batch /\ proc'[q].flow = proc[q].flow
                 /\ proc'[q].known = proc[q].known /\ proc'[q].rows = proc[q].rows
                 /\ proc'[q].numbers = proc[q].numbers
                 /\ proc'[q].alive =
                       IF q # p /\ proc[q].batch = {b} THEN {} ELSE proc[q].alive
  <1> DEFINE w(q) == IF q = p THEN [proc[q] EXCEPT !.step = "insert", !.next = 1]
                     ELSE [proc[q] EXCEPT !.alive =
                              IF proc[q].batch = {b} THEN {} ELSE proc[q].alive]
  <1>1. \A q \in Procs : proc'[q] = w(q)
    BY DEF DeleteRows
  <1>2. proc[p].step = "delete" /\ proc[p].batch = {b}
    BY DEF DeleteRows, At
  <1>3. w(p).step = "insert" /\ w(p).next = 1
    BY DEF ProcsTyped, Housed, Processes
  <1>4. ASSUME NEW q \in Procs
        PROVE  /\ q # p => w(q).step = proc[q].step /\ w(q).next = proc[q].next
               /\ w(q).batch = proc[q].batch /\ w(q).flow = proc[q].flow
               /\ w(q).known = proc[q].known /\ w(q).rows = proc[q].rows
               /\ w(q).numbers = proc[q].numbers
               /\ w(q).alive = IF q # p /\ proc[q].batch = {b} THEN {} ELSE proc[q].alive
    <2>1. proc[q] \in Processes
      BY DEF ProcsTyped, Housed
    <2>2. CASE q = p
      BY <2>1, <2>2 DEF Processes
    <2>3. CASE q # p /\ proc[q].batch = {b}
      BY <2>1, <2>3 DEF Processes
    <2>4. CASE q # p /\ proc[q].batch # {b}
      BY <2>1, <2>4 DEF Processes
    <2>5. QED
      BY <2>2, <2>3, <2>4
  <1> HIDE DEF w
  <1>5. QED
    BY <1>1, <1>2, <1>3, <1>4

LEMMA Typings == Typing => ProcsTyped /\ StatusTyped /\ OrdersTyped /\ RestTyped /\ CadegTypeOK
  BY TypesSplit DEF Typing, TypeOK

LEMMA OrdersStep ==
    ASSUME ProcsTyped, [Next]_vars
    PROVE  \/ \E p \in Procs, b \in Batches : PostGroup(p, b)
           \/ /\ UNCHANGED orders
              /\ \A q \in Procs :
                    proc'[q].numbers \subseteq
                        proc[q].numbers \cup {m \in Numbers : orders[m] # NoOrder}
  <1> DEFINE Kept == /\ UNCHANGED orders
                     /\ \A q \in Procs :
                           proc'[q].numbers \subseteq
                               proc[q].numbers \cup {m \in Numbers : orders[m] # NoOrder}
  <1>1. ASSUME NEW p \in Procs, NEW v, proc' = [proc EXCEPT ![p] = v],
               v.numbers \subseteq proc[p].numbers \cup {m \in Numbers : orders[m] # NoOrder},
               UNCHANGED orders
        PROVE  Kept
    BY <1>1, Moved
  <1>2. ASSUME NEW p \in Procs, Stop(p), UNCHANGED orders
        PROVE  Kept
    BY <1>1, <1>2 DEF Stop, Idle
  <1>3. ASSUME NEW p \in Procs, NEW b, NEW step, NEW flow, Begin(p, step, flow, b),
               UNCHANGED orders
        PROVE  Kept
    <2>1. [Idle EXCEPT !.step = step, !.flow = flow, !.batch = {b}].numbers = {}
      BY DEF Idle
    <2>2. QED
      BY <1>1, <1>3, <2>1 DEF Begin
  <1>4. ASSUME NEW p \in Procs, NEW step, Go(p, step), UNCHANGED orders
        PROVE  Kept
    <2>1. [proc[p] EXCEPT !.step = step].numbers = proc[p].numbers
      BY DEF ProcsTyped, Housed, Processes
    <2>2. QED
      BY <1>1, <1>4, <2>1 DEF Go
  <1>5. ASSUME UNCHANGED imports
        PROVE  Kept
    BY <1>5 DEF imports, ProcsTyped
  <1>6. ASSUME NEW p \in Procs, Stage(p)
        PROVE  Kept
    BY <1>3, <1>6 DEF Stage
  <1>7. ASSUME NEW p \in Procs, Crash(p) \/ ParseThrows(p)
        PROVE  Kept
    BY <1>2, <1>7 DEF Crash, ParseThrows
  <1>8. ASSUME NEW p \in Procs, NEW b \in Batches, CreateBatch(p, b)
        PROVE  Kept
    BY <1>3, <1>8 DEF CreateBatch
  <1>9. ASSUME NEW p \in Procs, NEW b \in Batches, CommitBatch(p, b)
        PROVE  Kept
    BY <1>3, <1>9 DEF CommitBatch
  <1>10. ASSUME NEW p \in Procs, NEW b \in Batches, NEW flow, Ingest(p, b, flow)
        PROVE  Kept
    BY <1>3, <1>10 DEF Ingest
  <1>11. ASSUME NEW p \in Procs, NEW b \in Batches, TakeParse(p, b)
        PROVE  Kept
    BY <1>3, <1>11 DEF TakeParse
  <1>12. ASSUME NEW p \in Procs, NEW b \in Batches, QueueParse(p, b)
        PROVE  Kept
    BY <1>2, <1>12 DEF QueueParse
  <1>13. ASSUME NEW p \in Procs, NEW b \in Batches, Acknowledge(p, b)
        PROVE  Kept
    BY <1>2, <1>13 DEF Acknowledge
  <1>14. ASSUME NEW p \in Procs, NEW b \in Batches, FinishCommit(p, b)
        PROVE  Kept
    BY <1>2, <1>14 DEF FinishCommit
  <1>15. ASSUME NEW p \in Procs, NEW b \in Batches, Reread(p, b)
        PROVE  Kept
    BY <1>2, <1>4, <1>15 DEF Reread
  <1>16. ASSUME NEW p \in Procs, NEW b \in Batches, MarkParsing(p, b)
        PROVE  Kept
    BY <1>4, <1>16 DEF MarkParsing
  <1>17. ASSUME NEW p \in Procs, NEW b \in Batches, Settle(p, b)
        PROVE  Kept
    BY <1>2, <1>3, <1>17 DEF Settle
  <1>18. ASSUME NEW p \in Procs, NEW b \in Batches, Lookup(p, b)
        PROVE  Kept
    <2> DEFINE v == [proc[p] EXCEPT !.step = "parsing", !.known = Known]
    <2>1. v.numbers \subseteq proc[p].numbers \cup {m \in Numbers : orders[m] # NoOrder}
      BY DEF ProcsTyped, Housed, Processes
    <2>2. proc' = [proc EXCEPT ![p] = v] /\ UNCHANGED orders
      BY <1>18 DEF Lookup
    <2>3. QED
      BY <1>1, <2>1, <2>2
  <1>19. ASSUME NEW p \in Procs, NEW b \in Batches, InsertRows(p, b)
        PROVE  Kept
    <2> DEFINE v == IF proc[p].next + Chunk > Len(Files[b])
                    THEN [proc[p] EXCEPT !.step = "settle"]
                    ELSE [proc[p] EXCEPT !.next = @ + Chunk]
    <2>1. v.numbers \subseteq proc[p].numbers \cup {m \in Numbers : orders[m] # NoOrder}
      BY DEF ProcsTyped, Housed, Processes
    <2>2. proc' = [proc EXCEPT ![p] = v] /\ UNCHANGED orders
      BY <1>19 DEF InsertRows
    <2>3. QED
      BY <1>1, <2>1, <2>2
  <1>20. ASSUME NEW p \in Procs, NEW b \in Batches, ReadRows(p, b)
        PROVE  Kept
    <2> DEFINE v == [proc[p] EXCEPT !.step = "customers",
                             !.rows = {n \in RowsOf(b) : rows[b][n] = "VALID"},
                             !.alive = {n \in RowsOf(b) : rows[b][n] = "VALID"}]
    <2>1. v.numbers \subseteq proc[p].numbers \cup {m \in Numbers : orders[m] # NoOrder}
      BY DEF ProcsTyped, Housed, Processes
    <2>2. proc' = [proc EXCEPT ![p] = v] /\ UNCHANGED orders
      BY <1>20 DEF ReadRows
    <2>3. QED
      BY <1>1, <2>1, <2>2
  <1>21. ASSUME NEW p \in Procs, NEW b \in Batches, ReadCustomers(p, b)
        PROVE  Kept
    <2> DEFINE v == [proc[p] EXCEPT !.step = "numbers", !.known = Known]
    <2>1. v.numbers \subseteq proc[p].numbers \cup {m \in Numbers : orders[m] # NoOrder}
      BY DEF ProcsTyped, Housed, Processes
    <2>2. proc' = [proc EXCEPT ![p] = v] /\ UNCHANGED orders
      BY <1>21 DEF ReadCustomers
    <2>3. QED
      BY <1>1, <2>1, <2>2
  <1>22. ASSUME NEW p \in Procs, NEW b \in Batches, ReadNumbers(p, b)
        PROVE  Kept
    <2> DEFINE v == [proc[p] EXCEPT !.step = "groups",
                             !.numbers = {m \in Numbers : orders[m] # NoOrder}]
    <2>1. v.numbers \subseteq proc[p].numbers \cup {m \in Numbers : orders[m] # NoOrder}
      BY DEF ProcsTyped, Housed, Processes
    <2>2. proc' = [proc EXCEPT ![p] = v] /\ UNCHANGED orders
      BY <1>22 DEF ReadNumbers
    <2>3. QED
      BY <1>1, <2>1, <2>2
  <1>23. ASSUME NEW p \in Procs, NEW b \in Batches, SkipGroup(p, b)
        PROVE  Kept
    <2> DEFINE v == [proc[p] EXCEPT !.rows = @ \ GroupOf(b, proc[p].rows)]
    <2>1. v.numbers \subseteq proc[p].numbers \cup {m \in Numbers : orders[m] # NoOrder}
      BY DEF ProcsTyped, Housed, Processes
    <2>2. proc' = [proc EXCEPT ![p] = v] /\ UNCHANGED orders
      BY <1>23 DEF SkipGroup
    <2>3. QED
      BY <1>1, <2>1, <2>2
  <1>24. ASSUME NEW p \in Procs, NEW b \in Batches, MarkGroup(p, b)
        PROVE  Kept
    <2> DEFINE v == [proc[p] EXCEPT !.rows = @ \ GroupOf(b, proc[p].rows)]
    <2>1. v.numbers \subseteq proc[p].numbers \cup {m \in Numbers : orders[m] # NoOrder}
      BY DEF ProcsTyped, Housed, Processes
    <2>2. proc' = [proc EXCEPT ![p] = v] /\ UNCHANGED orders
      BY <1>24 DEF MarkGroup
    <2>3. QED
      BY <1>1, <2>1, <2>2
  <1>25. ASSUME NEW p \in Procs, NEW b \in Batches, DeleteRows(p, b)
        PROVE  Kept
    <2>1. \A q \in Procs : proc'[q].numbers = proc[q].numbers
      BY <1>25, DeleteRowsDoes
    <2>2. QED
      BY <1>25, <2>1 DEF DeleteRows
  <1> HIDE DEF Kept
  <1> QED
    BY ImportSteps, <1>5, <1>6, <1>7, <1>8, <1>9, <1>10, <1>11, <1>12, <1>13, <1>14,
       <1>15, <1>16, <1>17, <1>18, <1>19, <1>20, <1>21, <1>22, <1>23, <1>24, <1>25 DEF
       Proceed, Kept

-----------------------------------------------------------------------------
(* What a commit does with the group it has come to.                        *)

GroupAt(p, b) == GroupOf(b, proc[p].rows)
FirstAt(p, b) == <<b, Min(GroupAt(p, b))>>
NumberAt(p, b) == Number[FirstAt(p, b)]
LinesAt(p, b) ==
    {[row |-> <<b, n>>, qty |-> Quantity[<<b, n>>]] : n \in Billable(b, GroupAt(p, b))}

LEMMA GroupInHand ==
    ASSUME ProcsTyped, NEW p \in Procs, NEW b \in Batches, At(p, "groups", b), proc[p].rows # {}
    PROVE  /\ proc[p].rows \subseteq RowsOf(b)
           /\ GroupAt(p, b) # {} /\ GroupAt(p, b) \subseteq proc[p].rows
           /\ Min(GroupAt(p, b)) \in GroupAt(p, b) /\ FirstAt(p, b) \in Rows
           /\ \A n \in GroupAt(p, b) :
                 /\ <<b, n>> \in Rows /\ Invoice(<<b, n>>) = Invoice(FirstAt(p, b))
                 /\ Customer[<<b, n>>] = Customer[FirstAt(p, b)]
                 /\ Number[<<b, n>>] = NumberAt(p, b)
           /\ \A n \in proc[p].rows :
                 Invoice(<<b, n>>) = Invoice(FirstAt(p, b)) => n \in GroupAt(p, b)
           /\ Addressed(b, GroupAt(p, b), proc[p].known) => NumberAt(p, b) \in Numbers
  <1>1. proc[p].rows \in SUBSET RowsOf(b)
    BY DEF At, ProcsTyped, Housed
  <1>2. NumberAt(p, b) \in Numbers \cup {Blank}
    BY <1>1, GroupFacts, RowFacts DEF NumberAt, FirstAt, GroupAt
  <1>3. QED
    BY <1>1, <1>2, GroupFacts, RowFacts DEF NumberAt, FirstAt, GroupAt, Addressed

(* A group is left out, acknowledged, or posted; or its commit fails.       *)
LEMMA LeavesGroup ==
    ASSUME ProcsTyped, NEW p \in Procs, NEW b \in Batches,
           SkipGroup(p, b) \/ MarkGroup(p, b)
    PROVE  /\ At(p, "groups", b) /\ proc[p].rows # {}
           /\ \A q \in Procs : q # p => proc'[q] = proc[q]
           /\ proc'[p].step = "groups" /\ proc'[p].batch = {b}
           /\ proc'[p].flow = proc[p].flow /\ proc'[p].known = proc[p].known
           /\ proc'[p].rows = proc[p].rows \ GroupAt(p, b)
           /\ proc'[p].alive = proc[p].alive /\ proc'[p].numbers = proc[p].numbers
  <1> DEFINE v == [proc[p] EXCEPT !.rows = @ \ GroupOf(b, proc[p].rows)]
  <1>1. At(p, "groups", b) /\ proc[p].rows # {} /\ proc' = [proc EXCEPT ![p] = v]
    BY DEF SkipGroup, MarkGroup
  <1>2. /\ v.step = proc[p].step /\ v.batch = proc[p].batch /\ v.flow = proc[p].flow
        /\ v.known = proc[p].known /\ v.alive = proc[p].alive /\ v.numbers = proc[p].numbers
        /\ v.rows = proc[p].rows \ GroupAt(p, b)
    BY DEF ProcsTyped, Housed, Processes, GroupAt
  <1> HIDE DEF v
  <1>3. QED
    BY <1>1, <1>2, Moved DEF At

LEMMA PostsGroup ==
    ASSUME ProcsTyped, NEW p \in Procs, NEW b \in Batches, PostGroup(p, b)
    PROVE  /\ At(p, "groups", b) /\ proc[p].rows # {} /\ LinesAt(p, b) # {}
           /\ Addressed(b, GroupAt(p, b), proc[p].known) /\ NumberAt(p, b) \in Numbers
           /\ UNCHANGED <<batch, parses>>
           /\ \A q \in Procs : q # p => proc'[q] = proc[q]
           /\ \/ /\ orders[NumberAt(p, b)] = NoOrder
                 /\ orders' = [orders EXCEPT ![NumberAt(p, b)] =
                                  [customer |-> Customer[FirstAt(p, b)],
                                   lines |-> LinesAt(p, b)]]
                 /\ Mark(b, GroupAt(p, b) \cap proc[p].alive)
                 /\ proc'[p].step = "groups" /\ proc'[p].batch = {b}
                 /\ proc'[p].flow = proc[p].flow /\ proc'[p].known = proc[p].known
                 /\ proc'[p].rows = proc[p].rows \ GroupAt(p, b)
                 /\ proc'[p].alive = proc[p].alive
                 /\ proc'[p].numbers = proc[p].numbers \cup {NumberAt(p, b)}
              \/ proc'[p] = Idle /\ UNCHANGED <<orders, rows>>
  <1> DEFINE v == [proc[p] EXCEPT !.rows = @ \ GroupOf(b, proc[p].rows),
                                  !.numbers = @ \cup {NumberAt(p, b)}]
  <1>1. /\ At(p, "groups", b) /\ proc[p].rows # {} /\ LinesAt(p, b) # {}
        /\ Addressed(b, GroupAt(p, b), proc[p].known) /\ UNCHANGED <<batch, parses>>
    BY DEF PostGroup, GroupAt, LinesAt
  <1>2. \/ /\ orders[NumberAt(p, b)] = NoOrder
           /\ orders' = [orders EXCEPT ![NumberAt(p, b)] =
                            [customer |-> Customer[FirstAt(p, b)], lines |-> LinesAt(p, b)]]
           /\ Mark(b, GroupAt(p, b) \cap proc[p].alive)
           /\ proc' = [proc EXCEPT ![p] = v]
        \/ Stop(p) /\ UNCHANGED <<orders, rows>>
    BY DEF PostGroup, GroupAt, LinesAt, FirstAt, NumberAt
  <1>3. /\ v.step = proc[p].step /\ v.batch = proc[p].batch /\ v.flow = proc[p].flow
        /\ v.known = proc[p].known /\ v.alive = proc[p].alive
        /\ v.rows = proc[p].rows \ GroupAt(p, b)
        /\ v.numbers = proc[p].numbers \cup {NumberAt(p, b)}
    BY DEF ProcsTyped, Housed, Processes, GroupAt
  <1> HIDE DEF v
  <1>4. NumberAt(p, b) \in Numbers
    BY <1>1, GroupInHand
  <1>5. CASE Stop(p) /\ UNCHANGED <<orders, rows>>
    BY <1>1, <1>4, <1>5, Moved DEF Stop
  <1>6. CASE proc' = [proc EXCEPT ![p] = v]
    BY <1>1, <1>2, <1>3, <1>4, <1>5, <1>6, Moved DEF At
  <1>7. QED
    BY <1>2, <1>5, <1>6

LEMMA BookedNext ==
    ASSUME ProcsTyped, OrdersTyped, Booked, [Next]_vars
    PROVE  Booked'
  <1>1. ASSUME NEW p \in Procs, NEW b \in Batches, PostGroup(p, b),
               proc'[p] = Idle
        PROVE  Booked'
    <2>0. UNCHANGED orders
      <3>1. proc'[p].step # "groups"
        BY <1>1 DEF Idle
      <3>2. QED
        BY <1>1, <3>1, PostsGroup
    <2>1. \A q \in Procs : q # p => proc'[q] = proc[q]
      BY <1>1, PostsGroup
    <2>2. proc'[p].numbers = {}
      BY <1>1 DEF Idle
    <2>3. QED
      BY <2>0, <2>1, <2>2 DEF Booked
  <1>2. ASSUME NEW p \in Procs, NEW b \in Batches, PostGroup(p, b), proc'[p] # Idle
        PROVE  Booked'
    <2> DEFINE number == NumberAt(p, b)
               o == [customer |-> Customer[FirstAt(p, b)], lines |-> LinesAt(p, b)]
    <2>1. /\ orders[number] = NoOrder /\ orders' = [orders EXCEPT ![number] = o]
          /\ number \in Numbers /\ proc'[p].numbers = proc[p].numbers \cup {number}
          /\ \A q \in Procs : q # p => proc'[q] = proc[q]
          /\ At(p, "groups", b) /\ proc[p].rows # {} /\ LinesAt(p, b) # {}
      BY <1>2, PostsGroup
    <2>2. o.lines = LinesAt(p, b) /\ \A l \in LinesAt(p, b) : Number[l.row] = number
      <3>1. \A n \in Billable(b, GroupAt(p, b)) : Number[<<b, n>>] = number
        BY <2>1, GroupInHand DEF Billable
      <3>2. ASSUME NEW l \in LinesAt(p, b)
            PROVE  Number[l.row] = number
        <4>1. PICK n \in Billable(b, GroupAt(p, b)) :
                   l = [row |-> <<b, n>>, qty |-> Quantity[<<b, n>>]]
          BY DEF LinesAt
        <4>2. QED
          BY <3>1, <4>1
      <3>3. QED
        BY <3>2
    <2> HIDE DEF o, number
    <2>3. orders'[number] = o /\ \A m \in Numbers : m # number => orders'[m] = orders[m]
      BY <2>1 DEF OrdersTyped
    <2>4. o # NoOrder
      BY <2>1, <2>2 DEF NoOrder
    <2>5. QED
      BY <2>1, <2>2, <2>3, <2>4 DEF Booked
  <1>3. ASSUME UNCHANGED orders,
               \A q \in Procs :
                   proc'[q].numbers \subseteq
                       proc[q].numbers \cup {m \in Numbers : orders[m] # NoOrder}
        PROVE  Booked'
    BY <1>3 DEF Booked
  <1>4. QED
    BY <1>1, <1>2, <1>3, OrdersStep

-----------------------------------------------------------------------------
(* Every step of the migration is a step of the register.                   *)

LEMMA RowsStep ==
    ASSUME [Next]_vars
    PROVE  \/ UNCHANGED rows
           \/ \E p \in Procs, b \in Batches :
                 DeleteRows(p, b) \/ InsertRows(p, b) \/ MarkGroup(p, b) \/ PostGroup(p, b)
  <1>1. ASSUME NEW p \in Procs, NEW b \in Batches, Proceed(p, b)
        PROVE  \/ UNCHANGED rows
               \/ DeleteRows(p, b) \/ InsertRows(p, b) \/ MarkGroup(p, b) \/ PostGroup(p, b)
    BY <1>1 DEF Proceed, QueueParse, Reread, Lookup, MarkParsing, Settle, Acknowledge,
       ReadRows, ReadCustomers, ReadNumbers, SkipGroup, FinishCommit
  <1>2. ASSUME NEW p \in Procs, NEW b \in Batches,
               \/ CreateBatch(p, b) \/ CommitBatch(p, b)
               \/ \E flow \in {"script", "stage"} : Ingest(p, b, flow)
               \/ TakeParse(p, b)
        PROVE  UNCHANGED rows
    BY <1>2 DEF CreateBatch, CommitBatch, Ingest, TakeParse
  <1>3. ASSUME NEW p \in Procs, Stage(p) \/ Crash(p) \/ ParseThrows(p)
        PROVE  UNCHANGED rows
    BY <1>3 DEF Stage, Crash, ParseThrows
  <1>4. UNCHANGED imports => UNCHANGED rows
    BY DEF imports
  <1>5. QED
    BY <1>1, <1>2, <1>3, <1>4, ImportSteps

(* A row whose key is taken is not inserted, and so no committed one is.    *)
LEMMA Inserted ==
    ASSUME StatusTyped, NEW p \in Procs, NEW b \in Batches, InsertRows(p, b)
    PROVE  /\ \A c \in Batches : c # b => rows'[c] = rows[c]
           /\ \A n \in RowNos :
                 \/ rows'[b][n] = rows[b][n]
                 \/ rows[b][n] = "NONE" /\ rows'[b][n] \in {"VALID", "ERROR"}
  <1> DEFINE here == {n \in RowsOf(b) : n >= proc[p].next /\ n < proc[p].next + Chunk}
             taken == {Key[<<b, m>>] : m \in {k \in RowsOf(b) : rows[b][k] # "NONE"}}
             fresh == {n \in here : /\ Key[<<b, n>>] \notin taken
                                    /\ \A m \in here : m < n => Key[<<b, m>>] # Key[<<b, n>>]}
             new == [n \in RowNos |->
                        IF n \notin fresh THEN rows[b][n]
                        ELSE IF IsWrong(b, n, proc[p].known) THEN "ERROR" ELSE "VALID"]
  <1>1. rows' = [rows EXCEPT ![b] = new]
    BY DEF InsertRows
  <1>2. \A n \in fresh : rows[b][n] = "NONE"
    OBVIOUS
  <1> HIDE DEF fresh
  <1>3. \A n \in RowNos : \/ new[n] = rows[b][n]
                          \/ rows[b][n] = "NONE" /\ new[n] \in {"VALID", "ERROR"}
    BY <1>2
  <1> HIDE DEF new
  <1>4. QED
    BY <1>1, <1>3 DEF StatusTyped

LEMMA Marked ==
    ASSUME StatusTyped, NEW b \in Batches, NEW set, Mark(b, set)
    PROVE  /\ \A c \in Batches : c # b => rows'[c] = rows[c]
           /\ \A n \in RowNos :
                 rows'[b][n] = IF n \in set THEN "COMMITTED" ELSE rows[b][n]
  BY DEF StatusTyped, Mark

LEMMA ImportedGrows ==
    ASSUME StatusTyped, ProcsTyped, NEW p \in Procs, NEW b \in Batches,
           At(p, "groups", b), proc[p].rows # {}, Mark(b, GroupAt(p, b) \cap proc[p].alive)
    PROVE  Imported \subseteq Imported' /\
           \A r \in Imported' \ Imported : Number[r] = NumberAt(p, b)
  <1>1. ASSUME NEW r \in Rows
        PROVE  /\ r[1] \in Batches /\ r[2] \in RowNos /\ r = <<r[1], r[2]>>
               /\ r \in Imported <=> rows[r[1]][r[2]] = "COMMITTED"
               /\ r \in Imported' <=> rows'[r[1]][r[2]] = "COMMITTED"
    BY RowsAreNumbered DEF Imported
  <1>2. /\ \A c \in Batches : c # b => rows'[c] = rows[c]
        /\ \A n \in RowNos :
              rows'[b][n] = IF n \in GroupAt(p, b) \cap proc[p].alive THEN "COMMITTED"
                            ELSE rows[b][n]
    BY Marked
  <1>3. \A n \in GroupAt(p, b) : Number[<<b, n>>] = NumberAt(p, b)
    BY GroupInHand
  <1>4. ASSUME NEW r \in Rows
        PROVE  /\ r \in Imported => r \in Imported'
               /\ r \in Imported' /\ r \notin Imported => Number[r] = NumberAt(p, b)
    BY <1>1, <1>2, <1>3
  <1>5. Imported \subseteq Rows /\ Imported' \subseteq Rows
    BY DEF Imported
  <1>6. QED
    BY <1>4, <1>5

LEMMA RegisterStep ==
    ASSUME Typing, Booked, [Next]_vars
    PROVE  Register!Next \/ UNCHANGED <<Entered, Imported>>
  <1> USE Typings
  <1>1. ASSUME UNCHANGED orders
        PROVE  UNCHANGED Entered
    BY <1>1 DEF Entered
  <1>2. ASSUME UNCHANGED rows
        PROVE  UNCHANGED Imported
    BY <1>2 DEF Imported
  <1>3. ASSUME NEW p \in Procs, NEW b \in Batches, DeleteRows(p, b)
        PROVE  Register!Forget
    <2>1. UNCHANGED Entered
      BY <1>1, <1>3 DEF DeleteRows
    <2>2. \A r \in Rows : rows'[r[1]][r[2]] = "COMMITTED" => rows[r[1]][r[2]] = "COMMITTED"
      <3>1. rows' = [rows EXCEPT ![b] = NoRows]
        BY <1>3 DEF DeleteRows
      <3>2. \A n \in RowNos : NoRows[n] = "NONE"
        BY DEF NoRows
      <3>3. QED
        BY <3>1, <3>2, RowsAreNumbered DEF StatusTyped
    <2>3. Imported' \subseteq Imported
      BY <2>2 DEF Imported
    <2>4. QED
      BY <2>1, <2>3 DEF Register!Forget, Entered, Imported
  <1>4. ASSUME NEW p \in Procs, NEW b \in Batches, InsertRows(p, b)
        PROVE  UNCHANGED <<Entered, Imported>>
    <2>1. UNCHANGED Entered
      BY <1>1, <1>4 DEF InsertRows
    <2>2. \A r \in Rows : rows'[r[1]][r[2]] = "COMMITTED" <=> rows[r[1]][r[2]] = "COMMITTED"
      BY <1>4, Inserted, RowsAreNumbered
    <2>3. QED
      BY <2>1, <2>2 DEF Imported
  <1>5. ASSUME NEW p \in Procs, NEW b \in Batches, MarkGroup(p, b)
        PROVE  \E m \in Numbers : Register!Acknowledge(m)
    <2>1. /\ At(p, "groups", b) /\ proc[p].rows # {}
          /\ Mark(b, GroupAt(p, b) \cap proc[p].alive) /\ UNCHANGED orders
          /\ Addressed(b, GroupAt(p, b), proc[p].known)
          /\ NumberAt(p, b) \in proc[p].numbers
      BY <1>5 DEF MarkGroup, GroupAt, NumberAt, FirstAt
    <2>2. NumberAt(p, b) \in Numbers
      BY <2>1, GroupInHand
    <2>3. Entered[NumberAt(p, b)] # {} /\ UNCHANGED Entered
      BY <2>1, <2>2, <1>1 DEF Booked, Entered
    <2>4. Imported \subseteq Imported' /\
          \A r \in Imported' \ Imported : Number[r] = NumberAt(p, b)
      BY <2>1, ImportedGrows
    <2>5. Imported' \ Imported \subseteq Register!OfNumber(NumberAt(p, b))
      BY <2>4 DEF Register!OfNumber, Register!Rows, Imported, Number
    <2>6. PICK m \in Numbers : m = NumberAt(p, b)
      BY <2>2
    <2>7. Register!Acknowledge(m)
      BY <2>3, <2>4, <2>5, <2>6 DEF Register!Acknowledge, Entered, Imported
    <2>8. QED
      BY <2>7
  <1>6. ASSUME NEW p \in Procs, NEW b \in Batches, PostGroup(p, b),
               ~ UNCHANGED <<orders, rows>>
        PROVE  \E m \in Numbers : Register!Register(m)
    <2> DEFINE number == NumberAt(p, b)
               o == [customer |-> Customer[FirstAt(p, b)], lines |-> LinesAt(p, b)]
    <2>1. /\ orders[number] = NoOrder /\ orders' = [orders EXCEPT ![number] = o]
          /\ number \in Numbers /\ LinesAt(p, b) # {}
          /\ At(p, "groups", b) /\ proc[p].rows # {}
          /\ Mark(b, GroupAt(p, b) \cap proc[p].alive)
      BY <1>6, PostsGroup
    <2>2. Imported \subseteq Imported' /\ \A r \in Imported' \ Imported : Number[r] = number
      BY <2>1, ImportedGrows
    <2>3. Imported' \ Imported \subseteq Register!OfNumber(number)
      BY <2>2 DEF Register!OfNumber, Register!Rows, Imported, Number
    <2>4. /\ {l.row : l \in LinesAt(p, b)} # {}
          /\ {l.row : l \in LinesAt(p, b)} \subseteq Register!OfNumber(number)
      <3>1. ASSUME NEW l \in LinesAt(p, b)
            PROVE  l.row \in Rows /\ Number[l.row] = number
        <4>1. PICK n \in Billable(b, GroupAt(p, b)) :
                   l = [row |-> <<b, n>>, qty |-> Quantity[<<b, n>>]]
          BY DEF LinesAt
        <4>2. QED
          BY <2>1, <4>1, GroupInHand DEF Billable
      <3>2. QED
        BY <2>1, <3>1 DEF Register!OfNumber, Register!Rows, Number
    <2>5. Entered[number] = {} /\ Entered'[number] = {l.row : l \in LinesAt(p, b)}
      <3>1. orders'[number].lines = LinesAt(p, b)
        BY <2>1 DEF OrdersTyped
      <3>2. QED
        BY <2>1, <3>1 DEF Entered, NoOrder
    <2>6. Entered' = [Entered EXCEPT ![number] = Entered'[number]]
      <3>1. \A m \in Numbers : m # number => orders'[m] = orders[m]
        BY <2>1 DEF OrdersTyped
      <3>2. \A m \in Numbers : m # number => Entered'[m] = Entered[m]
        BY <3>1 DEF Entered
      <3>3. DOMAIN Entered = Numbers /\ Entered' = [m \in Numbers |-> Entered'[m]]
        BY DEF Entered
      <3>4. QED
        BY <3>2, <3>3, <2>1
    <2>7. PICK m \in Numbers : m = number
      BY <2>1
    <2>8. Register!Register(m)
      BY <2>2, <2>3, <2>4, <2>5, <2>6, <2>7 DEF Register!Register, Entered, Imported
    <2>9. QED
      BY <2>8
  <1>7. ASSUME UNCHANGED rows
        PROVE  UNCHANGED Imported
    BY <1>2, <1>7
  <1>8. ASSUME NEW p \in Procs, NEW b \in Batches, PostGroup(p, b), UNCHANGED <<orders, rows>>
        PROVE  UNCHANGED <<Entered, Imported>>
    BY <1>1, <1>2, <1>8
  <1>9. ASSUME UNCHANGED rows
        PROVE  UNCHANGED <<Entered, Imported>> \/ \E p \in Procs, b \in Batches : PostGroup(p, b)
    BY <1>1, <1>2, <1>9, OrdersStep
  <1>10. QED
    BY <1>3, <1>4, <1>5, <1>6, <1>8, <1>9, RowsStep DEF Register!Next

(* However imports interleave, die and are run again, the orders they leave *)
(* are a register of invoices: each number once, whole, never altered, and  *)
(* a row counts as imported only when its number is registered              *)
(* (imports.service.ts commitSalesRows).                                    *)
THEOREM RegisterImplemented == Spec => RegisterKept
  <1>1. Init => Typing /\ Booked /\ Register!Init
    <2>1. Init => Booked
      BY DEF Init, ImportInit, Booked, NoOrder, Idle
    <2>2. ASSUME Init
          PROVE  Register!Init
      <3>1. \A m \in Numbers : {l.row : l \in orders[m].lines} = {}
        BY <2>2 DEF Init, ImportInit, NoOrder
      <3>2. \A r \in Rows : rows[r[1]][r[2]] # "COMMITTED"
        BY <2>2, RowsAreNumbered DEF Init, ImportInit, NoRows
      <3>3. QED
        BY <3>1, <3>2 DEF Register!Init
    <2>3. QED
      BY <2>1, <2>2, InitTyped
  <1>2. Typing /\ Booked /\ [Next]_vars => Typing' /\ Booked'
    BY NextTyped, BookedNext, Typings
  <1>3. Typing /\ Booked /\ [Next]_vars =>
            [Register!Next]_<<[m \in Numbers |-> {l.row : l \in orders[m].lines}],
                              {r \in Rows : rows[r[1]][r[2]] = "COMMITTED"}>>
    BY RegisterStep DEF Entered, Imported
  <1>4. QED
    BY <1>1, <1>2, <1>3, PTL DEF Spec, RegisterKept, Register!Spec

-----------------------------------------------------------------------------
(* What the other steps do with a process.                                  *)

Others(p) == \A q \in Procs : q # p => proc'[q] = proc[q]

LEMMA Stops ==
    ASSUME ProcsTyped, NEW p \in Procs, Stop(p)
    PROVE  Others(p) /\ proc'[p] = Idle
  BY Moved DEF Stop, Others

LEMMA Begins ==
    ASSUME ProcsTyped, NEW p \in Procs, NEW b, NEW step, NEW flow, Begin(p, step, flow, b)
    PROVE  /\ Others(p)
           /\ proc'[p].step = step /\ proc'[p].flow = flow /\ proc'[p].batch = {b}
           /\ proc'[p].known = {} /\ proc'[p].next = 1 /\ proc'[p].rows = {}
           /\ proc'[p].alive = {} /\ proc'[p].numbers = {}
  <1> DEFINE v == [Idle EXCEPT !.step = step, !.flow = flow, !.batch = {b}]
  <1>1. /\ v.step = step /\ v.flow = flow /\ v.batch = {b} /\ v.known = {} /\ v.next = 1
        /\ v.rows = {} /\ v.alive = {} /\ v.numbers = {}
    BY DEF Idle
  <1>2. proc' = [proc EXCEPT ![p] = v]
    BY DEF Begin
  <1> HIDE DEF v
  <1>3. QED
    BY <1>1, <1>2, Moved DEF Others

LEMMA Goes ==
    ASSUME ProcsTyped, NEW p \in Procs, NEW step, Go(p, step)
    PROVE  /\ Others(p)
           /\ proc'[p].step = step
           /\ proc'[p].flow = proc[p].flow /\ proc'[p].batch = proc[p].batch
           /\ proc'[p].known = proc[p].known /\ proc'[p].next = proc[p].next
           /\ proc'[p].rows = proc[p].rows /\ proc'[p].alive = proc[p].alive
           /\ proc'[p].numbers = proc[p].numbers
  <1> DEFINE v == [proc[p] EXCEPT !.step = step]
  <1>1. /\ v.step = step
        /\ v.flow = proc[p].flow /\ v.batch = proc[p].batch
        /\ v.known = proc[p].known /\ v.next = proc[p].next
        /\ v.rows = proc[p].rows /\ v.alive = proc[p].alive
        /\ v.numbers = proc[p].numbers
    BY DEF ProcsTyped, Housed, Processes
  <1>2. proc' = [proc EXCEPT ![p] = v]
    BY DEF Go
  <1> HIDE DEF v
  <1>3. QED
    BY <1>1, <1>2, Moved DEF Others

LEMMA LooksUp ==
    ASSUME ProcsTyped, NEW p \in Procs, NEW b \in Batches, Lookup(p, b)
    PROVE  /\ Others(p)
           /\ proc'[p].step = "parsing"
           /\ proc'[p].known = Known
           /\ proc'[p].flow = proc[p].flow /\ proc'[p].batch = proc[p].batch
           /\ proc'[p].next = proc[p].next /\ proc'[p].rows = proc[p].rows
           /\ proc'[p].alive = proc[p].alive /\ proc'[p].numbers = proc[p].numbers
  <1> DEFINE v == [proc[p] EXCEPT !.step = "parsing", !.known = Known]
  <1>1. /\ v.step = "parsing"
        /\ v.known = Known
        /\ v.flow = proc[p].flow /\ v.batch = proc[p].batch
        /\ v.next = proc[p].next /\ v.rows = proc[p].rows
        /\ v.alive = proc[p].alive /\ v.numbers = proc[p].numbers
    BY DEF ProcsTyped, Housed, Processes
  <1>2. proc' = [proc EXCEPT ![p] = v]
    BY DEF Lookup
  <1> HIDE DEF v
  <1>3. QED
    BY <1>1, <1>2, Moved DEF Others

LEMMA ReadsCustomers ==
    ASSUME ProcsTyped, NEW p \in Procs, NEW b \in Batches, ReadCustomers(p, b)
    PROVE  /\ Others(p)
           /\ proc'[p].step = "numbers"
           /\ proc'[p].known = Known
           /\ proc'[p].flow = proc[p].flow /\ proc'[p].batch = proc[p].batch
           /\ proc'[p].next = proc[p].next /\ proc'[p].rows = proc[p].rows
           /\ proc'[p].alive = proc[p].alive /\ proc'[p].numbers = proc[p].numbers
  <1> DEFINE v == [proc[p] EXCEPT !.step = "numbers", !.known = Known]
  <1>1. /\ v.step = "numbers"
        /\ v.known = Known
        /\ v.flow = proc[p].flow /\ v.batch = proc[p].batch
        /\ v.next = proc[p].next /\ v.rows = proc[p].rows
        /\ v.alive = proc[p].alive /\ v.numbers = proc[p].numbers
    BY DEF ProcsTyped, Housed, Processes
  <1>2. proc' = [proc EXCEPT ![p] = v]
    BY DEF ReadCustomers
  <1> HIDE DEF v
  <1>3. QED
    BY <1>1, <1>2, Moved DEF Others

LEMMA ReadsNumbers ==
    ASSUME ProcsTyped, NEW p \in Procs, NEW b \in Batches, ReadNumbers(p, b)
    PROVE  /\ Others(p)
           /\ proc'[p].step = "groups"
           /\ proc'[p].numbers = {m \in Numbers : orders[m] # NoOrder}
           /\ proc'[p].flow = proc[p].flow /\ proc'[p].batch = proc[p].batch
           /\ proc'[p].known = proc[p].known /\ proc'[p].next = proc[p].next
           /\ proc'[p].rows = proc[p].rows /\ proc'[p].alive = proc[p].alive
  <1> DEFINE v == [proc[p] EXCEPT !.step = "groups",
                             !.numbers = {m \in Numbers : orders[m] # NoOrder}]
  <1>1. /\ v.step = "groups"
        /\ v.numbers = {m \in Numbers : orders[m] # NoOrder}
        /\ v.flow = proc[p].flow /\ v.batch = proc[p].batch
        /\ v.known = proc[p].known /\ v.next = proc[p].next
        /\ v.rows = proc[p].rows /\ v.alive = proc[p].alive
    BY DEF ProcsTyped, Housed, Processes
  <1>2. proc' = [proc EXCEPT ![p] = v]
    BY DEF ReadNumbers
  <1> HIDE DEF v
  <1>3. QED
    BY <1>1, <1>2, Moved DEF Others

LEMMA ReadsRows ==
    ASSUME ProcsTyped, NEW p \in Procs, NEW b \in Batches, ReadRows(p, b)
    PROVE  /\ Others(p)
           /\ proc'[p].step = "customers"
           /\ proc'[p].rows = {n \in RowsOf(b) : rows[b][n] = "VALID"}
           /\ proc'[p].alive = {n \in RowsOf(b) : rows[b][n] = "VALID"}
           /\ proc'[p].flow = proc[p].flow /\ proc'[p].batch = proc[p].batch
           /\ proc'[p].known = proc[p].known /\ proc'[p].next = proc[p].next
           /\ proc'[p].numbers = proc[p].numbers
  <1> DEFINE v == [proc[p] EXCEPT !.step = "customers", !.rows = {n \in RowsOf(b) : rows[b][n] = "VALID"},
                             !.alive = {n \in RowsOf(b) : rows[b][n] = "VALID"}]
  <1>1. /\ v.step = "customers"
        /\ v.rows = {n \in RowsOf(b) : rows[b][n] = "VALID"}
        /\ v.alive = {n \in RowsOf(b) : rows[b][n] = "VALID"}
        /\ v.flow = proc[p].flow /\ v.batch = proc[p].batch
        /\ v.known = proc[p].known /\ v.next = proc[p].next
        /\ v.numbers = proc[p].numbers
    BY DEF ProcsTyped, Housed, Processes
  <1>2. proc' = [proc EXCEPT ![p] = v]
    BY DEF ReadRows
  <1> HIDE DEF v
  <1>3. QED
    BY <1>1, <1>2, Moved DEF Others

LEMMA Inserts ==
    ASSUME ProcsTyped, NEW p \in Procs, NEW b \in Batches, InsertRows(p, b)
    PROVE  /\ Others(p)
           /\ proc[p].step = "insert" /\ proc[p].batch = {b}
           /\ proc'[p].step \in {"insert", "settle"} /\ proc'[p].batch = {b}
           /\ proc'[p].flow = proc[p].flow /\ proc'[p].known = proc[p].known
           /\ proc'[p].rows = proc[p].rows /\ proc'[p].alive = proc[p].alive
           /\ proc'[p].numbers = proc[p].numbers
  <1> DEFINE v == IF proc[p].next + Chunk > Len(Files[b])
                  THEN [proc[p] EXCEPT !.step = "settle"]
                  ELSE [proc[p] EXCEPT !.next = @ + Chunk]
  <1>1. proc[p].step = "insert" /\ proc[p].batch = {b}
    BY DEF InsertRows, At
  <1>2. /\ v.step \in {"insert", "settle"} /\ v.batch = proc[p].batch
        /\ v.flow = proc[p].flow /\ v.known = proc[p].known /\ v.rows = proc[p].rows
        /\ v.alive = proc[p].alive /\ v.numbers = proc[p].numbers
    BY <1>1 DEF ProcsTyped, Housed, Processes
  <1>3. proc' = [proc EXCEPT ![p] = v]
    BY DEF InsertRows
  <1> HIDE DEF v
  <1>4. QED
    BY <1>1, <1>2, <1>3, Moved DEF Others

-----------------------------------------------------------------------------
(* Who owns a parse.                                                        *)

Parsers == {"add", "lookup", "parsing", "delete", "insert", "settle"}
Holds(p, b) == proc[p].batch = {b} /\ proc[p].step \in Parsers
OwnedAt(b) ==
    batch[b] \in {"UPLOADED", "PARSING"} /\ b \notin lost =>
        b \in ParseJobs \/ \E p \in Procs : Holds(p, b)

LEMMA OwnedEach == ParseOwned <=> \A b \in Batches : OwnedAt(b)
  BY DEF ParseOwned, OwnedAt, ParseJobs, Holds, Parsers

(* Of a batch a process does not work on, nothing changes.                  *)
LEMMA OwnedElsewhere ==
    ASSUME NEW p \in Procs, NEW c \in Batches, OwnedAt(c), Others(p), ~Holds(p, c),
           batch'[c] = batch[c], c \in ParseJobs => c \in ParseJobs', lost \subseteq lost'
    PROVE  OwnedAt(c)'
  BY DEF OwnedAt, Others, Holds

(* A process that begins, or ends, with a batch that is not another's.      *)
LEMMA OwnedStep ==
    ASSUME NEW p \in Procs, NEW b \in Batches, \A c \in Batches : OwnedAt(c), Others(p),
           \A c \in Batches : c # b => ~Holds(p, c),
           \A c \in Batches : c # b => batch'[c] = batch[c],
           \A c \in Batches : c # b /\ c \in ParseJobs => c \in ParseJobs', lost \subseteq lost',
           \/ proc'[p].batch = {b} /\ proc'[p].step \in Parsers
           \/ ~Holds(p, b) /\ batch'[b] = batch[b] /\ ParseJobs \subseteq ParseJobs'
           \/ batch'[b] \notin {"UPLOADED", "PARSING"}
           \/ b \in ParseJobs' \/ b \in lost'
    PROVE  \A c \in Batches : OwnedAt(c)'
  <1>1. ASSUME NEW c \in Batches, c # b
        PROVE  OwnedAt(c)'
    BY <1>1, OwnedElsewhere
  <1>2. OwnedAt(b)'
    <2>1. CASE ~Holds(p, b) /\ batch'[b] = batch[b] /\ ParseJobs \subseteq ParseJobs'
      BY <2>1, OwnedElsewhere
    <2>2. CASE ~(~Holds(p, b) /\ batch'[b] = batch[b] /\ ParseJobs \subseteq ParseJobs')
      BY <2>2 DEF OwnedAt, Holds
    <2>3. QED
      BY <2>1, <2>2
  <1>3. QED
    BY <1>1, <1>2

LEMMA OwnedNext ==
    ASSUME ProcsTyped, StatusTyped, \A b \in Batches : OwnedAt(b), [Next]_vars
    PROVE  \A b \in Batches : OwnedAt(b)'
  <1> DEFINE Owned == \A b \in Batches : OwnedAt(b)'
  <1>i. ASSUME NEW p \in Procs, proc[p].step = "idle"
        PROVE  \A c \in Batches : ~Holds(p, c)
    BY <1>i DEF Holds, Parsers
  <1>o. ASSUME NEW p \in Procs, NEW b \in Batches, proc[p].batch = {b}
        PROVE  \A c \in Batches : c # b => ~Holds(p, c)
    BY <1>o DEF Holds
  <1>q. UNCHANGED queue => UNCHANGED ParseJobs
    BY DEF ParseJobs
  <1>1. ASSUME UNCHANGED imports
        PROVE  Owned
    BY <1>1 DEF imports, OwnedAt, Holds
  <1>2. ASSUME NEW p \in Procs, Stage(p)
        PROVE  Owned
    <2>1. Staged \in Batches /\ proc[p].step = "idle"
      BY <1>2, CadegAssumption DEF Stage, Idle
    <2>2. \A c \in Batches : c # Staged => batch'[c] = batch[c]
      BY <1>2 DEF Stage, StatusTyped
    <2>3. Others(p) /\ proc'[p].batch = {Staged} /\ proc'[p].step = "add"
      BY <1>2, Begins DEF Stage
    <2>4. UNCHANGED <<ParseJobs, lost>>
      BY <1>2, <1>q DEF Stage
    <2>5. QED
      BY <1>i, <2>1, <2>2, <2>3, <2>4, OwnedStep DEF Parsers
  <1>3. ASSUME NEW p \in Procs, NEW b \in Batches, CreateBatch(p, b)
        PROVE  Owned
    <2>1. proc[p].step = "idle" /\ \A c \in Batches : c # b => batch'[c] = batch[c]
      BY <1>3 DEF CreateBatch, Start, StatusTyped
    <2>2. Others(p) /\ proc'[p].batch = {b} /\ proc'[p].step = "add"
      BY <1>3, Begins DEF CreateBatch
    <2>3. UNCHANGED <<ParseJobs, lost>>
      BY <1>3, <1>q DEF CreateBatch
    <2>4. QED
      BY <1>i, <2>1, <2>2, <2>3, OwnedStep DEF Parsers
  <1>4. ASSUME NEW p \in Procs, NEW b \in Batches, CommitBatch(p, b)
        PROVE  Owned
    <2>1. proc[p].step = "idle"
      BY <1>4 DEF CommitBatch, Start
    <2>2. Others(p)
      BY <1>4, Begins DEF CommitBatch
    <2>3. UNCHANGED <<batch, ParseJobs, lost>>
      BY <1>4, <1>q DEF CommitBatch
    <2>4. QED
      BY <1>i, <2>1, <2>2, <2>3, OwnedElsewhere
  <1>5. ASSUME NEW p \in Procs, NEW b \in Batches, NEW flow, Ingest(p, b, flow)
        PROVE  Owned
    <2>1. proc[p].step = "idle" /\ UNCHANGED <<ParseJobs, lost>>
      BY <1>5, <1>q DEF Ingest, Start
    <2>2. CASE Begin(p, "lookup", flow, b)
      <3>1. \A c \in Batches : c # b => batch'[c] = batch[c]
        BY <1>5 DEF Ingest, StatusTyped
      <3>2. Others(p) /\ proc'[p].batch = {b} /\ proc'[p].step = "lookup"
        BY <2>2, Begins
      <3>3. QED
        BY <1>i, <2>1, <3>1, <3>2, OwnedStep DEF Parsers
    <2>3. CASE Begin(p, "fresh", flow, b) /\ UNCHANGED batch
      <3>1. Others(p)
        BY <2>3, Begins
      <3>2. QED
        BY <1>i, <2>1, <2>3, <3>1, OwnedElsewhere
    <2>4. QED
      BY <1>5, <2>2, <2>3 DEF Ingest
  <1>6. ASSUME NEW p \in Procs, NEW b \in Batches, TakeParse(p, b)
        PROVE  Owned
    <2>1. proc[p].step = "idle" /\ UNCHANGED <<batch, lost>>
      BY <1>6 DEF TakeParse
    <2>2. Others(p) /\ proc'[p].batch = {b} /\ proc'[p].step = "lookup"
      BY <1>6, Begins DEF TakeParse
    <2>3. \A c \in Batches : c # b /\ c \in ParseJobs => c \in ParseJobs'
      BY <1>6 DEF TakeParse, ParseJobs
    <2>4. QED
      BY <1>i, <2>1, <2>2, <2>3, OwnedStep DEF Parsers
  <1>7. ASSUME NEW p \in Procs, NEW b \in Batches, QueueParse(p, b)
        PROVE  Owned
    <2>1. proc[p].batch = {b} /\ UNCHANGED <<batch, lost>> /\ Others(p)
      BY <1>7, Stops DEF QueueParse, At
    <2>2. ParseJobs \subseteq ParseJobs' /\ b \in ParseJobs'
      BY <1>7 DEF QueueParse, ParseJobs
    <2>3. QED
      BY <1>o, <2>1, <2>2, OwnedStep
  <1>8. ASSUME NEW p \in Procs, NEW b \in Batches, Lookup(p, b)
        PROVE  Owned
    <2>1. proc[p].batch = {b} /\ UNCHANGED <<batch, ParseJobs, lost>>
      BY <1>8, <1>q DEF Lookup, At
    <2>2. Others(p) /\ proc'[p].batch = {b} /\ proc'[p].step = "parsing"
      BY <1>8, <2>1, LooksUp
    <2>3. QED
      BY <1>o, <2>1, <2>2, OwnedStep DEF Parsers
  <1>9. ASSUME NEW p \in Procs, NEW b \in Batches, MarkParsing(p, b)
        PROVE  Owned
    <2>1. proc[p].batch = {b} /\ UNCHANGED <<ParseJobs, lost>>
      BY <1>9, <1>q DEF MarkParsing, At
    <2>2. Others(p) /\ proc'[p].batch = {b} /\ proc'[p].step = "delete"
      BY <1>9, <2>1, Goes DEF MarkParsing
    <2>3. \A c \in Batches : c # b => batch'[c] = batch[c]
      BY <1>9 DEF MarkParsing, StatusTyped
    <2>4. QED
      BY <1>o, <2>1, <2>2, <2>3, OwnedStep DEF Parsers
  <1>10. ASSUME NEW p \in Procs, NEW b \in Batches, DeleteRows(p, b)
         PROVE  Owned
    <2>1. UNCHANGED <<batch, ParseJobs, lost>>
      BY <1>10, <1>q DEF DeleteRows
    <2>2. \A q \in Procs : /\ proc'[q].batch = proc[q].batch
                           /\ proc'[q].step \in Parsers <=> proc[q].step \in Parsers
      BY <1>10, DeleteRowsDoes DEF Parsers
    <2>3. QED
      BY <2>1, <2>2 DEF OwnedAt, Holds
  <1>11. ASSUME NEW p \in Procs, NEW b \in Batches, InsertRows(p, b)
         PROVE  Owned
    <2>1. UNCHANGED <<batch, ParseJobs, lost>>
      BY <1>11, <1>q DEF InsertRows
    <2>2. QED
      BY <1>11, <1>o, <2>1, Inserts, OwnedStep DEF Parsers
  <1>12. ASSUME NEW p \in Procs, NEW b \in Batches, Settle(p, b)
         PROVE  Owned
    <2>1. proc[p].batch = {b} /\ UNCHANGED <<ParseJobs, lost>>
      BY <1>12, <1>q DEF Settle, At
    <2>2. Others(p)
      BY <1>12, Stops, Begins DEF Settle
    <2>3. /\ \A c \in Batches : c # b => batch'[c] = batch[c]
          /\ batch'[b] \in {"FAILED", "READY_TO_COMMIT"}
      BY <1>12 DEF Settle, StatusTyped
    <2>4. QED
      BY <1>o, <2>1, <2>2, <2>3, OwnedStep
  <1>13. ASSUME NEW p \in Procs, NEW b \in Batches, FinishCommit(p, b)
         PROVE  Owned
    <2>1. proc[p].batch = {b} /\ UNCHANGED <<ParseJobs, lost>>
      BY <1>13, <1>q DEF FinishCommit, At
    <2>2. Others(p)
      BY <1>13, Stops DEF FinishCommit
    <2>3. /\ \A c \in Batches : c # b => batch'[c] = batch[c]
          /\ batch'[b] = "COMMITTED"
      BY <1>13 DEF FinishCommit, StatusTyped
    <2>4. QED
      BY <1>o, <2>1, <2>2, <2>3, OwnedStep
  <1>14. ASSUME NEW p \in Procs, NEW b \in Batches, proc[p].step \notin Parsers, Others(p),
                UNCHANGED <<batch, queue, lost>>
         PROVE  Owned
    <2>1. \A c \in Batches : ~Holds(p, c)
      BY <1>14 DEF Holds
    <2>2. QED
      BY <1>14, <1>q, <2>1, OwnedElsewhere
  <1>15. ASSUME NEW p \in Procs, NEW b \in Batches,
                \/ Reread(p, b) \/ Acknowledge(p, b)
                \/ ReadRows(p, b) \/ ReadCustomers(p, b) \/ ReadNumbers(p, b)
                \/ SkipGroup(p, b) \/ MarkGroup(p, b) \/ PostGroup(p, b)
         PROVE  Owned
    <2>1. proc[p].step \notin Parsers /\ UNCHANGED <<batch, queue, lost>>
      BY <1>15 DEF Reread, Acknowledge, ReadRows, ReadCustomers, ReadNumbers, SkipGroup,
         MarkGroup, PostGroup, At, Parsers
    <2>2. CASE Reread(p, b) \/ Acknowledge(p, b)
      BY <2>2, Stops, Goes, <1>14, <2>1 DEF Reread, Acknowledge
    <2>3. CASE ReadRows(p, b) \/ ReadCustomers(p, b) \/ ReadNumbers(p, b)
      BY <2>3, <1>14, <2>1, ReadsRows, ReadsCustomers, ReadsNumbers
    <2>4. CASE SkipGroup(p, b) \/ MarkGroup(p, b) \/ PostGroup(p, b)
      BY <2>4, <1>14, <2>1, LeavesGroup, PostsGroup DEF Others
    <2>5. QED
      BY <1>15, <2>2, <2>3, <2>4
  <1>16. ASSUME NEW p \in Procs, Crash(p) \/ ParseThrows(p)
         PROVE  Owned
    <2>1. PICK b \in Batches : proc[p].batch = {b}
      BY <1>16 DEF Crash, ParseThrows, ProcsTyped, Housed
    <2>2. Others(p) /\ UNCHANGED batch
      BY <1>16, Stops DEF Crash, ParseThrows
    <2>3. /\ ParseJobs \subseteq ParseJobs' /\ lost \subseteq lost'
          /\ b \in ParseJobs' \/ b \in lost'
      BY <1>16, <2>1 DEF Crash, ParseThrows, ParseJobs
    <2>4. QED
      BY <1>o, <2>1, <2>2, <2>3, OwnedStep
  <1> HIDE DEF Owned
  <1>17. QED
    BY ImportSteps, <1>1, <1>2, <1>3, <1>4, <1>5, <1>6, <1>7, <1>8, <1>9, <1>10, <1>11,
       <1>12, <1>13, <1>15, <1>16 DEF Proceed, Owned

(* However workers, scripts and requests interleave and die, a batch that   *)
(* is not parsed to its end is being parsed or waits in the queue, unless   *)
(* its process died where nothing starts it again, or its job threw and had *)
(* no attempt left (imports.service.ts createBatch and parseBatchJob, the   *)
(* queue's single redelivery of a job that stalled).                        *)
THEOREM ParseNeverForgotten == Spec => []ParseOwned
  <1>1. Init => Typing /\ \A b \in Batches : OwnedAt(b)
    BY InitTyped DEF Init, ImportInit, OwnedAt
  <1>2. Typing /\ (\A b \in Batches : OwnedAt(b)) /\ [Next]_vars =>
            Typing' /\ \A b \in Batches : OwnedAt(b)'
    BY NextTyped, OwnedNext, Typings
  <1>3. (\A b \in Batches : OwnedAt(b)) => ParseOwned
    BY OwnedEach
  <1> DEFINE Inv == Typing /\ \A b \in Batches : OwnedAt(b)
  <1>4. Inv /\ [Next]_vars => Inv'
    BY <1>2
  <1>5. Init => Inv
    BY <1>1
  <1>6. Inv => ParseOwned
    BY <1>3
  <1> HIDE DEF Inv
  <1>7. QED
    BY <1>4, <1>5, <1>6, PTL DEF Spec

-----------------------------------------------------------------------------
(* Parses and commits.  A batch is parsed when its rows were written and,   *)
(* of those that were parsed only once, nobody writes any more: a commit    *)
(* reads no batch that is not.                                              *)

Writing == {"insert", "settle"}
Committing == {"check", "rows", "customers", "numbers", "groups"}
Closed == {"READY_TO_COMMIT", "COMMITTED"}
Writes(p, b) == proc[p].batch = {b} /\ proc[p].step \in Writing
Parsed(b) == parses[b] # 0 /\ (parses[b] = 1 => \A p \in Procs : ~Writes(p, b))

Phase(b) ==
    /\ parses[b] = 0 => \A p \in Procs : ~Writes(p, b)
    /\ parses[b] = 1 => \A p, q \in Procs : Writes(p, b) /\ Writes(q, b) => p = q
    /\ batch[b] \in Closed => Parsed(b)
    /\ \A p \in Procs : proc[p].batch = {b} /\ proc[p].step \in Committing => Parsed(b)

(* A step that begins no writing: what was parsed stays so, and only a      *)
(* parsed batch is closed or committed.                                     *)
LEMMA PhaseKept ==
    ASSUME NEW p \in Procs, NEW b \in Batches, Phase(b), Others(p), UNCHANGED parses,
           Writes(p, b)' => Writes(p, b),
           batch'[b] \in Closed => batch[b] \in Closed \/ Parsed(b)',
           proc'[p].batch = {b} /\ proc'[p].step \in Committing => Parsed(b) \/ Parsed(b)'
    PROVE  Phase(b)'
  <1>1. \A q \in Procs : Writes(q, b)' => Writes(q, b)
    BY DEF Others, Writes
  <1>2. Parsed(b) => Parsed(b)'
    BY <1>1 DEF Parsed
  <1>3. \A q \in Procs :
            proc'[q].batch = {b} /\ proc'[q].step \in Committing => Parsed(b)'
    BY <1>2 DEF Phase, Others
  <1>4. QED
    BY <1>1, <1>2, <1>3 DEF Phase

LEMMA PhaseNext ==
    ASSUME ProcsTyped, StatusTyped, RestTyped, \A b \in Batches : Phase(b), [Next]_vars
    PROVE  \A b \in Batches : Phase(b)'
  <1> DEFINE Ok == \A c \in Batches : Phase(c)'
  <1>1. ASSUME UNCHANGED imports
        PROVE  Ok
    BY <1>1 DEF imports, Phase, Parsed, Writes
  <1>2. ASSUME NEW p \in Procs, Others(p), UNCHANGED <<batch, parses>>,
               proc'[p].step \notin Writing, proc'[p].step \notin Committing
        PROVE  Ok
    BY <1>2, PhaseKept DEF Writes
  <1>3. ASSUME NEW p \in Procs, NEW b \in Batches, Others(p), UNCHANGED parses,
               proc'[p].step \notin Writing, proc'[p].step \notin Committing,
               \A c \in Batches : c # b => batch'[c] = batch[c],
               batch'[b] \notin Closed \/ Parsed(b)'
        PROVE  Ok
    BY <1>3, PhaseKept DEF Writes
  <1>4. ASSUME NEW p \in Procs, NEW b \in Batches, Others(p), UNCHANGED <<batch, parses>>,
               proc'[p].step \in Committing, proc'[p].batch = {b}, Parsed(b)
        PROVE  Ok
    <2>1. \A c \in Batches : ~Writes(p, c)'
      BY <1>4 DEF Writes, Committing, Writing
    <2>2. \A c \in Batches : proc'[p].batch = {c} => c = b
      BY <1>4
    <2>3. QED
      BY <1>4, <2>1, <2>2, PhaseKept
  <1>5. ASSUME NEW p \in Procs, Stop(p), UNCHANGED <<batch, parses>>
        PROVE  Ok
    <2>1. Others(p) /\ proc'[p].step = "idle"
      BY <1>5, Stops DEF Idle
    <2>2. QED
      BY <1>2, <1>5, <2>1 DEF Writing, Committing
  <1>6. ASSUME NEW p \in Procs, Stage(p)
        PROVE  Ok
    <2>1. Others(p) /\ proc'[p].step = "add"
      BY <1>6, Begins DEF Stage
    <2>2. /\ Staged \in Batches /\ batch'[Staged] = "UPLOADED" /\ UNCHANGED parses
          /\ \A c \in Batches : c # Staged => batch'[c] = batch[c]
      BY <1>6, CadegAssumption DEF Stage, StatusTyped
    <2>3. QED
      BY <1>3, <2>1, <2>2 DEF Writing, Committing, Closed
  <1>7. ASSUME NEW p \in Procs, NEW b \in Batches, CreateBatch(p, b)
        PROVE  Ok
    <2>1. Others(p) /\ proc'[p].step = "add"
      BY <1>7, Begins DEF CreateBatch
    <2>2. /\ batch'[b] = "UPLOADED" /\ UNCHANGED parses
          /\ \A c \in Batches : c # b => batch'[c] = batch[c]
      BY <1>7 DEF CreateBatch, StatusTyped
    <2>3. QED
      BY <1>3, <2>1, <2>2 DEF Writing, Committing, Closed
  <1>8. ASSUME NEW p \in Procs, NEW b \in Batches, CommitBatch(p, b)
        PROVE  Ok
    <2>1. Others(p) /\ proc'[p].step = "rows" /\ proc'[p].batch = {b}
      BY <1>8, Begins DEF CommitBatch
    <2>2. Parsed(b) /\ UNCHANGED <<batch, parses>>
      BY <1>8 DEF CommitBatch, Phase, Closed
    <2>3. QED
      BY <1>4, <2>1, <2>2 DEF Committing
  <1>9. ASSUME NEW p \in Procs, NEW b \in Batches, NEW flow, Ingest(p, b, flow)
        PROVE  Ok
    <2>1. Others(p) /\ proc'[p].step \in {"lookup", "fresh"}
      BY <1>9, Begins DEF Ingest
    <2>2. /\ batch'[b] = "UPLOADED" \/ batch'[b] = batch[b]
          /\ UNCHANGED parses
          /\ \A c \in Batches : c # b => batch'[c] = batch[c]
      BY <1>9 DEF Ingest, StatusTyped
    <2>3. CASE batch'[b] = "UPLOADED"
      BY <1>3, <2>1, <2>2, <2>3 DEF Writing, Committing, Closed
    <2>4. CASE batch'[b] = batch[b]
      <3>1. \A c \in Batches : batch'[c] = batch[c]
        BY <2>2, <2>4
      <3>2. QED
        BY <2>1, <2>2, <3>1, PhaseKept DEF Writes, Writing, Committing
    <2>5. QED
      BY <2>2, <2>3, <2>4
  <1>10. ASSUME NEW p \in Procs, NEW b \in Batches, TakeParse(p, b)
         PROVE  Ok
    <2>1. Others(p) /\ proc'[p].step = "lookup" /\ UNCHANGED <<batch, parses>>
      BY <1>10, Begins DEF TakeParse
    <2>2. QED
      BY <1>2, <2>1 DEF Writing, Committing
  <1>11. ASSUME NEW p \in Procs, NEW b \in Batches, Reread(p, b)
         PROVE  Ok
    <2>1. proc[p].batch = {b} /\ UNCHANGED <<batch, parses>>
      BY <1>11 DEF Reread, At
    <2>2. CASE Stop(p)
      BY <1>5, <2>1, <2>2
    <2>3. CASE batch[b] = "READY_TO_COMMIT" /\ (Go(p, "check") \/ Go(p, "rows"))
      <3>1. Others(p) /\ proc'[p].step \in Committing /\ proc'[p].batch = {b}
        BY <2>1, <2>3, Goes DEF Committing
      <3>2. Parsed(b)
        BY <2>3 DEF Phase, Closed
      <3>3. QED
        BY <1>4, <2>1, <3>1, <3>2
    <2>4. QED
      BY <1>11, <2>2, <2>3 DEF Reread
  <1>12. ASSUME NEW p \in Procs, NEW b \in Batches, Lookup(p, b)
         PROVE  Ok
    <2>1. Others(p) /\ proc'[p].step = "parsing" /\ UNCHANGED <<batch, parses>>
      BY <1>12, LooksUp DEF Lookup
    <2>2. QED
      BY <1>2, <2>1 DEF Writing, Committing
  <1>13. ASSUME NEW p \in Procs, NEW b \in Batches, MarkParsing(p, b)
         PROVE  Ok
    <2>1. Others(p) /\ proc'[p].step = "delete"
      BY <1>13, Goes DEF MarkParsing
    <2>2. /\ batch'[b] = "PARSING" /\ UNCHANGED parses
          /\ \A c \in Batches : c # b => batch'[c] = batch[c]
      BY <1>13 DEF MarkParsing, StatusTyped
    <2>3. QED
      BY <1>3, <2>1, <2>2 DEF Writing, Committing, Closed
  <1>14. ASSUME NEW p \in Procs, NEW b \in Batches, DeleteRows(p, b)
         PROVE  Ok
    <2>1. /\ proc[p].batch = {b} /\ proc[p].step = "delete" /\ proc'[p].step = "insert"
          /\ \A q \in Procs : /\ proc'[q].batch = proc[q].batch
                              /\ q # p => proc'[q].step = proc[q].step
      BY <1>14, DeleteRowsDoes
    <2>2. /\ \A c \in Batches : c # b => parses'[c] = parses[c]
          /\ parses'[b] = IF parses[b] = 0 THEN 1 ELSE 2
      BY <1>14 DEF DeleteRows, RestTyped
    <2>3. UNCHANGED batch
      BY <1>14 DEF DeleteRows
    <2>4. ASSUME NEW c \in Batches, c # b
          PROVE  Phase(c)'
      <3>1. /\ \A q \in Procs : Writes(q, c)' <=> Writes(q, c)
            /\ \A q \in Procs : proc'[q].batch = {c} => proc'[q].step = proc[q].step
        BY <2>1, <2>4 DEF Writes
      <3>2. Parsed(c)' <=> Parsed(c)
        BY <2>2, <2>4, <3>1 DEF Parsed
      <3>3. QED
        BY <2>1, <2>2, <2>3, <2>4, <3>1, <3>2 DEF Phase
    <2>5. Phase(b)'
      <3>1. CASE parses[b] = 0
        <4>1. \A q \in Procs : Writes(q, b)' => q = p
          BY <2>1, <3>1 DEF Phase, Writes
        <4>2. parses'[b] = 1
          BY <2>2, <3>1
        <4>3. /\ batch'[b] \notin Closed
              /\ \A q \in Procs :
                    ~(proc'[q].batch = {b} /\ proc'[q].step \in Committing)
          BY <2>1, <2>3, <3>1 DEF Phase, Parsed, Committing
        <4>4. QED
          BY <4>1, <4>2, <4>3 DEF Phase
      <3>2. CASE parses[b] # 0
        BY <2>2, <3>2 DEF Phase, Parsed
      <3>3. QED
        BY <3>1, <3>2
    <2>6. QED
      BY <2>4, <2>5
  <1>15. ASSUME NEW p \in Procs, NEW b \in Batches, InsertRows(p, b)
         PROVE  Ok
    <2>1. /\ Others(p) /\ proc[p].batch = {b} /\ proc'[p].batch = {b}
          /\ proc[p].step \in Writing /\ proc'[p].step \in Writing
      BY <1>15, Inserts DEF Writing
    <2>2. UNCHANGED <<batch, parses>>
      BY <1>15 DEF InsertRows
    <2>3. \A c \in Batches : Writes(p, c)' => Writes(p, c)
      BY <2>1 DEF Writes
    <2>4. proc'[p].step \notin Committing
      BY <2>1 DEF Writing, Committing
    <2>5. QED
      BY <2>1, <2>2, <2>3, <2>4, PhaseKept
  <1>16. ASSUME NEW p \in Procs, NEW b \in Batches, Settle(p, b)
         PROVE  Ok
    <2>1. Others(p) /\ proc'[p].step \in {"idle", "ack", "fresh"}
      BY <1>16, Stops, Begins DEF Settle, Idle
    <2>2. /\ Writes(p, b) /\ UNCHANGED parses
          /\ \A c \in Batches : c # b => batch'[c] = batch[c]
      BY <1>16 DEF Settle, StatusTyped, At, Writes, Writing
    <2>3. Parsed(b)'
      <3>1. parses[b] # 0
        BY <2>2 DEF Phase
      <3>2. parses[b] = 1 => \A q \in Procs : ~Writes(q, b)'
        BY <2>1, <2>2 DEF Phase, Writes, Writing, Others
      <3>3. QED
        BY <2>2, <3>1, <3>2 DEF Parsed
    <2>4. QED
      BY <1>3, <2>1, <2>2, <2>3 DEF Writing, Committing
  <1>17. ASSUME NEW p \in Procs, NEW b \in Batches, ReadRows(p, b) \/ ReadCustomers(p, b)
                \/ ReadNumbers(p, b) \/ SkipGroup(p, b) \/ MarkGroup(p, b)
         PROVE  Ok
    <2>1. /\ proc[p].batch = {b} /\ proc[p].step \in Committing
          /\ UNCHANGED <<batch, parses>>
      BY <1>17 DEF ReadRows, ReadCustomers, ReadNumbers, SkipGroup, MarkGroup, At, Committing
    <2>2. Others(p) /\ proc'[p].batch = {b} /\ proc'[p].step \in Committing
      BY <1>17, <2>1, ReadsRows, ReadsCustomers, ReadsNumbers, LeavesGroup
         DEF Others, Committing
    <2>3. Parsed(b)
      BY <2>1 DEF Phase
    <2>4. QED
      BY <1>4, <2>1, <2>2, <2>3
  <1>18. ASSUME NEW p \in Procs, NEW b \in Batches, PostGroup(p, b)
         PROVE  Ok
    <2>1. /\ proc[p].batch = {b} /\ proc[p].step \in Committing
          /\ UNCHANGED <<batch, parses>> /\ Others(p)
      BY <1>18, PostsGroup DEF At, Committing, Others
    <2>2. Parsed(b)
      BY <2>1 DEF Phase
    <2>3. CASE proc'[p].batch = {b} /\ proc'[p].step = "groups"
      BY <1>4, <2>1, <2>2, <2>3 DEF Committing
    <2>4. CASE proc'[p] = Idle
      BY <1>2, <2>1, <2>4 DEF Idle, Writing, Committing
    <2>5. QED
      BY <1>18, <2>3, <2>4, PostsGroup
  <1>19. ASSUME NEW p \in Procs, NEW b \in Batches, FinishCommit(p, b)
         PROVE  Ok
    <2>1. Others(p) /\ proc'[p].step = "idle"
      BY <1>19, Stops DEF FinishCommit, Idle
    <2>2. /\ proc[p].batch = {b} /\ proc[p].step = "groups" /\ UNCHANGED parses
          /\ \A c \in Batches : c # b => batch'[c] = batch[c]
      BY <1>19 DEF FinishCommit, StatusTyped, At
    <2>3. Parsed(b)'
      <3>1. Parsed(b)
        BY <2>2 DEF Phase, Committing
      <3>2. QED
        BY <2>1, <2>2, <3>1 DEF Parsed, Writes, Writing, Others
    <2>4. QED
      BY <1>3, <2>1, <2>2, <2>3 DEF Writing, Committing
  <1>20. ASSUME NEW p \in Procs, NEW b \in Batches,
                QueueParse(p, b) \/ Acknowledge(p, b)
         PROVE  Ok
    BY <1>5, <1>20 DEF QueueParse, Acknowledge
  <1>21. ASSUME NEW p \in Procs, Crash(p) \/ ParseThrows(p)
         PROVE  Ok
    BY <1>5, <1>21 DEF Crash, ParseThrows
  <1> HIDE DEF Ok
  <1>22. QED
    BY ImportSteps, <1>1, <1>6, <1>7, <1>8, <1>9, <1>10, <1>11, <1>12, <1>13, <1>14, <1>15,
       <1>16, <1>17, <1>18, <1>19, <1>20, <1>21 DEF Proceed, Ok

-----------------------------------------------------------------------------
(* Whole invoices.  While a batch is parsed once, its good rows stay, those *)
(* of an invoice are marked together and booked together, and a commit has  *)
(* all of an invoice in hand or none of it.                                 *)

Good(b) == {n \in RowsOf(b) : rows[b][n] \in {"VALID", "COMMITTED"}}
Same(b, n, m) == Invoice(<<b, n>>) = Invoice(<<b, m>>)
Excluded(b, n, known, good) ==
    LET r == <<b, n>>
    IN  \/ Customer[r] = Blank \/ Number[r] = Blank \/ Customer[r] \notin known
        \/ \A m \in good : Same(b, n, m) => Quantity[<<b, m>>] <= 0
Commits(p, b) ==
    proc[p].batch = {b} /\ proc[p].step \in {"customers", "numbers", "groups"}

Uniform(b) == \A n, m \in Good(b) : Same(b, n, m) => rows[b][n] = rows[b][m]
Has(m, r) == \E l \in orders[m].lines : l.row = r
WholeOrders(b) ==
    \A m \in Numbers : \A l \in orders[m].lines : \A n \in Good(b) :
        l.row[1] = b /\ Invoice(l.row) = Invoice(<<b, n>>) /\ Quantity[<<b, n>>] > 0
            => Has(m, <<b, n>>)
Lined(b) ==
    \A n \in RowsOf(b) :
        rows[b][n] = "COMMITTED" /\ Quantity[<<b, n>>] > 0 /\ <<b, n>> \notin Shared
            => Number[<<b, n>>] \in Numbers /\ Has(Number[<<b, n>>], <<b, n>>)
InHand(p, b) ==
    /\ proc[p].rows \subseteq Good(b) /\ proc[p].rows \subseteq proc[p].alive
    /\ \A n \in proc[p].rows, m \in Good(b) : Same(b, n, m) => m \in proc[p].rows
Handled(p, b) ==
    \A n \in Good(b) :
        rows[b][n] = "VALID" =>
            \/ n \in proc[p].rows
            \/ proc[p].step = "groups" /\ Excluded(b, n, proc[p].known, Good(b))
Untouched(b) ==
    /\ \A n \in RowsOf(b) : rows[b][n] # "COMMITTED"
    /\ \A m \in Numbers : \A l \in orders[m].lines : l.row[1] # b

Once(b) ==
    /\ Uniform(b) /\ WholeOrders(b) /\ Lined(b)
    /\ \A p \in Procs : Commits(p, b) => InHand(p, b) /\ Handled(p, b)
Intact(b) ==
    /\ ~Parsed(b) => Untouched(b)
    /\ parses[b] = 1 /\ Parsed(b) => Once(b)

LEMMA ExcludedIsLeftOut ==
    ASSUME NEW b \in Batches, NEW n \in RowsOf(b), NEW known, Excluded(b, n, known, Good(b))
    PROVE  LeftOut(<<b, n>>, known)
  <1>1. ASSUME \A m \in Good(b) : Same(b, n, m) => Quantity[<<b, m>>] <= 0,
               NEW s \in Rows, s[1] = b, Invoice(s) = Invoice(<<b, n>>),
               rows[s[1]][s[2]] \in {"VALID", "COMMITTED"}
        PROVE  Quantity[s] <= 0
    <2>1. s = <<b, s[2]>> /\ s[2] \in RowsOf(b)
      BY <1>1, RowsAreNumbered
    <2>2. s[2] \in Good(b) /\ Same(b, n, s[2])
      BY <1>1, <2>1 DEF Good, Same
    <2>3. QED
      BY <1>1, <2>1, <2>2
  <1>2. QED
    BY <1>1 DEF Excluded, LeftOut

(* A step that leaves a batch to others, or begins nothing with it.         *)
LEMMA IntactFrame ==
    ASSUME NEW b \in Batches, Intact(b), rows'[b] = rows[b], parses'[b] = parses[b],
           Parsed(b)' <=> Parsed(b),
           \A m \in Numbers : \/ orders'[m] = orders[m]
                              \/ /\ orders[m].lines = {}
                                 /\ \A l \in orders'[m].lines : l.row[1] # b,
           \A q \in Procs :
               Commits(q, b)' => /\ Commits(q, b) /\ proc'[q].step = proc[q].step
                                 /\ proc'[q].rows = proc[q].rows
                                 /\ proc'[q].alive = proc[q].alive
                                 /\ proc'[q].known = proc[q].known
    PROVE  Intact(b)'
  <1>1. Good(b)' = Good(b)
    BY DEF Good
  <1>2. ~Parsed(b) => Untouched(b)'
    BY DEF Intact, Untouched
  <1>3. ASSUME Once(b)
        PROVE  Once(b)'
    <2>1. Uniform(b)'
      BY <1>1, <1>3 DEF Once, Uniform
    <2>2. \A m \in Numbers : \A r : Has(m, r) => Has(m, r)'
      BY DEF Has
    <2>3. WholeOrders(b)'
      BY <1>1, <1>3, <2>2 DEF Once, WholeOrders
    <2>4. Lined(b)'
      BY <1>3, <2>2 DEF Once, Lined
    <2>5. ASSUME NEW q \in Procs, Commits(q, b)'
          PROVE  InHand(q, b)' /\ Handled(q, b)'
      <3>1. InHand(q, b) /\ Handled(q, b)
        BY <1>3, <2>5 DEF Once
      <3>2. InHand(q, b)'
        BY <1>1, <2>5, <3>1 DEF InHand
      <3>3. Handled(q, b)'
        BY <1>1, <2>5, <3>1 DEF Handled, Excluded
      <3>4. QED
        BY <3>2, <3>3
    <2>6. QED
      BY <2>1, <2>3, <2>4, <2>5 DEF Once
  <1>4. QED
    BY <1>2, <1>3 DEF Intact

(* When the last writer leaves, nobody has committed anything yet.          *)
LEMMA IntactSettled ==
    ASSUME NEW b \in Batches, Intact(b), UNCHANGED <<rows, orders>>,
           ~Parsed(b), Parsed(b)', \A q \in Procs : ~Commits(q, b)'
    PROVE  Intact(b)'
  <1>1. Untouched(b)
    BY DEF Intact
  <1>2. \A n \in Good(b)' : rows'[b][n] = "VALID"
    BY <1>1 DEF Good, Untouched
  <1>3. Uniform(b)' /\ WholeOrders(b)' /\ Lined(b)'
    BY <1>1, <1>2 DEF Uniform, WholeOrders, Lined, Untouched
  <1>4. QED
    BY <1>3 DEF Intact, Once

(* The steps that say nothing about rows, but for a writer that leaves.     *)
Quiet(p) ==
    /\ Others(p) /\ UNCHANGED <<rows, orders, parses>>
    /\ proc'[p].step \notin {"insert", "settle", "customers", "numbers", "groups"}

LEMMA ImportEffects ==
    ASSUME ProcsTyped, [Next]_vars
    PROVE  \/ UNCHANGED imports
           \/ \E p \in Procs : Quiet(p)
           \/ \E p \in Procs, b \in Batches :
                 \/ DeleteRows(p, b) \/ InsertRows(p, b)
                 \/ ReadRows(p, b) \/ ReadCustomers(p, b) \/ ReadNumbers(p, b)
                 \/ SkipGroup(p, b) \/ MarkGroup(p, b)
                 \/ PostGroup(p, b) /\ proc'[p] # Idle
  <1>1. ASSUME NEW p \in Procs, Stop(p), UNCHANGED <<rows, orders, parses>>
        PROVE  Quiet(p)
    BY <1>1, Stops DEF Quiet, Idle
  <1>2. ASSUME NEW p \in Procs, NEW b, NEW flow,
               NEW step \in {"add", "lookup", "fresh", "rows", "ack"},
               Begin(p, step, flow, b), UNCHANGED <<rows, orders, parses>>
        PROVE  Quiet(p)
    BY <1>2, Begins DEF Quiet
  <1>3. ASSUME NEW p \in Procs, Stage(p) \/ Crash(p) \/ ParseThrows(p)
        PROVE  Quiet(p)
    BY <1>1, <1>2, <1>3 DEF Stage, Crash, ParseThrows
  <1>4. ASSUME NEW p \in Procs, NEW b \in Batches,
               \/ CreateBatch(p, b) \/ CommitBatch(p, b)
               \/ \E flow \in {"script", "stage"} : Ingest(p, b, flow)
               \/ TakeParse(p, b)
        PROVE  Quiet(p)
    BY <1>2, <1>4 DEF CreateBatch, CommitBatch, Ingest, TakeParse
  <1>5. ASSUME NEW p \in Procs, NEW b \in Batches,
               QueueParse(p, b) \/ Acknowledge(p, b) \/ FinishCommit(p, b) \/ Settle(p, b)
        PROVE  Quiet(p)
    BY <1>1, <1>2, <1>5 DEF QueueParse, Acknowledge, FinishCommit, Settle
  <1>6. ASSUME NEW p \in Procs, NEW b \in Batches,
               Reread(p, b) \/ MarkParsing(p, b) \/ Lookup(p, b)
        PROVE  Quiet(p)
    <2>1. UNCHANGED <<rows, orders, parses>>
      BY <1>6 DEF Reread, MarkParsing, Lookup
    <2>2. CASE Go(p, "check") \/ Go(p, "rows") \/ Go(p, "delete")
      BY <2>1, <2>2, Goes DEF Quiet
    <2>3. CASE Lookup(p, b)
      BY <2>1, <2>3, LooksUp DEF Quiet
    <2>4. QED
      BY <1>1, <1>6, <2>1, <2>2, <2>3 DEF Reread, MarkParsing
  <1>7. ASSUME NEW p \in Procs, NEW b \in Batches, PostGroup(p, b), proc'[p] = Idle
        PROVE  Quiet(p)
    <2>1. Idle.step = "idle"
      BY DEF Idle
    <2>2. UNCHANGED <<batch, parses>> /\ Others(p)
      BY <1>7, PostsGroup DEF Others
    <2>3. UNCHANGED <<orders, rows>>
      BY <1>7, <2>1, PostsGroup
    <2>4. QED
      BY <1>7, <2>1, <2>2, <2>3 DEF Quiet
  <1>8. QED
    BY ImportSteps, <1>3, <1>4, <1>5, <1>6, <1>7 DEF Proceed

(* What was parsed stays so.                                                *)
LEMMA ParsedStays ==
    ASSUME ProcsTyped, RestTyped, NEW b \in Batches, [Next]_vars, Parsed(b)
    PROVE  Parsed(b)' /\ (parses'[b] = 1 => parses[b] = 1)
  <1>1. ASSUME UNCHANGED parses, \A q \in Procs : Writes(q, b)' => Writes(q, b)
        PROVE  Parsed(b)' /\ (parses'[b] = 1 => parses[b] = 1)
    BY <1>1 DEF Parsed
  <1>2. ASSUME NEW p \in Procs, Others(p), UNCHANGED parses, Writes(p, b)' => Writes(p, b)
        PROVE  Parsed(b)' /\ (parses'[b] = 1 => parses[b] = 1)
    BY <1>1, <1>2 DEF Others, Writes
  <1>3. ASSUME UNCHANGED imports
        PROVE  Parsed(b)' /\ (parses'[b] = 1 => parses[b] = 1)
    BY <1>1, <1>3 DEF imports, Writes
  <1>4. ASSUME NEW p \in Procs, Quiet(p)
        PROVE  Parsed(b)' /\ (parses'[b] = 1 => parses[b] = 1)
    BY <1>2, <1>4 DEF Quiet, Writes, Writing
  <1>5. ASSUME NEW p \in Procs, NEW c \in Batches, DeleteRows(p, c)
        PROVE  Parsed(b)' /\ (parses'[b] = 1 => parses[b] = 1)
    <2>1. parses'[b] = IF c = b THEN IF parses[b] = 0 THEN 1 ELSE 2 ELSE parses[b]
      BY <1>5 DEF DeleteRows, RestTyped
    <2>2. CASE c = b
      BY <2>1, <2>2 DEF Parsed
    <2>3. CASE c # b
      <3>1. \A q \in Procs : Writes(q, b)' => Writes(q, b)
        BY <1>5, <2>3, DeleteRowsDoes DEF Writes
      <3>2. QED
        BY <2>1, <2>3, <3>1 DEF Parsed
    <2>4. QED
      BY <2>2, <2>3
  <1>6. ASSUME NEW p \in Procs, NEW c \in Batches, InsertRows(p, c)
        PROVE  Parsed(b)' /\ (parses'[b] = 1 => parses[b] = 1)
    <2>1. UNCHANGED parses
      BY <1>6 DEF InsertRows
    <2>2. QED
      BY <1>2, <1>6, <2>1, Inserts DEF Writes, Writing
  <1>7. ASSUME NEW p \in Procs, NEW c \in Batches,
               \/ ReadRows(p, c) \/ ReadCustomers(p, c) \/ ReadNumbers(p, c)
               \/ SkipGroup(p, c) \/ MarkGroup(p, c)
        PROVE  Parsed(b)' /\ (parses'[b] = 1 => parses[b] = 1)
    <2>1. UNCHANGED parses
      BY <1>7 DEF ReadRows, ReadCustomers, ReadNumbers, SkipGroup, MarkGroup
    <2>2. Others(p) /\ proc'[p].step \notin Writing
      BY <1>7, ReadsRows, ReadsCustomers, ReadsNumbers, LeavesGroup DEF Others, Writing
    <2>3. QED
      BY <1>2, <2>1, <2>2 DEF Writes
  <1>8. ASSUME NEW p \in Procs, NEW c \in Batches, PostGroup(p, c)
        PROVE  Parsed(b)' /\ (parses'[b] = 1 => parses[b] = 1)
    <2>1. Idle.step = "idle"
      BY DEF Idle
    <2>2. UNCHANGED <<batch, parses>> /\ Others(p)
      BY <1>8, PostsGroup DEF Others
    <2>3. proc'[p].step \notin Writing
      BY <1>8, <2>1, PostsGroup DEF Writing
    <2>4. QED
      BY <1>2, <2>2, <2>3 DEF Writes
  <1>9. QED
    BY ImportEffects, <1>3, <1>4, <1>5, <1>6, <1>7, <1>8

(* A commit that takes a group away: with it, all good rows of its invoice. *)
LEMMA WholeGroup ==
    ASSUME ProcsTyped, NEW p \in Procs, NEW b \in Batches, At(p, "groups", b),
           proc[p].rows # {}, InHand(p, b)
    PROVE  /\ GroupAt(p, b) \subseteq Good(b)
           /\ GroupAt(p, b) \cap proc[p].alive = GroupAt(p, b)
           /\ \A n \in GroupAt(p, b), m \in Good(b) : Same(b, n, m) => m \in GroupAt(p, b)
  <1>1. /\ GroupAt(p, b) \subseteq proc[p].rows
        /\ \A n \in GroupAt(p, b) : Invoice(<<b, n>>) = Invoice(FirstAt(p, b))
        /\ \A n \in proc[p].rows :
              Invoice(<<b, n>>) = Invoice(FirstAt(p, b)) => n \in GroupAt(p, b)
    BY GroupInHand
  <1>2. QED
    BY <1>1 DEF InHand, Same

LEMMA GroupTaken ==
    ASSUME ProcsTyped, NEW p \in Procs, NEW b \in Batches, At(p, "groups", b),
           proc[p].rows # {}, InHand(p, b), Good(b)' = Good(b),
           proc'[p].rows = proc[p].rows \ GroupAt(p, b), proc'[p].alive = proc[p].alive
    PROVE  InHand(p, b)'
  <1>1. \A n \in GroupAt(p, b), m \in Good(b) : Same(b, n, m) => m \in GroupAt(p, b)
    BY WholeGroup
  <1>2. \A n, m \in proc[p].rows : Same(b, n, m) /\ m \in GroupAt(p, b) => n \in GroupAt(p, b)
    BY <1>1 DEF InHand, Same
  <1>3. QED
    BY <1>2 DEF InHand

(* An invoice is marked.                                                    *)
LEMMA GroupMarked ==
    ASSUME ProcsTyped, StatusTyped, NEW p \in Procs, NEW b \in Batches, At(p, "groups", b),
           proc[p].rows # {}, Once(b), Mark(b, GroupAt(p, b) \cap proc[p].alive), Others(p),
           proc'[p].step = "groups", proc'[p].batch = {b}, proc'[p].known = proc[p].known,
           proc'[p].rows = proc[p].rows \ GroupAt(p, b), proc'[p].alive = proc[p].alive
    PROVE  /\ Good(b)' = Good(b) /\ Uniform(b)'
           /\ \A n \in RowsOf(b) :
                 rows'[b][n] = IF n \in GroupAt(p, b) THEN "COMMITTED" ELSE rows[b][n]
           /\ \A q \in Procs : Commits(q, b)' => InHand(q, b)' /\ Handled(q, b)'
  <1>1. InHand(p, b) /\ Handled(p, b)
    BY DEF Once, Commits, At
  <1>2. /\ GroupAt(p, b) \subseteq Good(b)
        /\ GroupAt(p, b) \cap proc[p].alive = GroupAt(p, b)
        /\ \A n \in GroupAt(p, b), m \in Good(b) : Same(b, n, m) => m \in GroupAt(p, b)
    BY <1>1, WholeGroup
  <1>3. \A n \in RowsOf(b) :
            rows'[b][n] = IF n \in GroupAt(p, b) THEN "COMMITTED" ELSE rows[b][n]
    BY <1>2, Marked, RowsAreNumbered
  <1>4. Good(b)' = Good(b)
    BY <1>2, <1>3 DEF Good
  <1>5. Uniform(b)'
    <2>1. ASSUME NEW n \in Good(b), NEW m \in Good(b), Same(b, n, m)
          PROVE  rows'[b][n] = rows'[b][m]
      <3>1. n \in GroupAt(p, b) <=> m \in GroupAt(p, b)
        BY <1>2, <2>1 DEF Same
      <3>2. rows[b][n] = rows[b][m]
        BY <2>1 DEF Once, Uniform
      <3>3. QED
        BY <1>3, <3>1, <3>2 DEF Good
    <2>2. QED
      BY <1>4, <2>1 DEF Uniform
  <1>6. ASSUME NEW q \in Procs, Commits(q, b)', q # p
        PROVE  InHand(q, b)' /\ Handled(q, b)'
    <2>1. proc'[q] = proc[q]
      BY <1>6 DEF Others
    <2>2. InHand(q, b) /\ Handled(q, b)
      BY <1>6, <2>1 DEF Once, Commits
    <2>3. \A n \in Good(b) : rows'[b][n] = "VALID" => rows[b][n] = "VALID"
      BY <1>3 DEF Good
    <2>4. InHand(q, b)'
      BY <1>4, <2>1, <2>2 DEF InHand
    <2>5. Handled(q, b)'
      BY <1>4, <2>1, <2>2, <2>3 DEF Handled, Excluded
    <2>6. QED
      BY <2>4, <2>5
  <1>7. InHand(p, b)' /\ Handled(p, b)'
    <2>1. InHand(p, b)'
      BY <1>1, <1>4, GroupTaken
    <2>2. \A n \in Good(b) :
              rows'[b][n] = "VALID" => rows[b][n] = "VALID" /\ n \notin GroupAt(p, b)
      BY <1>3 DEF Good
    <2>3. Handled(p, b)'
      BY <1>1, <1>4, <2>2 DEF Handled, Excluded, At
    <2>4. QED
      BY <2>1, <2>3
  <1>8. QED
    BY <1>3, <1>4, <1>5, <1>6, <1>7

LEMMA ParsedOnce ==
    ASSUME NEW p \in Procs, NEW b \in Batches, Phase(b), Intact(b), parses[b] = 1,
           proc[p].batch = {b}, proc[p].step \in Committing
    PROVE  Parsed(b) /\ Once(b)
  BY DEF Phase, Intact

(* What a step says of the batches it does not work on.                     *)
LEMMA IntactElsewhere ==
    ASSUME ProcsTyped, RestTyped, [Next]_vars, NEW p \in Procs, NEW b \in Batches,
           NEW c \in Batches, c # b, Intact(c), Others(p),
           proc[p].batch = {b}, proc'[p].batch = {b}, UNCHANGED parses, rows'[c] = rows[c],
           \A m \in Numbers : \/ orders'[m] = orders[m]
                              \/ /\ orders[m].lines = {}
                                 /\ \A l \in orders'[m].lines : l.row[1] # c
    PROVE  Intact(c)'
  <1>1. \A q \in Procs : Writes(q, c)' <=> Writes(q, c)
    BY DEF Others, Writes
  <1>2. Parsed(c)' <=> Parsed(c)
    BY <1>1 DEF Parsed
  <1>3. \A q \in Procs : Commits(q, c)' => Commits(q, c) /\ proc'[q] = proc[q]
    BY DEF Others, Commits
  <1>4. QED
    BY <1>2, <1>3, IntactFrame

LEMMA IntactQuiet ==
    ASSUME ProcsTyped, RestTyped, [Next]_vars, NEW p \in Procs, Quiet(p), NEW b \in Batches,
           Intact(b), Phase(b)
    PROVE  Intact(b)'
  <1>1. \A q \in Procs : Commits(q, b)' => Commits(q, b) /\ proc'[q] = proc[q]
    BY DEF Quiet, Others, Commits
  <1>2. CASE Parsed(b)' <=> Parsed(b)
    BY <1>1, <1>2, IntactFrame DEF Quiet
  <1>3. CASE ~Parsed(b) /\ Parsed(b)'
    <2>1. \A q \in Procs : ~Commits(q, b)'
      BY <1>1, <1>3 DEF Phase, Commits, Committing
    <2>2. QED
      BY <1>3, <2>1, IntactSettled DEF Quiet
  <1>4. QED
    BY <1>2, <1>3, ParsedStays

LEMMA IntactDeleted ==
    ASSUME ProcsTyped, StatusTyped, RestTyped, [Next]_vars,
           NEW p \in Procs, NEW b \in Batches, DeleteRows(p, b), NEW c \in Batches,
           Intact(c), Phase(c)
    PROVE  Intact(c)'
  <1>1. /\ parses'[c] = IF c = b THEN IF parses[b] = 0 THEN 1 ELSE 2 ELSE parses[c]
        /\ rows'[c] = IF c = b THEN NoRows ELSE rows[c]
        /\ UNCHANGED orders
    BY DEF DeleteRows, RestTyped, StatusTyped
  <1>2. CASE c = b /\ parses[b] = 0
    <2>1. Untouched(c)
      BY <1>2 DEF Intact, Parsed
    <2>2. \A n \in RowsOf(b) : rows'[b][n] = "NONE"
      BY <1>1, <1>2, RowsAreNumbered DEF NoRows
    <2>3. Untouched(c)'
      BY <1>1, <1>2, <2>1, <2>2 DEF Untouched
    <2>4. Writes(p, b)'
      BY DeleteRowsDoes DEF Writes, Writing
    <2>5. ~Parsed(c)'
      BY <1>1, <1>2, <2>4 DEF Parsed
    <2>6. QED
      BY <2>3, <2>5 DEF Intact
  <1>3. CASE c = b /\ parses[b] # 0
    BY <1>1, <1>3 DEF Intact, Parsed
  <1>4. CASE c # b
    <2>1. \A q \in Procs : Writes(q, c)' <=> Writes(q, c)
      BY <1>4, DeleteRowsDoes DEF Writes
    <2>2. Parsed(c)' <=> Parsed(c)
      BY <1>1, <1>4, <2>1 DEF Parsed
    <2>3. \A q \in Procs :
              Commits(q, c)' => /\ Commits(q, c) /\ proc'[q].step = proc[q].step
                                /\ proc'[q].rows = proc[q].rows
                                /\ proc'[q].alive = proc[q].alive
                                /\ proc'[q].known = proc[q].known
      BY <1>4, DeleteRowsDoes DEF Commits
    <2>4. QED
      BY <1>1, <1>4, <2>2, <2>3, IntactFrame
  <1>5. QED
    BY <1>2, <1>3, <1>4

LEMMA IntactInserted ==
    ASSUME ProcsTyped, StatusTyped, RestTyped, [Next]_vars,
           NEW p \in Procs, NEW b \in Batches, InsertRows(p, b), NEW c \in Batches,
           Intact(c), Phase(c)
    PROVE  Intact(c)'
  <1>1. /\ UNCHANGED <<orders, parses>>
        /\ \A d \in Batches : d # b => rows'[d] = rows[d]
        /\ \A n \in RowsOf(b) : rows'[b][n] = "COMMITTED" => rows[b][n] = "COMMITTED"
    BY Inserted, RowsAreNumbered DEF InsertRows
  <1>2. Writes(p, b) /\ Writes(p, b)' /\ Others(p)
    BY Inserts DEF Writes, Writing
  <1>3. CASE c = b
    <2>1. parses[b] # 0
      BY <1>2, <1>3 DEF Phase
    <2>2. CASE parses[b] = 1
      <3>1. ~Parsed(b) /\ ~Parsed(b)'
        BY <1>1, <1>2, <2>2 DEF Parsed
      <3>2. QED
        BY <1>1, <1>3, <3>1 DEF Intact, Untouched
    <2>3. CASE parses[b] # 1
      BY <1>1, <1>3, <2>1, <2>3 DEF Intact, Parsed
    <2>4. QED
      BY <2>2, <2>3
  <1>4. CASE c # b
    BY <1>1, <1>2, <1>4, IntactElsewhere DEF Writes
  <1>5. QED
    BY <1>3, <1>4

(* A commit reads: it has every valid row in hand.                          *)
LEMMA IntactRead ==
    ASSUME ProcsTyped, StatusTyped, RestTyped, [Next]_vars,
           NEW p \in Procs, NEW b \in Batches,
           ReadRows(p, b) \/ ReadCustomers(p, b) \/ ReadNumbers(p, b), NEW c \in Batches,
           Intact(c), Phase(c)
    PROVE  Intact(c)'
  <1>1. UNCHANGED <<rows, orders, parses>>
    BY DEF ReadRows, ReadCustomers, ReadNumbers
  <1>2. proc[p].batch = {b} /\ proc[p].step \in {"rows", "customers", "numbers"}
    BY DEF ReadRows, ReadCustomers, ReadNumbers, At
  <1>3. Others(p) /\ proc'[p].batch = {b} /\ proc'[p].step \in {"customers", "numbers", "groups"}
    BY <1>2, ReadsRows, ReadsCustomers, ReadsNumbers
  <1>4. CASE c # b
    BY <1>1, <1>2, <1>3, <1>4, IntactElsewhere
  <1>5. CASE c = b
    <2>1. Parsed(b) /\ Parsed(b)'
      BY <1>2, <1>5, ParsedStays DEF Phase, Committing
    <2>2. ASSUME parses[b] = 1
          PROVE  Once(b)'
      <3>1. Once(b)
        BY <1>5, <2>1, <2>2 DEF Intact
      <3>2. Good(b)' = Good(b)
        BY <1>1 DEF Good
      <3>3. Uniform(b)' /\ WholeOrders(b)' /\ Lined(b)'
        <4>1. \A m \in Numbers : \A r : Has(m, r)' <=> Has(m, r)
          BY <1>1 DEF Has
        <4>2. Uniform(b)'
          BY <1>1, <3>1, <3>2 DEF Once, Uniform
        <4>3. WholeOrders(b)'
          BY <1>1, <3>1, <3>2, <4>1 DEF Once, WholeOrders
        <4>4. Lined(b)'
          BY <1>1, <3>1, <4>1 DEF Once, Lined
        <4>5. QED
          BY <4>2, <4>3, <4>4
      <3>4. ASSUME NEW q \in Procs, q # p, Commits(q, b)'
            PROVE  InHand(q, b)' /\ Handled(q, b)'
        <4>1. proc'[q] = proc[q] /\ InHand(q, b) /\ Handled(q, b)
          BY <1>3, <3>1, <3>4 DEF Once, Commits, Others
        <4>2. QED
          BY <1>1, <3>2, <4>1 DEF InHand, Handled, Excluded
      <3>5. InHand(p, b)' /\ Handled(p, b)'
        <4>1. CASE ReadRows(p, b)
          <5> DEFINE valid == {n \in RowsOf(b) : rows[b][n] = "VALID"}
          <5>1. proc'[p].rows = valid /\ proc'[p].alive = valid
            BY <4>1, ReadsRows
          <5>2. /\ valid \subseteq Good(b)
                /\ \A n \in valid, m \in Good(b) : Same(b, n, m) => m \in valid
            BY <3>1 DEF Good, Once, Uniform
          <5>3. \A n \in Good(b) : rows[b][n] = "VALID" => n \in valid
            BY DEF Good
          <5>4. QED
            BY <1>1, <3>2, <5>1, <5>2, <5>3 DEF InHand, Handled
        <4>2. CASE ReadCustomers(p, b) \/ ReadNumbers(p, b)
          <5>1. /\ proc[p].step \in {"customers", "numbers"}
                /\ proc'[p].rows = proc[p].rows /\ proc'[p].alive = proc[p].alive
            BY <4>2, ReadsCustomers, ReadsNumbers DEF ReadCustomers, ReadNumbers, At
          <5>2. InHand(p, b) /\ Handled(p, b)
            BY <1>2, <3>1, <5>1 DEF Once, Commits
          <5>3. InHand(p, b)'
            BY <3>2, <5>1, <5>2 DEF InHand
          <5>4. Handled(p, b)'
            BY <1>1, <3>2, <5>1, <5>2 DEF Handled
          <5>5. QED
            BY <5>3, <5>4
        <4>3. QED
          BY <4>1, <4>2
      <3>6. QED
        BY <3>3, <3>4, <3>5 DEF Once
    <2>3. QED
      BY <1>1, <1>5, <2>1, <2>2 DEF Intact
  <1>6. QED
    BY <1>4, <1>5

(* A group is passed over: it has no address, or sells nothing.             *)
LEMMA IntactSkipped ==
    ASSUME ProcsTyped, StatusTyped, RestTyped, [Next]_vars,
           NEW p \in Procs, NEW b \in Batches, SkipGroup(p, b), NEW c \in Batches,
           Intact(c), Phase(c)
    PROVE  Intact(c)'
  <1>1. UNCHANGED <<rows, orders, parses>>
    BY DEF SkipGroup
  <1>2. /\ At(p, "groups", b) /\ proc[p].rows # {} /\ Others(p)
        /\ proc'[p].step = "groups" /\ proc'[p].batch = {b} /\ proc'[p].known = proc[p].known
        /\ proc'[p].rows = proc[p].rows \ GroupAt(p, b) /\ proc'[p].alive = proc[p].alive
    BY LeavesGroup DEF Others
  <1>3. CASE c # b
    BY <1>1, <1>2, <1>3, IntactElsewhere DEF At
  <1>4. CASE c = b
    <2>1. Parsed(b) /\ Parsed(b)'
      BY <1>2, <1>4, ParsedStays DEF Phase, Committing, At
    <2>2. ASSUME parses[b] = 1
          PROVE  Once(b)'
      <3>1. Once(b) /\ InHand(p, b) /\ Handled(p, b)
        BY <1>2, <1>4, <2>1, <2>2 DEF Intact, Once, Commits, At
      <3>2. Good(b)' = Good(b)
        BY <1>1 DEF Good
      <3>3. Uniform(b)' /\ WholeOrders(b)' /\ Lined(b)'
        <4>1. \A m \in Numbers : \A r : Has(m, r)' <=> Has(m, r)
          BY <1>1 DEF Has
        <4>2. Uniform(b)'
          BY <1>1, <3>1, <3>2 DEF Once, Uniform
        <4>3. WholeOrders(b)'
          BY <1>1, <3>1, <3>2, <4>1 DEF Once, WholeOrders
        <4>4. Lined(b)'
          BY <1>1, <3>1, <4>1 DEF Once, Lined
        <4>5. QED
          BY <4>2, <4>3, <4>4
      <3>4. ASSUME NEW q \in Procs, q # p, Commits(q, b)'
            PROVE  InHand(q, b)' /\ Handled(q, b)'
        <4>1. proc'[q] = proc[q] /\ InHand(q, b) /\ Handled(q, b)
          BY <1>2, <3>1, <3>4 DEF Once, Commits, Others
        <4>2. QED
          BY <1>1, <3>2, <4>1 DEF InHand, Handled, Excluded
      <3>5. ASSUME NEW n \in GroupAt(p, b)
            PROVE  Excluded(b, n, proc[p].known, Good(b))
        <4> DEFINE known == proc[p].known
        <4>1. /\ Customer[<<b, n>>] = Customer[FirstAt(p, b)]
              /\ Number[<<b, n>>] = NumberAt(p, b)
          BY <1>2, GroupInHand
        <4>2. CASE ~Addressed(b, GroupAt(p, b), known)
          BY <4>1, <4>2 DEF Addressed, Excluded, FirstAt, NumberAt
        <4>3. CASE Billable(b, GroupAt(p, b)) = {}
          <5>1. \A m \in Good(b) : Same(b, n, m) => m \in GroupAt(p, b)
            BY <1>2, <3>1, WholeGroup
          <5>2. ASSUME NEW m \in Good(b), Same(b, n, m)
                PROVE  Quantity[<<b, m>>] <= 0
            <6>1. Quantity[<<b, m>>] \in Int
              BY RowFacts DEF Good
            <6>2. ~(Quantity[<<b, m>>] > 0)
              BY <4>3, <5>1, <5>2 DEF Billable
            <6>3. QED
              BY <6>1, <6>2
          <5>3. QED
            BY <5>2 DEF Excluded
        <4>4. QED
          BY <4>2, <4>3 DEF SkipGroup, GroupAt
      <3>6. InHand(p, b)'
        BY <1>2, <3>1, <3>2, GroupTaken
      <3>7. Handled(p, b)'
        <4>1. ASSUME NEW n \in Good(b), rows[b][n] = "VALID"
              PROVE  n \in proc[p].rows \ GroupAt(p, b)
                     \/ Excluded(b, n, proc[p].known, Good(b))
          BY <3>1, <3>5, <4>1 DEF Handled
        <4>2. QED
          BY <1>1, <1>2, <3>2, <4>1 DEF Handled
      <3>8. QED
        BY <3>3, <3>4, <3>6, <3>7 DEF Once
    <2>3. QED
      BY <1>1, <1>4, <2>1, <2>2 DEF Intact
  <1>5. QED
    BY <1>3, <1>4

(* A number that is taken: when no other invoice has it, the order that     *)
(* took it is of this invoice, and of all its good rows.                    *)
LEMMA IntactMarked ==
    ASSUME ProcsTyped, StatusTyped, OrdersTyped, RestTyped, Booked, [Next]_vars,
           NEW p \in Procs, NEW b \in Batches, MarkGroup(p, b), NEW c \in Batches,
           Intact(c), Phase(c)
    PROVE  Intact(c)'
  <1>1. /\ UNCHANGED <<orders, parses>> /\ Mark(b, GroupAt(p, b) \cap proc[p].alive)
        /\ Addressed(b, GroupAt(p, b), proc[p].known) /\ NumberAt(p, b) \in proc[p].numbers
    BY DEF MarkGroup, GroupAt, NumberAt, FirstAt
  <1>2. /\ At(p, "groups", b) /\ proc[p].rows # {} /\ Others(p)
        /\ proc'[p].step = "groups" /\ proc'[p].batch = {b} /\ proc'[p].known = proc[p].known
        /\ proc'[p].rows = proc[p].rows \ GroupAt(p, b) /\ proc'[p].alive = proc[p].alive
    BY LeavesGroup DEF Others
  <1>3. CASE c # b
    <2>1. rows'[c] = rows[c]
      BY <1>1, <1>3, Marked
    <2>2. QED
      BY <1>1, <1>2, <1>3, <2>1, IntactElsewhere DEF At
  <1>4. CASE c = b
    <2>1. Parsed(b) /\ Parsed(b)'
      BY <1>2, <1>4, ParsedStays DEF Phase, Committing, At
    <2>2. ASSUME parses[b] = 1
          PROVE  Once(b)'
      <3>1. Once(b)
        BY <1>4, <2>1, <2>2 DEF Intact
      <3>2. /\ Good(b)' = Good(b) /\ Uniform(b)'
            /\ \A n \in RowsOf(b) :
                  rows'[b][n] = IF n \in GroupAt(p, b) THEN "COMMITTED" ELSE rows[b][n]
            /\ \A q \in Procs : Commits(q, b)' => InHand(q, b)' /\ Handled(q, b)'
        BY <1>1, <1>2, <3>1, GroupMarked
      <3>3. \A m \in Numbers : \A r : Has(m, r)' <=> Has(m, r)
        BY <1>1 DEF Has
      <3>4. WholeOrders(b)'
        BY <1>1, <3>1, <3>2, <3>3 DEF Once, WholeOrders
      <3>5. ASSUME NEW n \in GroupAt(p, b), Quantity[<<b, n>>] > 0, <<b, n>> \notin Shared
            PROVE  Number[<<b, n>>] \in Numbers /\ Has(Number[<<b, n>>], <<b, n>>)
        <4> DEFINE number == NumberAt(p, b)
        <4>1. /\ number \in Numbers /\ Number[<<b, n>>] = number /\ <<b, n>> \in Rows
          BY <1>1, <1>2, GroupInHand
        <4>2. PICK l \in orders[number].lines : Number[l.row] = number
          BY <1>1, <4>1 DEF Booked
        <4>3. l.row \in Rows
          BY <4>1, <4>2 DEF OrdersTyped
        <4>4. l.row[1] = b /\ Invoice(l.row) = Invoice(<<b, n>>)
          BY <3>5, <4>1, <4>2, <4>3 DEF Shared
        <4>5. n \in Good(b)
          BY <1>2, <3>1, WholeGroup DEF Once, Commits, At
        <4>6. Has(number, <<b, n>>)
          BY <3>1, <3>5, <4>1, <4>2, <4>4, <4>5 DEF Once, WholeOrders
        <4>7. QED
          BY <4>1, <4>6
      <3>6. Lined(b)'
        BY <3>1, <3>2, <3>3, <3>5 DEF Once, Lined
      <3>7. QED
        BY <3>2, <3>4, <3>6 DEF Once
    <2>3. QED
      BY <1>1, <1>4, <2>1, <2>2 DEF Intact
  <1>5. QED
    BY <1>3, <1>4

(* An order is posted, with every good row of its invoice that sells.       *)
LEMMA IntactPosted ==
    ASSUME ProcsTyped, StatusTyped, OrdersTyped, RestTyped, [Next]_vars,
           NEW p \in Procs, NEW b \in Batches, PostGroup(p, b), proc'[p] # Idle,
           NEW c \in Batches, Intact(c), Phase(c)
    PROVE  Intact(c)'
  <1> DEFINE o == [customer |-> Customer[FirstAt(p, b)], lines |-> LinesAt(p, b)]
  <1>0. PICK number \in Numbers : number = NumberAt(p, b)
    BY PostsGroup
  <1>1. /\ orders[number] = NoOrder /\ orders' = [orders EXCEPT ![number] = o]
        /\ UNCHANGED <<batch, parses>>
        /\ Mark(b, GroupAt(p, b) \cap proc[p].alive)
    BY <1>0, PostsGroup
  <1>2. /\ At(p, "groups", b) /\ proc[p].rows # {} /\ Others(p)
        /\ proc'[p].step = "groups" /\ proc'[p].batch = {b} /\ proc'[p].known = proc[p].known
        /\ proc'[p].rows = proc[p].rows \ GroupAt(p, b) /\ proc'[p].alive = proc[p].alive
    BY PostsGroup DEF Others
  <1>a. o.lines = LinesAt(p, b)
    OBVIOUS
  <1>b. /\ orders'[number].lines = LinesAt(p, b) /\ orders[number].lines = {}
        /\ \A m \in Numbers : m # number => orders'[m] = orders[m]
    <2> HIDE DEF o
    <2>1. QED
      BY <1>1, <1>a DEF OrdersTyped, NoOrder
  <1> HIDE DEF o
  <1>c. ASSUME NEW n \in Billable(b, GroupAt(p, b))
        PROVE  Has(number, <<b, n>>)'
    <2>1. [row |-> <<b, n>>, qty |-> Quantity[<<b, n>>]] \in LinesAt(p, b)
      BY DEF LinesAt
    <2>2. QED
      BY <1>b, <2>1 DEF Has
  <1>d. \A m \in Numbers : \A r : Has(m, r) => Has(m, r)'
    BY <1>b DEF Has
  <1>e. ASSUME NEW l \in LinesAt(p, b)
        PROVE  \E n \in GroupAt(p, b) : l.row = <<b, n>>
    <2>1. PICK n \in Billable(b, GroupAt(p, b)) :
               l = [row |-> <<b, n>>, qty |-> Quantity[<<b, n>>]]
      BY DEF LinesAt
    <2>2. n \in GroupAt(p, b) /\ l.row = <<b, n>>
      BY <2>1 DEF Billable
    <2>3. QED
      BY <2>2
  <1>3. CASE c # b
    <2>1. rows'[c] = rows[c]
      BY <1>1, <1>3, Marked
    <2>2. \A m \in Numbers : \/ orders'[m] = orders[m]
                             \/ /\ orders[m].lines = {}
                                /\ \A l \in orders'[m].lines : l.row[1] # c
      BY <1>3, <1>b, <1>e
    <2>3. QED
      BY <1>1, <1>2, <1>3, <2>1, <2>2, IntactElsewhere DEF At
  <1>4. CASE c = b
    <2>1. Parsed(b) /\ Parsed(b)'
      BY <1>2, <1>4, ParsedStays DEF Phase, Committing, At
    <2>2. ASSUME parses[b] = 1
          PROVE  Once(b)'
      <3>1. Once(b) /\ InHand(p, b)
        BY <1>2, <1>4, <2>1, <2>2 DEF Intact, Once, Commits, At
      <3>2. /\ Good(b)' = Good(b) /\ Uniform(b)'
            /\ \A n \in RowsOf(b) :
                  rows'[b][n] = IF n \in GroupAt(p, b) THEN "COMMITTED" ELSE rows[b][n]
            /\ \A q \in Procs : Commits(q, b)' => InHand(q, b)' /\ Handled(q, b)'
        BY <1>1, <1>2, <3>1, GroupMarked
      <3>3. ASSUME NEW m \in Numbers, NEW l \in orders'[m].lines, NEW n \in Good(b),
                   l.row[1] = b, Invoice(l.row) = Invoice(<<b, n>>), Quantity[<<b, n>>] > 0
            PROVE  Has(m, <<b, n>>)'
        <4>1. CASE m # number
          <5>1. Has(m, <<b, n>>)
            BY <1>b, <3>1, <3>3, <4>1 DEF Once, WholeOrders
          <5>2. QED
            BY <1>d, <5>1
        <4>2. CASE m = number
          <5>1. PICK i \in GroupAt(p, b) : l.row = <<b, i>>
            BY <1>b, <1>e, <3>3, <4>2
          <5>2. n \in GroupAt(p, b)
            BY <1>2, <3>1, <3>3, <5>1, WholeGroup DEF Same
          <5>3. n \in Billable(b, GroupAt(p, b))
            BY <3>3, <5>2 DEF Billable
          <5>4. QED
            BY <1>c, <4>2, <5>3
        <4>3. QED
          BY <4>1, <4>2
      <3>4. WholeOrders(b)'
        BY <3>2, <3>3 DEF WholeOrders
      <3>5. ASSUME NEW n \in GroupAt(p, b), Quantity[<<b, n>>] > 0
            PROVE  Number[<<b, n>>] \in Numbers /\ Has(Number[<<b, n>>], <<b, n>>)'
        <4>1. Number[<<b, n>>] = number
          BY <1>0, <1>2, GroupInHand
        <4>2. QED
          BY <1>1, <1>c, <3>5, <4>1 DEF Billable
      <3>6. Lined(b)'
        BY <1>d, <3>1, <3>2, <3>5 DEF Once, Lined
      <3>7. QED
        BY <3>2, <3>4, <3>6 DEF Once
    <2>3. QED
      BY <1>1, <1>4, <2>1, <2>2 DEF Intact
  <1>5. QED
    BY <1>3, <1>4

Following == /\ Typing /\ Booked
             /\ \A b \in Batches : Phase(b) /\ Intact(b)

LEMMA IntactNext ==
    ASSUME Following, [Next]_vars, NEW c \in Batches
    PROVE  Intact(c)'
  <1>0. /\ ProcsTyped /\ StatusTyped /\ OrdersTyped /\ RestTyped /\ Booked
        /\ Phase(c) /\ Intact(c)
    BY Typings DEF Following
  <1>1. CASE UNCHANGED imports
    <2>1. (Parsed(c)' <=> Parsed(c)) /\ \A q \in Procs : Commits(q, c)' <=> Commits(q, c)
      BY <1>1 DEF imports, Parsed, Writes, Commits
    <2>2. QED
      BY <1>0, <1>1, <2>1, IntactFrame DEF imports
  <1>2. QED
    BY <1>0, <1>1, ImportEffects, IntactQuiet, IntactDeleted, IntactInserted, IntactRead,
       IntactSkipped, IntactMarked, IntactPosted

LEMMA FollowingInit == Init => Following
  <1> SUFFICES ASSUME Init
               PROVE  Following
    OBVIOUS
  <1>1. Typing /\ Booked
    BY InitTyped DEF Init, ImportInit, Booked, NoOrder, Idle
  <1>2. ASSUME NEW b \in Batches
        PROVE  Phase(b) /\ Intact(b)
    <2>1. /\ parses[b] = 0 /\ batch[b] = "NONE" /\ rows[b] = NoRows
          /\ \A p \in Procs : proc[p].step = "idle"
          /\ \A m \in Numbers : orders[m].lines = {}
      BY DEF Init, ImportInit, Idle, NoOrder
    <2>2. Phase(b) /\ ~Parsed(b)
      BY <2>1 DEF Phase, Parsed, Writes, Writing, Committing, Closed
    <2>3. Untouched(b)
      BY <2>1, RowsAreNumbered DEF Untouched, NoRows
    <2>4. QED
      BY <2>1, <2>2, <2>3 DEF Intact
  <1>3. QED
    BY <1>1, <1>2 DEF Following

LEMMA FollowingNext == Following /\ [Next]_vars => Following'
  <1> SUFFICES ASSUME Following, [Next]_vars
               PROVE  Following'
    OBVIOUS
  <1>1. Typing' /\ Booked'
    BY NextTyped, BookedNext, Typings DEF Following
  <1>2. \A b \in Batches : Phase(b)'
    BY PhaseNext, Typings DEF Following
  <1>3. \A b \in Batches : Intact(b)'
    BY IntactNext
  <1>4. QED
    BY <1>1, <1>2, <1>3 DEF Following

(* However commits of a batch that was parsed once interleave and die, a    *)
(* row that is COMMITTED and sells something is a line of the order of its  *)
(* number, when no other invoice has that number (imports.service.ts        *)
(* commitSalesRows).                                                        *)
THEOREM CommittedRowsAreLines == Spec => []RowIsLine
  <1>1. Following => RowIsLine
    <2>1. ASSUME Following, NEW r \in Rows, rows[r[1]][r[2]] = "COMMITTED", Quantity[r] > 0,
                 r \notin Shared, parses[r[1]] = 1
          PROVE  \E l \in orders[Number[r]].lines : l.row = r
      <3>1. r[1] \in Batches /\ r[2] \in RowsOf(r[1]) /\ r = <<r[1], r[2]>>
        BY RowsAreNumbered
      <3>2. Parsed(r[1])
        BY <2>1, <3>1 DEF Following, Intact, Untouched
      <3>3. Lined(r[1])
        BY <2>1, <3>1, <3>2 DEF Following, Intact, Once
      <3>4. Has(Number[r], r)
        BY <2>1, <3>1, <3>3 DEF Lined
      <3>5. QED
        BY <3>4 DEF Has
    <2>2. QED
      BY <2>1 DEF RowIsLine
  <1>2. QED
    BY <1>1, FollowingInit, FollowingNext, PTL DEF Spec

-----------------------------------------------------------------------------
(* What a script does with itself.                                          *)

OthersTask(p) == \A q \in Procs : q # p => task'[q] = task[q]

LEMMA TaskMoved ==
    ASSUME CadegTypeOK, NEW p \in Procs, NEW v, task' = [task EXCEPT ![p] = v]
    PROVE  OthersTask(p) /\ task'[p] = v
  BY DEF CadegTypeOK, OthersTask

LEMMA Ends ==
    ASSUME CadegTypeOK, NEW p \in Procs, End(p)
    PROVE  OthersTask(p) /\ task'[p] = NoTask
  BY TaskMoved DEF End

LEMMA Moves ==
    ASSUME CadegTypeOK, NEW p \in Procs, NEW step, Move(p, step)
    PROVE
        /\ OthersTask(p) /\ task'[p].step = step /\ task'[p].op = task[p].op
        /\ task'[p].dry = task[p].dry /\ task'[p].at = task[p].at
        /\ task'[p].items = task[p].items /\ task'[p].listed = task[p].listed
        /\ task'[p].names = task[p].names /\ task'[p].numbers = task[p].numbers
        /\ task'[p].lines = task[p].lines /\ task'[p].line = task[p].line
  <1> DEFINE v == [task[p] EXCEPT !.step = step]
  <1>1.
        /\ v.step = step /\ v.op = task[p].op /\ v.dry = task[p].dry /\ v.at = task[p].at
        /\ v.items = task[p].items /\ v.listed = task[p].listed /\ v.names = task[p].names
        /\ v.numbers = task[p].numbers /\ v.lines = task[p].lines /\ v.line = task[p].line
    BY TaskOf DEF Tasks
  <1>2. task' = [task EXCEPT ![p] = v]
    BY DEF Move
  <1> HIDE DEF v
  <1>3. QED
    BY <1>1, <1>2, TaskMoved

LEMMA Advances ==
    ASSUME CadegTypeOK, NEW p \in Procs, Advance(p)
    PROVE
        /\ OthersTask(p) /\ task'[p].step = "walk" /\ task'[p].at = task[p].at + 1
        /\ task'[p].op = task[p].op /\ task'[p].dry = task[p].dry
        /\ task'[p].items = task[p].items /\ task'[p].listed = task[p].listed
        /\ task'[p].names = task[p].names /\ task'[p].numbers = task[p].numbers
        /\ task'[p].lines = task[p].lines /\ task'[p].line = task[p].line
  <1> DEFINE v == [task[p] EXCEPT !.step = "walk", !.at = @ + 1]
  <1>1.
        /\ v.step = "walk" /\ v.at = task[p].at + 1 /\ v.op = task[p].op
        /\ v.dry = task[p].dry /\ v.items = task[p].items /\ v.listed = task[p].listed
        /\ v.names = task[p].names /\ v.numbers = task[p].numbers /\ v.lines = task[p].lines
        /\ v.line = task[p].line
    BY TaskOf DEF Tasks
  <1>2. task' = [task EXCEPT ![p] = v]
    BY DEF Advance
  <1> HIDE DEF v
  <1>3. QED
    BY <1>1, <1>2, TaskMoved

LEMMA ReadsItems ==
    ASSUME CadegTypeOK, NEW p \in Procs, ReadItems(p)
    PROVE
        /\ OthersTask(p) /\ task'[p].step = "suppliers" /\ task'[p].items = Known
        /\ task'[p].op = task[p].op /\ task'[p].dry = task[p].dry
        /\ task'[p].at = task[p].at /\ task'[p].listed = task[p].listed
        /\ task'[p].names = task[p].names /\ task'[p].numbers = task[p].numbers
        /\ task'[p].lines = task[p].lines /\ task'[p].line = task[p].line
  <1> DEFINE v == [task[p] EXCEPT !.step = "suppliers", !.items = Known]
  <1>1.
        /\ v.step = "suppliers" /\ v.items = Known /\ v.op = task[p].op
        /\ v.dry = task[p].dry /\ v.at = task[p].at /\ v.listed = task[p].listed
        /\ v.names = task[p].names /\ v.numbers = task[p].numbers /\ v.lines = task[p].lines
        /\ v.line = task[p].line
    BY TaskOf DEF Tasks
  <1>2. task' = [task EXCEPT ![p] = v]
    BY DEF ReadItems
  <1> HIDE DEF v
  <1>3. QED
    BY <1>1, <1>2, TaskMoved

LEMMA ReadsSuppliers ==
    ASSUME CadegTypeOK, NEW p \in Procs, ReadSuppliers(p)
    PROVE
        /\ OthersTask(p) /\ task'[p].step = "orders"
        /\ task'[p].listed = Known \cap Suppliers /\ task'[p].names = Known \cap Suppliers
        /\ task'[p].op = task[p].op /\ task'[p].dry = task[p].dry
        /\ task'[p].at = task[p].at /\ task'[p].items = task[p].items
        /\ task'[p].numbers = task[p].numbers /\ task'[p].lines = task[p].lines
        /\ task'[p].line = task[p].line
  <1> DEFINE v == [task[p] EXCEPT !.step = "orders", !.listed = Known \cap Suppliers,
                                     !.names = Known \cap Suppliers]
  <1>1.
        /\ v.step = "orders" /\ v.listed = Known \cap Suppliers
        /\ v.names = Known \cap Suppliers /\ v.op = task[p].op /\ v.dry = task[p].dry
        /\ v.at = task[p].at /\ v.items = task[p].items /\ v.numbers = task[p].numbers
        /\ v.lines = task[p].lines /\ v.line = task[p].line
    BY TaskOf DEF Tasks
  <1>2. task' = [task EXCEPT ![p] = v]
    BY DEF ReadSuppliers
  <1> HIDE DEF v
  <1>3. QED
    BY <1>1, <1>2, TaskMoved

LEMMA ReadsPurchases ==
    ASSUME CadegTypeOK, NEW p \in Procs, ReadPurchases(p)
    PROVE
        /\ OthersTask(p) /\ task'[p].step = "bills"
        /\ task'[p].numbers = {bill \in BillSet : purchases[bill] # NoPurchase}
        /\ task'[p].op = task[p].op /\ task'[p].dry = task[p].dry
        /\ task'[p].at = task[p].at /\ task'[p].items = task[p].items
        /\ task'[p].listed = task[p].listed /\ task'[p].names = task[p].names
        /\ task'[p].lines = task[p].lines /\ task'[p].line = task[p].line
  <1> DEFINE v == [task[p] EXCEPT !.step = "bills",
                       !.numbers = {bill \in BillSet : purchases[bill] # NoPurchase}]
  <1>1.
        /\ v.step = "bills" /\ v.numbers = {bill \in BillSet : purchases[bill] # NoPurchase}
        /\ v.op = task[p].op /\ v.dry = task[p].dry /\ v.at = task[p].at
        /\ v.items = task[p].items /\ v.listed = task[p].listed /\ v.names = task[p].names
        /\ v.lines = task[p].lines /\ v.line = task[p].line
    BY TaskOf DEF Tasks
  <1>2. task' = [task EXCEPT ![p] = v]
    BY DEF ReadPurchases
  <1> HIDE DEF v
  <1>3. QED
    BY <1>1, <1>2, TaskMoved

LEMMA SkipsBill ==
    ASSUME CadegTypeOK, NEW p \in Procs, SkipBill(p)
    PROVE
        /\ OthersTask(p) /\ task'[p].at = task[p].at + 1 /\ task'[p].step = task[p].step
        /\ task'[p].op = task[p].op /\ task'[p].dry = task[p].dry
        /\ task'[p].items = task[p].items /\ task'[p].listed = task[p].listed
        /\ task'[p].names = task[p].names /\ task'[p].numbers = task[p].numbers
        /\ task'[p].lines = task[p].lines /\ task'[p].line = task[p].line
  <1> DEFINE v == [task[p] EXCEPT !.at = @ + 1]
  <1>1.
        /\ v.at = task[p].at + 1 /\ v.step = task[p].step /\ v.op = task[p].op
        /\ v.dry = task[p].dry /\ v.items = task[p].items /\ v.listed = task[p].listed
        /\ v.names = task[p].names /\ v.numbers = task[p].numbers /\ v.lines = task[p].lines
        /\ v.line = task[p].line
    BY TaskOf DEF Tasks
  <1>2. task' = [task EXCEPT ![p] = v]
    BY DEF SkipBill
  <1> HIDE DEF v
  <1>3. QED
    BY <1>1, <1>2, TaskMoved

LEMMA ReadsLines ==
    ASSUME CadegTypeOK, NEW p \in Procs, ReadLines(p)
    PROVE
        /\ OthersTask(p) /\ task'[p].step = "lines"
        /\ task'[p].lines = {l.row : l \in UNION {orders[m].lines : m \in Numbers}}
        /\ task'[p].op = task[p].op /\ task'[p].dry = task[p].dry
        /\ task'[p].at = task[p].at /\ task'[p].items = task[p].items
        /\ task'[p].listed = task[p].listed /\ task'[p].names = task[p].names
        /\ task'[p].numbers = task[p].numbers /\ task'[p].line = task[p].line
  <1> DEFINE v == [task[p] EXCEPT !.step = "lines",
                       !.lines = {l.row : l \in UNION {orders[m].lines : m \in Numbers}}]
  <1>1.
        /\ v.step = "lines"
        /\ v.lines = {l.row : l \in UNION {orders[m].lines : m \in Numbers}}
        /\ v.op = task[p].op /\ v.dry = task[p].dry /\ v.at = task[p].at
        /\ v.items = task[p].items /\ v.listed = task[p].listed /\ v.names = task[p].names
        /\ v.numbers = task[p].numbers /\ v.line = task[p].line
    BY TaskOf DEF Tasks
  <1>2. task' = [task EXCEPT ![p] = v]
    BY DEF ReadLines
  <1> HIDE DEF v
  <1>3. QED
    BY <1>1, <1>2, TaskMoved

LEMMA Ships ==
    ASSUME CadegTypeOK, NEW p \in Procs, Ship(p)
    PROVE
        /\ OthersTask(p) /\ task'[p].step = "lines" /\ task'[p].line = {}
        /\ task'[p].op = task[p].op /\ task'[p].dry = task[p].dry
        /\ task'[p].at = task[p].at /\ task'[p].items = task[p].items
        /\ task'[p].listed = task[p].listed /\ task'[p].names = task[p].names
        /\ task'[p].numbers = task[p].numbers /\ task'[p].lines = task[p].lines
  <1> DEFINE v == [task[p] EXCEPT !.line = {}, !.step = "lines"]
  <1>1.
        /\ v.step = "lines" /\ v.line = {} /\ v.op = task[p].op /\ v.dry = task[p].dry
        /\ v.at = task[p].at /\ v.items = task[p].items /\ v.listed = task[p].listed
        /\ v.names = task[p].names /\ v.numbers = task[p].numbers /\ v.lines = task[p].lines
    BY TaskOf DEF Tasks
  <1>2. task' = [task EXCEPT ![p] = v]
    BY DEF Ship
  <1> HIDE DEF v
  <1>3. QED
    BY <1>1, <1>2, TaskMoved

LEMMA StartsTask ==
    ASSUME CadegTypeOK, NEW p \in Procs, NEW op, NEW dry, StartTask(p, op, dry)
    PROVE
        /\ OthersTask(p) /\ task'[p].op = op /\ task'[p].dry = dry /\ task'[p].at = 1
        /\ task'[p].step = IF op \in {"provision", "stage"} THEN "walk" ELSE "place"
        /\ task'[p].items = {} /\ task'[p].listed = {} /\ task'[p].names = {}
        /\ task'[p].numbers = {} /\ task'[p].lines = {} /\ task'[p].line = {}
  <1> DEFINE step == IF op \in {"provision", "stage"} THEN "walk" ELSE "place"
             v == [NoTask EXCEPT !.op = op, !.dry = dry, !.step = step]
  <1>1. task' = [task EXCEPT ![p] = v]
    BY DEF StartTask
  <1> HIDE DEF step
  <1>2.
        /\ v.op = op /\ v.dry = dry /\ v.step = step /\ v.at = 1 /\ v.items = {}
        /\ v.listed = {} /\ v.names = {} /\ v.numbers = {} /\ v.lines = {} /\ v.line = {}
    BY DEF NoTask
  <1> HIDE DEF v
  <1>3. QED
    BY <1>1, <1>2, TaskMoved DEF step

LEMMA CreatesVendor ==
    ASSUME CadegTypeOK, NEW p \in Procs, CreateVendor(p)
    PROVE  \E v \in Suppliers :
        /\ master' = [master EXCEPT ![v] = @ + 1]
        /\ v \notin task[p].names \/ (v = Fallback /\ task[p].listed = {})
        /\ OthersTask(p) /\ task'[p].names = task[p].names \cup {v}
        /\ v = Fallback => v \in task'[p].listed
        /\ task[p].listed \subseteq task'[p].listed
        /\ task'[p].step = task[p].step /\ task'[p].op = task[p].op
        /\ task'[p].dry = task[p].dry /\ task'[p].at = task[p].at
        /\ task'[p].items = task[p].items /\ task'[p].numbers = task[p].numbers
        /\ task'[p].lines = task[p].lines /\ task'[p].line = task[p].line
  <1> DEFINE top == Top[task[p].at]
  <1>1. PICK v \in IF top # {} THEN top ELSE {Fallback} :
             /\ master' = [master EXCEPT ![v] = @ + 1]
             /\ task' = [task EXCEPT ![p] =
                            [task[p] EXCEPT !.names = @ \cup {v},
                                            !.listed = IF top # {} THEN @ ELSE @ \cup {v}]]
    BY DEF CreateVendor
  <1>2. task[p].at \in DOMAIN Bills /\ Vendors(p) = {}
    BY BillAt DEF CreateVendor
  <1>3. top \subseteq Suppliers \ {Fallback} /\ Fallback \in Suppliers
    BY <1>2, TopFacts, CadegAssumption
  <1>4. v \notin task[p].names \/ (v = Fallback /\ task[p].listed = {})
    BY <1>2 DEF Vendors
  <1> DEFINE listed == IF top # {} THEN task[p].listed ELSE task[p].listed \cup {v}
             u == [task[p] EXCEPT !.names = @ \cup {v}, !.listed = listed]
  <1>5. task[p].listed \subseteq listed /\ (v = Fallback => v \in listed)
    BY <1>3
  <1>6. task' = [task EXCEPT ![p] = u]
    BY <1>1
  <1> HIDE DEF listed
  <1>7.
        /\ u.names = task[p].names \cup {v} /\ u.listed = listed /\ u.step = task[p].step
        /\ u.op = task[p].op /\ u.dry = task[p].dry /\ u.at = task[p].at
        /\ u.items = task[p].items /\ u.numbers = task[p].numbers
        /\ u.lines = task[p].lines /\ u.line = task[p].line
    BY TaskOf DEF Tasks
  <1> HIDE DEF u
  <1>8. OthersTask(p) /\ task'[p] = u
    BY <1>6, TaskMoved
  <1>9. QED
    BY <1>1, <1>3, <1>4, <1>5, <1>7, <1>8

LEMMA PostsPurchase ==
    ASSUME CadegTypeOK, NEW p \in Procs, PostPurchase(p)
    PROVE  /\ OthersTask(p) /\ task[p].at \in DOMAIN Bills /\ Bill(p) \in BillSet
           /\ \A bill \in BillSet : purchases[bill] # NoPurchase => purchases'[bill] # NoPurchase
           /\ \/ task'[p] = NoTask
              \/ /\ ~task[p].dry => purchases'[Bill(p)] # NoPurchase
                 /\ task'[p].at = task[p].at + 1
                 /\ task'[p].numbers = task[p].numbers \cup {Bill(p)}
                 /\ task'[p].step = task[p].step /\ task'[p].op = task[p].op
                 /\ task'[p].dry = task[p].dry /\ task'[p].items = task[p].items
                 /\ task'[p].listed = task[p].listed /\ task'[p].names = task[p].names
                 /\ task'[p].lines = task[p].lines /\ task'[p].line = task[p].line
  <1> DEFINE u == [task[p] EXCEPT !.at = @ + 1, !.numbers = @ \cup {Bill(p)}]
             k == task[p].at
  <1>1. k \in DOMAIN Bills /\ Bill(p) \in BillSet
    BY BillAt DEF PostPurchase
  <1>2. PICK v \in Vendors(p), q \in Derived[k] :
             \/ task' = [task EXCEPT ![p] = u] /\ task[p].dry /\ UNCHANGED purchases
             \/ /\ task' = [task EXCEPT ![p] = u]
                /\ purchases' = [purchases EXCEPT ![Bill(p)] =
                                    [vendor |-> v, qty |-> q, total |-> Bills[k].fob]]
             \/ End(p) /\ UNCHANGED purchases
    BY DEF PostPurchase
  <1> DEFINE record == [vendor |-> v, qty |-> q, total |-> Bills[k].fob]
  <1>3. record # NoPurchase
    <2>1. v \in Suppliers
      BY <1>1, TopFacts, TaskOf DEF Vendors, Tasks
    <2>2. v # Blank
      BY <2>1, CadegAssumption
    <2>3. record.vendor = v /\ NoPurchase.vendor = Blank
      BY DEF NoPurchase
    <2> HIDE DEF record
    <2>4. QED
      BY <2>2, <2>3
  <1>4. \/ task' = [task EXCEPT ![p] = u] /\ task[p].dry /\ UNCHANGED purchases
        \/ /\ task' = [task EXCEPT ![p] = u]
           /\ purchases' = [purchases EXCEPT ![Bill(p)] = record]
        \/ End(p) /\ UNCHANGED purchases
    BY <1>2
  <1>5.
        /\ u.at = task[p].at + 1 /\ u.numbers = task[p].numbers \cup {Bill(p)}
        /\ u.step = task[p].step /\ u.op = task[p].op /\ u.dry = task[p].dry
        /\ u.items = task[p].items /\ u.listed = task[p].listed
        /\ u.names = task[p].names /\ u.lines = task[p].lines /\ u.line = task[p].line
    BY TaskOf DEF Tasks
  <1> HIDE DEF u, record
  <1>6. /\ purchases' = [purchases EXCEPT ![Bill(p)] = record] =>
               /\ purchases'[Bill(p)] = record
               /\ \A bill \in BillSet : bill # Bill(p) => purchases'[bill] = purchases[bill]
    BY <1>1 DEF CadegTypeOK
  <1>7. CASE End(p) /\ UNCHANGED purchases
    BY <1>1, <1>7, Ends
  <1>8. CASE task' = [task EXCEPT ![p] = u]
    <2>1. OthersTask(p) /\ task'[p] = u
      BY <1>8, TaskMoved
    <2>2. CASE task[p].dry /\ UNCHANGED purchases
      BY <1>1, <1>5, <2>1, <2>2
    <2>3. CASE purchases' = [purchases EXCEPT ![Bill(p)] = record]
      <3>1. \A bill \in BillSet :
                purchases[bill] # NoPurchase => purchases'[bill] # NoPurchase
        BY <1>3, <1>6, <2>3
      <3>2. purchases'[Bill(p)] # NoPurchase
        BY <1>3, <1>6, <2>3
      <3>3. QED
        BY <1>1, <1>5, <2>1, <3>1, <3>2
    <2>4. QED
      BY <1>4, <1>7, <2>2, <2>3
  <1>9. QED
    BY <1>4, <1>7, <1>8

LEMMA LooksForShipment ==
    ASSUME CadegTypeOK, NEW p \in Procs, LookForShipment(p)
    PROVE  \E r \in task[p].lines :
        /\ OthersTask(p) /\ task'[p].lines = task[p].lines \ {r}
        /\ \/ task'[p].step = task[p].step /\ task'[p].line = task[p].line
           \/ shipped[r] = 0 /\ task'[p].step = "ship" /\ task'[p].line = {r}
        /\ task'[p].op = task[p].op /\ task'[p].dry = task[p].dry
        /\ task'[p].at = task[p].at /\ task'[p].items = task[p].items
        /\ task'[p].listed = task[p].listed /\ task'[p].names = task[p].names
        /\ task'[p].numbers = task[p].numbers
  <1>1. PICK r \in task[p].lines :
             task' = [task EXCEPT ![p] =
                       IF shipped[r] > 0 \/ task[p].dry
                       THEN [task[p] EXCEPT !.lines = @ \ {r}]
                       ELSE [task[p] EXCEPT !.lines = @ \ {r}, !.line = {r}, !.step = "ship"]]
    BY DEF LookForShipment
  <1>2. shipped[r] \in Nat
    BY TaskOf DEF Tasks, CadegTypeOK
  <1> DEFINE u == [task[p] EXCEPT !.lines = @ \ {r}]
             w == [task[p] EXCEPT !.lines = @ \ {r}, !.line = {r}, !.step = "ship"]
  <1>3.
        /\ u.lines = task[p].lines \ {r} /\ u.step = task[p].step /\ u.line = task[p].line
        /\ u.op = task[p].op /\ u.dry = task[p].dry /\ u.at = task[p].at
        /\ u.items = task[p].items /\ u.listed = task[p].listed /\ u.names = task[p].names
        /\ u.numbers = task[p].numbers
    BY TaskOf DEF Tasks
  <1>4.
        /\ w.lines = task[p].lines \ {r} /\ w.step = "ship" /\ w.line = {r}
        /\ w.op = task[p].op /\ w.dry = task[p].dry /\ w.at = task[p].at
        /\ w.items = task[p].items /\ w.listed = task[p].listed /\ w.names = task[p].names
        /\ w.numbers = task[p].numbers
    BY TaskOf DEF Tasks
  <1>5. \/ task' = [task EXCEPT ![p] = u]
        \/ task' = [task EXCEPT ![p] = w] /\ shipped[r] = 0
    <2>1. CASE shipped[r] > 0 \/ task[p].dry
      BY <1>1, <2>1
    <2>2. CASE ~(shipped[r] > 0 \/ task[p].dry)
      <3>1. shipped[r] = 0
        BY <1>2, <2>2
      <3>2. task' = [task EXCEPT ![p] = w]
        BY <1>1, <2>2
      <3>3. QED
        BY <3>1, <3>2
    <2>3. QED
      BY <2>1, <2>2
  <1> HIDE DEF u, w
  <1>6. \/ OthersTask(p) /\ task'[p] = u
        \/ OthersTask(p) /\ task'[p] = w /\ shipped[r] = 0
    BY <1>5, TaskMoved
  <1>7. QED
    BY <1>3, <1>4, <1>6

(* A script goes on with its operation, or ends.                            *)
LEMMA CarriesOn ==
    ASSUME CadegTypeOK, NEW p \in Procs, Carry(p) \/ ScriptDies(p)
    PROVE  /\ OthersTask(p) /\ UNCHANGED together /\ task[p] # NoTask
           /\ task'[p] = NoTask \/ task'[p].op = task[p].op
  <1> DEFINE On == /\ OthersTask(p) /\ UNCHANGED together /\ task[p] # NoTask
                   /\ task'[p] = NoTask \/ task'[p].op = task[p].op
  <1>1. NoTask.step = "idle"
    BY DEF NoTask
  <1>2. CASE Upsert(p) \/ Find(p) \/ Create(p)
    BY <1>1, <1>2, Advances, Moves DEF Upsert, Find, Create, Doing
  <1>3. CASE FinishProvision(p) \/ FinishPurchases(p) \/ FinishShipments(p) \/ ScriptDies(p)
    BY <1>1, <1>3, Ends DEF FinishProvision, FinishPurchases, FinishShipments, ScriptDies, Doing
  <1>4. CASE FindPlace(p) \/ BuildPlace(p)
    BY <1>1, <1>4, Moves, Ends DEF FindPlace, BuildPlace, Doing
  <1>5. CASE ReadItems(p) \/ ReadSuppliers(p) \/ ReadPurchases(p) \/ ReadLines(p)
    BY <1>1, <1>5, ReadsItems, ReadsSuppliers, ReadsPurchases, ReadsLines
       DEF ReadItems, ReadSuppliers, ReadPurchases, ReadLines, Doing
  <1>6. CASE SkipBill(p)
    BY <1>1, <1>6, SkipsBill DEF SkipBill, AtBill, Doing
  <1>7. CASE CreateVendor(p)
    BY <1>1, <1>7, CreatesVendor DEF CreateVendor, AtBill, Doing
  <1>8. CASE PostPurchase(p)
    BY <1>1, <1>8, PostsPurchase DEF PostPurchase, AtBill, Doing
  <1>9. CASE LookForShipment(p)
    BY <1>1, <1>9, LooksForShipment DEF LookForShipment, Doing
  <1>10. CASE Ship(p)
    BY <1>1, <1>10, Ships DEF Ship, Doing
  <1>11. QED
    BY <1>2, <1>3, <1>4, <1>5, <1>6, <1>7, <1>8, <1>9, <1>10 DEF Carry

LEMMA ScriptSteps ==
    ASSUME [Next]_vars
    PROVE  \/ UNCHANGED <<cadegVars, master>>
           \/ \E p \in Procs, s \in Scripts : StartTask(p, s[1], s[2])
           \/ \E p \in Procs : Carry(p) \/ ScriptDies(p)
  <1>1. ASSUME NEW p \in Procs, ImportNext(p), UNCHANGED cadegVars
        PROVE  UNCHANGED master
    <2>1. ASSUME NEW b \in Batches, Proceed(p, b)
          PROVE  UNCHANGED master
      BY <2>1 DEF Proceed, QueueParse, Reread, Lookup, MarkParsing, DeleteRows, InsertRows,
         Settle, Acknowledge, ReadRows, ReadCustomers, ReadNumbers, SkipGroup, MarkGroup,
         PostGroup, FinishCommit
    <2>2. QED
      BY <1>1, <2>1 DEF ImportNext, CreateBatch, ValidateBatch, CommitBatch, Ingest, TakeParse,
         TakeValidate, Crash, ParseThrows
  <1>2. ASSUME UNCHANGED vars
        PROVE  UNCHANGED <<cadegVars, master>>
    BY <1>2 DEF vars, cadegVars
  <1>3. QED
    BY <1>1, <1>2 DEF Next, CadegNext

(* An order keeps its lines.                                                *)
LEMMA LinesStay ==
    ASSUME ProcsTyped, OrdersTyped, [Next]_vars, NEW m \in Numbers, NEW r, Has(m, r)
    PROVE  Has(m, r)'
  <1>1. ASSUME UNCHANGED orders
        PROVE  Has(m, r)'
    BY <1>1 DEF Has
  <1>2. ASSUME NEW p \in Procs, NEW b \in Batches, PostGroup(p, b)
        PROVE  Has(m, r)'
    <2>1. orders[m] # NoOrder
      BY DEF Has, NoOrder
    <2>2. \/ UNCHANGED orders
          \/ /\ orders[NumberAt(p, b)] = NoOrder
             /\ \E o : orders' = [orders EXCEPT ![NumberAt(p, b)] = o]
      <3>1. \/ orders' = orders
            \/ /\ orders[NumberAt(p, b)] = NoOrder
               /\ orders' = [orders EXCEPT ![NumberAt(p, b)] =
                                [customer |-> Customer[FirstAt(p, b)],
                                 lines |-> LinesAt(p, b)]]
        BY <1>2, PostsGroup
      <3>2. QED
        BY <3>1
    <2>3. orders'[m] = orders[m]
      BY <2>1, <2>2 DEF OrdersTyped
    <2>4. QED
      BY <2>3 DEF Has
  <1>3. QED
    BY <1>1, <1>2, OrdersStep

-----------------------------------------------------------------------------
(* Scripts of a kind that never ran at once: nothing is created twice,      *)
(* nothing shipped twice.                                                   *)

Active(p, k) == task[p] # NoTask /\ Kind(task[p].op) = k
Alone(k) == k \notin together => \A p, q \in Procs : Active(p, k) /\ Active(q, k) => p = q

LEMMA AloneNext ==
    ASSUME CadegTypeOK, NEW k, Alone(k), [Next]_vars
    PROVE  Alone(k)'
  <1>1. CASE UNCHANGED <<cadegVars, master>>
    BY <1>1 DEF cadegVars, Alone, Active
  <1>2. ASSUME NEW p \in Procs, Carry(p) \/ ScriptDies(p)
        PROVE  Alone(k)'
    <2>1. \A q \in Procs : Active(q, k)' => Active(q, k)
      BY <1>2, CarriesOn DEF Active, OthersTask
    <2>2. QED
      BY <1>2, <2>1, CarriesOn DEF Alone
  <1>3. ASSUME NEW p \in Procs, NEW s \in Scripts, StartTask(p, s[1], s[2])
        PROVE  Alone(k)'
    <2>1. /\ \A q \in Procs : q # p => (Active(q, k)' <=> Active(q, k))
          /\ task'[p].op = s[1]
      BY <1>3, StartsTask DEF OthersTask, Active
    <2>2. together' = together \cup
              {j \in {Kind(s[1])} : \E q \in Procs : task[q] # NoTask /\ Kind(task[q].op) = j}
      BY <1>3 DEF StartTask
    <2>3. CASE k # Kind(s[1])
      <3>1. ~Active(p, k)'
        BY <2>1, <2>3 DEF Active
      <3>2. k \notin together' => k \notin together
        BY <2>2
      <3>3. QED
        BY <2>1, <3>1, <3>2 DEF Alone
    <2>4. CASE k = Kind(s[1])
      <3>1. k \notin together' => \A q \in Procs : ~Active(q, k)
        BY <2>2, <2>4 DEF Active
      <3>2. QED
        BY <2>1, <3>1 DEF Alone
    <2>5. QED
      BY <2>3, <2>4
  <1>4. QED
    BY <1>1, <1>2, <1>3, ScriptSteps

(* What a script that creates master data has seen of it.                   *)
MasterSeen(p) ==
    /\ Doing(p, Provisioning, "create") =>
           /\ task[p].at \in DOMAIN Provisioned
           /\ master[Provisioned[task[p].at]] = 0
    /\ Doing(p, {"purchases"}, "orders") \/ Doing(p, {"purchases"}, "bills") =>
           /\ task[p].names = Known \cap Suppliers
           /\ Fallback \in task[p].names => Fallback \in task[p].listed
MasterOnce ==
    "master" \notin together =>
        /\ \A e \in Entries : master[e] <= 1
        /\ \A p \in Procs : MasterSeen(p)

LEMMA EntriesListed ==
    \A k \in DOMAIN Provisioned : Provisioned[k] \in Entries \ {Place}
  BY CadegAssumption

LEMMA MasterTyped ==
    ASSUME RestTyped
    PROVE  master \in [Entries -> Nat] /\ \A e \in Entries : e \in Known <=> master[e] # 0
  BY DEF RestTyped, Known

LEMMA ListedAt ==
    ASSUME CadegTypeOK, NEW p \in Procs, task[p].at <= Len(Provisioned)
    PROVE  task[p].at \in DOMAIN Provisioned
  <1>1. DOMAIN Provisioned = 1 .. Len(Provisioned) /\ Len(Provisioned) \in Nat
    BY CadegAssumption
  <1>2. QED
    BY <1>1, TaskOf

(* While only one script creates, what the others have seen stays so.       *)
LEMMA SeenElsewhere ==
    ASSUME CadegTypeOK, RestTyped, NEW p \in Procs, NEW q \in Procs, q # p, MasterSeen(q),
           OthersTask(p), Active(p, "master") => ~Active(q, "master"),
           UNCHANGED master \/ Active(p, "master") \/ master' = [master EXCEPT ![Place] = 1]
    PROVE  MasterSeen(q)'
  <1>1. task'[q] = task[q]
    BY DEF OthersTask
  <1>2. /\ Doing(q, Provisioning, "create") => Active(q, "master")
        /\ Doing(q, {"purchases"}, "orders") \/ Doing(q, {"purchases"}, "bills")
               => Active(q, "master")
    BY DEF Doing, Active, Provisioning, Kind, NoTask
  <1>3. CASE UNCHANGED master
    BY <1>1, <1>3 DEF MasterSeen, Doing, Known
  <1>4. CASE Active(p, "master")
    BY <1>1, <1>2, <1>4 DEF MasterSeen, Doing
  <1>5. CASE master' = [master EXCEPT ![Place] = 1]
    <2>1. /\ \A e \in Entries : e # Place => master'[e] = master[e]
          /\ Known' \cap Suppliers = Known \cap Suppliers
      BY <1>5, CadegAssumption DEF RestTyped, Known
    <2>2. Doing(q, Provisioning, "create") =>
              master'[Provisioned[task[q].at]] = master[Provisioned[task[q].at]]
      BY <2>1, EntriesListed DEF MasterSeen
    <2>3. QED
      BY <1>1, <2>1, <2>2 DEF MasterSeen, Doing
  <1>6. QED
    BY <1>3, <1>4, <1>5

LEMMA MasterOnceNext ==
    ASSUME CadegTypeOK, RestTyped, Alone("master"), MasterOnce, [Next]_vars
    PROVE  MasterOnce'
  <1> SUFFICES ASSUME "master" \notin together'
               PROVE  (\A e \in Entries : master'[e] <= 1) /\ \A q \in Procs : MasterSeen(q)'
    BY DEF MasterOnce
  <1> DEFINE Goal == (\A e \in Entries : master'[e] <= 1) /\ \A q \in Procs : MasterSeen(q)'
  <1>0. NoTask.step = "idle"
    BY DEF NoTask
  <1>1. ASSUME UNCHANGED <<cadegVars, master>>
        PROVE  Goal
    BY <1>1 DEF cadegVars, MasterOnce, MasterSeen, Doing, Known
  <1>2. ASSUME NEW p \in Procs, OthersTask(p), "master" \notin together,
               UNCHANGED master \/ Active(p, "master") \/ master' = [master EXCEPT ![Place] = 1],
               \A e \in Entries : master'[e] <= 1, MasterSeen(p)'
        PROVE  Goal
    <2>1. \A q \in Procs : q # p => MasterSeen(q) /\ ~(Active(p, "master") /\ Active(q, "master"))
      BY <1>2 DEF MasterOnce, Alone
    <2>2. \A q \in Procs : q # p => MasterSeen(q)'
      BY <1>2, <2>1, SeenElsewhere
    <2>3. QED
      BY <1>2, <2>2
  <1>3. ASSUME NEW p \in Procs,
               task'[p].step \notin {"create", "orders", "bills"}
                   \/ task'[p].op = "shipments"
        PROVE  MasterSeen(p)'
    BY <1>3 DEF MasterSeen, Doing, Provisioning
  <1>4. ASSUME NEW p \in Procs, NEW s \in Scripts, StartTask(p, s[1], s[2])
        PROVE  Goal
    <2>1. OthersTask(p) /\ task'[p].step \in {"walk", "place"}
      BY <1>4, StartsTask
    <2>2. together \subseteq together' /\ UNCHANGED master
      BY <1>4 DEF StartTask
    <2>3. QED
      BY <1>2, <1>3, <2>1, <2>2 DEF MasterOnce
  <1>5. ASSUME NEW p \in Procs, Carry(p) \/ ScriptDies(p)
        PROVE  OthersTask(p) /\ "master" \notin together /\ \A e \in Entries : master[e] <= 1
    BY <1>5, CarriesOn DEF MasterOnce
  <1>6. ASSUME NEW p \in Procs, Carry(p) \/ ScriptDies(p), UNCHANGED master, MasterSeen(p)'
        PROVE  Goal
    BY <1>2, <1>5, <1>6
  <1>7. ASSUME NEW p \in Procs, Upsert(p)
        PROVE  Goal
    <2>1. task'[p].step = "walk" /\ Active(p, "master")
      BY <1>0, <1>7, Advances DEF Upsert, Doing, Active, Provisioning, Kind
    <2>2. master' = [master EXCEPT ![Provisioned[task[p].at]] = IF @ = 0 THEN 1 ELSE @]
      BY <1>7 DEF Upsert
    <2>3. \A e \in Entries : master'[e] <= 1
      <3>1. \A e \in Entries : master[e] <= 1
        BY <1>5, <1>7 DEF Carry
      <3>2. QED
        BY <2>2, <3>1 DEF RestTyped
    <2>4. QED
      BY <1>2, <1>3, <1>5, <1>7, <2>1, <2>3 DEF Carry
  <1>8. ASSUME NEW p \in Procs, Find(p)
        PROVE  Goal
    <2>1. UNCHANGED master
      BY <1>8 DEF Find
    <2>2. MasterSeen(p)'
      <3>1. CASE Advance(p)
        BY <1>3, <3>1, Advances
      <3>2. CASE Move(p, "create") /\ ~(master[Provisioned[task[p].at]] > 0)
        <4>1. task[p].at \in DOMAIN Provisioned
          BY <1>8, ListedAt DEF Find
        <4>2. master[Provisioned[task[p].at]] = 0
          BY <3>2, <4>1, EntriesListed DEF RestTyped
        <4>3. task'[p].step = "create" /\ task'[p].at = task[p].at
          BY <3>2, Moves
        <4>4. QED
          BY <2>1, <4>1, <4>2, <4>3 DEF MasterSeen, Doing
      <3>3. QED
        BY <1>8, <3>1, <3>2 DEF Find
    <2>3. QED
      BY <1>6, <1>8, <2>1, <2>2 DEF Carry
  <1>9. ASSUME NEW p \in Procs, Create(p)
        PROVE  Goal
    <2> DEFINE e == Provisioned[task[p].at]
    <2>1. task'[p].step = "walk" /\ Active(p, "master")
      BY <1>0, <1>9, Advances DEF Create, Doing, Active, Provisioning, Kind
    <2>2. master' = [master EXCEPT ![e] = master[e] + 1]
      BY <1>9 DEF Create
    <2>3. master[e] = 0 /\ "master" \notin together /\ \A f \in Entries : master[f] <= 1
      BY <1>5, <1>9 DEF Create, Carry, MasterOnce, MasterSeen
    <2> HIDE DEF e
    <2>4. \A f \in Entries : master'[f] <= 1
      BY <2>2, <2>3 DEF RestTyped
    <2>5. QED
      BY <1>2, <1>3, <1>5, <1>9, <2>1, <2>4 DEF Carry
  <1>10. ASSUME NEW p \in Procs, FindPlace(p)
         PROVE  Goal
    <2>1. UNCHANGED master
      BY <1>10 DEF FindPlace
    <2>2. task'[p].step \in {"build", "items", "orders"}
          /\ (task'[p].step = "orders" => task'[p].op = "shipments")
      BY <1>10, Moves DEF FindPlace, Doing
    <2>3. MasterSeen(p)'
      BY <1>3, <2>2
    <2>4. QED
      BY <1>6, <1>10, <2>1, <2>3 DEF Carry
  <1>11. ASSUME NEW p \in Procs, BuildPlace(p)
         PROVE  Goal
    <2>1. UNCHANGED master \/ master' = [master EXCEPT ![Place] = 1]
      BY <1>11 DEF BuildPlace
    <2>2. task'[p].step \in {"idle", "items", "orders"}
          /\ (task'[p].step = "orders" => task'[p].op = "shipments")
      BY <1>0, <1>11, Moves, Ends DEF BuildPlace, Doing
    <2>3. MasterSeen(p)'
      BY <1>3, <2>2
    <2>4. \A e \in Entries : master'[e] <= 1
      <3>1. \A e \in Entries : master[e] <= 1
        BY <1>5, <1>11 DEF Carry
      <3>2. QED
        BY <2>1, <3>1 DEF RestTyped
    <2>5. QED
      BY <1>2, <1>5, <1>11, <2>1, <2>3, <2>4 DEF Carry
  <1>12. ASSUME NEW p \in Procs, ReadItems(p)
         PROVE  Goal
    <2>1. UNCHANGED master /\ task'[p].step = "suppliers"
      BY <1>12, ReadsItems DEF ReadItems
    <2>2. QED
      BY <1>3, <1>6, <1>12, <2>1 DEF Carry
  <1>13. ASSUME NEW p \in Procs, ReadSuppliers(p)
         PROVE  Goal
    <2>1. /\ UNCHANGED master /\ task'[p].step = "orders"
          /\ task'[p].names = Known \cap Suppliers /\ task'[p].listed = Known \cap Suppliers
      BY <1>13, ReadsSuppliers DEF ReadSuppliers
    <2>2. MasterSeen(p)'
      BY <2>1 DEF MasterSeen, Doing, Known
    <2>3. QED
      BY <1>6, <1>13, <2>1, <2>2 DEF Carry
  <1>14. ASSUME NEW p \in Procs, ReadPurchases(p) \/ SkipBill(p) \/ PostPurchase(p)
         PROVE  Goal
    <2>1. /\ UNCHANGED master
          /\ Doing(p, {"purchases"}, "orders") \/ Doing(p, {"purchases"}, "bills")
      BY <1>14 DEF ReadPurchases, SkipBill, PostPurchase, AtBill
    <2>2. \/ task'[p] = NoTask
          \/ /\ task'[p].names = task[p].names /\ task'[p].listed = task[p].listed
             /\ task'[p].step = "bills"
      BY <1>14, ReadsPurchases, SkipsBill, PostsPurchase
         DEF SkipBill, PostPurchase, AtBill, Doing
    <2>3. "master" \notin together
      BY <1>5, <1>14 DEF Carry
    <2>4. MasterSeen(p)
      BY <2>3 DEF MasterOnce
    <2>5. CASE task'[p] = NoTask
      BY <1>0, <1>3, <1>6, <1>14, <2>1, <2>5 DEF Carry
    <2>6. CASE task'[p] # NoTask
      <3>1. MasterSeen(p)'
        BY <2>1, <2>2, <2>4, <2>6 DEF MasterSeen, Doing, Known
      <3>2. QED
        BY <1>6, <1>14, <2>1, <3>1 DEF Carry
    <2>7. QED
      BY <2>5, <2>6
  <1>15. ASSUME NEW p \in Procs, CreateVendor(p)
         PROVE  Goal
    <2>1. "master" \notin together /\ \A e \in Entries : master[e] <= 1
      BY <1>5, <1>15 DEF Carry
    <2>2. Doing(p, {"purchases"}, "bills") /\ Active(p, "master")
      BY <1>0, <1>15 DEF CreateVendor, AtBill, Doing, Active, Kind
    <2>3. PICK v \in Suppliers :
              /\ master' = [master EXCEPT ![v] = @ + 1]
              /\ v \notin task[p].names \/ (v = Fallback /\ task[p].listed = {})
              /\ task'[p].names = task[p].names \cup {v}
              /\ v = Fallback => v \in task'[p].listed
              /\ task[p].listed \subseteq task'[p].listed
              /\ task'[p].step = task[p].step /\ task'[p].op = task[p].op
      BY <1>15, CreatesVendor
    <2>4. /\ task[p].names = Known \cap Suppliers
          /\ Fallback \in task[p].names => Fallback \in task[p].listed
      BY <2>1, <2>2 DEF MasterOnce, MasterSeen
    <2>5. v \notin Known /\ v \in Entries
      BY <2>3, <2>4, CadegAssumption
    <2>6. master[v] = 0
      BY <2>5 DEF Known, RestTyped
    <2>7. /\ master'[v] = 1
          /\ \A e \in Entries : e # v => master'[e] = master[e]
      BY <2>3, <2>5, <2>6 DEF RestTyped
    <2>8. Known' \cap Suppliers = (Known \cap Suppliers) \cup {v}
      BY <2>5, <2>7, CadegAssumption DEF Known
    <2>9. MasterSeen(p)'
      BY <2>2, <2>3, <2>4, <2>8 DEF MasterSeen, Doing, Provisioning
    <2>10. \A e \in Entries : master'[e] <= 1
      BY <2>1, <2>7
    <2>11. QED
      BY <1>2, <1>5, <1>15, <2>2, <2>9, <2>10 DEF Carry
  <1>16. ASSUME NEW p \in Procs, ReadLines(p) \/ LookForShipment(p) \/ Ship(p)
         PROVE  Goal
    <2>1. UNCHANGED master /\ task[p].op = "shipments"
      BY <1>16 DEF ReadLines, LookForShipment, Ship, Doing
    <2>2. task'[p].op = task[p].op
      BY <1>16, ReadsLines, LooksForShipment, Ships
    <2>3. QED
      BY <1>3, <1>6, <1>16, <2>1, <2>2 DEF Carry
  <1>17. ASSUME NEW p \in Procs, FinishProvision(p) \/ FinishPurchases(p) \/ FinishShipments(p)
                \/ ScriptDies(p)
         PROVE  Goal
    <2>1. UNCHANGED master /\ End(p)
      BY <1>17 DEF FinishProvision, FinishPurchases, FinishShipments, ScriptDies
    <2>2. task'[p].step = "idle"
      BY <1>0, <2>1, Ends
    <2>3. QED
      BY <1>3, <1>6, <1>17, <2>1, <2>2 DEF Carry
  <1> HIDE DEF Goal
  <1>18. Goal
    BY ScriptSteps, <1>1, <1>4, <1>7, <1>8, <1>9, <1>10, <1>11, <1>12, <1>13, <1>14, <1>15,
       <1>16, <1>17 DEF Carry
  <1>19. QED
    BY <1>18 DEF Goal

-----------------------------------------------------------------------------
(* Shipments.                                                               *)

Booking(r) == Number[r] \in Numbers /\ Has(Number[r], r)
ShipmentSeen(p) ==
    /\ \A r \in task[p].lines \cup task[p].line : Booking(r)
    /\ "shipments" \notin together /\ Doing(p, {"shipments"}, "ship") =>
           \A r \in task[p].line : shipped[r] = 0
ShippedOnce ==
    /\ \A p \in Procs : ShipmentSeen(p)
    /\ \A r \in Rows :
          /\ shipped[r] > 1 => "shipments" \in together
          /\ shipped[r] > 0 => Booking(r)

LEMMA ShippedOnceNext ==
    ASSUME CadegTypeOK, ProcsTyped, OrdersTyped, Booked, Alone("shipments"), ShippedOnce,
           [Next]_vars
    PROVE  ShippedOnce'
  <1> DEFINE Counted == \A r \in Rows : /\ shipped'[r] > 1 => "shipments" \in together'
                                        /\ shipped'[r] > 0 => Booking(r)'
  <1>0. NoTask.step = "idle" /\ NoTask.lines = {} /\ NoTask.line = {}
    BY DEF NoTask
  <1>1. \A r : Booking(r) => Booking(r)'
    BY LinesStay DEF Booking
  <1>2. together \subseteq together'
    BY ScriptSteps, CarriesOn DEF cadegVars, StartTask
  <1>3. UNCHANGED shipped => Counted
    BY <1>1, <1>2 DEF ShippedOnce
  <1>4. ASSUME UNCHANGED <<cadegVars, master>>
        PROVE  ShippedOnce'
    BY <1>1, <1>3, <1>4 DEF ShippedOnce, ShipmentSeen, Doing, cadegVars
  <1>5. ASSUME NEW p \in Procs, OthersTask(p), UNCHANGED shipped, ShipmentSeen(p)'
        PROVE  ShippedOnce'
    BY <1>1, <1>2, <1>3, <1>5 DEF ShippedOnce, ShipmentSeen, Doing, OthersTask
  <1>6. ASSUME NEW p \in Procs, OthersTask(p), UNCHANGED shipped,
               \A r \in task'[p].lines \cup task'[p].line : Booking(r)', task'[p].step # "ship"
        PROVE  ShippedOnce'
    BY <1>5, <1>6 DEF ShipmentSeen, Doing
  <1>7. ASSUME NEW p \in Procs, OthersTask(p), UNCHANGED shipped,
               task'[p].lines = task[p].lines, task'[p].line = task[p].line,
               task'[p].step # "ship"
        PROVE  ShippedOnce'
    BY <1>1, <1>6, <1>7 DEF ShippedOnce, ShipmentSeen
  <1>8. ASSUME NEW p \in Procs, NEW s \in Scripts, StartTask(p, s[1], s[2])
        PROVE  ShippedOnce'
    <2>1. /\ OthersTask(p) /\ task'[p].lines = {} /\ task'[p].line = {}
          /\ task'[p].step # "ship"
      BY <1>8, StartsTask
    <2>2. UNCHANGED shipped
      BY <1>8 DEF StartTask
    <2>3. QED
      BY <1>6, <2>1, <2>2
  <1>9. ASSUME NEW p \in Procs, End(p), UNCHANGED shipped
        PROVE  ShippedOnce'
    BY <1>0, <1>6, <1>9, Ends
  <1>10. ASSUME NEW p \in Procs, FinishProvision(p) \/ FinishPurchases(p) \/ FinishShipments(p)
                \/ ScriptDies(p)
         PROVE  ShippedOnce'
    BY <1>9, <1>10 DEF FinishProvision, FinishPurchases, FinishShipments, ScriptDies
  <1>11. ASSUME NEW p \in Procs, Upsert(p) \/ Find(p) \/ Create(p)
         PROVE  ShippedOnce'
    <2>1. UNCHANGED shipped /\ (Advance(p) \/ Move(p, "create"))
      BY <1>11 DEF Upsert, Find, Create
    <2>2. QED
      BY <1>7, <2>1, Advances, Moves
  <1>12. ASSUME NEW p \in Procs, FindPlace(p) \/ BuildPlace(p)
         PROVE  ShippedOnce'
    <2>1. UNCHANGED shipped
          /\ (End(p) \/ Move(p, "build") \/ Move(p, "items") \/ Move(p, "orders"))
      BY <1>12 DEF FindPlace, BuildPlace
    <2>2. QED
      BY <1>7, <1>9, <2>1, Moves
  <1>13. ASSUME NEW p \in Procs, ReadItems(p) \/ ReadSuppliers(p) \/ ReadPurchases(p)
         PROVE  ShippedOnce'
    <2>1. UNCHANGED shipped
      BY <1>13 DEF ReadItems, ReadSuppliers, ReadPurchases
    <2>2. QED
      BY <1>7, <1>13, <2>1, ReadsItems, ReadsSuppliers, ReadsPurchases
  <1>14. ASSUME NEW p \in Procs, SkipBill(p) \/ CreateVendor(p) \/ PostPurchase(p)
         PROVE  ShippedOnce'
    <2>1. UNCHANGED shipped /\ task[p].step = "bills"
      BY <1>14 DEF SkipBill, CreateVendor, PostPurchase, AtBill, Doing
    <2>2. OthersTask(p) /\ (\/ task'[p] = NoTask
                            \/ /\ task'[p].lines = task[p].lines /\ task'[p].line = task[p].line
                               /\ task'[p].step = task[p].step)
      BY <1>14, SkipsBill, CreatesVendor, PostsPurchase
    <2>3. QED
      BY <1>0, <1>6, <1>7, <2>1, <2>2
  <1>15. ASSUME NEW p \in Procs, ReadLines(p)
         PROVE  ShippedOnce'
    <2>1. /\ OthersTask(p) /\ task'[p].step = "lines" /\ task'[p].line = task[p].line
          /\ task'[p].lines = {l.row : l \in UNION {orders[m].lines : m \in Numbers}}
          /\ UNCHANGED shipped
      BY <1>15, ReadsLines DEF ReadLines
    <2>2. ASSUME NEW m \in Numbers, NEW l \in orders[m].lines
          PROVE  Booking(l.row)'
      <3>1. Number[l.row] = m /\ Has(m, l.row)
        BY DEF Booked, Has
      <3>2. QED
        BY <1>1, <3>1 DEF Booking
    <2>3. \A r \in task[p].line : Booking(r)'
      BY <1>1 DEF ShippedOnce, ShipmentSeen
    <2>4. QED
      BY <1>6, <2>1, <2>2, <2>3
  <1>16. ASSUME NEW p \in Procs, LookForShipment(p)
         PROVE  ShippedOnce'
    <2>1. UNCHANGED <<shipped, together>> /\ task[p].step = "lines" /\ task[p].op = "shipments"
      BY <1>16 DEF LookForShipment, Doing
    <2>2. PICK r \in task[p].lines :
              /\ OthersTask(p) /\ task'[p].lines = task[p].lines \ {r}
              /\ \/ task'[p].step = task[p].step /\ task'[p].line = task[p].line
                 \/ shipped[r] = 0 /\ task'[p].step = "ship" /\ task'[p].line = {r}
      BY <1>16, LooksForShipment
    <2>3. \A t \in task'[p].lines \cup task'[p].line : Booking(t)'
      BY <1>1, <2>2 DEF ShippedOnce, ShipmentSeen
    <2>4. CASE task'[p].step = task[p].step
      BY <1>6, <2>1, <2>2, <2>3, <2>4
    <2>5. CASE shipped[r] = 0 /\ task'[p].line = {r}
      <3>1. ShipmentSeen(p)'
        BY <2>1, <2>3, <2>5 DEF ShipmentSeen
      <3>2. QED
        BY <1>5, <2>1, <2>2, <3>1
    <2>6. QED
      BY <2>2, <2>4, <2>5
  <1>17. ASSUME NEW p \in Procs, Ship(p)
         PROVE  ShippedOnce'
    <2>1. /\ Doing(p, {"shipments"}, "ship") /\ UNCHANGED together
          /\ shipped' = [r \in Rows |-> IF r \in task[p].line THEN shipped[r] + 1 ELSE shipped[r]]
      BY <1>17 DEF Ship
    <2>2. /\ OthersTask(p) /\ task'[p].step = "lines" /\ task'[p].line = {}
          /\ task'[p].lines = task[p].lines
      BY <1>17, Ships
    <2>3. ShipmentSeen(p)
      BY DEF ShippedOnce
    <2>4. Counted
      <3>1. ASSUME NEW r \in Rows
            PROVE  /\ shipped'[r] > 1 => "shipments" \in together'
                   /\ shipped'[r] > 0 => Booking(r)'
        <4>1. shipped[r] \in Nat
          BY DEF CadegTypeOK
        <4>2. CASE r \in task[p].line
          BY <1>1, <2>1, <2>3, <4>1, <4>2 DEF ShipmentSeen
        <4>3. CASE r \notin task[p].line
          BY <1>1, <2>1, <4>3 DEF ShippedOnce
        <4>4. QED
          BY <4>2, <4>3
      <3>2. QED
        BY <3>1
    <2>5. ASSUME NEW q \in Procs
          PROVE  ShipmentSeen(q)'
      <3>1. CASE q = p
        BY <1>1, <2>2, <2>3, <3>1 DEF ShipmentSeen, Doing
      <3>2. CASE q # p
        <4>1. task'[q] = task[q] /\ ShipmentSeen(q)
          BY <2>2, <3>2 DEF OthersTask, ShippedOnce
        <4>2. "shipments" \notin together => ~Doing(q, {"shipments"}, "ship")
          BY <1>0, <2>1, <3>2 DEF Alone, Active, Doing, Kind
        <4>3. QED
          BY <1>1, <2>1, <4>1, <4>2 DEF ShipmentSeen, Doing
      <3>3. QED
        BY <3>1, <3>2
    <2>6. QED
      BY <2>4, <2>5 DEF ShippedOnce
  <1>18. QED
    BY ScriptSteps, <1>4, <1>8, <1>10, <1>11, <1>12, <1>13, <1>14, <1>15, <1>16, <1>17 DEF Carry

(* Found before created: nothing of the master data is there twice and      *)
(* nothing is shipped twice, however often scripts die and are run again,   *)
(* unless two of them ran at once; and only a line of a posted order is     *)
(* shipped (provisionTenant, importPurchases, postSalesInventory).          *)
THEOREM NothingLoadedTwice == Spec => []LoadedOnce
  <1> DEFINE Inv == /\ Typing /\ Booked /\ Alone("master") /\ Alone("shipments")
                    /\ MasterOnce /\ ShippedOnce
  <1>1. Init => Inv
    <2> SUFFICES ASSUME Init
                 PROVE  Inv
      OBVIOUS
    <2>1. Typing /\ Booked
      BY FollowingInit DEF Following
    <2>2. \A p \in Procs : task[p] = NoTask
      BY DEF Init, CadegInit
    <2>3. Alone("master") /\ Alone("shipments")
      BY <2>2 DEF Alone, Active
    <2>4. MasterOnce
      <3>1. \A e \in Entries : master[e] <= 1
        BY MasterAssumption DEF Init
      <3>2. \A p \in Procs : MasterSeen(p)
        BY <2>2 DEF MasterSeen, Doing, NoTask
      <3>3. QED
        BY <3>1, <3>2 DEF MasterOnce
    <2>5. ShippedOnce
      <3>1. \A p \in Procs : ShipmentSeen(p)
        BY <2>2 DEF ShipmentSeen, Doing, NoTask
      <3>2. \A r \in Rows : shipped[r] = 0
        BY DEF Init, CadegInit
      <3>3. QED
        BY <3>1, <3>2 DEF ShippedOnce
    <2>6. QED
      BY <2>1, <2>3, <2>4, <2>5
  <1>2. Inv /\ [Next]_vars => Inv'
    BY Typings, NextTyped, BookedNext, AloneNext, MasterOnceNext, ShippedOnceNext
  <1>3. Inv => LoadedOnce
    BY DEF MasterOnce, ShippedOnce, Booking, Has, LoadedOnce
  <1> HIDE DEF Inv
  <1>4. QED
    BY <1>1, <1>2, <1>3, PTL DEF Spec

-----------------------------------------------------------------------------
(* A run of the purchases import: what it has passed is posted.             *)

BillsSeen(p) ==
    /\ task[p].step \in {"place", "build", "items", "suppliers", "orders"} => task[p].at = 1
    /\ task[p].step = "bills" =>
           /\ ~task[p].dry => \A bill \in task[p].numbers : purchases[bill] # NoPurchase
           /\ \A k \in DOMAIN Bills :
                 /\ k < task[p].at /\ Bills[k].name[1] \in task[p].items /\ Derived[k] # {}
                 => Bills[k].name \in task[p].numbers

LEMMA PurchasesStay ==
    ASSUME CadegTypeOK, [Next]_vars
    PROVE  \A bill \in BillSet : purchases[bill] # NoPurchase => purchases'[bill] # NoPurchase
  <1>1. ASSUME NEW p \in Procs, Carry(p) \/ ScriptDies(p), ~PostPurchase(p)
        PROVE  UNCHANGED purchases
    BY <1>1 DEF Carry, ScriptDies, Upsert, Find, Create, FinishProvision, FindPlace, BuildPlace,
       ReadItems, ReadSuppliers, ReadPurchases, SkipBill, CreateVendor, FinishPurchases,
       ReadLines, LookForShipment, Ship, FinishShipments
  <1>2. ASSUME NEW p \in Procs, NEW s \in Scripts, StartTask(p, s[1], s[2])
        PROVE  UNCHANGED purchases
    BY <1>2 DEF StartTask
  <1>3. UNCHANGED <<cadegVars, master>> => UNCHANGED purchases
    BY DEF cadegVars
  <1>4. QED
    BY <1>1, <1>2, <1>3, ScriptSteps, PostsPurchase

LEMMA BillsSeenNext ==
    ASSUME CadegTypeOK, CadegTypeOK', NEW q \in Procs, BillsSeen(q), [Next]_vars
    PROVE  BillsSeen(q)'
  <1> DEFINE Gone == ~(task'[q].step \in
                         {"place", "build", "items", "suppliers", "orders", "bills"})
  <1>0. NoTask.step = "idle"
    BY DEF NoTask
  <1>a. \A bill \in BillSet : purchases[bill] # NoPurchase => purchases'[bill] # NoPurchase
    BY PurchasesStay
  <1>b. task[q].numbers \subseteq BillSet /\ task[q].at \in Nat \ {0}
    BY TaskOf DEF Tasks
  <1>c. Gone => BillsSeen(q)'
    BY DEF BillsSeen
  <1>d. ASSUME task'[q].at = task[q].at, task[q].at = 1, task'[q].step # "bills"
        PROVE  BillsSeen(q)'
    BY <1>d DEF BillsSeen
  <1>e. ASSUME task'[q].step = task[q].step, task'[q].at = task[q].at,
               task'[q].dry = task[q].dry, task'[q].items = task[q].items,
               task'[q].numbers = task[q].numbers
        PROVE  BillsSeen(q)'
    BY <1>a, <1>b, <1>e DEF BillsSeen
  <1>1. CASE UNCHANGED <<cadegVars, master>>
    BY <1>1, <1>e DEF cadegVars
  <1>2. ASSUME NEW p \in Procs, p # q, OthersTask(p)
        PROVE  BillsSeen(q)'
    BY <1>2, <1>e DEF OthersTask
  <1>3. ASSUME NEW s \in Scripts, StartTask(q, s[1], s[2])
        PROVE  BillsSeen(q)'
    <2>1. task'[q].at = 1 /\ task'[q].step \in {"walk", "place"}
      BY <1>3, StartsTask
    <2>2. QED
      BY <2>1 DEF BillsSeen
  <1>4. ASSUME End(q)
        PROVE  BillsSeen(q)'
    BY <1>0, <1>4, <1>c, Ends
  <1>5. CASE Upsert(q) \/ Find(q) \/ Create(q)
    <2>1. Advance(q) \/ Move(q, "create")
      BY <1>5 DEF Upsert, Find, Create
    <2>2. task'[q].step \in {"walk", "create"}
      BY <2>1, Advances, Moves
    <2>3. QED
      BY <1>c, <2>2
  <1>6. CASE FinishProvision(q) \/ FinishPurchases(q) \/ FinishShipments(q) \/ ScriptDies(q)
    BY <1>4, <1>6 DEF FinishProvision, FinishPurchases, FinishShipments, ScriptDies
  <1>7. CASE FindPlace(q) \/ BuildPlace(q)
    <2>1. task[q].at = 1
      BY <1>7 DEF FindPlace, BuildPlace, Doing, BillsSeen
    <2>2. \/ End(q)
          \/ Move(q, "build") \/ Move(q, "items") \/ Move(q, "orders")
      BY <1>7 DEF FindPlace, BuildPlace
    <2>3. CASE Move(q, "build") \/ Move(q, "items") \/ Move(q, "orders")
      BY <1>d, <2>1, <2>3, Moves
    <2>4. QED
      BY <1>4, <2>2, <2>3
  <1>8. CASE ReadItems(q) \/ ReadSuppliers(q)
    <2>1. task[q].at = 1
      BY <1>8 DEF ReadItems, ReadSuppliers, Doing, BillsSeen
    <2>2. QED
      BY <1>8, <1>d, <2>1, ReadsItems, ReadsSuppliers
  <1>9. CASE ReadPurchases(q)
    <2>1. task[q].at = 1
      BY <1>9 DEF ReadPurchases, Doing, BillsSeen
    <2>2. /\ task'[q].step = "bills" /\ task'[q].at = 1
          /\ task'[q].numbers = {bill \in BillSet : purchases[bill] # NoPurchase}
      BY <1>9, <2>1, ReadsPurchases
    <2>3. \A k \in DOMAIN Bills : ~(k < 1)
      BY BillsAreNumbered
    <2>4. QED
      BY <1>a, <2>2, <2>3 DEF BillsSeen
  <1>10. CASE SkipBill(q)
    <2>1. /\ task[q].step = "bills" /\ ~Wanted(q)
          /\ task'[q].at = task[q].at + 1 /\ task'[q].step = task[q].step
          /\ task'[q].dry = task[q].dry /\ task'[q].items = task[q].items
          /\ task'[q].numbers = task[q].numbers
      BY <1>10, SkipsBill DEF SkipBill, AtBill, Doing
    <2>2. ASSUME NEW k \in DOMAIN Bills, k < task'[q].at, Bills[k].name[1] \in task'[q].items,
                 Derived[k] # {}
          PROVE  Bills[k].name \in task'[q].numbers
      <3>1. k \in Nat
        BY BillsAreNumbered
      <3>2. k < task[q].at \/ k = task[q].at
        BY <1>b, <2>1, <2>2, <3>1
      <3>3. CASE k < task[q].at
        BY <2>1, <2>2, <3>3 DEF BillsSeen
      <3>4. CASE k = task[q].at
        BY <2>1, <2>2, <3>4 DEF Wanted, Bill
      <3>5. QED
        BY <3>2, <3>3, <3>4
    <2>3. QED
      BY <1>a, <1>b, <2>1, <2>2 DEF BillsSeen
  <1>11. CASE CreateVendor(q)
    BY <1>11, <1>e, CreatesVendor
  <1>12. CASE PostPurchase(q)
    <2>1. task[q].step = "bills"
      BY <1>12 DEF PostPurchase, AtBill, Doing
    <2>2. CASE task'[q] = NoTask
      BY <1>0, <1>c, <2>2
    <2>3. CASE task'[q] # NoTask
      <3>1. /\ ~task[q].dry => purchases'[Bill(q)] # NoPurchase
            /\ task'[q].at = task[q].at + 1
            /\ task'[q].numbers = task[q].numbers \cup {Bill(q)}
            /\ task'[q].step = task[q].step /\ task'[q].dry = task[q].dry
            /\ task'[q].items = task[q].items
        BY <1>12, <2>3, PostsPurchase
      <3>2. ASSUME NEW k \in DOMAIN Bills, k < task'[q].at,
                   Bills[k].name[1] \in task'[q].items, Derived[k] # {}
            PROVE  Bills[k].name \in task'[q].numbers
        <4>1. k \in Nat
          BY BillsAreNumbered
        <4>2. k < task[q].at \/ k = task[q].at
          BY <1>b, <3>1, <3>2, <4>1
        <4>3. CASE k < task[q].at
          BY <2>1, <3>1, <3>2, <4>3 DEF BillsSeen
        <4>4. CASE k = task[q].at
          BY <3>1, <4>4 DEF Bill
        <4>5. QED
          BY <4>2, <4>3, <4>4
      <3>3. ~task'[q].dry => \A bill \in task'[q].numbers : purchases'[bill] # NoPurchase
        BY <1>a, <1>b, <2>1, <3>1 DEF BillsSeen
      <3>4. QED
        BY <2>1, <3>1, <3>2, <3>3 DEF BillsSeen
    <2>4. QED
      BY <2>2, <2>3
  <1>13. CASE ReadLines(q) \/ LookForShipment(q) \/ Ship(q)
    <2>1. task'[q].step \in {"lines", "ship"}
      BY <1>13, ReadsLines, LooksForShipment, Ships DEF LookForShipment, Doing
    <2>2. QED
      BY <1>c, <2>1
  <1>14. ASSUME NEW p \in Procs, Carry(p) \/ ScriptDies(p) \/ (\E s \in Scripts : StartTask(p, s[1], s[2]))
         PROVE  OthersTask(p)
    BY <1>14, CarriesOn, StartsTask
  <1> HIDE DEF Gone
  <1>15. QED
    BY ScriptSteps, <1>1, <1>2, <1>3, <1>5, <1>6, <1>7, <1>8, <1>9, <1>10, <1>11, <1>12, <1>13,
       <1>14 DEF Carry

(* Only the commit that finishes closes a batch.                            *)
LEMMA ClosesBatch ==
    ASSUME ProcsTyped, StatusTyped, [Next]_vars, NEW p \in Procs, NEW b \in Batches,
           At(p, "groups", b), proc'[p] = Idle, batch'[b] = "COMMITTED", batch[b] # "COMMITTED"
    PROVE  FinishCommit(p, b)
  <1>1. ASSUME NEW q \in Procs, NEW c \in Batches, FinishCommit(q, c)
        PROVE  q = p /\ c = b
    <2>1. Others(q)
      BY <1>1, Stops DEF FinishCommit
    <2>2. proc'[p] # proc[p]
      BY DEF At, Idle
    <2>3. c = b
      BY <1>1 DEF FinishCommit, StatusTyped
    <2>4. QED
      BY <2>1, <2>2, <2>3 DEF Others
  <1>2. ASSUME NEW q \in Procs, NEW c \in Batches, Proceed(q, c), ~FinishCommit(q, c)
        PROVE  FALSE
    <2>1. CASE MarkParsing(q, c) \/ Settle(q, c)
      BY <2>1 DEF MarkParsing, Settle, StatusTyped
    <2>2. CASE ~(MarkParsing(q, c) \/ Settle(q, c))
      <3>1. UNCHANGED batch
        BY <1>2, <2>2 DEF Proceed, QueueParse, Reread, Lookup, DeleteRows, InsertRows,
           Acknowledge, ReadRows, ReadCustomers, ReadNumbers, SkipGroup, MarkGroup, PostGroup
      <3>2. QED
        BY <3>1
    <2>3. QED
      BY <2>1, <2>2
  <1>3. ASSUME NEW q \in Procs, NEW c \in Batches,
               \/ CreateBatch(q, c) \/ CommitBatch(q, c)
               \/ \E flow \in {"script", "stage"} : Ingest(q, c, flow)
               \/ TakeParse(q, c)
        PROVE  FALSE
    BY <1>3 DEF CreateBatch, CommitBatch, Ingest, TakeParse, StatusTyped
  <1>4. ASSUME NEW q \in Procs, Stage(q) \/ Crash(q) \/ ParseThrows(q)
        PROVE  FALSE
    BY <1>4 DEF Stage, Crash, ParseThrows, StatusTyped
  <1>5. ASSUME UNCHANGED imports
        PROVE  FALSE
    BY <1>5 DEF imports
  <1>6. QED
    BY ImportSteps, <1>1, <1>2, <1>3, <1>4, <1>5

(* When a commit declares its batch COMMITTED, every valid row has been     *)
(* imported but for those it leaves out, and a run of the purchases import  *)
(* that ends has left an order for every amount it could derive a quantity  *)
(* of (commitSalesRows, importPurchases).                                   *)
THEOREM LoadsAreComplete == Spec => LoadComplete
  <1> DEFINE Inv == Following /\ \A q \in Procs : BillsSeen(q)
  <1>1. Init => Inv
    BY FollowingInit DEF Init, CadegInit, BillsSeen, NoTask
  <1>2. Inv /\ [Next]_vars => Inv'
    <2> SUFFICES ASSUME Inv, [Next]_vars
                 PROVE  Inv'
      OBVIOUS
    <2>1. Following'
      BY FollowingNext
    <2>2. CadegTypeOK
      BY Typings DEF Following
    <2>3. CadegTypeOK'
      <3>1. Typing' => CadegTypeOK'
        BY DEF Typing, TypeOK
      <3>2. QED
        BY <2>1, <3>1 DEF Following
    <2>4. \A q \in Procs : BillsSeen(q)'
      BY <2>2, <2>3, BillsSeenNext
    <2>5. QED
      BY <2>1, <2>4
  <1> DEFINE Complete ==
          \A p \in Procs :
              /\ \A b \in Batches :
                    At(p, "groups", b) /\ proc'[p] = Idle /\ batch'[b] = "COMMITTED"
                    /\ batch[b] # "COMMITTED" /\ parses[b] = 1
                        => \A n \in RowsOf(b) :
                               rows[b][n] = "VALID" => LeftOut(<<b, n>>, proc[p].known)
              /\ FinishPurchases(p) /\ ~task[p].dry
                    => \A k \in DOMAIN Bills :
                           Bills[k].name[1] \in task[p].items /\ Derived[k] # {}
                               => purchases[Bills[k].name] # NoPurchase
  <1>3. Inv /\ [Next]_vars => Complete
    <2> SUFFICES ASSUME Inv, [Next]_vars, NEW p \in Procs
                 PROVE  /\ \A b \in Batches :
                              At(p, "groups", b) /\ proc'[p] = Idle /\ batch'[b] = "COMMITTED"
                              /\ batch[b] # "COMMITTED" /\ parses[b] = 1
                                  => \A n \in RowsOf(b) :
                                         rows[b][n] = "VALID" => LeftOut(<<b, n>>, proc[p].known)
                        /\ FinishPurchases(p) /\ ~task[p].dry
                              => \A k \in DOMAIN Bills :
                                     Bills[k].name[1] \in task[p].items /\ Derived[k] # {}
                                         => purchases[Bills[k].name] # NoPurchase
      OBVIOUS
    <2>0. ProcsTyped /\ StatusTyped /\ CadegTypeOK
      BY Typings DEF Following
    <2>1. ASSUME NEW b \in Batches, At(p, "groups", b), proc'[p] = Idle,
                 batch'[b] = "COMMITTED", batch[b] # "COMMITTED", parses[b] = 1,
                 NEW n \in RowsOf(b), rows[b][n] = "VALID"
          PROVE  LeftOut(<<b, n>>, proc[p].known)
      <3>1. proc[p].rows = {}
        BY <2>0, <2>1, ClosesBatch DEF FinishCommit
      <3>2. Once(b)
        BY <2>1, ParsedOnce DEF Following, At, Committing
      <3>3. Handled(p, b) /\ n \in Good(b)
        BY <2>1, <3>2 DEF Once, Commits, At, Good
      <3>4. Excluded(b, n, proc[p].known, Good(b))
        BY <2>1, <3>1, <3>3 DEF Handled
      <3>5. QED
        BY <3>4, ExcludedIsLeftOut
    <2>2. ASSUME FinishPurchases(p), ~task[p].dry, NEW k \in DOMAIN Bills,
                 Bills[k].name[1] \in task[p].items, Derived[k] # {}
          PROVE  purchases[Bills[k].name] # NoPurchase
      <3>1. task[p].step = "bills" /\ task[p].at > Len(Bills)
        BY <2>2 DEF FinishPurchases, Doing
      <3>2. k \in Nat /\ k <= Len(Bills) /\ Len(Bills) \in Nat
        <4>1. DOMAIN Bills = 1 .. Len(Bills) /\ Len(Bills) \in Nat
          BY BillsAreNumbered
        <4>2. QED
          BY <2>2, <4>1
      <3>2at. task[p].at \in Nat
        BY <2>0, TaskOf
      <3>3. k < task[p].at
        BY <3>1, <3>2, <3>2at
      <3>4. QED
        BY <2>2, <3>1, <3>3 DEF BillsSeen
    <2>3. QED
      BY <2>1, <2>2
  <1>4. Complete => [\A p \in Procs :
          /\ \A b \in Batches :
                At(p, "groups", b) /\ proc'[p] = Idle /\ batch'[b] = "COMMITTED"
                /\ batch[b] # "COMMITTED" /\ parses[b] = 1
                    => \A n \in RowsOf(b) :
                           rows[b][n] = "VALID" => LeftOut(<<b, n>>, proc[p].known)
          /\ FinishPurchases(p) /\ ~task[p].dry
                => \A k \in DOMAIN Bills :
                       Bills[k].name[1] \in task[p].items /\ Derived[k] # {}
                           => purchases[Bills[k].name] # NoPurchase]_vars
    OBVIOUS
  <1> HIDE DEF Inv, Complete
  <1>5. QED
    BY <1>1, <1>2, <1>3, <1>4, PTL DEF Spec, LoadComplete
=============================================================================
