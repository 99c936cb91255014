------------------------------- MODULE Imports ------------------------------
(***************************************************************************)
(* Import batches of sales exports: apps/api/src/modules/imports/          *)
(* imports.service.ts.  A request creates a batch and queues its parse; a  *)
(* worker, or a script that does everything itself, parses it; a commit    *)
(* turns its valid rows into posted sales orders, one per invoice.         *)
(*                                                                         *)
(* Only the order of an invoice is written in a transaction: every other   *)
(* read and write of a flow is an action, and the process may die between  *)
(* two of them.  A parse job whose worker died is delivered once more; one *)
(* that throws, having one attempt, never again.                           *)
(* A batch is named by its idempotency key.                                *)
(***************************************************************************)
EXTENDS LegacyCsv, FiniteSetsExt

CONSTANTS
    Batches,
    Files,       \* the rows of each batch's file: cells and the text of the quantity
    Headers,     \* the headers of its file, from left to right
    NumberOf,    \* the order number an invoice number gives: its slashes are dropped
    Entries,     \* master data that is looked up: items, customers, suppliers, ...
    Procs,       \* processes: of the API, its workers, scripts
    Chunk,       \* rows inserted by one statement
    MaxStarts,   \* bound: requests and scripts ever started
    MaxCrashes   \* bound: processes that die, and parse jobs that throw

VARIABLES
    batch,       \* status of each batch
    rows,        \* status of each row of a batch
    orders,      \* posted sales orders by number
    queue,       \* jobs that wait for a worker
    redelivered, \* batches whose parse job was delivered a second time
    master,      \* how many records of each entry of the master data there are
    proc,        \* processes: step and locals
    started,
    crashes,
    parses,      \* history: how often the rows of a batch were replaced, up to 2
    lost         \* history: batches at work on which a process died, or a parse
                 \* job threw, where nothing starts it again

importVars == <<batch, rows, orders, queue, redelivered, master, proc, started, crashes,
                parses, lost>>

RowsOf(b) == 1 .. Len(Files[b])
RowNos == UNION {RowsOf(b) : b \in Batches}
Rows == {r \in Batches \X RowNos : r[2] \in RowsOf(r[1])}
Numbers == {NumberOf[nf] : nf \in DOMAIN NumberOf} \ {Blank}

(* Constant functions, so that a row's fields are looked up once.           *)
Key == [r \in Rows |-> SalesRowKey(Files[r[1]][r[2]].cells)]
Customer ==
    [r \in Rows |-> CsvField(Files[r[1]][r[2]].cells, Headers[r[1]], <<"Cod. Cliente">>)]
Nf == [r \in Rows |-> CsvField(Files[r[1]][r[2]].cells, Headers[r[1]], <<"NF">>)]
Number == [r \in Rows |-> NumberOf[Nf[r]]]
Quantity == [r \in Rows |-> Amount(Files[r[1]][r[2]].qty)]
Sku == [r \in Rows |-> Cell(Files[r[1]][r[2]].cells, "Cod. Prod")]
Incomplete ==
    {r \in Rows : LET cells == Files[r[1]][r[2]].cells
                  IN  \/ Cell(cells, "Cod. Prod") = Blank /\ Cell(cells, "Produto") = Blank
                      \/ Cell(cells, "Qtd") = Blank}

(* A file is a sequence of rows.                                            *)
ASSUME ImportsAssumption ==
    /\ \A b \in Batches : Len(Files[b]) \in Nat
    /\ \A r \in Rows : Files[r[1]][r[2]].qty \in Texts /\ Nf[r] \in DOMAIN NumberOf
    /\ Chunk \in Nat \ {0} /\ MaxStarts \in Nat /\ MaxCrashes \in Nat

(* An order: its customer and its lines, each with the row it came from.    *)
NoOrder == [customer |-> Blank, lines |-> {}]
NoRows == [n \in RowNos |-> "NONE"]
Known == {e \in Entries : master[e] > 0}

(* A process: where it is in which flow (a queued job, a request, a script  *)
(* that parses and commits or only parses), its batch, the master data it   *)
(* looked up, the next row to insert, the rows it has still to commit,      *)
(* those of them that still exist, and the order numbers it read.           *)
Idle == [step |-> "idle", flow |-> "none", batch |-> {}, known |-> {}, next |-> 1,
         rows |-> {}, alive |-> {}, numbers |-> {}]

Processes ==
    [step: {"idle", "add", "lookup", "parsing", "delete", "insert", "settle", "ack",
            "fresh", "check", "rows", "customers", "numbers", "groups"},
     flow: {"none", "request", "job", "script", "stage"}, batch: SUBSET Batches,
     known: SUBSET Entries, next: Nat, rows: SUBSET RowNos, alive: SUBSET RowNos,
     numbers: SUBSET Numbers]

ImportTypeOK ==
    /\ batch \in [Batches -> {"NONE", "UPLOADED", "PARSING", "READY_TO_COMMIT", "FAILED",
                              "COMMITTED"}]
    /\ rows \in [Batches -> [RowNos -> {"NONE", "VALID", "ERROR", "COMMITTED"}]]
    /\ DOMAIN orders = Numbers
    /\ \A m \in Numbers :
           /\ DOMAIN orders[m] = {"customer", "lines"}
           /\ orders[m].lines \subseteq [row: Rows, qty: Int]
    /\ queue \subseteq Batches \X {"parse", "validate"}
    /\ redelivered \subseteq Batches
    /\ master \in [Entries -> Nat]
    /\ proc \in [Procs -> Processes]
    /\ \A p \in Procs : proc[p].step # "idle" => \E b \in Batches : proc[p].batch = {b}
    /\ started \in 0 .. MaxStarts /\ crashes \in 0 .. MaxCrashes
    /\ parses \in [Batches -> 0 .. 2] /\ lost \subseteq Batches

ImportInit ==
    /\ batch = [b \in Batches |-> "NONE"]
    /\ rows = [b \in Batches |-> NoRows]
    /\ orders = [m \in Numbers |-> NoOrder]
    /\ queue = {} /\ redelivered = {}
    /\ proc = [p \in Procs |-> Idle]
    /\ started = 0 /\ crashes = 0
    /\ parses = [b \in Batches |-> 0] /\ lost = {}

At(p, step, b) == proc[p].step = step /\ proc[p].batch = {b}
Go(p, step) == proc' = [proc EXCEPT ![p] = [proc[p] EXCEPT !.step = step]]
Stop(p) == proc' = [proc EXCEPT ![p] = Idle]
Begin(p, step, flow, b) ==
    proc' = [proc EXCEPT ![p] = [Idle EXCEPT !.step = step, !.flow = flow, !.batch = {b}]]
Start(p) == proc[p].step = "idle" /\ started < MaxStarts /\ started' = started + 1

-----------------------------------------------------------------------------
(* Requests and scripts.                                                    *)

CreateBatch(p, b) ==
    /\ Start(p)
    /\ batch[b] = "NONE"
    /\ batch' = [batch EXCEPT ![b] = "UPLOADED"]
    /\ Begin(p, "add", "request", b)
    /\ UNCHANGED <<rows, orders, queue, redelivered, master, crashes, parses, lost>>

(* Mutant: the job has a name the processor does not know. *)
QueueParseMisnamed(p, b) ==
    /\ At(p, "add", b)
    /\ queue' = queue \cup {<<b, "parse-sales">>}
    /\ Stop(p)
    /\ UNCHANGED <<batch, rows, orders, redelivered, master, started, crashes, parses, lost>>

QueueParse(p, b) ==
    /\ At(p, "add", b)
    /\ queue' = queue \cup {<<b, "parse">>}
    /\ Stop(p)
    /\ UNCHANGED <<batch, rows, orders, redelivered, master, started, crashes, parses, lost>>

ValidateBatch(p, b) ==
    /\ Start(p)
    /\ batch[b] # "NONE"
    /\ queue' = queue \cup {<<b, "validate">>}
    /\ UNCHANGED <<batch, rows, orders, redelivered, master, proc, crashes, parses, lost>>

CommitBatch(p, b) ==
    /\ Start(p)
    /\ batch[b] = "READY_TO_COMMIT"
    /\ Begin(p, "rows", "request", b)
    /\ UNCHANGED <<batch, rows, orders, queue, redelivered, master, crashes, parses, lost>>

(* The script parses a batch nobody has parsed to its end, commits one that *)
(* is ready, and leaves the others.  "stage" is its skipCommit option.      *)
Ingest(p, b, flow) ==
    /\ Start(p)
    /\ \/ /\ batch[b] = "NONE"
          /\ batch' = [batch EXCEPT ![b] = "UPLOADED"]
          /\ Begin(p, "lookup", flow, b)
       \/ /\ batch[b] \in {"UPLOADED", "PARSING"}
          /\ Begin(p, "lookup", flow, b)
          /\ UNCHANGED batch
       \/ /\ batch[b] = "READY_TO_COMMIT" /\ flow = "script"
          /\ Begin(p, "fresh", flow, b)
          /\ UNCHANGED batch
    /\ UNCHANGED <<rows, orders, queue, redelivered, master, crashes, parses, lost>>

(* A script reads the batch again, twice, before it commits.                *)
Reread(p, b) ==
    /\ At(p, "fresh", b) \/ At(p, "check", b)
    /\ IF batch[b] = "READY_TO_COMMIT"
       THEN Go(p, IF proc[p].step = "fresh" THEN "check" ELSE "rows")
       ELSE Stop(p)
    /\ UNCHANGED <<batch, rows, orders, queue, redelivered, master, started, crashes, parses, lost>>

-----------------------------------------------------------------------------
(* The worker.                                                              *)

TakeParse(p, b) ==
    /\ proc[p].step = "idle"
    /\ <<b, "parse">> \in queue
    /\ queue' = queue \ {<<b, "parse">>}
    /\ Begin(p, "lookup", "job", b)
    /\ UNCHANGED <<batch, rows, orders, redelivered, master, started, crashes, parses, lost>>

(* The batch is looked up for a tenant without a name: none is ever found.  *)
TakeValidate(p, b) ==
    /\ proc[p].step = "idle"
    /\ <<b, "validate">> \in queue
    /\ queue' = queue \ {<<b, "validate">>}
    /\ UNCHANGED <<batch, rows, orders, redelivered, master, proc, started, crashes, parses, lost>>

-----------------------------------------------------------------------------
(* parseBatchJob, by a worker or a script.                                  *)

Lookup(p, b) ==
    /\ At(p, "lookup", b)
    /\ proc' = [proc EXCEPT ![p] = [proc[p] EXCEPT !.step = "parsing", !.known = Known]]
    /\ UNCHANGED <<batch, rows, orders, queue, redelivered, master, started, crashes, parses, lost>>

MarkParsing(p, b) ==
    /\ At(p, "parsing", b)
    /\ batch' = [batch EXCEPT ![b] = "PARSING"]
    /\ Go(p, "delete")
    /\ UNCHANGED <<rows, orders, queue, redelivered, master, started, crashes, parses, lost>>

(* What a commit under way has read are rows that exist no more.            *)
DeleteRows(p, b) ==
    /\ At(p, "delete", b)
    /\ rows' = [rows EXCEPT ![b] = NoRows]
    /\ parses' = [parses EXCEPT ![b] = IF @ = 0 THEN 1 ELSE 2]
    /\ proc' = [q \in Procs |->
                   LET gone == IF proc[q].batch = {b} THEN {} ELSE proc[q].alive
                   IN  IF q = p THEN [proc[q] EXCEPT !.step = "insert", !.next = 1]
                       ELSE [proc[q] EXCEPT !.alive = gone]]
    /\ UNCHANGED <<batch, orders, queue, redelivered, master, started, crashes, lost>>

IsWrong(b, n, known) == <<b, n>> \in Incomplete \/ Sku[<<b, n>>] \notin known

(* A row whose key the batch already has is passed over.                    *)
InsertRows(p, b) ==
    LET here == {n \in RowsOf(b) : n >= proc[p].next /\ n < proc[p].next + Chunk}
        taken == {Key[<<b, m>>] : m \in {k \in RowsOf(b) : rows[b][k] # "NONE"}}
        fresh == {n \in here : /\ Key[<<b, n>>] \notin taken
                               /\ \A m \in here : m < n => Key[<<b, m>>] # Key[<<b, n>>]}
    IN  /\ At(p, "insert", b)
        /\ rows' = [rows EXCEPT ![b] = [n \in RowNos |->
                       IF n \notin fresh THEN @[n]
                       ELSE IF IsWrong(b, n, proc[p].known) THEN "ERROR" ELSE "VALID"]]
        /\ proc' = [proc EXCEPT ![p] =
                       IF proc[p].next + Chunk > Len(Files[b])
                       THEN [proc[p] EXCEPT !.step = "settle"]
                       ELSE [proc[p] EXCEPT !.next = @ + Chunk]]
        /\ UNCHANGED <<batch, orders, queue, redelivered, master, started, crashes, parses, lost>>

Settle(p, b) ==
    /\ At(p, "settle", b)
    /\ batch' = [batch EXCEPT ![b] =
                    IF \A n \in RowsOf(b) : IsWrong(b, n, proc[p].known)
                    THEN "FAILED" ELSE "READY_TO_COMMIT"]
    /\ IF proc[p].flow = "stage" THEN Stop(p)
       ELSE Begin(p, IF proc[p].flow = "job" THEN "ack" ELSE "fresh", proc[p].flow, b)
    /\ UNCHANGED <<rows, orders, queue, redelivered, master, started, crashes, parses, lost>>

Acknowledge(p, b) ==
    /\ At(p, "ack", b)
    /\ Stop(p)
    /\ UNCHANGED <<batch, rows, orders, queue, redelivered, master, started, crashes, parses, lost>>

-----------------------------------------------------------------------------
(* commitSalesRows.                                                         *)

(* Mutant: rows are read page by page and the first page is all there is. *)
ReadFirstPage(p, b) ==
    LET valid == {n \in RowsOf(b) : rows[b][n] = "VALID" /\ n <= 1}
    IN  /\ At(p, "rows", b)
        /\ proc' = [proc EXCEPT ![p] =
                       [proc[p] EXCEPT !.step = "customers", !.rows = valid,
                                       !.alive = valid]]
        /\ UNCHANGED <<batch, rows, orders, queue, redelivered, master, started, crashes,
                       parses, lost>>

ReadRows(p, b) ==
    LET valid == {n \in RowsOf(b) : rows[b][n] = "VALID"}
    IN  /\ At(p, "rows", b)
        /\ proc' = [proc EXCEPT ![p] =
                       [proc[p] EXCEPT !.step = "customers", !.rows = valid,
                                       !.alive = valid]]
        /\ UNCHANGED <<batch, rows, orders, queue, redelivered, master, started, crashes,
                       parses, lost>>

ReadCustomers(p, b) ==
    /\ At(p, "customers", b)
    /\ proc' = [proc EXCEPT ![p] = [proc[p] EXCEPT !.step = "numbers", !.known = Known]]
    /\ UNCHANGED <<batch, rows, orders, queue, redelivered, master, started, crashes, parses, lost>>

ReadNumbers(p, b) ==
    /\ At(p, "numbers", b)
    /\ proc' = [proc EXCEPT ![p] =
                   [proc[p] EXCEPT !.step = "groups",
                             !.numbers = {m \in Numbers : orders[m] # NoOrder}]]
    /\ UNCHANGED <<batch, rows, orders, queue, redelivered, master, started, crashes, parses, lost>>

(* Rows of one customer and invoice are a group; groups come in the order   *)
(* of their first rows.                                                     *)
Invoice(r) == <<Customer[r], Nf[r]>>
GroupOf(b, left) ==
    {n \in left : Invoice(<<b, n>>) = Invoice(<<b, Min(left)>>)}
(* Mutant: lines of up to two units are taken for empty. *)
BillableOverTwo(b, group) == {n \in group : Quantity[<<b, n>>] > 200}
Billable(b, group) == {n \in group : Quantity[<<b, n>>] > 0}
Addressed(b, group, known) ==
    LET r == <<b, Min(group)>>
    IN  Customer[r] # Blank /\ Number[r] # Blank /\ Customer[r] \in known

Mark(b, set) == rows' = [rows EXCEPT ![b] =
                            [n \in RowNos |-> IF n \in set THEN "COMMITTED" ELSE @[n]]]

(* Mutant: the rows of what is passed over count as imported. *)
SkipGroupMarks(p, b) ==
    LET group == GroupOf(b, proc[p].rows)
    IN  /\ At(p, "groups", b) /\ proc[p].rows # {}
        /\ \/ ~Addressed(b, group, proc[p].known)
           \/ Number[<<b, Min(group)>>] \notin proc[p].numbers /\ Billable(b, group) = {}
        /\ Mark(b, group \cap proc[p].alive)
        /\ proc' = [proc EXCEPT ![p] = [proc[p] EXCEPT !.rows = @ \ group]]
        /\ UNCHANGED <<batch, orders, queue, redelivered, master, started, crashes, parses, lost>>

SkipGroup(p, b) ==
    LET group == GroupOf(b, proc[p].rows)
    IN  /\ At(p, "groups", b) /\ proc[p].rows # {}
        /\ \/ ~Addressed(b, group, proc[p].known)
           \/ Number[<<b, Min(group)>>] \notin proc[p].numbers /\ Billable(b, group) = {}
        /\ proc' = [proc EXCEPT ![p] = [proc[p] EXCEPT !.rows = @ \ group]]
        /\ UNCHANGED <<batch, rows, orders, queue, redelivered, master, started, crashes,
                       parses, lost>>

(* The number is taken: the rows count as imported.                         *)
MarkGroup(p, b) ==
    LET group == GroupOf(b, proc[p].rows)
    IN  /\ At(p, "groups", b) /\ proc[p].rows # {}
        /\ Addressed(b, group, proc[p].known)
        /\ Number[<<b, Min(group)>>] \in proc[p].numbers
        /\ Mark(b, group \cap proc[p].alive)
        /\ proc' = [proc EXCEPT ![p] = [proc[p] EXCEPT !.rows = @ \ group]]
        /\ UNCHANGED <<batch, orders, queue, redelivered, master, started, crashes, parses, lost>>

(* One transaction writes the order, its lines and the rows; when another   *)
(* process has used the number meanwhile it fails, and the commit with it.  *)
PostGroup(p, b) ==
    LET group == GroupOf(b, proc[p].rows)
        first == <<b, Min(group)>>
        number == Number[first]
        lines == {[row |-> <<b, n>>, qty |-> Quantity[<<b, n>>]] : n \in Billable(b, group)}
    IN  /\ At(p, "groups", b) /\ proc[p].rows # {}
        /\ Addressed(b, group, proc[p].known)
        /\ number \notin proc[p].numbers
        /\ lines # {}
        /\ IF orders[number] = NoOrder
           THEN /\ orders' = [orders EXCEPT ![number] =
                                 [customer |-> Customer[first], lines |-> lines]]
                /\ Mark(b, group \cap proc[p].alive)
                /\ proc' = [proc EXCEPT ![p] =
                               [proc[p] EXCEPT !.rows = @ \ group,
                                                !.numbers = @ \cup {number}]]
           ELSE Stop(p) /\ UNCHANGED <<orders, rows>>
        /\ UNCHANGED <<batch, queue, redelivered, master, started, crashes, parses, lost>>

FinishCommit(p, b) ==
    /\ At(p, "groups", b) /\ proc[p].rows = {}
    /\ batch' = [batch EXCEPT ![b] = "COMMITTED"]
    /\ Stop(p)
    /\ UNCHANGED <<rows, orders, queue, redelivered, master, started, crashes, parses, lost>>

-----------------------------------------------------------------------------
(* Mutant: a job is gone with its worker. *)
CrashForGood(p) ==
    /\ proc[p].step # "idle"
    /\ crashes < MaxCrashes
    /\ crashes' = crashes + 1
    /\ Stop(p)
    /\ lost' = IF proc[p].flow = "job" THEN lost ELSE lost \cup proc[p].batch
    /\ UNCHANGED <<batch, rows, orders, queue, redelivered, master, started, parses>>

(* A process dies, or an error ends a request or a script where it is.  The *)
(* queue notices that a job was not acknowledged and delivers it again,     *)
(* once.                                                                    *)
Crash(p) ==
    /\ proc[p].step # "idle"
    /\ crashes < MaxCrashes
    /\ crashes' = crashes + 1
    /\ Stop(p)
    /\ IF proc[p].flow = "job" /\ proc[p].batch \cap redelivered = {}
       THEN /\ queue' = queue \cup {<<b, "parse">> : b \in proc[p].batch}
            /\ redelivered' = redelivered \cup proc[p].batch
            /\ UNCHANGED lost
       ELSE /\ lost' = lost \cup proc[p].batch
            /\ UNCHANGED <<queue, redelivered>>
    /\ UNCHANGED <<batch, rows, orders, master, started, parses>>

(* An error of parseBatchJob: the queue gives the job up, and the batch     *)
(* keeps the status it has.                                                 *)
ParseThrows(p) ==
    /\ proc[p].flow = "job" /\ proc[p].step \notin {"idle", "ack"}
    /\ crashes < MaxCrashes
    /\ crashes' = crashes + 1
    /\ Stop(p)
    /\ lost' = lost \cup proc[p].batch
    /\ UNCHANGED <<batch, rows, orders, queue, redelivered, master, started, parses>>

(* What a process does once it has begun.                                   *)
Proceed(p, b) ==
    \/ QueueParse(p, b) \/ Reread(p, b)
    \/ Lookup(p, b) \/ MarkParsing(p, b) \/ DeleteRows(p, b) \/ InsertRows(p, b)
    \/ Settle(p, b) \/ Acknowledge(p, b)
    \/ ReadRows(p, b) \/ ReadCustomers(p, b) \/ ReadNumbers(p, b)
    \/ SkipGroup(p, b) \/ MarkGroup(p, b) \/ PostGroup(p, b) \/ FinishCommit(p, b)

ImportNext(p) ==
    \/ \E b \in Batches :
           \/ CreateBatch(p, b) \/ ValidateBatch(p, b) \/ CommitBatch(p, b)
           \/ \E flow \in {"script", "stage"} : Ingest(p, b, flow)
           \/ TakeParse(p, b) \/ TakeValidate(p, b)
           \/ Proceed(p, b)
    \/ Crash(p) \/ ParseThrows(p)
=============================================================================
