----------------------------- MODULE SalesStock -----------------------------
(***************************************************************************)
(* Sales orders and the stock their release takes, lot by lot:             *)
(* apps/api/src/modules/sales/sales.service.ts (lines, releaseOrder),      *)
(* apps/api/src/modules/produce/produce.service.ts (createLot, createLoss) *)
(* and the stock a purchase receipt brings in.                             *)
(*                                                                         *)
(* Transactions run at READ COMMITTED.  Every read is an action, since     *)
(* another transaction may commit between two of them; the writes take     *)
(* effect at commit, and a row a transaction has updated is locked until   *)
(* then, so that another update of it waits.                               *)
(*                                                                         *)
(* The sum over an item's ledger entries is kept instead of the entries.   *)
(* The total of a sales order is not modelled: nothing reads it.           *)
(***************************************************************************)
EXTENDS Integers, FiniteSetsExt, Summation

CONSTANTS
    Items,
    Lots,       \* ids of lots, numbers in FEFO order: a smaller one expires first
    Orders,     \* ids of sales orders
    LineIds,    \* ids a line of an order can take
    LineItem,   \* the item each of them sells
    Sessions,   \* requests in flight at the same time
    LineQty,    \* bound: the quantities a line can have
    MoveQty,    \* bound: the quantities of a lot, a receipt or a loss
    MaxMoves    \* bound: lots, receipts and losses ever posted

ASSUME SalesAssumption ==
    /\ Lots \subseteq Nat
    /\ IsFiniteSet(LineIds) /\ IsFiniteSet(Lots)
    /\ LineItem \in [LineIds -> Items]
    /\ LineQty \subseteq Nat /\ MoveQty \subseteq Nat \ {0}
    /\ MaxMoves \in Nat

VARIABLES
    so,         \* sales orders with their lines and what was posted for them
    ledger,     \* per item the sums of quantity and of baseQuantity
    lots,       \* inventory lots, and the sum of the ledger entries of each
    moves,
    req,        \* requests: step and locals
    disturbed,  \* history: orders two requests overlapped on
    raced       \* history: lots that changed, or appeared, under a request
                \* that had read the lots of their item, and lots a release
                \* wrote on lines another release of the order was to read

vars == <<so, ledger, lots, moves, req, disturbed, raced>>

Quantities == LineQty \cup {0}
NoStock == [k \in Lots |-> 0]
NoLines == [l \in LineIds |-> 0]
NoBounds == [l \in LineIds |-> {}]

(* lot: the lot a release wrote on each line, the last it took from.        *)
NewOrder == [status |-> "NONE", has |-> {}, lines |-> NoLines, lot |-> NoBounds,
             posted |-> [i \in Items |-> 0]]
EmptyLedger == [qty |-> 0, base |-> 0, hasBase |-> FALSE]

(* A request: its order, the lines it read (has, lines) with the lots they  *)
(* were bound to, whether lots are picked, the lines still to pick for, the *)
(* line it picks for, the lots as it read them, the lots it updated with    *)
(* their new quantities, what it took from each, the lot it wrote on each   *)
(* line, the items whose ledger changed since it summed them, and the lot   *)
(* of a loss.                                                               *)
Idle == [step |-> "idle", order |-> {}, has |-> {}, lines |-> NoLines, bound |-> NoBounds,
         fefo |-> FALSE, left |-> {}, line |-> {}, seen |-> NoStock,
         mine |-> {}, wrote |-> NoStock, out |-> NoStock, picked |-> NoBounds,
         stale |-> {}, lot |-> {}]

Requests ==
    [step: {"idle", "edit", "order", "check", "pick", "take", "loss"},
     order: SUBSET Orders, has: SUBSET LineIds, lines: [LineIds -> Quantities],
     bound: [LineIds -> SUBSET Lots],
     fefo: BOOLEAN, left: SUBSET LineIds, line: SUBSET LineIds,
     seen: [Lots -> Int], mine: SUBSET Lots, wrote: [Lots -> Int],
     out: [Lots -> Int], picked: [LineIds -> SUBSET Lots],
     stale: SUBSET Items, lot: SUBSET Lots]

SalesOrders == [status: {"NONE", "DRAFT", "OPEN"}, has: SUBSET LineIds,
                lines: [LineIds -> Quantities], lot: [LineIds -> SUBSET Lots],
                posted: [Items -> Int]]

TypeOK ==
    /\ so \in [Orders -> SalesOrders]
    /\ ledger \in [Items -> [qty: Int, base: Int, hasBase: BOOLEAN]]
    /\ lots \in [Lots -> [status: {"NONE", "AVAILABLE", "QUARANTINED"},
                          item: SUBSET Items, onHand: Int, posted: Int]]
    /\ moves \in 0 .. MaxMoves
    /\ req \in [Sessions -> Requests]
    /\ disturbed \subseteq Orders
    /\ raced \subseteq Lots

Init ==
    /\ so = [o \in Orders |-> NewOrder]
    /\ ledger = [i \in Items |-> EmptyLedger]
    /\ lots = [k \in Lots |-> [status |-> "NONE", item |-> {}, onHand |-> 0, posted |-> 0]]
    /\ moves = 0
    /\ req = [s \in Sessions |-> Idle]
    /\ disturbed = {}
    /\ raced = {}

-----------------------------------------------------------------------------
(* The ledger.  The balance every module reads is the sum of baseQuantity   *)
(* where any entry of the item has one, else the sum of quantity: entries   *)
(* without baseQuantity do not count beside entries with one.               *)

Balance(i) == IF ledger[i].hasBase THEN ledger[i].base ELSE ledger[i].qty

InBase(entry, d) == [qty |-> entry.qty + d, base |-> entry.base + d, hasBase |-> TRUE]
Bare(entry, d) == [entry EXCEPT !.qty = @ + d]

(* Every request but those of S that has summed the ledger learns what changed. *)
Others(S, changed) ==
    [t \in Sessions |-> IF t \notin S /\ req[t].step \in {"pick", "take"}
                        THEN [req[t] EXCEPT !.stale = @ \cup changed] ELSE req[t]]

(* Another transaction has updated lot k and not committed yet. *)
LockedLot(s, k) == \E t \in Sessions \ {s} : k \in req[t].mine

(* Another request has a copy of lot k that it may still write from. *)
Copied(s, k) ==
    \E t \in Sessions \ {s} :
        \/ req[t].step = "loss" /\ req[t].lot = {k}
        \/ req[t].step = "take" /\ \E l \in req[t].line : lots[k].item = {LineItem[l]}

-----------------------------------------------------------------------------
(* Stock comes in. *)

NewLot(i, k, q, status) ==
    /\ lots[k].status = "NONE"
    /\ lots' = [lots EXCEPT ![k] = [status |-> status, item |-> {i},
                                    onHand |-> q, posted |-> q]]
    /\ raced' = IF \E t \in Sessions : /\ req[t].step \in {"pick", "take"}
                                       /\ \E l \in req[t].has : LineItem[l] = i
                THEN raced \cup {k} ELSE raced

Move(i, entry) ==
    /\ moves < MaxMoves
    /\ moves' = moves + 1
    /\ ledger' = [ledger EXCEPT ![i] = entry]

(* createLot posts its entry without baseQuantity. *)
CreateLot(i, k, q) ==
    /\ NewLot(i, k, q, "AVAILABLE")
    /\ Move(i, Bare(ledger[i], q))
    /\ req' = Others({}, {i})
    /\ UNCHANGED <<so, disturbed>>

(* A purchase receipt, with a lot (in quarantine when it is to be           *)
(* inspected; no code takes it out again) or without one.                   *)
ReceiveLot(i, k, q) ==
    /\ \E status \in {"AVAILABLE", "QUARANTINED"} : NewLot(i, k, q, status)
    /\ Move(i, InBase(ledger[i], q))
    /\ req' = Others({}, {i})
    /\ UNCHANGED <<so, disturbed>>

ReceiveLotless(i, q) ==
    /\ Move(i, InBase(ledger[i], q))
    /\ req' = Others({}, {i})
    /\ UNCHANGED <<so, lots, disturbed, raced>>

-----------------------------------------------------------------------------
(* createLoss: the lot is read, then written from what was read.  The item  *)
(* is the caller's, not the lot's; without a lot nothing is checked.        *)

BeginLoss(s, k) ==
    /\ req[s].step = "idle"
    /\ lots[k].status # "NONE"
    /\ req' = [req EXCEPT ![s] = [Idle EXCEPT !.step = "loss", !.lot = {k},
                                              !.seen[k] = lots[k].onHand]]
    /\ UNCHANGED <<so, ledger, lots, moves, disturbed, raced>>

(* Mutant: the row is decremented where the code writes what it computed. *)
CommitLossDecrements(s, i, k, q) ==
    /\ req[s].step = "loss" /\ req[s].lot = {k}
    /\ q <= req[s].seen[k]
    /\ ~LockedLot(s, k)
    /\ lots' = [lots EXCEPT ![k].onHand = @ - q, ![k].posted = @ - q]
    /\ raced' = IF Copied(s, k) THEN raced \cup {k} ELSE raced
    /\ Move(i, Bare(ledger[i], -q))
    /\ req' = [Others({s}, {i}) EXCEPT ![s] = Idle]
    /\ UNCHANGED <<so, disturbed>>

CommitLoss(s, i, k, q) ==
    /\ req[s].step = "loss" /\ req[s].lot = {k}
    /\ q <= req[s].seen[k]
    /\ ~LockedLot(s, k)
    /\ lots' = [lots EXCEPT ![k].onHand = req[s].seen[k] - q, ![k].posted = @ - q]
    /\ raced' = IF Copied(s, k) THEN raced \cup {k} ELSE raced
    /\ Move(i, Bare(ledger[i], -q))
    /\ req' = [Others({s}, {i}) EXCEPT ![s] = Idle]
    /\ UNCHANGED <<so, disturbed>>

LoseLotless(i, q) ==
    /\ Move(i, Bare(ledger[i], -q))
    /\ req' = Others({}, {i})
    /\ UNCHANGED <<so, lots, disturbed, raced>>

-----------------------------------------------------------------------------
(* Orders and their lines. *)

Busy(s, o) == req[s].step # "idle" /\ req[s].order = {o}

Begin(s, o, r) ==
    /\ req[s].step = "idle"
    /\ req' = [req EXCEPT ![s] = r]
    /\ disturbed' = IF \E t \in Sessions \ {s} : Busy(t, o)
                    THEN disturbed \cup {o} ELSE disturbed
    /\ UNCHANGED <<so, ledger, lots, moves, raced>>

(* Refused, timed out, a deadlock's victim, or its connection lost. *)
Rollback(s) ==
    /\ req[s].step # "idle"
    /\ req' = [req EXCEPT ![s] = Idle]
    /\ UNCHANGED <<so, ledger, lots, moves, disturbed, raced>>

CreateOrder(o) ==
    /\ so[o].status = "NONE"
    /\ so' = [so EXCEPT ![o].status = "DRAFT"]
    /\ UNCHANGED <<ledger, lots, moves, req, disturbed, raced>>

(* addLine, updateLine and removeLine read the order or line with its       *)
(* status, and write later outside any transaction.                         *)
BeginEdit(s, o) ==
    /\ so[o].status = "DRAFT"
    /\ Begin(s, o, [Idle EXCEPT !.step = "edit", !.order = {o}, !.has = so[o].has])

(* A release has written the lot of line l and not committed yet. *)
LockedLine(s, o, l) == \E t \in Sessions \ {s} : Busy(t, o) /\ req[t].picked[l] # {}

(* No edit writes the lot of a line; a line that comes or goes has none.    *)
WriteLine(s, o, l, q, ids) ==
    /\ so' = [so EXCEPT ![o].lines[l] = q, ![o].has = ids,
                        ![o].lot[l] = IF l \in so[o].has \cap ids THEN @ ELSE {}]
    /\ req' = [req EXCEPT ![s] = Idle]
    /\ UNCHANGED <<ledger, lots, moves, disturbed, raced>>

AddLine(s, o, l, q) ==
    /\ req[s].step = "edit" /\ req[s].order = {o}
    /\ l \notin so[o].has \cup req[s].has
    /\ WriteLine(s, o, l, q, so[o].has \cup {l})

(* Mutant: an update adds to the line instead of replacing its quantity. *)
UpdateLineAdds(s, o, l, q) ==
    /\ req[s].step = "edit" /\ req[s].order = {o}
    /\ l \in so[o].has \cap req[s].has /\ ~LockedLine(s, o, l)
    /\ WriteLine(s, o, l, so[o].lines[l] + q, so[o].has)

UpdateLine(s, o, l, q) ==
    /\ req[s].step = "edit" /\ req[s].order = {o}
    /\ l \in so[o].has \cap req[s].has /\ ~LockedLine(s, o, l)
    /\ WriteLine(s, o, l, q, so[o].has)

RemoveLine(s, o, l) ==
    /\ req[s].step = "edit" /\ req[s].order = {o}
    /\ l \in so[o].has \cap req[s].has /\ ~LockedLine(s, o, l)
    /\ WriteLine(s, o, l, 0, so[o].has \ {l})

-----------------------------------------------------------------------------
(* releaseOrder: read the order with its status, then its lines (the query  *)
(* for an included relation is a statement of its own), sum the ledger,     *)
(* pick lots line by line, post and open.  The balance is compared with     *)
(* each line by itself.                                                     *)

(* Mutant: the draft check is missing. *)
BeginReleaseAnyStatus(s, o) ==
    \E fefo \in BOOLEAN :
        Begin(s, o, [Idle EXCEPT !.step = "order", !.order = {o}, !.fefo = fefo])

BeginRelease(s, o) ==
    /\ so[o].status = "DRAFT"
    /\ \E fefo \in BOOLEAN :
          Begin(s, o, [Idle EXCEPT !.step = "order", !.order = {o}, !.fefo = fefo])

ReadLines(s, o) ==
    /\ req[s].step = "order" /\ req[s].order = {o}
    /\ so[o].has # {}
    /\ req' = [req EXCEPT ![s] = [req[s] EXCEPT !.step = "check", !.has = so[o].has,
                                       !.lines = so[o].lines, !.bound = so[o].lot]]
    /\ UNCHANGED <<so, ledger, lots, moves, disturbed, raced>>

(* The lines of request q it picks lots for.  The others it posts as they   *)
(* are, against the lot they are bound to if there is one, and takes        *)
(* nothing from that lot.                                                   *)
Free(q) == IF q.fefo THEN {l \in q.has : q.bound[l] = {}} ELSE {}
Straight(q) == q.has \ Free(q)

(* Mutant: the balance is summed and not compared. *)
CheckBalanceNever(s) ==
    /\ req[s].step = "check"
    /\ req' = [req EXCEPT ![s] = [req[s] EXCEPT !.step = "pick", !.left = Free(req[s])]]
    /\ UNCHANGED <<so, ledger, lots, moves, disturbed, raced>>

CheckBalance(s) ==
    /\ req[s].step = "check"
    /\ \A l \in req[s].has : Balance(LineItem[l]) >= req[s].lines[l]
    /\ req' = [req EXCEPT ![s] = [req[s] EXCEPT !.step = "pick", !.left = Free(req[s])]]
    /\ UNCHANGED <<so, ledger, lots, moves, disturbed, raced>>

(* Mutant: lots are read outside the transaction, before its own writes. *)
OnHandCommitted(s, k) == lots[k].onHand

(* The lots it picks from: its own writes it sees, those of others only     *)
(* once they are committed.                                                 *)
OnHand(s, k) == IF k \in req[s].mine THEN req[s].wrote[k] ELSE lots[k].onHand

Pickable(s, l) ==
    {k \in Lots : /\ lots[k].status = "AVAILABLE"
                  /\ lots[k].item = {LineItem[l]}
                  /\ OnHand(s, k) > 0}

PickLots(s, l) ==
    /\ req[s].step = "pick" /\ l \in req[s].left
    /\ req' = [req EXCEPT ![s].step = "take", ![s].line = {l},
                          ![s].seen = [k \in Lots |-> IF k \in Pickable(s, l)
                                                      THEN OnHand(s, k) ELSE 0]]
    /\ UNCHANGED <<so, ledger, lots, moves, disturbed, raced>>

Least(a, b) == IF a < b THEN a ELSE b
Before(k) == {j \in Lots : j < k}
After(k) == {j \in Lots : j > k}

(* Mutant: the lots are picked in descending order. *)
TakenLastFirst(seen, need) ==
    [k \in Lots |-> LET rest == need - SumOver(seen, After(k)) IN
                    IF rest > 0 THEN Least(seen[k], rest) ELSE 0]

(* First expired, first out: each lot gives what the ones before it lack. *)
Taken(seen, need) ==
    [k \in Lots |-> LET rest == need - SumOver(seen, Before(k)) IN
                    IF rest > 0 THEN Least(seen[k], rest) ELSE 0]

TakeLots(s, l) ==
    LET need == req[s].lines[l]
        take == Taken(req[s].seen, need)
        from == {k \in Lots : take[k] > 0}
    IN
    /\ req[s].step = "take" /\ req[s].line = {l}
    /\ SumOver(take, Lots) = need
    /\ \A k \in from : ~LockedLot(s, k)
    /\ need > 0 => \E o \in Orders : /\ req[s].order = {o} /\ l \in so[o].has
                                      /\ ~LockedLine(s, o, l)
    /\ req' = [req EXCEPT ![s] =
          [req[s] EXCEPT !.step = "pick", !.line = {}, !.left = @ \ {l}, !.seen = NoStock,
                    !.mine = @ \cup from,
                    !.wrote = [k \in Lots |-> IF k \in from THEN req[s].seen[k] - take[k]
                                              ELSE req[s].wrote[k]],
                    !.out = [k \in Lots |-> req[s].out[k] + take[k]],
                    !.picked[l] = {k \in from : from \cap After(k) = {}}]]
    /\ UNCHANGED <<so, ledger, lots, moves, disturbed, raced>>

(* What a release posts against item i, and against lot k without taking it. *)
LinesFor(has, i) == {l \in has : LineItem[l] = i}
Demand(has, lines, i) == SumOver(lines, LinesFor(has, i))
OutOf(s, i) == {k \in req[s].mine : lots[k].item = {i}}
Posting(s, i) == SumOver(req[s].out, OutOf(s, i))
                     + Demand(Straight(req[s]), req[s].lines, i)
Posts(s) == {i \in Items : OutOf(s, i) # {} \/ LinesFor(Straight(req[s]), i) # {}}
Untaken(q, k) == SumOver(q.lines, {l \in Straight(q) : q.bound[l] = {k}})

(* The lots it writes on the lines of order o, of which another release has *)
(* read the status and not yet the lines.                                   *)
Overtaking(s, o) ==
    {k \in Lots : /\ \E l \in LineIds : k \in req[s].picked[l]
                  /\ \E t \in Sessions \ {s} : Busy(t, o) /\ req[t].step = "order"}

CommitRelease(s, o) ==
    /\ req[s].step = "pick" /\ req[s].left = {} /\ req[s].order = {o}
    /\ lots' = [k \in Lots |->
          [lots[k] EXCEPT !.onHand = OnHand(s, k),
                          !.posted = @ - req[s].out[k] - Untaken(req[s], k)]]
    /\ ledger' = [i \in Items |-> IF i \in Posts(s) THEN InBase(ledger[i], -Posting(s, i))
                                  ELSE ledger[i]]
    /\ so' = [so EXCEPT ![o].status = "OPEN",
                        ![o].lot = [l \in LineIds |-> IF req[s].picked[l] # {}
                                                      THEN req[s].picked[l] ELSE so[o].lot[l]],
                        ![o].posted = [i \in Items |-> so[o].posted[i] + Posting(s, i)]]
    /\ raced' = raced \cup {k \in req[s].mine : Copied(s, k)} \cup Overtaking(s, o)
    /\ req' = [Others({s}, Posts(s)) EXCEPT ![s] = Idle]
    /\ UNCHANGED <<moves, disturbed>>

-----------------------------------------------------------------------------
Inflow ==
    \E i \in Items : \E q \in MoveQty :
        \/ \E k \in Lots : CreateLot(i, k, q) \/ ReceiveLot(i, k, q)
        \/ ReceiveLotless(i, q)
        \/ LoseLotless(i, q)

Loss(s) ==
    \E k \in Lots :
        \/ BeginLoss(s, k)
        \/ \E i \in Items : \E q \in MoveQty : CommitLoss(s, i, k, q)

Edit(s, o) ==
    \/ BeginEdit(s, o)
    \/ \E l \in LineIds :
          \/ \E q \in LineQty : AddLine(s, o, l, q) \/ UpdateLine(s, o, l, q)
          \/ RemoveLine(s, o, l)

Release(s) ==
    \/ \E o \in Orders : BeginRelease(s, o) \/ ReadLines(s, o) \/ CommitRelease(s, o)
    \/ CheckBalance(s)
    \/ \E l \in LineIds : PickLots(s, l) \/ TakeLots(s, l)

Next ==
    \/ Inflow
    \/ \E o \in Orders : CreateOrder(o)
    \/ \E s \in Sessions :
          \/ Loss(s)
          \/ \E o \in Orders : Edit(s, o)
          \/ Release(s)
          \/ Rollback(s)

Spec == Init /\ [][Next]_vars

-----------------------------------------------------------------------------
(* No lot is ever taken below zero, however releases and losses race: every *)
(* write is computed from a copy it was compared with.                      *)
LotNonNegative == \A k \in Lots : lots[k].onHand >= 0

(* A lot holds what its ledger entries sum to, unless it changed while      *)
(* another request held a copy of it, or a release wrote it on a line of an *)
(* order whose lines a second release was still to read: that one posts     *)
(* against the lot without taking from it.                                  *)
LotMatchesLedger == \A k \in Lots \ raced : lots[k].onHand = lots[k].posted

(* All or nothing: an order nobody else was at work on is open with exactly *)
(* its lines posted against each item, or a draft with nothing posted.      *)
ReleasePostsLines ==
    \A o \in Orders \ disturbed : \A i \in Items :
        so[o].posted[i] = IF so[o].status = "OPEN"
                          THEN Demand(so[o].has, so[o].lines, i) ELSE 0

Releases(s, o) ==
    /\ so'[o].status = "OPEN" /\ req[s].order = {o}
    /\ req[s].step = "pick" /\ req'[s].step = "idle" /\ so' # so

(* A release takes from a lot only after the lots of the item that expire   *)
(* earlier are used up, across all the lines of the order, unless these     *)
(* lots changed or appeared under it.                                       *)
FefoFollowed ==
    [][\A s \in Sessions : \A o \in Orders : Releases(s, o) =>
          \A k \in Lots \ raced' : \A j \in Before(k) \ raced' :
              (/\ req[s].out[k] > 0
               /\ lots[j].status = "AVAILABLE" /\ lots[j].item = lots[k].item)
              => lots'[j].onHand = 0]_vars

(* A release leaves an item's stock below zero only in three cases: the     *)
(* order has several lines of the item, an entry without baseQuantity is    *)
(* mixed with entries that have one, or the ledger changed since the check. *)
SoldFromStock ==
    [][\A s \in Sessions : \A o \in Orders : Releases(s, o) =>
          \A i \in Items :
              (/\ Cardinality(LinesFor(req[s].has, i)) = 1
               /\ Balance(i) = ledger[i].qty
               /\ i \notin req[s].stale)
              => ledger'[i].qty >= 0]_vars

(* What docs/v1-scenario.md says of a release: the stock is validated, in   *)
(* the transaction that posts it, so no release leaves the sum of an item's *)
(* ledger entries below zero.  The code compares it line by line, and with  *)
(* a balance that leaves out entries, so that this fails without any race.  *)
StockValidated ==
    [][\A s \in Sessions : \A o \in Orders : Releases(s, o) =>
          \A i \in Items : ledger'[i].qty >= 0 \/ ledger'[i].qty = ledger[i].qty]_vars
=============================================================================
