-------------------------- MODULE SalesStockProofs --------------------------
(***************************************************************************)
(* Theorems about SalesStock: types, the stock of lots, the lots a release *)
(* takes first, and what it posts, for any items, lots, orders, lines and  *)
(* requests in flight.                                                     *)
(***************************************************************************)
EXTENDS SalesStock, SummationProofs

USE SalesAssumption

-----------------------------------------------------------------------------
(* What is true of every request at each of its steps.                      *)
Picking(s) == req[s].step \in {"pick", "take"}

ShapeOf(r) ==
    /\ r.step \in {"edit", "order", "check", "pick", "take"} => \E o \in Orders : r.order = {o}
    /\ r.step = "take" => \E l \in r.left : r.line = {l}
    /\ r.step \in {"order", "check"} => r.left = {}
    /\ r.left \subseteq Free(r)
    /\ r.step \notin {"pick", "take"} => r.mine = {} /\ r.out = NoStock

Shapes == \A s \in Sessions : ShapeOf(req[s])

Typing == TypeOK /\ Shapes

(* What request q holds of lots: quantities that are never below zero, and  *)
(* that it took only from lots it has updated;                              *)
NoneBelow(q) ==
    \A k \in Lots :
        /\ q.seen[k] >= 0 /\ q.wrote[k] >= 0 /\ q.out[k] >= 0
        /\ k \notin q.mine => q.out[k] = 0

(* lots that are there, those it has updated of the item of one of its      *)
(* lines, those it picks from of the item of the line it picks for.         *)
Existing(q) ==
    /\ \A k \in q.mine : /\ lots[k].status = "AVAILABLE"
                         /\ \E l \in q.has : lots[k].item = {LineItem[l]}
    /\ \A k \in Lots :
           /\ q.step = "loss" /\ q.lot = {k} => lots[k].status # "NONE"
           /\ q.step = "take" /\ q.seen[k] > 0
                  => /\ lots[k].status = "AVAILABLE"
                     /\ \E l \in q.line : lots[k].item = {LineItem[l]}

(* What it finds in lot k: what it has written, or what is committed.       *)
Finds(q, k) == IF k \in q.mine THEN q.wrote[k] ELSE lots[k].onHand

(* copies that are current, of lots that have not raced, and what it has    *)
(* written of one is what the lot holds less what it took.                  *)
Current(q) ==
    \A k \in Lots \ raced :
        /\ q.step = "loss" /\ q.lot = {k} => q.seen[k] = lots[k].onHand
        /\ q.step = "take" /\ lots[k].status = "AVAILABLE"
              /\ (\E l \in q.line : lots[k].item = {LineItem[l]})
              => q.seen[k] = Finds(q, k)
        /\ k \in q.mine => q.wrote[k] = lots[k].onHand - q.out[k]

(* Where it has taken from a lot, the ones that expire before are used up.  *)
UsedUp(q) ==
    \A k \in Lots : \A j \in Before(k) \ raced :
        (/\ q.step \in {"pick", "take"} /\ q.out[k] > 0
         /\ lots[j].status = "AVAILABLE" /\ lots[j].item = lots[k].item)
        => Finds(q, j) = 0

Sound(q) == NoneBelow(q) /\ Existing(q) /\ Current(q) /\ UsedUp(q)

(* No two requests have updated the same lot.                               *)
Exclusive == \A s, t \in Sessions : s # t => req[s].mine \cap req[t].mine = {}

Stocked ==
    /\ LotNonNegative /\ LotMatchesLedger /\ Exclusive
    /\ \A s \in Sessions : Sound(req[s])

-----------------------------------------------------------------------------
(* What a step does to the requests.                                        *)
Doc(q, step, order, has, lines, fefo, bound) ==
    /\ q.step = step /\ q.order = order /\ q.has = has /\ q.lines = lines
    /\ q.fefo = fefo /\ q.bound = bound

Work(q, left, line, seen, mine, wrote, out) ==
    /\ q.left = left /\ q.line = line /\ q.seen = seen
    /\ q.mine = mine /\ q.wrote = wrote /\ q.out = out

(* Request t stays where it is, and if it has summed the ledger learns that *)
(* the one of the items C has changed.                                      *)
Hears(t, C) ==
    LET r == req[t] IN
    /\ Doc(req'[t], r.step, r.order, r.has, r.lines, r.fefo, r.bound)
    /\ Work(req'[t], r.left, r.line, r.seen, r.mine, r.wrote, r.out)
    /\ req'[t].lot = r.lot
    /\ req'[t].stale = IF Picking(t) THEN r.stale \cup C ELSE r.stale

ReqTyped == req \in [Sessions -> Requests]

LEMMA IdleTyped ==
    /\ NoStock \in [Lots -> Int] /\ NoLines \in [LineIds -> Quantities]
    /\ NoBounds \in [LineIds -> SUBSET Lots]
    /\ Idle \in Requests
    /\ Doc(Idle, "idle", {}, {}, NoLines, FALSE, NoBounds)
    /\ Work(Idle, {}, {}, NoStock, {}, NoStock, NoStock)
    /\ Idle.lot = {} /\ Idle.stale = {}
  <1>1. /\ NoStock \in [Lots -> Int] /\ NoLines \in [LineIds -> Quantities]
        /\ NoBounds \in [LineIds -> SUBSET Lots]
    BY DEF NoStock, NoLines, Quantities, NoBounds
  <1> QED BY <1>1 DEF Idle, Requests, Doc, Work

LEMMA OthersTyped ==
    ASSUME ReqTyped, NEW S, NEW C \in SUBSET Items
    PROVE  Others(S, C) \in [Sessions -> Requests]
  <1>1. ASSUME NEW q \in Requests
        PROVE  [q EXCEPT !.stale = @ \cup C] \in Requests
    <2>1. q.stale \cup C \in SUBSET Items BY DEF Requests
    <2> QED BY <2>1 DEF Requests
  <1> QED BY <1>1 DEF Others, ReqTyped

LEMMA OthersHear ==
    ASSUME ReqTyped, NEW S, NEW C \in SUBSET Items, NEW t \in Sessions,
           req'[t] = Others(S, C)[t], t \notin S
    PROVE  Hears(t, C)
  <1>1. ASSUME Picking(t)
        PROVE  Hears(t, C)
    <2>1. req'[t] = [req[t] EXCEPT !.stale = @ \cup C] /\ req[t] \in Requests
      BY <1>1 DEF Others, ReqTyped, Picking
    <2> QED BY <2>1, <1>1 DEF Hears, Doc, Work, Requests
  <1>2. ASSUME ~Picking(t)
        PROVE  Hears(t, C)
    <2>1. req'[t] = req[t]
      BY <1>2 DEF Others, Picking
    <2> QED BY <2>1, <1>2 DEF Hears, Doc, Work
  <1> QED BY <1>1, <1>2

(* The request that acts goes on as r, the others hear of C.                *)
Turns(s, r, C) ==
    /\ req' \in [Sessions -> Requests] /\ req'[s] = r
    /\ \A t \in Sessions \ {s} : Hears(t, C)

LEMMA OneTurns ==
    ASSUME ReqTyped, NEW s \in Sessions, NEW r \in Requests, req' = [req EXCEPT ![s] = r]
    PROVE  Turns(s, r, {})
  <1>1. \A t \in Sessions \ {s} : req'[t] = req[t]
    BY DEF ReqTyped
  <1>2. \A t \in Sessions \ {s} : Hears(t, {})
    BY <1>1 DEF Hears, Doc, Work
  <1> QED BY <1>2 DEF Turns, ReqTyped

LEMMA EndTurns ==
    ASSUME ReqTyped, NEW s \in Sessions, NEW C \in SUBSET Items,
           req' = [Others({s}, C) EXCEPT ![s] = Idle]
    PROVE  Turns(s, Idle, C)
  <1>1. Others({s}, C) \in [Sessions -> Requests]
    BY OthersTyped
  <1>2. req' \in [Sessions -> Requests] /\ req'[s] = Idle
    BY <1>1, IdleTyped
  <1>3. ASSUME NEW t \in Sessions \ {s}
        PROVE  Hears(t, C)
    BY <1>1, OthersHear
  <1> QED BY <1>2, <1>3 DEF Turns

LEMMA InflowHeard ==
    ASSUME ReqTyped, NEW i \in Items, req' = Others({}, {i})
    PROVE  req' \in [Sessions -> Requests] /\ \A t \in Sessions : Hears(t, {i})
  BY OthersTyped, OthersHear

LEMMA BeginLossTurns ==
    ASSUME TypeOK, NEW s \in Sessions, NEW k \in Lots, BeginLoss(s, k)
    PROVE  \E r \in Requests :
               /\ Turns(s, r, {})
               /\ Doc(r, "loss", {}, {}, NoLines, FALSE, NoBounds)
               /\ Work(r, {}, {}, [NoStock EXCEPT ![k] = lots[k].onHand], {}, NoStock, NoStock)
               /\ r.lot = {k}
  <1> DEFINE r == [Idle EXCEPT !.step = "loss", !.lot = {k}, !.seen[k] = lots[k].onHand]
  <1>1. lots[k].onHand \in Int BY DEF TypeOK
  <1>2. /\ r \in Requests
        /\ Doc(r, "loss", {}, {}, NoLines, FALSE, NoBounds)
        /\ Work(r, {}, {}, [NoStock EXCEPT ![k] = lots[k].onHand], {}, NoStock, NoStock)
        /\ r.lot = {k}
    BY <1>1, IdleTyped DEF Doc, Work, Requests
  <1>3. req' = [req EXCEPT ![s] = r] BY DEF BeginLoss
  <1> HIDE DEF r
  <1>4. Turns(s, r, {}) BY <1>2, <1>3, OneTurns DEF TypeOK, ReqTyped
  <1> QED BY <1>2, <1>4

LEMMA BeginEditTurns ==
    ASSUME TypeOK, NEW s \in Sessions, NEW o \in Orders, BeginEdit(s, o)
    PROVE  \E r \in Requests :
               /\ Turns(s, r, {})
               /\ Doc(r, "edit", {o}, so[o].has, NoLines, FALSE, NoBounds)
               /\ Work(r, {}, {}, NoStock, {}, NoStock, NoStock)
  <1> DEFINE r == [Idle EXCEPT !.step = "edit", !.order = {o}, !.has = so[o].has]
  <1>1. so[o].has \in SUBSET LineIds BY DEF TypeOK, SalesOrders
  <1>2. /\ r \in Requests
        /\ Doc(r, "edit", {o}, so[o].has, NoLines, FALSE, NoBounds)
        /\ Work(r, {}, {}, NoStock, {}, NoStock, NoStock)
    BY <1>1, IdleTyped DEF Doc, Work, Requests
  <1>3. req' = [req EXCEPT ![s] = r] BY DEF BeginEdit, Begin
  <1> HIDE DEF r
  <1>4. Turns(s, r, {}) BY <1>2, <1>3, OneTurns DEF TypeOK, ReqTyped
  <1> QED BY <1>2, <1>4

LEMMA BeginReleaseTurns ==
    ASSUME TypeOK, NEW s \in Sessions, NEW o \in Orders, BeginRelease(s, o)
    PROVE  \E r \in Requests, fefo \in BOOLEAN :
               /\ Turns(s, r, {})
               /\ Doc(r, "order", {o}, {}, NoLines, fefo, NoBounds)
               /\ Work(r, {}, {}, NoStock, {}, NoStock, NoStock)
  <1> DEFINE r(fefo) == [Idle EXCEPT !.step = "order", !.order = {o}, !.fefo = fefo]
  <1>2. ASSUME NEW fefo \in BOOLEAN
        PROVE  /\ r(fefo) \in Requests
               /\ Doc(r(fefo), "order", {o}, {}, NoLines, fefo, NoBounds)
               /\ Work(r(fefo), {}, {}, NoStock, {}, NoStock, NoStock)
    BY IdleTyped DEF Doc, Work, Requests
  <1>3. PICK fefo \in BOOLEAN : req' = [req EXCEPT ![s] = r(fefo)]
    BY DEF BeginRelease, Begin
  <1> HIDE DEF r
  <1>4. Turns(s, r(fefo), {}) BY <1>2, <1>3, OneTurns DEF TypeOK, ReqTyped
  <1> QED BY <1>2, <1>4

LEMMA ReadLinesTurns ==
    ASSUME TypeOK, NEW s \in Sessions, NEW o \in Orders, ReadLines(s, o)
    PROVE  LET q == req[s] IN
           \E r \in Requests :
               /\ Turns(s, r, {})
               /\ Doc(r, "check", q.order, so[o].has, so[o].lines, q.fefo, so[o].lot)
               /\ Work(r, q.left, q.line, q.seen, q.mine, q.wrote, q.out)
               /\ r.stale = q.stale
  <1> DEFINE q == req[s]
             r == [q EXCEPT !.step = "check", !.has = so[o].has, !.lines = so[o].lines,
                            !.bound = so[o].lot]
  <1>1. q \in Requests /\ so[o] \in SalesOrders BY DEF TypeOK
  <1>2. /\ r \in Requests
        /\ Doc(r, "check", q.order, so[o].has, so[o].lines, q.fefo, so[o].lot)
        /\ Work(r, q.left, q.line, q.seen, q.mine, q.wrote, q.out)
        /\ r.stale = q.stale
    BY <1>1 DEF Doc, Work, Requests, SalesOrders
  <1>3. req' = [req EXCEPT ![s] = r] BY DEF ReadLines
  <1> HIDE DEF r
  <1>4. Turns(s, r, {}) BY <1>2, <1>3, OneTurns DEF TypeOK, ReqTyped
  <1> QED BY <1>2, <1>4

LEMMA CheckBalanceTurns ==
    ASSUME TypeOK, NEW s \in Sessions, CheckBalance(s)
    PROVE  LET q == req[s] IN
           \E r \in Requests :
               /\ Turns(s, r, {})
               /\ Doc(r, "pick", q.order, q.has, q.lines, q.fefo, q.bound)
               /\ Work(r, Free(q), q.line, q.seen, q.mine, q.wrote, q.out)
               /\ r.stale = q.stale
  <1> DEFINE q == req[s]
             r == [q EXCEPT !.step = "pick", !.left = Free(q)]
  <1>1. q \in Requests /\ Free(q) \in SUBSET LineIds BY DEF TypeOK, Free, Requests
  <1>2. /\ r \in Requests
        /\ Doc(r, "pick", q.order, q.has, q.lines, q.fefo, q.bound)
        /\ Work(r, Free(q), q.line, q.seen, q.mine, q.wrote, q.out)
        /\ r.stale = q.stale
    BY <1>1 DEF Doc, Work, Requests
  <1>3. req' = [req EXCEPT ![s] = r] BY DEF CheckBalance
  <1> HIDE DEF r
  <1>4. Turns(s, r, {}) BY <1>2, <1>3, OneTurns DEF TypeOK, ReqTyped
  <1> QED BY <1>2, <1>4

LEMMA LotsFinite ==
    ASSUME NEW S, S \subseteq Lots
    PROVE  IsFiniteSet(S)
  BY FS_Subset

LEMMA LinesFinite ==
    ASSUME NEW S, S \subseteq LineIds
    PROVE  IsFiniteSet(S)
  BY FS_Subset

LEMMA OnHandTyped ==
    ASSUME TypeOK, NEW s \in Sessions, NEW k \in Lots
    PROVE  OnHand(s, k) \in Int
  BY DEF OnHand, TypeOK, Requests

LEMMA TakenTyped ==
    ASSUME NEW seen \in [Lots -> Int], NEW need \in Int
    PROVE  Taken(seen, need) \in [Lots -> Int]
  <1>1. ASSUME NEW k \in Lots
        PROVE  SumOver(seen, Before(k)) \in Int
    <2>1. Before(k) \subseteq Lots BY DEF Before
    <2> QED BY <2>1, LotsFinite, SumType
  <1> QED BY <1>1 DEF Taken, Least

LEMMA PickLotsTurns ==
    ASSUME TypeOK, NEW s \in Sessions, NEW l \in LineIds, PickLots(s, l)
    PROVE  LET q == req[s] IN
           \E r \in Requests :
               /\ Turns(s, r, {})
               /\ Doc(r, "take", q.order, q.has, q.lines, q.fefo, q.bound)
               /\ Work(r, q.left, {l}, [k \in Lots |-> IF k \in Pickable(s, l)
                                                      THEN OnHand(s, k) ELSE 0],
                       q.mine, q.wrote, q.out)
               /\ r.stale = q.stale
  <1> DEFINE q == req[s]
             seen == [k \in Lots |-> IF k \in Pickable(s, l) THEN OnHand(s, k) ELSE 0]
             r == [q EXCEPT !.step = "take", !.line = {l}, !.seen = seen]
  <1>1. q \in Requests BY DEF TypeOK
  <1>2. seen \in [Lots -> Int] BY OnHandTyped
  <1>3. req' = [req EXCEPT ![s] = r] BY DEF PickLots
  <1> HIDE DEF seen
  <1>4. /\ r \in Requests
        /\ Doc(r, "take", q.order, q.has, q.lines, q.fefo, q.bound)
        /\ Work(r, q.left, {l}, seen, q.mine, q.wrote, q.out)
        /\ r.stale = q.stale
    BY <1>1, <1>2 DEF Doc, Work, Requests
  <1> HIDE DEF r
  <1>5. Turns(s, r, {}) BY <1>3, <1>4, OneTurns DEF TypeOK, ReqTyped
  <1> QED BY <1>4, <1>5 DEF seen

(* What request s takes for line l, from which lots, and what it then has   *)
(* written and taken.                                                       *)
TakenFor(s, l) == Taken(req[s].seen, req[s].lines[l])
FromLots(s, l) == {k \in Lots : TakenFor(s, l)[k] > 0}
WroteFor(s, l) == [k \in Lots |-> IF k \in FromLots(s, l)
                                  THEN req[s].seen[k] - TakenFor(s, l)[k]
                                  ELSE req[s].wrote[k]]
OutFor(s, l) == [k \in Lots |-> req[s].out[k] + TakenFor(s, l)[k]]

LEMMA TakenForTyped ==
    ASSUME TypeOK, NEW s \in Sessions, NEW l \in LineIds
    PROVE  /\ req[s].lines[l] \in Nat
           /\ TakenFor(s, l) \in [Lots -> Int]
           /\ WroteFor(s, l) \in [Lots -> Int] /\ OutFor(s, l) \in [Lots -> Int]
  <1>1. /\ req[s].lines[l] \in Nat /\ req[s].seen \in [Lots -> Int]
        /\ req[s].wrote \in [Lots -> Int] /\ req[s].out \in [Lots -> Int]
    <2>1. req[s] \in Requests /\ Quantities \subseteq Nat BY DEF TypeOK, Quantities
    <2> QED BY <2>1 DEF Requests
  <1>2. TakenFor(s, l) \in [Lots -> Int] BY <1>1, TakenTyped DEF TakenFor
  <1> QED BY <1>1, <1>2 DEF WroteFor, OutFor

LEMMA TakeLotsTurns ==
    ASSUME TypeOK, NEW s \in Sessions, NEW l \in LineIds, TakeLots(s, l)
    PROVE  LET q == req[s] IN
           \E r \in Requests :
               /\ Turns(s, r, {})
               /\ Doc(r, "pick", q.order, q.has, q.lines, q.fefo, q.bound)
               /\ Work(r, q.left \ {l}, {}, NoStock, q.mine \cup FromLots(s, l),
                       WroteFor(s, l), OutFor(s, l))
               /\ r.stale = q.stale
  <1> DEFINE q == req[s]
             wrote == WroteFor(s, l)
             out == OutFor(s, l)
             from == FromLots(s, l)
             last == {k \in from : from \cap After(k) = {}}
             r == [q EXCEPT !.step = "pick", !.line = {}, !.left = @ \ {l}, !.seen = NoStock,
                            !.mine = @ \cup from, !.wrote = wrote, !.out = out,
                            !.picked[l] = last]
  <1>1. q \in Requests BY DEF TypeOK
  <1>2. /\ wrote \in [Lots -> Int] /\ out \in [Lots -> Int] /\ from \subseteq Lots
        /\ last \subseteq Lots
    BY TakenForTyped DEF FromLots
  <1>3. req' = [req EXCEPT ![s] = r]
    BY Zenon DEF TakeLots, WroteFor, OutFor, FromLots, TakenFor
  <1> HIDE DEF wrote, out, from, last
  <1>4. /\ r \in Requests
        /\ Doc(r, "pick", q.order, q.has, q.lines, q.fefo, q.bound)
        /\ Work(r, q.left \ {l}, {}, NoStock, q.mine \cup from, wrote, out)
        /\ r.stale = q.stale
    <2>1. /\ q.left \ {l} \in SUBSET LineIds /\ q.mine \cup from \in SUBSET Lots
          /\ {} \in SUBSET LineIds
          /\ [q.picked EXCEPT ![l] = last] \in [LineIds -> SUBSET Lots]
      BY <1>1, <1>2 DEF Requests
    <2> QED BY <1>1, <1>2, <2>1, IdleTyped DEF Doc, Work, Requests
  <1> HIDE DEF r
  <1>5. Turns(s, r, {}) BY <1>3, <1>4, OneTurns DEF TypeOK, ReqTyped
  <1> QED BY <1>4, <1>5 DEF wrote, out, from

LEMMA RollbackTurns ==
    ASSUME ReqTyped, NEW s \in Sessions, req' = [req EXCEPT ![s] = Idle]
    PROVE  Turns(s, Idle, {})
  BY IdleTyped, OneTurns

-----------------------------------------------------------------------------
(* Types.                                                                   *)

LEMMA HearShape ==
    ASSUME NEW t \in Sessions, NEW C, ShapeOf(req[t]), Hears(t, C)
    PROVE  ShapeOf(req'[t])
  <1>1. /\ req'[t].step = req[t].step /\ req'[t].order = req[t].order
        /\ req'[t].has = req[t].has /\ req'[t].left = req[t].left
        /\ req'[t].line = req[t].line /\ req'[t].mine = req[t].mine
        /\ req'[t].out = req[t].out /\ req'[t].fefo = req[t].fefo
        /\ req'[t].bound = req[t].bound
    BY DEF Hears, Doc, Work
  <1> QED BY <1>1 DEF ShapeOf, Free

LEMMA TurnsShapes ==
    ASSUME Shapes, NEW s \in Sessions, NEW r, ShapeOf(r), NEW C, Turns(s, r, C)
    PROVE  Shapes'
  BY HearShape DEF Shapes, Turns

LEMMA MoveTyped ==
    ASSUME TypeOK, NEW i \in Items, NEW d \in Int,
           Move(i, Bare(ledger[i], d)) \/ Move(i, InBase(ledger[i], d))
    PROVE  /\ ledger' \in [Items -> [qty: Int, base: Int, hasBase: BOOLEAN]]
           /\ moves' \in 0 .. MaxMoves
  <1>1. ledger[i] \in [qty: Int, base: Int, hasBase: BOOLEAN] /\ moves \in 0 .. MaxMoves
    BY DEF TypeOK
  <1>2. /\ Bare(ledger[i], d) \in [qty: Int, base: Int, hasBase: BOOLEAN]
        /\ InBase(ledger[i], d) \in [qty: Int, base: Int, hasBase: BOOLEAN]
    BY <1>1 DEF Bare, InBase
  <1>3. ledger' \in [Items -> [qty: Int, base: Int, hasBase: BOOLEAN]]
    BY <1>2 DEF Move, TypeOK
  <1>4. moves' \in 0 .. MaxMoves
    BY <1>1 DEF Move
  <1> QED BY <1>3, <1>4

LEMMA NewLotTyped ==
    ASSUME TypeOK, NEW i \in Items, NEW k \in Lots, NEW q \in Int,
           NEW status \in {"AVAILABLE", "QUARANTINED"}, NewLot(i, k, q, status)
    PROVE  /\ lots' \in [Lots -> [status: {"NONE", "AVAILABLE", "QUARANTINED"},
                               item: SUBSET Items, onHand: Int, posted: Int]]
           /\ raced' \subseteq Lots
  BY DEF NewLot, TypeOK

LEMMA InflowTyped ==
    ASSUME Typing, Inflow
    PROVE  Typing' /\ \E i \in Items : \A t \in Sessions : Hears(t, {i})
  <1>1. PICK i \in Items, q \in MoveQty :
             \/ \E k \in Lots : CreateLot(i, k, q) \/ ReceiveLot(i, k, q)
             \/ ReceiveLotless(i, q)
             \/ LoseLotless(i, q)
    BY DEF Inflow
  <1>2. TypeOK /\ Shapes /\ ReqTyped /\ q \in Int /\ -q \in Int
    BY DEF Typing, TypeOK, ReqTyped
  <1>3. req' = Others({}, {i}) /\ UNCHANGED <<so, disturbed>>
    BY <1>1 DEF CreateLot, ReceiveLot, ReceiveLotless, LoseLotless
  <1>4. req' \in [Sessions -> Requests] /\ \A t \in Sessions : Hears(t, {i})
    BY <1>2, <1>3, InflowHeard
  <1>5. \E d \in Int : Move(i, Bare(ledger[i], d)) \/ Move(i, InBase(ledger[i], d))
    BY <1>1, <1>2 DEF CreateLot, ReceiveLot, ReceiveLotless, LoseLotless
  <1>6. /\ ledger' \in [Items -> [qty: Int, base: Int, hasBase: BOOLEAN]]
        /\ moves' \in 0 .. MaxMoves
    BY <1>2, <1>5, MoveTyped
  <1>7. /\ lots' \in [Lots -> [status: {"NONE", "AVAILABLE", "QUARANTINED"},
                               item: SUBSET Items, onHand: Int, posted: Int]]
        /\ raced' \subseteq Lots
    <2>2. CASE \E k \in Lots : CreateLot(i, k, q) \/ ReceiveLot(i, k, q)
      BY <1>2, <2>2, NewLotTyped DEF CreateLot, ReceiveLot
    <2>3. CASE ReceiveLotless(i, q) \/ LoseLotless(i, q)
      BY <1>2, <2>3 DEF ReceiveLotless, LoseLotless, TypeOK
    <2> QED BY <1>1, <2>2, <2>3
  <1>8. TypeOK'
    BY <1>2, <1>3, <1>4, <1>6, <1>7 DEF TypeOK
  <1>9. Shapes'
    BY <1>2, <1>4, HearShape DEF Shapes
  <1> QED BY <1>4, <1>8, <1>9 DEF Typing

(* The steps that only begin, advance or end a request.                     *)
LEMMA TurnTyped ==
    ASSUME Typing, NEW s \in Sessions, NEW r, ShapeOf(r), NEW C, Turns(s, r, C),
           UNCHANGED <<so, ledger, lots, moves, raced>>, disturbed' \subseteq Orders
    PROVE  Typing'
  <1>1. Shapes' BY TurnsShapes DEF Typing
  <1>2. TypeOK' BY DEF Typing, TypeOK, Turns
  <1> QED BY <1>1, <1>2 DEF Typing

LEMMA IdleShape ==
    ShapeOf(Idle)
  BY IdleTyped DEF ShapeOf, Doc, Work, NoStock

LEMMA BeginTyped ==
    ASSUME Typing, NEW s \in Sessions,
           \/ \E k \in Lots : BeginLoss(s, k)
           \/ \E o \in Orders : BeginEdit(s, o) \/ BeginRelease(s, o)
    PROVE  Typing'
  <1>1. disturbed \subseteq Orders /\ TypeOK BY DEF Typing, TypeOK
  <1>2. ASSUME NEW k \in Lots, BeginLoss(s, k)
        PROVE  Typing'
    <2>1. UNCHANGED <<so, ledger, lots, moves, disturbed, raced>> BY <1>2 DEF BeginLoss
    <2>2. \E r : ShapeOf(r) /\ Turns(s, r, {})
      BY <1>1, <1>2, BeginLossTurns DEF ShapeOf, Doc, Work, NoStock, Free
    <2> QED BY <1>1, <2>1, <2>2, TurnTyped
  <1>3. ASSUME NEW o \in Orders, BeginEdit(s, o)
        PROVE  Typing'
    <2>1. UNCHANGED <<so, ledger, lots, moves, raced>> /\ disturbed' \subseteq Orders
      BY <1>1, <1>3 DEF BeginEdit, Begin
    <2>2. PICK r \in Requests : /\ Turns(s, r, {})
                   /\ Doc(r, "edit", {o}, so[o].has, NoLines, FALSE, NoBounds)
                   /\ Work(r, {}, {}, NoStock, {}, NoStock, NoStock)
      BY <1>1, <1>3, BeginEditTurns
    <2>3. ShapeOf(r) BY <2>2 DEF ShapeOf, Doc, Work, NoStock
    <2> QED BY <1>1, <2>1, <2>2, <2>3, TurnTyped
  <1>4. ASSUME NEW o \in Orders, BeginRelease(s, o)
        PROVE  Typing'
    <2>1. UNCHANGED <<so, ledger, lots, moves, raced>> /\ disturbed' \subseteq Orders
      BY <1>1, <1>4 DEF BeginRelease, Begin
    <2>2. PICK r \in Requests, fefo \in BOOLEAN : /\ Turns(s, r, {})
                   /\ Doc(r, "order", {o}, {}, NoLines, fefo, NoBounds)
                   /\ Work(r, {}, {}, NoStock, {}, NoStock, NoStock)
      BY <1>1, <1>4, BeginReleaseTurns
    <2>3. ShapeOf(r) BY <2>2 DEF ShapeOf, Doc, Work, NoStock
    <2> QED BY <1>1, <2>1, <2>2, <2>3, TurnTyped
  <1> QED BY <1>2, <1>3, <1>4

LEMMA WorkTyped ==
    ASSUME Typing, NEW s \in Sessions,
           \/ \E o \in Orders : ReadLines(s, o)
           \/ CheckBalance(s)
           \/ \E l \in LineIds : PickLots(s, l) \/ TakeLots(s, l)
           \/ Rollback(s)
    PROVE  Typing'
  <1>1. ReqTyped /\ TypeOK /\ ShapeOf(req[s]) /\ req[s] \in Requests
    BY DEF Typing, TypeOK, ReqTyped, Shapes
  <1>2. UNCHANGED <<so, ledger, lots, moves, disturbed, raced>> /\ disturbed \subseteq Orders
    BY <1>1 DEF ReadLines, CheckBalance, PickLots, TakeLots, Rollback, TypeOK
  <1>8. ASSUME NEW o \in Orders, ReadLines(s, o)
        PROVE  \E r : ShapeOf(r) /\ Turns(s, r, {})
    <2>1. req[s].step = "order" BY <1>8 DEF ReadLines
    <2> QED BY <1>1, <1>8, <2>1, ReadLinesTurns DEF ShapeOf, Doc, Work, NoStock
  <1>3. ASSUME CheckBalance(s)
        PROVE  \E r : ShapeOf(r) /\ Turns(s, r, {})
    <2>1. req[s].step = "check" BY <1>3 DEF CheckBalance
    <2>2. PICK r \in Requests :
              /\ Turns(s, r, {})
              /\ Doc(r, "pick", req[s].order, req[s].has, req[s].lines, req[s].fefo, req[s].bound)
              /\ Work(r, Free(req[s]), req[s].line, req[s].seen, req[s].mine, req[s].wrote,
                      req[s].out)
      BY <1>1, <1>3, CheckBalanceTurns
    <2>3. Free(r) = Free(req[s]) BY <2>2 DEF Free, Doc
    <2> QED BY <1>1, <2>1, <2>2, <2>3 DEF ShapeOf, Doc, Work
  <1>4. ASSUME NEW l \in LineIds, PickLots(s, l)
        PROVE  \E r : ShapeOf(r) /\ Turns(s, r, {})
    <2>1. req[s].step = "pick" /\ l \in req[s].left BY <1>4 DEF PickLots
    <2>2. PICK r \in Requests : /\ Turns(s, r, {})
                   /\ Doc(r, "take", req[s].order, req[s].has, req[s].lines, req[s].fefo, req[s].bound)
                   /\ Work(r, req[s].left, {l}, [k \in Lots |-> IF k \in Pickable(s, l)
                                                      THEN OnHand(s, k) ELSE 0],
                           req[s].mine, req[s].wrote, req[s].out)
      BY <1>1, <1>4, PickLotsTurns
    <2> QED BY <1>1, <2>1, <2>2 DEF ShapeOf, Doc, Work, Free
  <1>5. ASSUME NEW l \in LineIds, TakeLots(s, l)
        PROVE  \E r : ShapeOf(r) /\ Turns(s, r, {})
    <2>1. req[s].step = "take" BY <1>5 DEF TakeLots
    <2> QED BY <1>1, <1>5, <2>1, TakeLotsTurns DEF ShapeOf, Doc, Work, Free
  <1>6. ASSUME Rollback(s)
        PROVE  \E r : ShapeOf(r) /\ Turns(s, r, {})
    BY <1>1, <1>6, RollbackTurns, IdleShape DEF Rollback
  <1>7. \E r : ShapeOf(r) /\ Turns(s, r, {})
    BY <1>3, <1>4, <1>5, <1>6, <1>8
  <1> QED BY <1>2, <1>7, TurnTyped

(* What the end of a request does.                                          *)
LEMMA EditTyped ==
    ASSUME Typing, NEW s \in Sessions, NEW o \in Orders, NEW l \in LineIds,
           NEW q \in Quantities, NEW ids \in SUBSET LineIds, WriteLine(s, o, l, q, ids)
    PROVE  Typing' /\ Turns(s, Idle, {})
  <1>1. TypeOK /\ Shapes /\ ReqTyped BY DEF Typing, TypeOK, ReqTyped
  <1>2. Turns(s, Idle, {}) BY <1>1, RollbackTurns DEF WriteLine
  <1> DEFINE lot == IF l \in so[o].has \cap ids THEN so[o].lot[l] ELSE {}
  <1>3. [so[o] EXCEPT !.lines[l] = q, !.has = ids, !.lot[l] = lot] \in SalesOrders
    <2>1. so[o] \in SalesOrders
      BY <1>1 DEF TypeOK
    <2>2. /\ [so[o].lines EXCEPT ![l] = q] \in [LineIds -> Quantities]
          /\ [so[o].lot EXCEPT ![l] = lot] \in [LineIds -> SUBSET Lots]
      BY <2>1 DEF SalesOrders
    <2> QED BY <2>1, <2>2 DEF SalesOrders
  <1>4. so' = [so EXCEPT ![o] = [so[o] EXCEPT !.lines[l] = q, !.has = ids, !.lot[l] = lot]]
    <2>1. so \in [Orders -> SalesOrders] /\ so[o] \in SalesOrders BY <1>1 DEF TypeOK
    <2> QED BY <2>1 DEF WriteLine, SalesOrders
  <1> HIDE DEF lot
  <1>5. TypeOK' BY <1>1, <1>2, <1>3, <1>4 DEF WriteLine, TypeOK, Turns
  <1>6. Shapes' BY <1>1, <1>2, IdleShape, TurnsShapes
  <1> QED BY <1>2, <1>5, <1>6 DEF Typing

LEMMA CommitLossTyped ==
    ASSUME Typing, NEW s \in Sessions, NEW i \in Items, NEW k \in Lots, NEW q \in MoveQty,
           CommitLoss(s, i, k, q)
    PROVE  Typing' /\ Turns(s, Idle, {i})
  <1>1. TypeOK /\ Shapes /\ ReqTyped /\ q \in Int /\ -q \in Int
    BY DEF Typing, TypeOK, ReqTyped
  <1>2. Turns(s, Idle, {i}) BY <1>1, EndTurns DEF CommitLoss
  <1>3. /\ ledger' \in [Items -> [qty: Int, base: Int, hasBase: BOOLEAN]]
        /\ moves' \in 0 .. MaxMoves
    BY <1>1, MoveTyped DEF CommitLoss
  <1>4. lots' \in [Lots -> [status: {"NONE", "AVAILABLE", "QUARANTINED"},
                            item: SUBSET Items, onHand: Int, posted: Int]]
    <2> DEFINE lot == [lots[k] EXCEPT !.onHand = req[s].seen[k] - q, !.posted = @ - q]
    <2>1. req[s].seen[k] - q \in Int /\ lots[k].posted - q \in Int
      BY <1>1 DEF TypeOK, Requests
    <2>2. lot \in [status: {"NONE", "AVAILABLE", "QUARANTINED"},
                   item: SUBSET Items, onHand: Int, posted: Int]
      <3>1. lots[k] \in [status: {"NONE", "AVAILABLE", "QUARANTINED"},
                         item: SUBSET Items, onHand: Int, posted: Int]
        BY <1>1 DEF TypeOK
      <3> QED BY <2>1, <3>1
    <2>3. lots' = [lots EXCEPT ![k] = lot]
      BY <1>1 DEF CommitLoss, TypeOK
    <2> HIDE DEF lot
    <2> QED BY <1>1, <2>2, <2>3 DEF TypeOK
  <1>5. raced' \subseteq Lots /\ UNCHANGED <<so, disturbed>>
    BY <1>1 DEF CommitLoss, TypeOK
  <1>6. TypeOK' BY <1>1, <1>2, <1>3, <1>4, <1>5 DEF TypeOK, Turns
  <1>7. Shapes' BY <1>1, <1>2, IdleShape, TurnsShapes
  <1> QED BY <1>2, <1>6, <1>7 DEF Typing

LEMMA PostingTyped ==
    ASSUME TypeOK, NEW s \in Sessions, NEW i \in Items
    PROVE  Posting(s, i) \in Int
  <1>1. req[s] \in Requests /\ Quantities \subseteq Int BY DEF TypeOK, Quantities
  <1>2. SumOver(req[s].out, OutOf(s, i)) \in Int
    <2>1. OutOf(s, i) \subseteq Lots /\ \A k \in OutOf(s, i) : req[s].out[k] \in Int
      BY <1>1 DEF OutOf, Requests
    <2> QED BY <2>1, LotsFinite, SumType
  <1>3. Demand(Straight(req[s]), req[s].lines, i) \in Int
    <2>1. /\ LinesFor(Straight(req[s]), i) \subseteq LineIds
          /\ \A l \in LinesFor(Straight(req[s]), i) : req[s].lines[l] \in Int
      BY <1>1 DEF LinesFor, Straight, Requests
    <2> QED BY <2>1, LinesFinite, SumType DEF Demand
  <1> QED BY <1>2, <1>3 DEF Posting

LotRecords == [status: {"NONE", "AVAILABLE", "QUARANTINED"},
               item: SUBSET Items, onHand: Int, posted: Int]

(* What the commit of a release leaves of a lot and of its order.           *)
LEMMA CommitEffect ==
    ASSUME TypeOK, NEW s \in Sessions, NEW o \in Orders, CommitRelease(s, o)
    PROVE  /\ \A k \in Lots :
                  /\ Untaken(req[s], k) \in Int /\ lots'[k] \in LotRecords
                  /\ lots'[k].status = lots[k].status /\ lots'[k].item = lots[k].item
                  /\ lots'[k].onHand = OnHand(s, k)
                  /\ lots'[k].posted = lots[k].posted - req[s].out[k] - Untaken(req[s], k)
           /\ \A p \in Orders \ {o} : so'[p] = so[p]
           /\ so'[o].status = "OPEN" /\ so'[o].has = so[o].has /\ so'[o].lines = so[o].lines
           /\ so'[o].posted = [i \in Items |-> so[o].posted[i] + Posting(s, i)]
           /\ \A l \in LineIds : so'[o].lot[l] = IF req[s].picked[l] # {}
                                                 THEN req[s].picked[l] ELSE so[o].lot[l]
           /\ so' \in [Orders -> SalesOrders] /\ lots' \in [Lots -> LotRecords]
  <1> DEFINE q == req[s]
  <1>1. /\ q \in Requests /\ Quantities \subseteq Int
        /\ so \in [Orders -> SalesOrders] /\ so[o] \in SalesOrders
        /\ lots \in [Lots -> LotRecords]
    BY DEF TypeOK, Quantities, LotRecords
  <1>2. ASSUME NEW k \in Lots
        PROVE  Untaken(q, k) \in Int
    <2>1. /\ {l \in Straight(q) : q.bound[l] = {k}} \subseteq LineIds
          /\ \A l \in {l \in Straight(q) : q.bound[l] = {k}} : q.lines[l] \in Int
      BY <1>1 DEF Straight, Requests
    <2> QED BY <2>1, LinesFinite, SumType DEF Untaken
  <1>3. ASSUME NEW k \in Lots
        PROVE  /\ lots'[k] \in LotRecords
               /\ lots'[k].status = lots[k].status /\ lots'[k].item = lots[k].item
               /\ lots'[k].onHand = OnHand(s, k)
               /\ lots'[k].posted = lots[k].posted - q.out[k] - Untaken(q, k)
    <2> DEFINE p == lots[k].posted - q.out[k] - Untaken(q, k)
    <2>1. lots[k] \in LotRecords /\ q.out[k] \in Int BY <1>1 DEF Requests
    <2>2. OnHand(s, k) \in Int /\ p \in Int
      BY <1>2, <2>1, OnHandTyped DEF LotRecords
    <2>3. lots'[k] = [lots[k] EXCEPT !.onHand = OnHand(s, k), !.posted = p]
      BY DEF CommitRelease
    <2> HIDE DEF p
    <2>4. /\ lots'[k] \in LotRecords
          /\ lots'[k].status = lots[k].status /\ lots'[k].item = lots[k].item
          /\ lots'[k].onHand = OnHand(s, k) /\ lots'[k].posted = p
      BY <2>1, <2>2, <2>3 DEF LotRecords
    <2> QED BY <2>4 DEF p
  <1>4. lots' \in [Lots -> LotRecords]
    <2>1. lots' = [k \in Lots |-> lots'[k]] BY DEF CommitRelease
    <2> QED BY <1>3, <2>1
  <1> DEFINE p == [i \in Items |-> so[o].posted[i] + Posting(s, i)]
             lot == [l \in LineIds |-> IF q.picked[l] # {} THEN q.picked[l] ELSE so[o].lot[l]]
  <1>5. p \in [Items -> Int] BY <1>1, PostingTyped DEF SalesOrders
  <1>6. /\ lot \in [LineIds -> SUBSET Lots]
        /\ \A l \in LineIds : lot[l] = IF q.picked[l] # {} THEN q.picked[l] ELSE so[o].lot[l]
    BY <1>1 DEF SalesOrders, Requests
  <1>7. so' = [so EXCEPT ![o].status = "OPEN", ![o].lot = lot, ![o].posted = p]
    BY DEF CommitRelease
  <1> HIDE DEF p, lot
  <1>8. /\ so' \in [Orders -> SalesOrders] /\ \A r \in Orders \ {o} : so'[r] = so[r]
        /\ so'[o].status = "OPEN" /\ so'[o].has = so[o].has /\ so'[o].lines = so[o].lines
        /\ so'[o].posted = p /\ so'[o].lot = lot
    <2> DEFINE order == [so[o] EXCEPT !.status = "OPEN", !.lot = lot, !.posted = p]
    <2>1. /\ order \in SalesOrders /\ order.status = "OPEN" /\ order.has = so[o].has
          /\ order.lines = so[o].lines /\ order.posted = p /\ order.lot = lot
      BY <1>1, <1>5, <1>6 DEF SalesOrders
    <2>2. so' = [so EXCEPT ![o] = order]
      BY <1>1, <1>7 DEF SalesOrders
    <2> HIDE DEF order
    <2> QED BY <1>1, <2>1, <2>2
  <1> QED BY <1>2, <1>3, <1>4, <1>6, <1>8 DEF p

LEMMA CommitReleaseTyped ==
    ASSUME Typing, NEW s \in Sessions, NEW o \in Orders, CommitRelease(s, o)
    PROVE  Typing' /\ Turns(s, Idle, Posts(s))
  <1>1. TypeOK /\ Shapes /\ ReqTyped /\ req[s] \in Requests /\ Posts(s) \in SUBSET Items
    BY DEF Typing, TypeOK, ReqTyped, Posts
  <1>2. Turns(s, Idle, Posts(s)) BY <1>1, EndTurns DEF CommitRelease
  <1>3. ledger' \in [Items -> [qty: Int, base: Int, hasBase: BOOLEAN]]
    <2>1. ASSUME NEW i \in Items
          PROVE  InBase(ledger[i], -Posting(s, i)) \in [qty: Int, base: Int, hasBase: BOOLEAN]
      <3>1. -Posting(s, i) \in Int /\ ledger[i].qty \in Int /\ ledger[i].base \in Int
        BY <1>1, PostingTyped DEF TypeOK
      <3> QED BY <3>1 DEF InBase
    <2>2. \A i \in Items : ledger[i] \in [qty: Int, base: Int, hasBase: BOOLEAN]
      BY <1>1 DEF TypeOK
    <2> QED BY <2>1, <2>2 DEF CommitRelease
  <1>4. raced' \subseteq Lots
    BY <1>1 DEF CommitRelease, TypeOK, Requests, Overtaking
  <1>5. /\ so' \in [Orders -> SalesOrders]
        /\ lots' \in [Lots -> [status: {"NONE", "AVAILABLE", "QUARANTINED"},
                               item: SUBSET Items, onHand: Int, posted: Int]]
    BY <1>1, CommitEffect DEF LotRecords
  <1>6. UNCHANGED <<moves, disturbed>> BY DEF CommitRelease
  <1>7. TypeOK' BY <1>1, <1>2, <1>3, <1>4, <1>5, <1>6 DEF TypeOK, Turns
  <1>8. Shapes' BY <1>1, <1>2, IdleShape, TurnsShapes
  <1> QED BY <1>2, <1>7, <1>8 DEF Typing

LEMMA CreateOrderTyped ==
    ASSUME Typing, NEW o \in Orders, CreateOrder(o)
    PROVE  Typing'
  <1>1. TypeOK'
    <2>1. [so[o] EXCEPT !.status = "DRAFT"] \in SalesOrders
      <3>1. so[o] \in SalesOrders
        BY DEF Typing, TypeOK
      <3> QED BY <3>1 DEF SalesOrders
    <2> QED BY <2>1 DEF Typing, TypeOK, CreateOrder
  <1>2. Shapes' BY DEF Typing, Shapes, CreateOrder
  <1> QED BY <1>1, <1>2 DEF Typing

(* The writes of addLine, updateLine and removeLine.                        *)
LineWritten(s, o) ==
    \E l \in LineIds :
        \/ \E q \in LineQty : AddLine(s, o, l, q) \/ UpdateLine(s, o, l, q)
        \/ RemoveLine(s, o, l)

LEMMA LineWrittenTyped ==
    ASSUME Typing, NEW s \in Sessions, NEW o \in Orders, LineWritten(s, o)
    PROVE  Typing' /\ Turns(s, Idle, {})
  <1>1. so[o].has \in SUBSET LineIds BY DEF Typing, TypeOK, SalesOrders
  <1>2. \E l \in LineIds, q \in Quantities, ids \in SUBSET LineIds : WriteLine(s, o, l, q, ids)
    <2>1. ASSUME NEW l \in LineIds, NEW q \in LineQty, AddLine(s, o, l, q)
          PROVE  WriteLine(s, o, l, q, so[o].has \cup {l})
      BY <2>1 DEF AddLine
    <2>2. ASSUME NEW l \in LineIds, NEW q \in LineQty, UpdateLine(s, o, l, q)
          PROVE  WriteLine(s, o, l, q, so[o].has)
      BY <2>2 DEF UpdateLine
    <2>3. ASSUME NEW l \in LineIds, RemoveLine(s, o, l)
          PROVE  WriteLine(s, o, l, 0, so[o].has \ {l})
      BY <2>3 DEF RemoveLine
    <2>4. /\ LineQty \subseteq Quantities /\ 0 \in Quantities
          /\ \A l \in LineIds : so[o].has \cup {l} \in SUBSET LineIds
          /\ \A l \in LineIds : so[o].has \ {l} \in SUBSET LineIds
      BY <1>1 DEF Quantities
    <2> QED BY <1>1, <2>1, <2>2, <2>3, <2>4 DEF LineWritten
  <1> QED BY <1>2, EditTyped

LEMMA TypingInit ==
    Init => Typing
  <1> SUFFICES ASSUME Init PROVE Typing OBVIOUS
  <1>1. /\ NewOrder \in SalesOrders
        /\ EmptyLedger \in [qty: Int, base: Int, hasBase: BOOLEAN]
    BY IdleTyped DEF NewOrder, EmptyLedger, SalesOrders
  <1>2. TypeOK
    BY <1>1, IdleTyped DEF Init, TypeOK
  <1>3. Shapes
    BY IdleShape DEF Init, Shapes
  <1> QED BY <1>2, <1>3 DEF Typing

(* The steps of Next, and what they have in common.                         *)
LEMMA Steps ==
    ASSUME Next
    PROVE  \/ Inflow
           \/ \E o \in Orders : CreateOrder(o)
           \/ \E s \in Sessions :
                 \/ \E k \in Lots : BeginLoss(s, k)
                 \/ \E o \in Orders : BeginEdit(s, o) \/ BeginRelease(s, o)
                 \/ \E o \in Orders : LineWritten(s, o)
                 \/ \E i \in Items, k \in Lots, q \in MoveQty : CommitLoss(s, i, k, q)
                 \/ \E o \in Orders : ReadLines(s, o)
                 \/ CheckBalance(s)
                 \/ \E l \in LineIds : PickLots(s, l) \/ TakeLots(s, l)
                 \/ \E o \in Orders : CommitRelease(s, o)
                 \/ Rollback(s)
  BY DEF Next, Loss, Edit, Release, LineWritten

LEMMA TypingNext ==
    Typing /\ [Next]_vars => Typing'
  <1> SUFFICES ASSUME Typing, [Next]_vars PROVE Typing' OBVIOUS
  <1>1. CASE UNCHANGED vars
    BY <1>1 DEF vars, Typing, TypeOK, Shapes
  <1>2. CASE Next
    BY <1>2, Steps, InflowTyped, CreateOrderTyped, BeginTyped, LineWrittenTyped,
       CommitLossTyped, WorkTyped, CommitReleaseTyped
  <1> QED BY <1>1, <1>2

(* Types, with what every step of a request says of its other fields.       *)
THEOREM TypeCorrect == Spec => []TypeOK
  <1>1. Typing => TypeOK BY DEF Typing
  <1> QED BY <1>1, TypingInit, TypingNext, PTL DEF Spec

-----------------------------------------------------------------------------
(* The lots of lines.  A release writes them, and with them the status      *)
(* OPEN, so that only a release that was begun before can still read one,   *)
(* and then the lot has raced.                                              *)
Waits(q, o) == q.step = "order" /\ q.order = {o}

Tied ==
    /\ \A o \in Orders : so[o].status # "OPEN" => \A l \in LineIds : so[o].lot[l] = {}
    /\ \A s \in Sessions : \A o \in Orders : Waits(req[s], o) =>
           so[o].status = "DRAFT" \/ \A l \in LineIds : so[o].lot[l] \subseteq raced
    /\ \A s \in Sessions : \A l \in LineIds : req[s].bound[l] \subseteq raced

LEMMA UntakenNone ==
    ASSUME Typing, Tied, NEW s \in Sessions, NEW k \in Lots \ raced
    PROVE  Untaken(req[s], k) = 0
  <1>1. {l \in Straight(req[s]) : req[s].bound[l] = {k}} = {}
    <2>1. Straight(req[s]) \subseteq LineIds BY DEF Typing, TypeOK, Requests, Straight
    <2> QED BY <2>1 DEF Tied
  <1>2. SumOver(req[s].lines, {}) = 0 BY SumStep, FS_EmptySet
  <1> QED BY <1>1, <1>2 DEF Untaken

(* A step of request s, or of none.                                         *)
LEMMA TiedKept ==
    ASSUME Tied, NEW S, NEW C, \A t \in Sessions \ S : Hears(t, C), raced \subseteq raced',
           \A s \in Sessions \cap S : \A o \in Orders :
               Waits(req'[s], o) => so'[o].status = "DRAFT",
           \A s \in Sessions \cap S : \A l \in LineIds : req'[s].bound[l] \subseteq raced',
           \A o \in Orders :
               /\ so'[o].status # "OPEN" => \A l \in LineIds : so'[o].lot[l] = {}
               /\ \/ /\ so'[o].status \in {so[o].status, "DRAFT"}
                     /\ \A l \in LineIds : so'[o].lot[l] \subseteq so[o].lot[l]
                  \/ \A t \in Sessions \ S : Waits(req[t], o) =>
                         \A l \in LineIds : so'[o].lot[l] \subseteq raced'
    PROVE  Tied'
  <1>1. ASSUME NEW t \in Sessions \ S
        PROVE  /\ req'[t].bound = req[t].bound
               /\ \A o : Waits(req'[t], o) <=> Waits(req[t], o)
    BY DEF Hears, Doc, Waits
  <1>2. ASSUME NEW t \in Sessions, NEW o \in Orders, Waits(req'[t], o)
        PROVE  so'[o].status = "DRAFT" \/ \A l \in LineIds : so'[o].lot[l] \subseteq raced'
    <2>1. CASE t \in S BY <1>2, <2>1
    <2>2. CASE t \notin S
      <3>1. Waits(req[t], o) BY <1>1, <1>2, <2>2
      <3>2. so[o].status = "DRAFT" \/ \A l \in LineIds : so[o].lot[l] \subseteq raced
        BY <3>1 DEF Tied
      <3> QED BY <2>2, <3>1, <3>2
    <2> QED BY <2>1, <2>2
  <1>3. ASSUME NEW t \in Sessions, NEW l \in LineIds
        PROVE  req'[t].bound[l] \subseteq raced'
    <2>1. CASE t \in S BY <2>1
    <2>2. CASE t \notin S
      <3>1. req[t].bound[l] \subseteq raced BY DEF Tied
      <3> QED BY <1>1, <2>2, <3>1
    <2> QED BY <2>1, <2>2
  <1> QED BY <1>2, <1>3 DEF Tied, Waits

(* The steps that change no order.                                          *)
LEMMA TurnTied ==
    ASSUME Tied, NEW s \in Sessions, NEW r, NEW C, Turns(s, r, C), so' = so,
           raced \subseteq raced',
           \A o \in Orders : Waits(r, o) => so[o].status = "DRAFT",
           \A l \in LineIds : r.bound[l] \subseteq raced
    PROVE  Tied'
  <1> DEFINE S == {s}
  <1>1. /\ \A t \in Sessions \ S : Hears(t, C)
        /\ \A t \in Sessions \cap S : req'[t] = r
    BY DEF Turns
  <1>2. \A o \in Orders :
            /\ so'[o].status # "OPEN" => \A l \in LineIds : so'[o].lot[l] = {}
            /\ so'[o].status = so[o].status
            /\ \A l \in LineIds : so'[o].lot[l] \subseteq so[o].lot[l]
    BY DEF Tied
  <1> HIDE DEF S
  <1> QED BY <1>1, <1>2, TiedKept

LEMMA IdleTied ==
    /\ \A o : ~Waits(Idle, o)
    /\ \A l \in LineIds : Idle.bound[l] = {}
  BY IdleTyped DEF Waits, Doc, NoBounds

LEMMA EndTied ==
    ASSUME Tied, NEW s \in Sessions, NEW C, Turns(s, Idle, C), so' = so, raced \subseteq raced'
    PROVE  Tied'
  BY IdleTied, TurnTied

LEMMA BeginTied ==
    ASSUME Typing, Tied, NEW s \in Sessions,
           \/ \E k \in Lots : BeginLoss(s, k)
           \/ \E o \in Orders : BeginEdit(s, o) \/ BeginRelease(s, o)
    PROVE  Tied'
  <1>1. UNCHANGED <<so, raced>> /\ TypeOK
    BY DEF BeginLoss, BeginEdit, BeginRelease, Begin, Typing
  <1>2. ASSUME NEW k \in Lots, BeginLoss(s, k)
        PROVE  Tied'
    <2>1. PICK r \in Requests :
              /\ Turns(s, r, {})
              /\ Doc(r, "loss", {}, {}, NoLines, FALSE, NoBounds)
      BY <1>1, <1>2, BeginLossTurns
    <2>2. (\A o : ~Waits(r, o)) /\ \A l \in LineIds : r.bound[l] = {}
      BY <2>1 DEF Waits, Doc, NoBounds
    <2> QED BY <1>1, <2>1, <2>2, TurnTied
  <1>3. ASSUME NEW o \in Orders, BeginEdit(s, o)
        PROVE  Tied'
    <2>1. PICK r \in Requests :
              /\ Turns(s, r, {})
              /\ Doc(r, "edit", {o}, so[o].has, NoLines, FALSE, NoBounds)
      BY <1>1, <1>3, BeginEditTurns
    <2>2. (\A p : ~Waits(r, p)) /\ \A l \in LineIds : r.bound[l] = {}
      BY <2>1 DEF Waits, Doc, NoBounds
    <2> QED BY <1>1, <2>1, <2>2, TurnTied
  <1>4. ASSUME NEW o \in Orders, BeginRelease(s, o)
        PROVE  Tied'
    <2>1. PICK r \in Requests, fefo \in BOOLEAN :
              /\ Turns(s, r, {})
              /\ Doc(r, "order", {o}, {}, NoLines, fefo, NoBounds)
      BY <1>1, <1>4, BeginReleaseTurns
    <2>2. so[o].status = "DRAFT" BY <1>4 DEF BeginRelease
    <2>3. /\ \A p \in Orders : Waits(r, p) => so[p].status = "DRAFT"
          /\ \A l \in LineIds : r.bound[l] = {}
      <3>1. r.order = {o} /\ \A l \in LineIds : r.bound[l] = {} BY <2>1 DEF Doc, NoBounds
      <3>2. \A p \in Orders : Waits(r, p) => p = o BY <3>1 DEF Waits
      <3> QED BY <2>2, <3>1, <3>2
    <2> QED BY <1>1, <2>1, <2>3, TurnTied
  <1> QED BY <1>2, <1>3, <1>4

LEMMA ReadLinesTied ==
    ASSUME Typing, Tied, NEW s \in Sessions, NEW o \in Orders, ReadLines(s, o)
    PROVE  Tied'
  <1>1. PICK r \in Requests :
            /\ Turns(s, r, {})
            /\ Doc(r, "check", req[s].order, so[o].has, so[o].lines, req[s].fefo, so[o].lot)
    BY ReadLinesTurns DEF Typing
  <1>2. UNCHANGED <<so, raced>> /\ Waits(req[s], o) BY DEF ReadLines, Waits
  <1>3. \A l \in LineIds : so[o].lot[l] \subseteq raced
    BY <1>2 DEF Tied
  <1>4. (\A p : ~Waits(r, p)) /\ r.bound = so[o].lot
    BY <1>1 DEF Waits, Doc
  <1> QED BY <1>1, <1>2, <1>3, <1>4, TurnTied

LEMMA StepTied ==
    ASSUME Typing, Tied, NEW s \in Sessions,
           \/ CheckBalance(s)
           \/ \E l \in LineIds : PickLots(s, l) \/ TakeLots(s, l)
    PROVE  Tied'
  <1> DEFINE q == req[s]
  <1>1. UNCHANGED <<so, raced>> /\ TypeOK
    BY DEF CheckBalance, PickLots, TakeLots, Typing
  <1>2. ASSUME CheckBalance(s)
        PROVE  \E r : Turns(s, r, {}) /\ r.step # "order" /\ r.bound = q.bound
    <2>1. PICK r \in Requests :
              /\ Turns(s, r, {})
              /\ Doc(r, "pick", q.order, q.has, q.lines, q.fefo, q.bound)
      BY <1>1, <1>2, CheckBalanceTurns
    <2> QED BY <2>1 DEF Doc
  <1>3. ASSUME NEW l \in LineIds, PickLots(s, l)
        PROVE  \E r : Turns(s, r, {}) /\ r.step # "order" /\ r.bound = q.bound
    <2>1. PICK r \in Requests :
              /\ Turns(s, r, {})
              /\ Doc(r, "take", q.order, q.has, q.lines, q.fefo, q.bound)
      BY <1>1, <1>3, PickLotsTurns
    <2> QED BY <2>1 DEF Doc
  <1>4. ASSUME NEW l \in LineIds, TakeLots(s, l)
        PROVE  \E r : Turns(s, r, {}) /\ r.step # "order" /\ r.bound = q.bound
    <2>1. PICK r \in Requests :
              /\ Turns(s, r, {})
              /\ Doc(r, "pick", q.order, q.has, q.lines, q.fefo, q.bound)
      BY <1>1, <1>4, TakeLotsTurns
    <2> QED BY <2>1 DEF Doc
  <1>5. PICK r : Turns(s, r, {}) /\ r.step # "order" /\ r.bound = q.bound
    BY <1>2, <1>3, <1>4
  <1>6. (\A o : ~Waits(r, o)) /\ \A l \in LineIds : r.bound[l] \subseteq raced
    BY <1>5 DEF Waits, Tied
  <1> QED BY <1>1, <1>5, <1>6, TurnTied

LEMMA LineWrittenTied ==
    ASSUME Typing, Tied, NEW s \in Sessions, NEW o \in Orders, LineWritten(s, o)
    PROVE  Tied'
  <1>1. Turns(s, Idle, {}) BY LineWrittenTyped
  <1>2. PICK l, q, ids : WriteLine(s, o, l, q, ids) /\ l \in LineIds
    BY DEF LineWritten, AddLine, UpdateLine, RemoveLine
  <1>3. so \in [Orders -> SalesOrders] /\ so[o] \in SalesOrders BY DEF Typing, TypeOK
  <1>4. /\ \A p \in Orders \ {o} : so'[p] = so[p]
        /\ so'[o].status = so[o].status
        /\ \A m \in LineIds : so'[o].lot[m] \subseteq so[o].lot[m]
    BY <1>2, <1>3 DEF WriteLine, SalesOrders
  <1> DEFINE S == {s}
  <1>5. /\ \A t \in Sessions \ S : Hears(t, {})
        /\ \A t \in Sessions \cap S : req'[t] = Idle
        /\ raced \subseteq raced'
    BY <1>1, <1>2 DEF Turns, WriteLine
  <1>6. ASSUME NEW p \in Orders
        PROVE  /\ so'[p].status # "OPEN" => \A m \in LineIds : so'[p].lot[m] = {}
               /\ so'[p].status = so[p].status
               /\ \A m \in LineIds : so'[p].lot[m] \subseteq so[p].lot[m]
    <2>1. CASE p = o BY <1>4, <2>1 DEF Tied
    <2>2. CASE p # o BY <1>4, <2>2 DEF Tied
    <2> QED BY <2>1, <2>2
  <1> HIDE DEF S
  <1> QED BY <1>5, <1>6, IdleTied, TiedKept

LEMMA CommitReleaseTied ==
    ASSUME Typing, Tied, NEW s \in Sessions, NEW o \in Orders, CommitRelease(s, o)
    PROVE  Tied'
  <1> DEFINE S == {s}
  <1>1. Turns(s, Idle, Posts(s)) BY CommitReleaseTyped
  <1>2. /\ \A t \in Sessions \ S : Hears(t, Posts(s))
        /\ \A t \in Sessions \cap S : req'[t] = Idle
        /\ raced \subseteq raced' /\ Overtaking(s, o) \subseteq raced'
    BY <1>1 DEF Turns, CommitRelease
  <1>3. /\ \A p \in Orders \ {o} : so'[p] = so[p]
        /\ so'[o].status = "OPEN"
        /\ \A l \in LineIds : so'[o].lot[l] = IF req[s].picked[l] # {}
                                              THEN req[s].picked[l] ELSE so[o].lot[l]
    BY CommitEffect DEF Typing
  <1>4. ASSUME NEW t \in Sessions \ {s}, Waits(req[t], o), NEW l \in LineIds
        PROVE  so'[o].lot[l] \subseteq raced'
    <2>1. req[s].picked[l] \subseteq raced'
      <3>1. Busy(t, o) /\ req[t].step = "order" BY <1>4 DEF Waits, Busy
      <3>2. req[s].picked[l] \subseteq Lots BY DEF Typing, TypeOK, Requests
      <3>3. req[s].picked[l] \subseteq Overtaking(s, o) BY <3>1, <3>2 DEF Overtaking
      <3> QED BY <1>2, <3>3
    <2>2. so[o].lot[l] \subseteq raced
      BY <1>4 DEF Tied
    <2> QED BY <1>2, <1>3, <2>1, <2>2
  <1>5. ASSUME NEW p \in Orders
        PROVE  /\ so'[p].status # "OPEN" => \A l \in LineIds : so'[p].lot[l] = {}
               /\ \/ /\ so'[p].status \in {so[p].status, "DRAFT"}
                     /\ \A l \in LineIds : so'[p].lot[l] \subseteq so[p].lot[l]
                  \/ \A t \in Sessions \ S : Waits(req[t], p) =>
                         \A l \in LineIds : so'[p].lot[l] \subseteq raced'
    <2>1. CASE p = o BY <1>3, <1>4, <2>1
    <2>2. CASE p # o BY <1>3, <2>2 DEF Tied
    <2> QED BY <2>1, <2>2
  <1> HIDE DEF S
  <1> QED BY <1>2, <1>5, IdleTied, TiedKept

(* The steps that move stock, and those of an order of which no request     *)
(* reads the lines.                                                         *)
LEMMA OtherTied ==
    ASSUME Typing, Tied,
           \/ Inflow
           \/ \E o \in Orders : CreateOrder(o)
           \/ \E s \in Sessions : Rollback(s)
           \/ \E s \in Sessions, i \in Items, k \in Lots, q \in MoveQty : CommitLoss(s, i, k, q)
    PROVE  Tied'
  <1> DEFINE S == {}
  <1>1. ASSUME NEW C, \A t \in Sessions : Hears(t, C), so' = so, raced \subseteq raced'
        PROVE  Tied'
    <2>1. /\ \A t \in Sessions \ S : Hears(t, C)
          /\ Sessions \cap S = {}
          /\ \A o \in Orders :
                /\ so'[o].status # "OPEN" => \A l \in LineIds : so'[o].lot[l] = {}
                /\ so'[o].status = so[o].status
                /\ \A l \in LineIds : so'[o].lot[l] \subseteq so[o].lot[l]
      BY <1>1 DEF Tied
    <2> HIDE DEF S
    <2> QED BY <1>1, <2>1, TiedKept
  <1>2. CASE Inflow
    <2>1. so' = so /\ raced \subseteq raced'
      BY <1>2 DEF Inflow, CreateLot, ReceiveLot, ReceiveLotless, LoseLotless, NewLot
    <2> QED BY <1>1, <1>2, <2>1, InflowTyped
  <1>3. ASSUME NEW o \in Orders, CreateOrder(o)
        PROVE  Tied'
    <2>1. /\ \A t \in Sessions \ S : Hears(t, {})
          /\ Sessions \cap S = {} /\ raced \subseteq raced'
      BY <1>3 DEF CreateOrder, Hears, Doc, Work
    <2>2. so \in [Orders -> SalesOrders] /\ so[o] \in SalesOrders BY DEF Typing, TypeOK
    <2>3. /\ \A p \in Orders \ {o} : so'[p] = so[p]
          /\ so'[o].status = "DRAFT" /\ so'[o].lot = so[o].lot /\ so[o].status = "NONE"
      BY <1>3, <2>2 DEF CreateOrder, SalesOrders
    <2>4. ASSUME NEW p \in Orders
          PROVE  /\ so'[p].status # "OPEN" => \A l \in LineIds : so'[p].lot[l] = {}
                 /\ so'[p].status = so[p].status \/ so'[p].status = "DRAFT"
                 /\ \A l \in LineIds : so'[p].lot[l] \subseteq so[p].lot[l]
      <3>1. CASE p = o BY <2>3, <3>1 DEF Tied
      <3>2. CASE p # o BY <2>3, <3>2 DEF Tied
      <3> QED BY <3>1, <3>2
    <2> HIDE DEF S
    <2> QED BY <2>1, <2>4, TiedKept
  <1>4. ASSUME NEW s \in Sessions, Rollback(s)
        PROVE  Tied'
    <2>1. /\ UNCHANGED <<so, raced>> /\ req' = [req EXCEPT ![s] = Idle]
          /\ ReqTyped
      BY <1>4 DEF Rollback, Typing, TypeOK, ReqTyped
    <2> QED BY <2>1, RollbackTurns, EndTied
  <1>5. ASSUME NEW s \in Sessions, NEW i \in Items, NEW k \in Lots, NEW q \in MoveQty,
               CommitLoss(s, i, k, q)
        PROVE  Tied'
    <2>1. so' = so /\ raced \subseteq raced' BY <1>5 DEF CommitLoss
    <2> QED BY <1>5, <2>1, CommitLossTyped, EndTied
  <1> QED BY <1>2, <1>3, <1>4, <1>5

LEMMA TiedInit ==
    Init => Tied
  <1> SUFFICES ASSUME Init PROVE Tied OBVIOUS
  <1>1. /\ \A s \in Sessions : req[s] = Idle
        /\ \A o \in Orders : so[o].lot = NoBounds
    BY DEF Init, NewOrder
  <1> QED BY <1>1, IdleTied DEF Tied, NoBounds

LEMMA TiedNext ==
    Typing /\ Tied /\ [Next]_vars => Tied'
  <1> SUFFICES ASSUME Typing, Tied, [Next]_vars PROVE Tied' OBVIOUS
  <1>1. CASE UNCHANGED vars BY <1>1 DEF vars, Tied, Waits
  <1>2. CASE Next
    BY <1>2, Steps, OtherTied, BeginTied, ReadLinesTied, StepTied, LineWrittenTied,
       CommitReleaseTied
  <1> QED BY <1>1, <1>2

-----------------------------------------------------------------------------
(* The stock of lots.                                                       *)

(* A request that holds no copy of a lot and has updated none.              *)
LEMMA EmptyHanded ==
    ASSUME NEW q, q.mine = {}, q.out = NoStock, q.step \notin {"loss", "take"},
           \A k \in Lots : q.seen[k] >= 0 /\ q.wrote[k] >= 0
    PROVE  Sound(q)
  <1>1. \A k \in Lots : q.out[k] = 0 BY DEF NoStock
  <1>2. NoneBelow(q) BY <1>1 DEF NoneBelow
  <1>3. Existing(q) /\ Current(q) BY DEF Existing, Current
  <1>4. UsedUp(q) BY <1>1 DEF UsedUp
  <1> QED BY <1>2, <1>3, <1>4 DEF Sound

LEMMA IdleSound ==
    Sound(Idle)
  <1>1. \A k \in Lots : NoStock[k] = 0 BY DEF NoStock
  <1>2. /\ Idle.step = "idle" /\ Idle.mine = {} /\ Idle.out = NoStock
        /\ Idle.seen = NoStock /\ Idle.wrote = NoStock
    BY IdleTyped DEF Doc, Work
  <1> QED BY <1>1, <1>2, EmptyHanded

(* A request that is not in a step keeps what it has of the lots, when      *)
(* these do not change.                                                     *)
LEMMA HearSound ==
    ASSUME NEW t \in Sessions, NEW C, Hears(t, C), Sound(req[t]), UNCHANGED <<lots, raced>>
    PROVE  Sound(req[t])'
  <1>1. /\ req'[t].step = req[t].step /\ req'[t].has = req[t].has
        /\ req'[t].line = req[t].line /\ req'[t].mine = req[t].mine
        /\ req'[t].out = req[t].out /\ req'[t].seen = req[t].seen
        /\ req'[t].wrote = req[t].wrote /\ req'[t].lot = req[t].lot
    BY DEF Hears, Doc, Work
  <1>2. /\ NoneBelow(req[t])' /\ Existing(req[t])'
    BY <1>1 DEF Sound, NoneBelow, Existing
  <1>3. \A k : Finds(req[t], k)' = Finds(req[t], k)
    BY <1>1 DEF Finds
  <1>4. Current(req[t])' /\ UsedUp(req[t])'
    BY <1>1, <1>3 DEF Sound, Current, UsedUp
  <1> QED BY <1>2, <1>4 DEF Sound

(* The steps that change no lot.                                            *)
LEMMA TurnStocked ==
    ASSUME Stocked, NEW s \in Sessions, NEW r, NEW C, Turns(s, r, C), Sound(r),
           \A t \in Sessions \ {s} : r.mine \cap req[t].mine = {},
           UNCHANGED <<lots, raced>>
    PROVE  Stocked'
  <1>1. req'[s] = r /\ \A t \in Sessions \ {s} : Hears(t, C)
    BY DEF Turns
  <1>2. Sound(req[s])'
    <2>1. \A k : Finds(req[s], k)' = Finds(r, k)
      BY <1>1 DEF Finds
    <2>2. NoneBelow(req[s])' /\ Existing(req[s])'
      BY <1>1 DEF Sound, NoneBelow, Existing
    <2>3. Current(req[s])' /\ UsedUp(req[s])'
      BY <1>1, <2>1 DEF Sound, Current, UsedUp
    <2> QED BY <2>2, <2>3 DEF Sound
  <1>3. \A t \in Sessions \ {s} : Sound(req[t])'
    BY <1>1, HearSound DEF Stocked
  <1>4. Exclusive'
    <2>1. \A t \in Sessions \ {s} : req'[t].mine = req[t].mine
      BY <1>1 DEF Hears, Work
    <2> QED BY <1>1, <2>1 DEF Stocked, Exclusive
  <1>5. LotNonNegative' /\ LotMatchesLedger'
    BY DEF Stocked, LotNonNegative, LotMatchesLedger
  <1> QED BY <1>2, <1>3, <1>4, <1>5 DEF Stocked

LEMMA HearStocked ==
    ASSUME Stocked, NEW C, \A t \in Sessions : Hears(t, C), UNCHANGED <<lots, raced>>
    PROVE  Stocked'
  <1>1. \A t \in Sessions : Sound(req[t])'
    BY HearSound DEF Stocked
  <1>2. Exclusive'
    BY DEF Stocked, Exclusive, Hears, Work
  <1>3. LotNonNegative' /\ LotMatchesLedger'
    BY DEF Stocked, LotNonNegative, LotMatchesLedger
  <1> QED BY <1>1, <1>2, <1>3 DEF Stocked

LEMMA EndStocked ==
    ASSUME Stocked, NEW s \in Sessions, NEW C, Turns(s, Idle, C), UNCHANGED <<lots, raced>>
    PROVE  Stocked'
  <1>1. Idle.mine = {} BY IdleTyped DEF Work
  <1> QED BY <1>1, IdleSound, TurnStocked

LEMMA BeginStocked ==
    ASSUME Typing, Stocked, NEW s \in Sessions,
           \E o \in Orders : BeginEdit(s, o) \/ BeginRelease(s, o)
    PROVE  Stocked'
  <1>1. UNCHANGED <<lots, raced>> /\ TypeOK
    BY DEF BeginEdit, BeginRelease, Begin, Typing
  <1>2. \A k \in Lots : NoStock[k] = 0 BY DEF NoStock
  <1>3. ASSUME NEW o \in Orders, BeginEdit(s, o)
        PROVE  \E r : Turns(s, r, {}) /\ Sound(r) /\ r.mine = {}
    <2>1. PICK r \in Requests : /\ Turns(s, r, {})
                                /\ Doc(r, "edit", {o}, so[o].has, NoLines, FALSE, NoBounds)
                                /\ Work(r, {}, {}, NoStock, {}, NoStock, NoStock)
      BY <1>1, <1>3, BeginEditTurns
    <2>2. /\ r.step \notin {"loss", "take"} /\ r.mine = {} /\ r.out = NoStock
          /\ r.seen = NoStock /\ r.wrote = NoStock
      BY <2>1 DEF Doc, Work
    <2>3. Sound(r) BY <1>2, <2>2, EmptyHanded
    <2> QED BY <2>1, <2>2, <2>3
  <1>4. ASSUME NEW o \in Orders, BeginRelease(s, o)
        PROVE  \E r : Turns(s, r, {}) /\ Sound(r) /\ r.mine = {}
    <2>1. PICK r \in Requests, fefo \in BOOLEAN :
              /\ Turns(s, r, {})
              /\ Doc(r, "order", {o}, {}, NoLines, fefo, NoBounds)
              /\ Work(r, {}, {}, NoStock, {}, NoStock, NoStock)
      BY <1>1, <1>4, BeginReleaseTurns
    <2>2. /\ r.step \notin {"loss", "take"} /\ r.mine = {} /\ r.out = NoStock
          /\ r.seen = NoStock /\ r.wrote = NoStock
      BY <2>1 DEF Doc, Work
    <2>3. Sound(r) BY <1>2, <2>2, EmptyHanded
    <2> QED BY <2>1, <2>2, <2>3
  <1>5. PICK r : Turns(s, r, {}) /\ Sound(r) /\ r.mine = {}
    BY <1>3, <1>4
  <1> QED BY <1>1, <1>5, TurnStocked

LEMMA BeginLossStocked ==
    ASSUME Typing, Stocked, NEW s \in Sessions, NEW k \in Lots, BeginLoss(s, k)
    PROVE  Stocked'
  <1> DEFINE seen == [NoStock EXCEPT ![k] = lots[k].onHand]
  <1>1. PICK r \in Requests : /\ Turns(s, r, {})
                              /\ Doc(r, "loss", {}, {}, NoLines, FALSE, NoBounds)
                              /\ Work(r, {}, {}, seen, {}, NoStock, NoStock)
                              /\ r.lot = {k}
    BY BeginLossTurns DEF Typing
  <1>2. /\ UNCHANGED <<lots, raced>> /\ lots[k].status # "NONE"
        /\ lots[k].onHand >= 0
    BY DEF BeginLoss, Stocked, LotNonNegative
  <1>3. /\ \A j \in Lots : NoStock[j] = 0
        /\ seen[k] = lots[k].onHand /\ \A j \in Lots \ {k} : seen[j] = 0
        /\ r.step = "loss" /\ r.mine = {} /\ r.seen = seen
        /\ r.wrote = NoStock /\ r.out = NoStock
    BY <1>1 DEF NoStock, Doc, Work
  <1> HIDE DEF seen
  <1>4. NoneBelow(r)
    <2>1. ASSUME NEW j \in Lots
          PROVE  r.seen[j] >= 0 /\ r.wrote[j] = 0 /\ r.out[j] = 0
      <3>1. r.wrote[j] = 0 /\ r.out[j] = 0 BY <1>3
      <3>2. CASE j = k BY <1>2, <1>3, <3>1, <3>2
      <3>3. CASE j # k
        <4>1. r.seen[j] = 0 BY <1>3, <3>3
        <4> QED BY <3>1, <4>1
      <3> QED BY <3>2, <3>3
    <2> QED BY <2>1 DEF NoneBelow
  <1>5. Existing(r)
    <2>1. ASSUME NEW j \in Lots, r.lot = {j}
          PROVE  lots[j].status # "NONE"
      BY <1>1, <1>2, <2>1
    <2> QED BY <1>3, <2>1 DEF Existing
  <1>6. Current(r)
    <2>1. ASSUME NEW j \in Lots, r.lot = {j}
          PROVE  r.seen[j] = lots[j].onHand
      BY <1>1, <1>3, <2>1
    <2> QED BY <1>3, <2>1 DEF Current
  <1>7. UsedUp(r) BY <1>3 DEF UsedUp
  <1> QED BY <1>1, <1>2, <1>3, <1>4, <1>5, <1>6, <1>7, TurnStocked DEF Sound

LEMMA ReadLinesStocked ==
    ASSUME Typing, Stocked, NEW s \in Sessions, NEW o \in Orders, ReadLines(s, o)
    PROVE  Stocked'
  <1> DEFINE q == req[s]
  <1>1. PICK r \in Requests :
            /\ Turns(s, r, {})
            /\ Doc(r, "check", q.order, so[o].has, so[o].lines, q.fefo, so[o].lot)
            /\ Work(r, q.left, q.line, q.seen, q.mine, q.wrote, q.out)
    BY ReadLinesTurns DEF Typing
  <1>2. UNCHANGED <<lots, raced>> /\ q.mine = {} /\ q.out = NoStock
    BY DEF ReadLines, Typing, Shapes, ShapeOf
  <1>3. \A k \in Lots : q.seen[k] >= 0 /\ q.wrote[k] >= 0
    BY DEF Stocked, Sound, NoneBelow
  <1>4. /\ r.step = "check" /\ r.mine = {} /\ r.out = NoStock
        /\ \A k \in Lots : r.seen[k] >= 0 /\ r.wrote[k] >= 0
    BY <1>1, <1>2, <1>3 DEF Doc, Work
  <1>5. Sound(r) BY <1>4, EmptyHanded
  <1> QED BY <1>1, <1>2, <1>4, <1>5, TurnStocked

LEMMA CheckBalanceStocked ==
    ASSUME Typing, Stocked, NEW s \in Sessions, CheckBalance(s)
    PROVE  Stocked'
  <1> DEFINE q == req[s]
  <1>1. PICK r \in Requests :
            /\ Turns(s, r, {})
            /\ Doc(r, "pick", q.order, q.has, q.lines, q.fefo, q.bound)
            /\ Work(r, Free(q), q.line, q.seen, q.mine, q.wrote, q.out)
    BY CheckBalanceTurns DEF Typing
  <1>2. UNCHANGED <<lots, raced>> /\ q.mine = {} /\ q.out = NoStock
    BY DEF CheckBalance, Typing, Shapes, ShapeOf
  <1>3. \A k \in Lots : q.seen[k] >= 0 /\ q.wrote[k] >= 0
    BY DEF Stocked, Sound, NoneBelow
  <1>4. /\ r.step = "pick" /\ r.mine = {} /\ r.out = NoStock
        /\ \A k \in Lots : r.seen[k] >= 0 /\ r.wrote[k] >= 0
    BY <1>1, <1>2, <1>3 DEF Doc, Work
  <1>5. Sound(r) BY <1>4, EmptyHanded
  <1> QED BY <1>1, <1>2, <1>4, <1>5, TurnStocked

LEMMA PickLotsStocked ==
    ASSUME Typing, Stocked, NEW s \in Sessions, NEW l \in LineIds, PickLots(s, l)
    PROVE  Stocked'
  <1> DEFINE q == req[s]
             seen == [k \in Lots |-> IF k \in Pickable(s, l) THEN OnHand(s, k) ELSE 0]
  <1>1. PICK r \in Requests :
            /\ Turns(s, r, {})
            /\ Doc(r, "take", q.order, q.has, q.lines, q.fefo, q.bound)
            /\ Work(r, q.left, {l}, seen, q.mine, q.wrote, q.out)
    BY PickLotsTurns DEF Typing
  <1>2. UNCHANGED <<lots, raced>> /\ Sound(q) /\ q.step = "pick"
    BY DEF PickLots, Stocked
  <1>3. /\ r.step = "take" /\ r.has = q.has /\ r.line = {l} /\ r.seen = seen
        /\ r.mine = q.mine /\ r.wrote = q.wrote /\ r.out = q.out
    BY <1>1 DEF Doc, Work
  <1>4. ASSUME NEW k \in Lots
        PROVE  /\ OnHand(s, k) >= 0 /\ Finds(r, k) = OnHand(s, k) /\ Finds(q, k) = OnHand(s, k)
               /\ OnHand(s, k) \in Int
               /\ seen[k] = IF k \in Pickable(s, l) THEN OnHand(s, k) ELSE 0
    <2>1. OnHand(s, k) >= 0
      BY <1>2 DEF OnHand, Sound, NoneBelow, Stocked, LotNonNegative
    <2> QED BY <1>3, <2>1, OnHandTyped DEF OnHand, Finds, Typing
  <1> HIDE DEF seen
  <1>5. NoneBelow(r)
    BY <1>2, <1>3, <1>4 DEF Sound, NoneBelow
  <1>6. Existing(r)
    <2>1. ASSUME NEW k \in Lots, seen[k] > 0
          PROVE  lots[k].status = "AVAILABLE" /\ lots[k].item = {LineItem[l]}
      BY <1>4, <2>1 DEF Pickable
    <2> QED BY <1>2, <1>3, <2>1 DEF Sound, Existing
  <1>7. Current(r)
    <2>1. ASSUME NEW k \in Lots, lots[k].status = "AVAILABLE", lots[k].item = {LineItem[l]}
          PROVE  seen[k] = Finds(r, k)
      BY <1>4, <2>1 DEF Pickable
    <2> QED BY <1>2, <1>3, <2>1 DEF Sound, Current
  <1>8. UsedUp(r)
    <2>1. \A j \in Lots : Finds(r, j) = Finds(q, j) BY <1>4
    <2> QED BY <1>2, <1>3, <2>1 DEF Sound, UsedUp, Before
  <1>9. \A t \in Sessions \ {s} : r.mine \cap req[t].mine = {}
    BY <1>3 DEF Stocked, Exclusive
  <1> QED BY <1>1, <1>2, <1>5, <1>6, <1>7, <1>8, <1>9, TurnStocked DEF Sound

(* First expired, first out: a lot gives what it has or less, and one       *)
(* that gives leaves nothing in those before it.                            *)
LEMMA TakenFirst ==
    ASSUME NEW seen \in [Lots -> Int], \A k \in Lots : seen[k] >= 0, NEW need \in Int,
           NEW k \in Lots
    PROVE  /\ Taken(seen, need)[k] >= 0 /\ Taken(seen, need)[k] <= seen[k]
           /\ Taken(seen, need)[k] > 0
                  => \A j \in Before(k) : Taken(seen, need)[j] = seen[j]
  <1> DEFINE rest(j) == need - SumOver(seen, Before(j))
  <1>1. ASSUME NEW j \in Lots
        PROVE  /\ IsFiniteSet(Before(j)) /\ Before(j) \subseteq Lots
               /\ SumOver(seen, Before(j)) \in Int
               /\ Taken(seen, need)[j] = IF rest(j) > 0 THEN Least(seen[j], rest(j)) ELSE 0
    <2>1. IsFiniteSet(Before(j)) /\ Before(j) \subseteq Lots BY LotsFinite DEF Before
    <2>2. SumOver(seen, Before(j)) \in Int BY <2>1, SumType
    <2> QED BY <2>1, <2>2 DEF Taken
  <1>2. ASSUME rest(k) > 0, NEW j \in Before(k)
        PROVE  rest(j) > seen[j]
    <2> DEFINE R == Before(j) \cup {j}
    <2>1. j \in Lots /\ j < k /\ j \in Nat /\ k \in Nat /\ Lots \subseteq Nat
      BY DEF Before
    <2>2. R \in SUBSET Before(k) /\ R \subseteq Lots /\ j \in R /\ Before(j) = R \ {j}
      <3>1. ASSUME NEW x \in Before(j)
            PROVE  x \in Before(k) /\ x # j
        <4>1. x \in Nat /\ x \in Lots /\ x < j BY <2>1 DEF Before
        <4> QED BY <2>1, <4>1 DEF Before
      <3>2. Before(j) \subseteq Lots BY <1>1, <2>1
      <3> QED BY <2>1, <3>1, <3>2
    <2>3. /\ IsFiniteSet(R) /\ IsFiniteSet(Before(k) \ R)
          /\ \A x \in Lots : seen[x] \in Int /\ seen[x] \in Nat
          /\ \A x \in Before(k) : x \in Lots
      BY <1>1, <2>2, LotsFinite, FS_Subset
    <2> HIDE DEF R
    <2>4. SumOver(seen, Before(k)) = SumOver(seen, R) + SumOver(seen, Before(k) \ R)
      <3>1. IsFiniteSet(Before(k)) BY <1>1
      <3>2. \A x \in Before(k) : seen[x] \in Int BY <2>3
      <3>3. R \in SUBSET Before(k) BY <2>2
      <3> QED BY <3>1, <3>2, <3>3, SumSplit
    <2>5. SumOver(seen, R) = seen[j] + SumOver(seen, Before(j))
      <3>1. \A x \in R : seen[x] \in Int BY <2>2, <2>3
      <3>2. IsFiniteSet(R) /\ j \in R BY <2>2, <2>3
      <3>3. SumOver(seen, R) = seen[j] + SumOver(seen, R \ {j}) BY <3>1, <3>2, SumAny
      <3> QED BY <2>2, <3>3
    <2>6. SumOver(seen, Before(k) \ R) \in Nat
      BY <2>3, SumType
    <2>7. /\ SumOver(seen, Before(j)) \in Int /\ SumOver(seen, Before(k)) \in Int
          /\ seen[j] \in Int
      BY <1>1, <2>1
    <2> QED BY <1>2, <2>4, <2>5, <2>6, <2>7
  <1>3. seen[k] \in Int /\ seen[k] >= 0 /\ rest(k) \in Int
    BY <1>1
  <1>4. Taken(seen, need)[k] >= 0 /\ Taken(seen, need)[k] <= seen[k]
    BY <1>1, <1>3 DEF Least
  <1>5. ASSUME Taken(seen, need)[k] > 0, NEW j \in Before(k)
        PROVE  Taken(seen, need)[j] = seen[j]
    <2>1. rest(k) > 0 BY <1>1, <1>5
    <2>2. rest(j) > seen[j] /\ j \in Lots BY <1>1, <1>2, <2>1
    <2>3. seen[j] \in Int /\ seen[j] >= 0 /\ rest(j) \in Int BY <1>1, <2>2
    <2>4. Taken(seen, need)[j] = IF rest(j) > 0 THEN Least(seen[j], rest(j)) ELSE 0
      BY <1>1, <2>2
    <2> HIDE DEF rest
    <2> QED BY <2>2, <2>3, <2>4 DEF Least
  <1> QED BY <1>4, <1>5

LEMMA TakeLotsStocked ==
    ASSUME Typing, Stocked, NEW s \in Sessions, NEW l \in LineIds, TakeLots(s, l)
    PROVE  Stocked'
  <1> DEFINE q == req[s]
             take == TakenFor(s, l)
             from == FromLots(s, l)
             wrote == WroteFor(s, l)
             out == OutFor(s, l)
  <1>1. PICK r \in Requests :
            /\ Turns(s, r, {})
            /\ Doc(r, "pick", q.order, q.has, q.lines, q.fefo, q.bound)
            /\ Work(r, q.left \ {l}, {}, NoStock, q.mine \cup from, wrote, out)
    BY TakeLotsTurns DEF Typing
  <1>2. /\ UNCHANGED <<lots, raced>> /\ Sound(q) /\ q.step = "take" /\ q.line = {l}
        /\ q \in Requests /\ l \in q.has /\ LotNonNegative /\ Exclusive
        /\ \A k \in from : ~LockedLot(s, k)
    <2>1. q.step = "take" /\ q.line = {l} BY DEF TakeLots
    <2>2. l \in q.has
      <3>1. ShapeOf(q) BY DEF Typing, Shapes
      <3> QED BY <2>1, <3>1 DEF ShapeOf, Free
    <2> QED BY <2>1, <2>2 DEF TakeLots, Stocked, Typing, TypeOK, FromLots, TakenFor
  <1>3. /\ r.step = "pick" /\ r.has = q.has /\ r.seen = NoStock
        /\ r.mine = q.mine \cup from /\ r.wrote = wrote /\ r.out = out
    BY <1>1 DEF Doc, Work
  <1>4. ASSUME NEW k \in Lots
        PROVE  /\ q.seen[k] \in Int /\ q.out[k] \in Int /\ q.wrote[k] \in Int
               /\ lots[k].onHand \in Int /\ take[k] \in Int
               /\ take[k] >= 0 /\ take[k] <= q.seen[k]
               /\ q.seen[k] >= 0 /\ q.out[k] >= 0 /\ q.wrote[k] >= 0
               /\ k \notin q.mine => q.out[k] = 0
               /\ k \in from <=> take[k] > 0
               /\ wrote[k] = IF k \in from THEN q.seen[k] - take[k] ELSE q.wrote[k]
               /\ out[k] = q.out[k] + take[k]
               /\ r.seen[k] = 0
    <2>1. /\ q.seen \in [Lots -> Int] /\ q.out \in [Lots -> Int] /\ q.wrote \in [Lots -> Int]
          /\ lots[k].onHand \in Int /\ q.lines[l] \in Int
          /\ take \in [Lots -> Int]
      BY TakenForTyped DEF Typing, TypeOK, Requests
    <2>2. /\ \A j \in Lots : q.seen[j] >= 0 /\ q.out[j] >= 0 /\ q.wrote[j] >= 0
          /\ k \notin q.mine => q.out[k] = 0
      BY <1>2 DEF Sound, NoneBelow
    <2>3. take[k] >= 0 /\ take[k] <= q.seen[k]
      BY <2>1, <2>2, TakenFirst DEF TakenFor
    <2>4. r.seen[k] = 0 BY <1>3 DEF NoStock
    <2> QED BY <2>1, <2>2, <2>3, <2>4 DEF FromLots, WroteFor, OutFor
  <1>5. ASSUME NEW k \in Lots, take[k] > 0
        PROVE  /\ lots[k].status = "AVAILABLE" /\ lots[k].item = {LineItem[l]}
               /\ \A j \in Before(k) : take[j] = q.seen[j]
    <2>1. q.seen[k] > 0 BY <1>4, <1>5
    <2>2. lots[k].status = "AVAILABLE" /\ lots[k].item = {LineItem[l]}
      BY <1>2, <2>1 DEF Sound, Existing
    <2>3. q.seen \in [Lots -> Int] /\ q.lines[l] \in Int
      BY TakenForTyped DEF Typing, TypeOK, Requests
    <2>4. \A j \in Before(k) : take[j] = q.seen[j]
      BY <1>4, <1>5, <2>3, TakenFirst DEF TakenFor
    <2> QED BY <2>2, <2>4
  <1>6. ASSUME NEW k \in Lots \ raced, lots[k].status = "AVAILABLE",
               lots[k].item = {LineItem[l]}
        PROVE  q.seen[k] = Finds(q, k)
    BY <1>2, <1>6 DEF Sound, Current
  <1>7. \A k \in Lots : Finds(r, k) = IF k \in from THEN q.seen[k] - take[k] ELSE Finds(q, k)
    BY <1>3, <1>4 DEF Finds
  <1> HIDE DEF take, from, wrote, out
  <1>8. NoneBelow(r)
    <2>1. ASSUME NEW k \in Lots
          PROVE  /\ r.seen[k] >= 0 /\ r.wrote[k] >= 0 /\ r.out[k] >= 0
                 /\ k \notin r.mine => r.out[k] = 0
      BY <1>3, <1>4
    <2> QED BY <2>1 DEF NoneBelow
  <1>9. Existing(r)
    <2>1. ASSUME NEW k \in r.mine
          PROVE  lots[k].status = "AVAILABLE" /\ \E m \in r.has : lots[k].item = {LineItem[m]}
      <3>1. CASE k \in q.mine BY <1>2, <1>3, <3>1 DEF Sound, Existing
      <3>2. CASE k \in from
        <4>1. k \in Lots BY <3>2 DEF from, FromLots
        <4> QED BY <1>2, <1>3, <1>4, <1>5, <3>2, <4>1
      <3> QED BY <1>3, <3>1, <3>2
    <2> QED BY <1>3, <2>1 DEF Existing
  <1>10. Current(r)
    <2>1. ASSUME NEW k \in Lots \ raced, k \in r.mine
          PROVE  r.wrote[k] = lots[k].onHand - r.out[k]
      <3>1. k \in q.mine => q.wrote[k] = lots[k].onHand - q.out[k]
        BY <1>2 DEF Sound, Current
      <3>2. CASE k \in from
        <4>1. q.seen[k] = Finds(q, k) BY <1>4, <1>5, <1>6, <3>2
        <4> QED BY <1>3, <1>4, <3>1, <3>2, <4>1 DEF Finds
      <3>3. CASE k \notin from
        <4>1. take[k] = 0 BY <1>4, <3>3
        <4> QED BY <1>3, <1>4, <2>1, <3>1, <3>3, <4>1
      <3> QED BY <3>2, <3>3
    <2> QED BY <1>3, <2>1 DEF Current
  <1>11. UsedUp(r)
    <2>1. ASSUME NEW k \in Lots, NEW j \in Before(k) \ raced, r.out[k] > 0,
                 lots[j].status = "AVAILABLE", lots[j].item = lots[k].item
          PROVE  Finds(r, j) = 0
      <3>1. j \in Lots \ raced BY DEF Before
      <3>2. CASE take[k] > 0
        <4>1. take[j] = q.seen[j] /\ q.seen[j] = Finds(q, j)
          BY <1>5, <1>6, <2>1, <3>1, <3>2
        <4> QED BY <1>4, <1>7, <3>1, <4>1
      <3>3. CASE ~(take[k] > 0)
        <4>1. q.out[k] > 0 BY <1>3, <1>4, <2>1, <3>3
        <4>2. Finds(q, j) = 0 BY <1>2, <2>1, <4>1 DEF Sound, UsedUp
        <4>3. j \notin from
          <5>1. SUFFICES ASSUME j \in from PROVE FALSE OBVIOUS
          <5>2. take[j] > 0 /\ take[j] <= q.seen[j] /\ q.seen[j] \in Int /\ take[j] \in Int
            BY <1>4, <3>1, <5>1
          <5>3. q.seen[j] = Finds(q, j) BY <1>5, <1>6, <3>1, <5>2
          <5> QED BY <4>2, <5>2, <5>3
        <4> QED BY <1>7, <3>1, <4>2, <4>3
      <3> QED BY <3>2, <3>3
    <2> QED BY <2>1 DEF UsedUp
  <1>12. ASSUME NEW t \in Sessions \ {s}
         PROVE  r.mine \cap req[t].mine = {}
    <2>1. q.mine \cap req[t].mine = {} BY <1>2 DEF Exclusive
    <2>2. from \cap req[t].mine = {} BY <1>2 DEF LockedLot
    <2> QED BY <1>3, <2>1, <2>2
  <1> QED BY <1>1, <1>2, <1>8, <1>9, <1>10, <1>11, <1>12, TurnStocked DEF Sound

(* The steps that change a lot.  What the others hold of it stays sound     *)
(* when they have not updated it and, where it has not raced, neither have  *)
(* a copy of it nor rely on it being used up.                               *)
LEMMA LotChanged ==
    ASSUME Typing, NEW t \in Sessions, NEW C, Hears(t, C), Sound(req[t]),
           raced \subseteq raced',
           \A k \in Lots : lots'[k].status = lots[k].status /\ lots'[k].item = lots[k].item,
           \A k \in Lots : lots'[k].onHand = lots[k].onHand \/
               /\ k \notin req[t].mine /\ lots[k].status # "NONE"
               /\ k \in raced' \/ ~(req[t].step = "loss" /\ req[t].lot = {k})
               /\ k \in raced' \/ ~(/\ req[t].step = "take"
                                    /\ \E l \in req[t].line : lots[k].item = {LineItem[l]})
               /\ k \in raced' \/ lots[k].onHand # 0 \/ lots'[k].onHand = 0
    PROVE  Sound(req[t])'
  <1> DEFINE q == req[t]
  <1>1. /\ req'[t].step = q.step /\ req'[t].has = q.has
        /\ req'[t].line = q.line /\ req'[t].mine = q.mine
        /\ req'[t].out = q.out /\ req'[t].seen = q.seen
        /\ req'[t].wrote = q.wrote /\ req'[t].lot = q.lot
    BY DEF Hears, Doc, Work
  <1>2. \A k \in Lots : lots'[k].status = lots[k].status /\ lots'[k].item = lots[k].item
    OBVIOUS
  <1>3. NoneBelow(q)'
    BY <1>1 DEF Sound, NoneBelow
  <1>4. Existing(q)'
    <2>1. q.mine \subseteq Lots BY DEF Typing, TypeOK, Requests
    <2>2. ASSUME NEW k \in q.mine
          PROVE  lots'[k].status = "AVAILABLE" /\ \E l \in q.has : lots'[k].item = {LineItem[l]}
      <3>1. lots'[k].status = lots[k].status /\ lots'[k].item = lots[k].item
        BY <1>2, <2>1, <2>2
      <3>2. lots[k].status = "AVAILABLE" /\ \E l \in q.has : lots[k].item = {LineItem[l]}
        BY <2>2 DEF Sound, Existing
      <3> QED BY <3>1, <3>2
    <2>3. ASSUME NEW k \in Lots
          PROVE  /\ q.step = "loss" /\ q.lot = {k} => lots'[k].status # "NONE"
                 /\ q.step = "take" /\ q.seen[k] > 0
                        => /\ lots'[k].status = "AVAILABLE"
                           /\ \E l \in q.line : lots'[k].item = {LineItem[l]}
      BY <1>2 DEF Sound, Existing
    <2> QED BY <1>1, <2>2, <2>3 DEF Existing
  <1>5. Current(q)'
    <2>1. ASSUME NEW k \in Lots \ raced', lots'[k].onHand = lots[k].onHand
          PROVE  Finds(q, k)' = Finds(q, k)
      BY <1>1, <2>1 DEF Finds
    <2>2. ASSUME NEW k \in Lots \ raced'
          PROVE  /\ q.step = "loss" /\ q.lot = {k} => q.seen[k] = lots'[k].onHand
                 /\ q.step = "take" /\ lots[k].status = "AVAILABLE"
                        /\ (\E l \in q.line : lots[k].item = {LineItem[l]})
                        => q.seen[k] = Finds(q, k)'
                 /\ k \in q.mine => q.wrote[k] = lots'[k].onHand - q.out[k]
      <3>1. CASE lots'[k].onHand = lots[k].onHand BY <2>1, <3>1 DEF Sound, Current
      <3>2. CASE lots'[k].onHand # lots[k].onHand BY <3>2
      <3> QED BY <3>1, <3>2
    <2> QED BY <1>1, <1>2, <2>2 DEF Current
  <1>6. UsedUp(q)'
    <2>1. ASSUME NEW k \in Lots, NEW j \in Before(k) \ raced', q.step \in {"pick", "take"},
                 q.out[k] > 0, lots[j].status = "AVAILABLE", lots[j].item = lots[k].item
          PROVE  Finds(q, j)' = 0
      <3>1. j \in Lots \ raced' /\ j \in Before(k) \ raced BY DEF Before
      <3>2. Finds(q, j) = 0 BY <2>1, <3>1 DEF Sound, UsedUp
      <3>3. CASE lots'[j].onHand = lots[j].onHand BY <1>1, <3>2, <3>3 DEF Finds
      <3>4. CASE lots'[j].onHand # lots[j].onHand
        <4>1. j \notin q.mine /\ (lots[j].onHand # 0 \/ lots'[j].onHand = 0)
          BY <3>1, <3>4
        <4> QED BY <1>1, <3>2, <4>1 DEF Finds
      <3> QED BY <3>3, <3>4
    <2>2. ASSUME NEW k \in Lots, NEW j \in Before(k) \ raced', req'[t].step \in {"pick", "take"},
                 req'[t].out[k] > 0, lots'[j].status = "AVAILABLE",
                 lots'[j].item = lots'[k].item
          PROVE  Finds(q, j)' = 0
      <3>1. j \in Lots BY DEF Before
      <3> QED BY <1>1, <1>2, <2>1, <2>2, <3>1
    <2> QED BY <2>2 DEF UsedUp, Before
  <1> QED BY <1>3, <1>4, <1>5, <1>6 DEF Sound

LEMMA NewLotSound ==
    ASSUME Typing, Stocked, NEW t \in Sessions, NEW C, Hears(t, C),
           NEW i \in Items, NEW n \in Lots, NEW amount \in Nat,
           NEW status \in {"AVAILABLE", "QUARANTINED"}, NewLot(i, n, amount, status)
    PROVE  Sound(req[t])'
  <1> DEFINE q == req[t]
  <1>1. /\ req'[t].step = q.step /\ req'[t].has = q.has
        /\ req'[t].line = q.line /\ req'[t].mine = q.mine
        /\ req'[t].out = q.out /\ req'[t].seen = q.seen
        /\ req'[t].wrote = q.wrote /\ req'[t].lot = q.lot
    BY DEF Hears, Doc, Work
  <1>2. Sound(q) /\ q \in Requests /\ ShapeOf(q)
    BY DEF Stocked, Typing, TypeOK, Shapes
  <1>3. /\ lots[n].status = "NONE" /\ lots'[n].item = {i}
        /\ lots'[n].status # "NONE"
        /\ \A k \in Lots \ {n} : lots'[k] = lots[k]
        /\ raced \subseteq raced'
        /\ (q.step \in {"pick", "take"} /\ \E l \in q.has : LineItem[l] = i) => n \in raced'
    BY DEF NewLot, Typing, TypeOK
  <1>4. /\ n \notin q.mine /\ ~(q.step = "loss" /\ q.lot = {n})
        /\ ~(q.step = "take" /\ q.seen[n] > 0)
    BY <1>2, <1>3 DEF Sound, Existing
  <1>5. NoneBelow(q)'
    BY <1>1, <1>2 DEF Sound, NoneBelow
  <1>6. Existing(q)'
    <2>1. q.mine \subseteq Lots \ {n} BY <1>2, <1>4 DEF Requests
    <2>2. ASSUME NEW k \in q.mine
          PROVE  lots'[k].status = "AVAILABLE" /\ \E l \in q.has : lots'[k].item = {LineItem[l]}
      <3>1. lots'[k] = lots[k] BY <1>3, <2>1
      <3> QED BY <1>2, <3>1 DEF Sound, Existing
    <2>3. ASSUME NEW k \in Lots
          PROVE  /\ q.step = "loss" /\ q.lot = {k} => lots'[k].status # "NONE"
                 /\ q.step = "take" /\ q.seen[k] > 0
                        => /\ lots'[k].status = "AVAILABLE"
                           /\ \E l \in q.line : lots'[k].item = {LineItem[l]}
      <3>1. CASE k = n BY <1>3, <1>4, <3>1
      <3>2. CASE k # n BY <1>2, <1>3, <3>2 DEF Sound, Existing
      <3> QED BY <3>1, <3>2
    <2> QED BY <1>1, <2>2, <2>3 DEF Existing
  <1>7. Current(q)'
    <2>1. ASSUME NEW k \in Lots \ raced'
          PROVE  /\ q.step = "loss" /\ q.lot = {k} => q.seen[k] = lots'[k].onHand
                 /\ q.step = "take" /\ lots'[k].status = "AVAILABLE"
                        /\ (\E l \in q.line : lots'[k].item = {LineItem[l]})
                        => q.seen[k] = Finds(q, k)'
                 /\ k \in q.mine => q.wrote[k] = lots'[k].onHand - q.out[k]
      <3>1. CASE k = n
        <4>1. ~(q.step = "take" /\ \E l \in q.line : lots'[k].item = {LineItem[l]})
          BY <1>2, <1>3, <2>1, <3>1 DEF ShapeOf, Free
        <4> QED BY <1>4, <3>1, <4>1
      <3>2. CASE k # n
        <4>1. lots'[k] = lots[k] /\ k \in Lots \ raced BY <1>3, <2>1, <3>2
        <4>2. Finds(q, k)' = Finds(q, k) BY <1>1, <4>1 DEF Finds
        <4> QED BY <1>2, <4>1, <4>2 DEF Sound, Current
      <3> QED BY <3>1, <3>2
    <2> QED BY <1>1, <2>1 DEF Current
  <1>8. UsedUp(q)'
    <2>1. ASSUME NEW k \in Lots, NEW j \in Before(k) \ raced', q.step \in {"pick", "take"},
                 q.out[k] > 0, lots'[j].status = "AVAILABLE",
                 lots'[j].item = lots'[k].item
          PROVE  Finds(q, j)' = 0
      <3>1. j \in Lots \ raced' BY DEF Before
      <3>2. k \in q.mine /\ k # n
        <4>1. k \in q.mine BY <1>2, <2>1 DEF Sound, NoneBelow
        <4> QED BY <1>4, <4>1
      <3>3. lots'[k] = lots[k] /\ \E l \in q.has : lots[k].item = {LineItem[l]}
        BY <1>2, <1>3, <3>2 DEF Sound, Existing
      <3>4. j # n
        BY <1>3, <2>1, <3>1, <3>3
      <3>5. lots'[j] = lots[j] /\ j \in Before(k) \ raced BY <1>3, <3>1, <3>4
      <3>6. Finds(q, j) = 0 BY <1>2, <2>1, <3>3, <3>5 DEF Sound, UsedUp
      <3> QED BY <1>1, <3>5, <3>6 DEF Finds
    <2> QED BY <1>1, <2>1 DEF UsedUp, Before
  <1> QED BY <1>5, <1>6, <1>7, <1>8 DEF Sound

LEMMA InflowStocked ==
    ASSUME Typing, Stocked, Inflow
    PROVE  Stocked'
  <1>1. PICK c \in Items : \A t \in Sessions : Hears(t, {c})
    BY InflowTyped
  <1>2. ASSUME NEW i \in Items, NEW n \in Lots, NEW amount \in MoveQty,
               NEW status \in {"AVAILABLE", "QUARANTINED"}, NewLot(i, n, amount, status)
        PROVE  Stocked'
    <2>1. amount \in Nat OBVIOUS
    <2>2. \A t \in Sessions : Sound(req[t])' BY <1>1, <1>2, <2>1, NewLotSound
    <2>3. Exclusive' BY <1>1 DEF Stocked, Exclusive, Hears, Work
    <2>4. LotNonNegative' /\ LotMatchesLedger'
      <3>1. /\ lots'[n].onHand = amount /\ lots'[n].posted = amount
            /\ \A k \in Lots \ {n} : lots'[k] = lots[k]
            /\ raced \subseteq raced'
        BY <1>2 DEF NewLot, Typing, TypeOK
      <3>2. LotNonNegative' BY <2>1, <3>1 DEF Stocked, LotNonNegative
      <3>3. LotMatchesLedger' BY <3>1 DEF Stocked, LotMatchesLedger
      <3> QED BY <3>2, <3>3
    <2> QED BY <2>2, <2>3, <2>4 DEF Stocked
  <1>3. ASSUME NEW i \in Items, NEW amount \in MoveQty,
               \E k \in Lots : CreateLot(i, k, amount) \/ ReceiveLot(i, k, amount)
        PROVE  Stocked'
    BY <1>2, <1>3 DEF CreateLot, ReceiveLot
  <1>4. ASSUME NEW i \in Items, NEW amount \in MoveQty,
               ReceiveLotless(i, amount) \/ LoseLotless(i, amount)
        PROVE  Stocked'
    BY <1>1, <1>4, HearStocked DEF ReceiveLotless, LoseLotless
  <1> QED BY <1>3, <1>4 DEF Inflow

LEMMA CommitLossStocked ==
    ASSUME Typing, Stocked, NEW s \in Sessions, NEW i \in Items, NEW n \in Lots,
           NEW amount \in MoveQty, CommitLoss(s, i, n, amount)
    PROVE  Stocked'
  <1> DEFINE q == req[s]
  <1>1. Turns(s, Idle, {i}) BY CommitLossTyped
  <1>2. /\ q.step = "loss" /\ q.lot = {n} /\ amount <= q.seen[n] /\ ~LockedLot(s, n)
        /\ Sound(q) /\ amount \in Nat /\ amount > 0 /\ q.seen[n] \in Int
    BY DEF CommitLoss, Stocked, Typing, TypeOK, Requests
  <1>3. /\ lots'[n].onHand = q.seen[n] - amount /\ lots'[n].posted = lots[n].posted - amount
        /\ lots'[n].status = lots[n].status /\ lots'[n].item = lots[n].item
        /\ \A k \in Lots \ {n} : lots'[k] = lots[k]
        /\ lots[n].posted \in Int /\ lots[n].onHand \in Int
    BY DEF CommitLoss, Typing, TypeOK
  <1>4. raced \subseteq raced' /\ (Copied(s, n) => n \in raced')
    BY DEF CommitLoss
  <1>5. lots[n].status # "NONE" /\ (n \notin raced => q.seen[n] = lots[n].onHand)
    BY <1>2 DEF Sound, Existing, Current
  <1>6. ASSUME NEW t \in Sessions \ {s}
        PROVE  Sound(req[t])'
    <2>1. Hears(t, {i}) /\ Sound(req[t]) BY <1>1 DEF Turns, Stocked
    <2>2. n \notin req[t].mine BY <1>2 DEF LockedLot
    <2>3. n \in raced' \/ ~(req[t].step = "loss" /\ req[t].lot = {n})
      BY <1>4 DEF Copied
    <2>4. n \in raced' \/ ~(/\ req[t].step = "take"
                            /\ \E l \in req[t].line : lots[n].item = {LineItem[l]})
      BY <1>4 DEF Copied
    <2>5. n \in raced' \/ lots[n].onHand # 0
      BY <1>2, <1>4, <1>5
    <2> QED BY <1>3, <1>4, <1>5, <2>1, <2>2, <2>3, <2>4, <2>5, LotChanged
  <1>7. Sound(req[s])'
    <2>1. Sound(Idle)' BY IdleSound, PTL
    <2> QED BY <1>1, <2>1 DEF Turns
  <1>8. Exclusive'
    <2>1. req'[s].mine = {} /\ \A t \in Sessions \ {s} : req'[t].mine = req[t].mine
      BY <1>1, IdleTyped DEF Turns, Hears, Work
    <2> QED BY <2>1 DEF Stocked, Exclusive
  <1>9. LotNonNegative'
    BY <1>2, <1>3 DEF Stocked, LotNonNegative
  <1>10. LotMatchesLedger'
    BY <1>3, <1>4, <1>5 DEF Stocked, LotMatchesLedger
  <1> QED BY <1>6, <1>7, <1>8, <1>9, <1>10 DEF Stocked

LEMMA CommitReleaseStocked ==
    ASSUME Typing, Tied, Stocked, NEW s \in Sessions, NEW o \in Orders, CommitRelease(s, o)
    PROVE  Stocked'
  <1> DEFINE q == req[s]
  <1>1. Turns(s, Idle, Posts(s)) BY CommitReleaseTyped
  <1>2. Sound(q) /\ q \in Requests /\ q.mine \subseteq Lots /\ Exclusive
    BY DEF Stocked, Typing, TypeOK, Requests
  <1>3. ASSUME NEW k \in Lots
        PROVE  /\ lots'[k].onHand = Finds(q, k)
               /\ k \notin raced => lots'[k].posted = lots[k].posted - q.out[k]
               /\ k \notin q.mine => q.out[k] = 0
               /\ lots'[k].status = lots[k].status /\ lots'[k].item = lots[k].item
               /\ q.out[k] >= 0 /\ q.wrote[k] >= 0
               /\ q.out[k] \in Int /\ q.wrote[k] \in Int
               /\ lots[k].posted \in Int /\ lots[k].onHand \in Int
    <2>1. lots[k] \in [status: {"NONE", "AVAILABLE", "QUARANTINED"},
                       item: SUBSET Items, onHand: Int, posted: Int]
      BY DEF Typing, TypeOK
    <2>2. /\ lots'[k].onHand = Finds(q, k)
          /\ lots'[k].status = lots[k].status /\ lots'[k].item = lots[k].item
          /\ lots'[k].posted = lots[k].posted - q.out[k] - Untaken(q, k)
      BY CommitEffect DEF Typing, OnHand, Finds
    <2>4. k \notin raced => Untaken(q, k) = 0
      BY UntakenNone
    <2>5. k \notin q.mine => q.out[k] = 0 BY <1>2 DEF Sound, NoneBelow
    <2>3. q.out[k] >= 0 /\ q.wrote[k] >= 0 /\ q.out[k] \in Int /\ q.wrote[k] \in Int
      BY <1>2 DEF Sound, NoneBelow, Requests
    <2> QED BY <2>1, <2>2, <2>3, <2>4, <2>5
  <1>4. /\ raced \subseteq raced'
        /\ \A k \in q.mine : Copied(s, k) => k \in raced'
    BY DEF CommitRelease
  <1>5. ASSUME NEW k \in q.mine
        PROVE  /\ lots[k].status # "NONE"
               /\ k \notin raced => q.wrote[k] = lots[k].onHand - q.out[k]
    BY <1>2 DEF Sound, Existing, Current
  <1>6. ASSUME NEW t \in Sessions \ {s}
        PROVE  Sound(req[t])'
    <2>1. Hears(t, Posts(s)) /\ Sound(req[t]) BY <1>1 DEF Turns, Stocked
    <2>2. ASSUME NEW k \in q.mine
          PROVE  /\ k \notin req[t].mine /\ lots[k].status # "NONE"
                 /\ lots'[k].status = lots[k].status /\ lots'[k].item = lots[k].item
                 /\ k \in raced' \/ ~(req[t].step = "loss" /\ req[t].lot = {k})
                 /\ k \in raced' \/ ~(/\ req[t].step = "take"
                                      /\ \E l \in req[t].line : lots[k].item = {LineItem[l]})
                 /\ k \in raced' \/ lots[k].onHand # 0 \/ lots'[k].onHand = 0
      <3>1. k \in Lots /\ k \notin req[t].mine BY <1>2 DEF Exclusive
      <3>2. k \in raced' \/ ~Copied(s, k) BY <1>4
      <3>3. k \in raced' \/ lots[k].onHand # 0 \/ lots'[k].onHand = 0
        BY <1>3, <1>4, <1>5, <3>1 DEF Finds
      <3> QED BY <1>3, <1>5, <3>1, <3>2, <3>3 DEF Copied
    <2>3. \A k \in Lots : lots'[k].onHand = lots[k].onHand \/ k \in q.mine
      BY <1>3 DEF Finds
    <2>4. \A k \in Lots : lots'[k].status = lots[k].status /\ lots'[k].item = lots[k].item
      BY <1>3
    <2> QED BY <1>4, <2>1, <2>2, <2>3, <2>4, LotChanged
  <1>7. Sound(req[s])'
    <2>1. Sound(Idle)' BY IdleSound, PTL
    <2> QED BY <1>1, <2>1 DEF Turns
  <1>8. Exclusive'
    <2>1. req'[s].mine = {} /\ \A t \in Sessions \ {s} : req'[t].mine = req[t].mine
      BY <1>1, IdleTyped DEF Turns, Hears, Work
    <2> QED BY <1>2, <2>1 DEF Exclusive
  <1>9. LotNonNegative'
    BY <1>3 DEF Stocked, LotNonNegative, Finds
  <1>10. LotMatchesLedger'
    <2>1. ASSUME NEW k \in Lots \ raced'
          PROVE  lots'[k].onHand = lots'[k].posted
      <3>1. lots[k].onHand = lots[k].posted BY <1>4 DEF Stocked, LotMatchesLedger
      <3>2. CASE k \in q.mine BY <1>3, <1>4, <1>5, <3>1, <3>2 DEF Finds
      <3>3. CASE k \notin q.mine BY <1>3, <1>4, <3>1, <3>3 DEF Finds
      <3> QED BY <3>2, <3>3
    <2> QED BY <2>1 DEF LotMatchesLedger
  <1> QED BY <1>6, <1>7, <1>8, <1>9, <1>10 DEF Stocked

LEMMA StockedInit ==
    Init => Stocked
  <1> SUFFICES ASSUME Init PROVE Stocked OBVIOUS
  <1>1. \A s \in Sessions : req[s] = Idle BY DEF Init
  <1>2. \A s \in Sessions : Sound(req[s]) BY <1>1, IdleSound
  <1>3. Exclusive BY <1>1, IdleTyped DEF Exclusive, Work
  <1>4. LotNonNegative /\ LotMatchesLedger
    BY DEF Init, LotNonNegative, LotMatchesLedger
  <1> QED BY <1>2, <1>3, <1>4 DEF Stocked

LEMMA StockedNext ==
    Typing /\ Tied /\ Stocked /\ [Next]_vars => Stocked'
  <1> SUFFICES ASSUME Typing, Tied, Stocked, [Next]_vars PROVE Stocked' OBVIOUS
  <1>1. ReqTyped /\ \A t \in Sessions : UNCHANGED req => Hears(t, {})
    BY DEF ReqTyped, Typing, TypeOK, Hears, Doc, Work
  <1>2. CASE UNCHANGED vars
    BY <1>1, <1>2, HearStocked DEF vars
  <1>3. ASSUME NEW o \in Orders, CreateOrder(o)
        PROVE  Stocked'
    BY <1>1, <1>3, HearStocked DEF CreateOrder
  <1>4. ASSUME NEW s \in Sessions, NEW o \in Orders, LineWritten(s, o)
        PROVE  Stocked'
    <2>1. UNCHANGED <<lots, raced>>
      BY <1>4 DEF LineWritten, AddLine, UpdateLine, RemoveLine, WriteLine
    <2> QED BY <1>4, <2>1, LineWrittenTyped, EndStocked
  <1>5. ASSUME NEW s \in Sessions, Rollback(s)
        PROVE  Stocked'
    <2>1. UNCHANGED <<lots, raced>> /\ req' = [req EXCEPT ![s] = Idle]
      BY <1>5 DEF Rollback
    <2> QED BY <1>1, <2>1, RollbackTurns, EndStocked
  <1>6. CASE Next
    BY <1>3, <1>4, <1>5, <1>6, Steps, InflowStocked, BeginStocked, BeginLossStocked,
       CommitLossStocked, ReadLinesStocked, CheckBalanceStocked, PickLotsStocked, TakeLotsStocked,
       CommitReleaseStocked
  <1> QED BY <1>2, <1>6

LEMMA StockedAlways == Spec => [](Typing /\ Stocked)
  BY TypingInit, TypingNext, TiedInit, TiedNext, StockedInit, StockedNext, PTL DEF Spec

(* No lot is taken below zero, whatever the releases and the losses that    *)
(* race for it.                                                             *)
THEOREM LotsNeverNegative == Spec => []LotNonNegative
  <1>1. Stocked => LotNonNegative BY DEF Stocked
  <1> QED BY <1>1, StockedAlways, PTL

(* A lot holds what its ledger entries sum to, unless it changed while a    *)
(* request held a copy of it, or was written on a line that a release begun *)
(* before was still to read.                                                *)
THEOREM LotsMatchLedger == Spec => []LotMatchesLedger
  <1>1. Stocked => LotMatchesLedger BY DEF Stocked
  <1> QED BY <1>1, StockedAlways, PTL

(* The step that Releases describes.                                        *)
LEMMA OnlyCommitReleases ==
    ASSUME Typing, [Next]_vars, NEW s \in Sessions, NEW o \in Orders, Releases(s, o)
    PROVE  CommitRelease(s, o)
  <1>1. /\ so' # so /\ req[s].step = "pick" /\ req'[s].step = "idle"
        /\ req[s].order = {o}
    BY DEF Releases
  <1>2. ~UNCHANGED so BY <1>1
  <1>3. Next BY <1>2 DEF vars
  <1>4. ~Inflow
    BY <1>2 DEF Inflow, CreateLot, ReceiveLot, ReceiveLotless, LoseLotless
  <1>5. ASSUME NEW p \in Orders, CreateOrder(p)
        PROVE  FALSE
    BY <1>1, <1>5 DEF CreateOrder
  <1>6. ASSUME NEW t \in Sessions, NEW p \in Orders, LineWritten(t, p)
        PROVE  FALSE
    <2>1. req[t].step = "edit" /\ Turns(t, Idle, {})
      BY <1>6, LineWrittenTyped DEF LineWritten, AddLine, UpdateLine, RemoveLine
    <2>2. s # t BY <1>1, <2>1
    <2>3. req'[s].step = req[s].step BY <2>1, <2>2 DEF Turns, Hears, Doc
    <2> QED BY <1>1, <2>3
  <1>7. ASSUME NEW t \in Sessions, NEW p \in Orders, CommitRelease(t, p)
        PROVE  CommitRelease(s, o)
    <2>1. Turns(t, Idle, Posts(t)) BY <1>7, CommitReleaseTyped
    <2>2. s = t
      <3>1. SUFFICES ASSUME s # t PROVE FALSE OBVIOUS
      <3>2. req'[s].step = req[s].step BY <2>1, <3>1 DEF Turns, Hears, Doc
      <3> QED BY <1>1, <3>2
    <2>3. req[t].order = {p} BY <1>7 DEF CommitRelease
    <2>4. p = o BY <1>1, <2>2, <2>3
    <2> QED BY <1>7, <2>2, <2>4
  <1>8. ASSUME NEW t \in Sessions,
               \/ \E k \in Lots : BeginLoss(t, k)
               \/ \E p \in Orders : BeginEdit(t, p) \/ BeginRelease(t, p)
               \/ \E i \in Items, k \in Lots, n \in MoveQty : CommitLoss(t, i, k, n)
               \/ \E p \in Orders : ReadLines(t, p)
               \/ CheckBalance(t)
               \/ \E l \in LineIds : PickLots(t, l) \/ TakeLots(t, l)
               \/ Rollback(t)
        PROVE  FALSE
    BY <1>2, <1>8 DEF BeginLoss, BeginEdit, BeginRelease, Begin, CommitLoss, ReadLines,
                      CheckBalance, PickLots, TakeLots, Rollback
  <1> QED BY <1>3, <1>4, <1>5, <1>6, <1>7, <1>8, Steps

(* A release takes from a lot only after the lots of its item that expire   *)
(* earlier are used up, across all its lines, unless those have raced.      *)
THEOREM FirstExpiredFirst == Spec => FefoFollowed
  <1>1. ASSUME Typing, Stocked, [Next]_vars, NEW s \in Sessions, NEW o \in Orders,
               Releases(s, o), NEW k \in Lots \ raced', NEW j \in Before(k) \ raced',
               req[s].out[k] > 0, lots[j].status = "AVAILABLE", lots[j].item = lots[k].item
        PROVE  lots'[j].onHand = 0
    <2>1. CommitRelease(s, o) BY <1>1, OnlyCommitReleases
    <2>2. j \in Lots /\ j \notin raced /\ req[s].step = "pick"
      BY <1>1, <2>1 DEF Before, CommitRelease
    <2>3. Finds(req[s], j) = 0 BY <1>1, <2>2 DEF Stocked, Sound, UsedUp
    <2>4. lots'[j].onHand = Finds(req[s], j)
      <3>1. lots'[j].onHand = OnHand(s, j)
        BY <1>1, <2>1, <2>2, CommitEffect DEF Typing
      <3> QED BY <3>1 DEF OnHand, Finds
    <2> QED BY <2>3, <2>4
  <1>2. Typing /\ Stocked /\ [Next]_vars =>
            [\A s \in Sessions : \A o \in Orders : Releases(s, o) =>
                \A k \in Lots \ raced' : \A j \in Before(k) \ raced' :
                    (/\ req[s].out[k] > 0
                     /\ lots[j].status = "AVAILABLE" /\ lots[j].item = lots[k].item)
                    => lots'[j].onHand = 0]_vars
    BY <1>1
  <1> QED BY <1>2, StockedAlways, PTL DEF Spec, FefoFollowed

-----------------------------------------------------------------------------
(* What a release takes and posts.                                          *)

DoneOf(q) == Free(q) \ q.left

(* Of request q, which is picking or taking: what it has taken of each item *)
(* is what the lines it has picked for ask for; the lines it checked are    *)
(* still covered where the ledger has not changed.                          *)
Bills(q) ==
    /\ \A i \in Items : SumOver(q.out, {k \in q.mine : lots[k].item = {i}})
                            = Demand(DoneOf(q), q.lines, i)
    /\ \A l \in q.has : LineItem[l] \in q.stale \/ Balance(LineItem[l]) >= q.lines[l]

Billed == \A s \in Sessions : Picking(s) => Bills(req[s])

(* A request that does not move still bills what it did, when the lots it   *)
(* has updated keep their items and it hears of the ledgers that change.    *)
LEMMA HearBills ==
    ASSUME Typing, NEW t \in Sessions, NEW C, Hears(t, C), Picking(t) => Bills(req[t]),
           \A k \in req[t].mine : lots'[k].item = lots[k].item,
           \A i \in Items \ C : ledger'[i] = ledger[i]
    PROVE  (Picking(t) => Bills(req[t]))'
  <1> DEFINE q == req[t]
  <1>1. /\ req'[t].step = q.step /\ req'[t].has = q.has /\ req'[t].lines = q.lines
        /\ req'[t].fefo = q.fefo /\ req'[t].left = q.left /\ req'[t].mine = q.mine
        /\ req'[t].out = q.out /\ req'[t].bound = q.bound
        /\ Picking(t) => req'[t].stale = q.stale \cup C
    BY DEF Hears, Doc, Work
  <1>2. SUFFICES ASSUME Picking(t)' PROVE Bills(q)'
    OBVIOUS
  <1>3. Picking(t) /\ Bills(q)
    BY <1>1, <1>2 DEF Picking
  <1>4. \A i : {k \in req'[t].mine : lots'[k].item = {i}} = {k \in q.mine : lots[k].item = {i}}
    BY <1>1
  <1>8. DoneOf(req'[t]) = DoneOf(q) BY <1>1 DEF DoneOf, Free
  <1>5. \A i \in Items : SumOver(req'[t].out, {k \in req'[t].mine : lots'[k].item = {i}})
                             = Demand(DoneOf(req'[t]), req'[t].lines, i)
    BY <1>1, <1>3, <1>4, <1>8 DEF Bills
  <1>6. \A l \in q.has : LineItem[l] \in req'[t].stale \/ Balance(LineItem[l])' >= q.lines[l]
    <2>1. ASSUME NEW l \in q.has
          PROVE  LineItem[l] \in req'[t].stale \/ Balance(LineItem[l])' >= q.lines[l]
      <3>1. LineItem[l] \in Items
        BY <2>1 DEF Typing, TypeOK, Requests
      <3>2. CASE LineItem[l] \in C BY <1>1, <1>3, <3>2
      <3>3. CASE LineItem[l] \notin C
        <4>1. Balance(LineItem[l])' = Balance(LineItem[l]) BY <3>1, <3>3 DEF Balance
        <4> QED BY <1>1, <1>3, <4>1 DEF Bills
      <3> QED BY <3>2, <3>3
    <2> QED BY <2>1
  <1> QED BY <1>1, <1>5, <1>6 DEF Bills

LEMMA TurnBilled ==
    ASSUME Typing, Billed, NEW s \in Sessions, NEW r, NEW C, Turns(s, r, C),
           r.step \in {"pick", "take"} => Bills(r)',
           \A t \in Sessions \ {s} : \A k \in req[t].mine : lots'[k].item = lots[k].item,
           \A i \in Items \ C : ledger'[i] = ledger[i]
    PROVE  Billed'
  <1>1. ASSUME NEW t \in Sessions \ {s}
        PROVE  (Picking(t) => Bills(req[t]))'
    BY HearBills DEF Billed, Turns
  <1>2. (Picking(s) => Bills(req[s]))'
    BY DEF Turns, Picking
  <1> QED BY <1>1, <1>2 DEF Billed

LEMMA EndBilled ==
    ASSUME Typing, Billed, NEW s \in Sessions, NEW C, Turns(s, Idle, C),
           \A t \in Sessions \ {s} : \A k \in req[t].mine : lots'[k].item = lots[k].item,
           \A i \in Items \ C : ledger'[i] = ledger[i]
    PROVE  Billed'
  <1>1. Idle.step = "idle" BY IdleTyped DEF Doc
  <1> QED BY <1>1, TurnBilled

LEMMA HearBilled ==
    ASSUME Typing, Billed, NEW C, \A t \in Sessions : Hears(t, C),
           \A t \in Sessions : \A k \in req[t].mine : lots'[k].item = lots[k].item,
           \A i \in Items \ C : ledger'[i] = ledger[i]
    PROVE  Billed'
  <1>1. ASSUME NEW t \in Sessions
        PROVE  (Picking(t) => Bills(req[t]))'
    BY HearBills DEF Billed
  <1> QED BY <1>1 DEF Billed

LEMMA BeginBilled ==
    ASSUME Typing, Billed, NEW s \in Sessions,
           \/ \E k \in Lots : BeginLoss(s, k)
           \/ \E o \in Orders : BeginEdit(s, o) \/ BeginRelease(s, o)
    PROVE  Billed'
  <1>1. UNCHANGED <<lots, ledger>> /\ TypeOK
    BY DEF BeginLoss, BeginEdit, BeginRelease, Begin, Typing
  <1>2. ASSUME NEW k \in Lots, BeginLoss(s, k)
        PROVE  \E r : Turns(s, r, {}) /\ r.step \notin {"pick", "take"}
    <2>1. PICK r \in Requests :
              /\ Turns(s, r, {})
              /\ Doc(r, "loss", {}, {}, NoLines, FALSE, NoBounds)
              /\ Work(r, {}, {}, [NoStock EXCEPT ![k] = lots[k].onHand], {}, NoStock, NoStock)
              /\ r.lot = {k}
      BY <1>1, <1>2, BeginLossTurns
    <2> QED BY <2>1 DEF Doc
  <1>3. ASSUME NEW o \in Orders, BeginEdit(s, o)
        PROVE  \E r : Turns(s, r, {}) /\ r.step \notin {"pick", "take"}
    <2>1. PICK r \in Requests : /\ Turns(s, r, {})
                                /\ Doc(r, "edit", {o}, so[o].has, NoLines, FALSE, NoBounds)
                                /\ Work(r, {}, {}, NoStock, {}, NoStock, NoStock)
      BY <1>1, <1>3, BeginEditTurns
    <2> QED BY <2>1 DEF Doc
  <1>4. ASSUME NEW o \in Orders, BeginRelease(s, o)
        PROVE  \E r : Turns(s, r, {}) /\ r.step \notin {"pick", "take"}
    <2>1. PICK r \in Requests, fefo \in BOOLEAN :
              /\ Turns(s, r, {})
              /\ Doc(r, "order", {o}, {}, NoLines, fefo, NoBounds)
              /\ Work(r, {}, {}, NoStock, {}, NoStock, NoStock)
      BY <1>1, <1>4, BeginReleaseTurns
    <2> QED BY <2>1 DEF Doc
  <1>5. PICK r : Turns(s, r, {}) /\ r.step \notin {"pick", "take"}
    BY <1>2, <1>3, <1>4
  <1> QED BY <1>1, <1>5, TurnBilled

LEMMA ReadLinesBilled ==
    ASSUME Typing, Billed, NEW s \in Sessions, NEW o \in Orders, ReadLines(s, o)
    PROVE  Billed'
  <1> DEFINE q == req[s]
  <1>1. PICK r \in Requests :
            /\ Turns(s, r, {})
            /\ Doc(r, "check", q.order, so[o].has, so[o].lines, q.fefo, so[o].lot)
            /\ Work(r, q.left, q.line, q.seen, q.mine, q.wrote, q.out)
            /\ r.stale = q.stale
    BY ReadLinesTurns DEF Typing
  <1>2. UNCHANGED <<lots, ledger>> BY DEF ReadLines
  <1>3. r.step \notin {"pick", "take"} BY <1>1 DEF Doc
  <1> QED BY <1>1, <1>2, <1>3, TurnBilled

LEMMA CheckBalanceBilled ==
    ASSUME Typing, Billed, NEW s \in Sessions, CheckBalance(s)
    PROVE  Billed'
  <1> DEFINE q == req[s]
  <1>1. PICK r \in Requests :
            /\ Turns(s, r, {})
            /\ Doc(r, "pick", q.order, q.has, q.lines, q.fefo, q.bound)
            /\ Work(r, Free(q), q.line, q.seen, q.mine, q.wrote, q.out)
            /\ r.stale = q.stale
    BY CheckBalanceTurns DEF Typing
  <1>2. UNCHANGED <<lots, ledger>> /\ q.mine = {}
    BY DEF CheckBalance, Typing, Shapes, ShapeOf
  <1>3. r.mine = {} /\ DoneOf(r) = {}
    <2>1. r.left = Free(q) /\ Free(r) = Free(q) BY <1>1 DEF Doc, Work, Free
    <2> QED BY <1>1, <1>2, <2>1 DEF Work, DoneOf
  <1>4. ASSUME NEW f, NEW i
        PROVE  SumOver(f, {}) = 0 /\ Demand({}, f, i) = 0
    <2>1. SumOver(f, {}) = 0 BY SumStep, FS_EmptySet
    <2>2. LinesFor({}, i) = {} BY DEF LinesFor
    <2> QED BY <2>1, <2>2 DEF Demand
  <1>5. ASSUME NEW i \in Items
        PROVE  SumOver(r.out, {k \in r.mine : lots'[k].item = {i}}) = Demand(DoneOf(r), r.lines, i)
    <2>1. {k \in r.mine : lots'[k].item = {i}} = {} BY <1>3
    <2> QED BY <1>3, <1>4, <2>1
  <1>6. \A l \in r.has : Balance(LineItem[l])' >= r.lines[l]
    BY <1>1, <1>2 DEF CheckBalance, Balance, Doc
  <1>7. Bills(r)'
    BY <1>3, <1>5, <1>6 DEF Bills
  <1> QED BY <1>1, <1>2, <1>7, TurnBilled

LEMMA PickLotsBilled ==
    ASSUME Typing, Billed, NEW s \in Sessions, NEW l \in LineIds, PickLots(s, l)
    PROVE  Billed'
  <1> DEFINE q == req[s]
  <1>1. PICK r \in Requests :
            /\ Turns(s, r, {})
            /\ Doc(r, "take", q.order, q.has, q.lines, q.fefo, q.bound)
            /\ Work(r, q.left, {l}, [k \in Lots |-> IF k \in Pickable(s, l)
                                                   THEN OnHand(s, k) ELSE 0],
                    q.mine, q.wrote, q.out)
            /\ r.stale = q.stale
    BY PickLotsTurns DEF Typing
  <1>2. UNCHANGED <<lots, ledger>> /\ Picking(s)
    BY DEF PickLots, Picking
  <1>3. Bills(q)'
    <2>1. Bills(q) BY <1>2 DEF Billed
    <2>2. /\ r.fefo = q.fefo /\ r.has = q.has /\ r.left = q.left /\ r.lines = q.lines
          /\ r.bound = q.bound
          /\ r.mine = q.mine /\ r.out = q.out /\ r.stale = q.stale /\ req'[s] = r
      BY <1>1 DEF Doc, Work, Turns
    <2>3. \A i : /\ Balance(i)' = Balance(i)
                 /\ {k \in q.mine : lots'[k].item = {i}} = {k \in q.mine : lots[k].item = {i}}
      BY <1>2 DEF Balance
    <2>4. ASSUME NEW i \in Items
          PROVE  SumOver(r.out, {k \in r.mine : lots'[k].item = {i}})
                     = Demand(DoneOf(r), r.lines, i)
      <3>1. SumOver(q.out, {k \in q.mine : lots[k].item = {i}}) = Demand(DoneOf(q), q.lines, i)
        BY <2>1 DEF Bills
      <3>2. {k \in r.mine : lots'[k].item = {i}} = {k \in q.mine : lots[k].item = {i}}
        BY <2>2, <2>3
      <3>3. DoneOf(r) = DoneOf(q) BY <2>2 DEF DoneOf, Free
      <3> QED BY <2>2, <3>1, <3>2, <3>3
    <2>5. \A m \in r.has : LineItem[m] \in r.stale \/ Balance(LineItem[m])' >= r.lines[m]
      BY <2>1, <2>2, <2>3 DEF Bills
    <2> QED BY <2>2, <2>4, <2>5 DEF Bills
  <1>4. Bills(r)'
    BY <1>1, <1>3 DEF Turns
  <1> QED BY <1>1, <1>2, <1>4, TurnBilled

(* A lot of its item counts in for what is taken from it, and so does the   *)
(* line it is taken for.                                                    *)
LEMMA TakeLotsBilled ==
    ASSUME Typing, Stocked, Billed, NEW s \in Sessions, NEW l \in LineIds, TakeLots(s, l)
    PROVE  Billed'
  <1> DEFINE q == req[s]
             take == TakenFor(s, l)
             from == FromLots(s, l)
             out == OutFor(s, l)
             of(M, i) == {k \in M : lots[k].item = {i}}
  <1>1. PICK r \in Requests :
            /\ Turns(s, r, {})
            /\ Doc(r, "pick", q.order, q.has, q.lines, q.fefo, q.bound)
            /\ Work(r, q.left \ {l}, {}, NoStock, q.mine \cup from, WroteFor(s, l), out)
            /\ r.stale = q.stale
    BY TakeLotsTurns DEF Typing
  <1>2. /\ UNCHANGED <<lots, ledger>> /\ Bills(q) /\ Sound(q) /\ q \in Requests
        /\ q.step = "take" /\ q.line = {l} /\ l \in q.left /\ q.left \subseteq Free(q)
        /\ Free(q) \subseteq q.has
        /\ q.mine \subseteq Lots /\ from \subseteq Lots /\ q.has \subseteq LineIds
    <2>1. q.step = "take" /\ q.line = {l} BY DEF TakeLots
    <2>2. l \in q.left /\ q.left \subseteq Free(q) /\ Free(q) \subseteq q.has
      <3>1. ShapeOf(q) BY DEF Typing, Shapes
      <3> QED BY <2>1, <3>1 DEF ShapeOf, Free
    <2>3. Picking(s) BY <2>1 DEF Picking
    <2> QED BY <2>1, <2>2, <2>3
            DEF TakeLots, Billed, Stocked, Typing, TypeOK, FromLots, Requests
  <1>4. SumOver(take, Lots) = q.lines[l] BY DEF TakeLots, TakenFor
  <1>5. /\ q.out \in [Lots -> Int] /\ take \in [Lots -> Int] /\ out \in [Lots -> Int]
        /\ \A k \in Lots : out[k] = q.out[k] + take[k]
        /\ \A m \in LineIds : q.lines[m] \in Int
    <2>1. \A m \in LineIds : q.lines[m] \in Int BY TakenForTyped DEF Typing
    <2> QED BY <1>2, <2>1, TakenForTyped DEF Typing, OutFor, Requests
  <1>6. /\ \A k \in Lots : take[k] # 0 => k \in from /\ lots[k].item = {LineItem[l]}
        /\ \A k \in Lots \ q.mine : q.out[k] = 0
        /\ \A k \in Lots : k \in from <=> take[k] > 0
    <2>1. q.seen \in [Lots -> Int] /\ \A k \in Lots : q.seen[k] >= 0
      BY <1>2 DEF Sound, NoneBelow, Requests
    <2>2. ASSUME NEW k \in Lots
          PROVE  take[k] >= 0 /\ take[k] <= q.seen[k]
      BY <1>2, <1>5, <2>1, TakenFirst DEF TakenFor
    <2>3. ASSUME NEW k \in Lots, take[k] # 0
          PROVE  k \in from /\ lots[k].item = {LineItem[l]}
      <3>1. take[k] \in Int /\ q.seen[k] \in Int BY <1>5, <2>1
      <3>2. take[k] > 0 /\ q.seen[k] > 0 BY <2>2, <2>3, <3>1
      <3> QED BY <1>2, <3>2 DEF FromLots, Sound, Existing
    <2> QED BY <1>2, <2>3 DEF FromLots, Sound, NoneBelow
  <1> HIDE DEF take, from, out
  <1>7. ASSUME NEW i \in Items
        PROVE  SumOver(out, of(q.mine \cup from, i)) = Demand(Free(q) \ (q.left \ {l}), q.lines, i)
    <2> DEFINE S == of(q.mine \cup from, i)
               R == of(q.mine, i)
               done == LinesFor(DoneOf(q), i)
               all == LinesFor(Free(q) \ (q.left \ {l}), i)
    <2>1. /\ S \subseteq Lots /\ R \subseteq S /\ IsFiniteSet(S) /\ IsFiniteSet(R)
          /\ done \subseteq LineIds /\ all \subseteq LineIds
          /\ IsFiniteSet(done) /\ IsFiniteSet(all)
      <3>1. S \subseteq Lots /\ R \subseteq S BY <1>2
      <3>2. done \subseteq LineIds /\ all \subseteq LineIds BY <1>2 DEF LinesFor, DoneOf
      <3> QED BY <3>1, <3>2, LotsFinite, LinesFinite
    <2>2. SumOver(q.out, R) = SumOver(q.lines, done)
      BY <1>2 DEF Bills, Demand
    <2>3. SumOver(out, S) = SumOver(q.out, S) + SumOver(take, S)
      <3>1. \A x \in S : q.out[x] \in Int /\ take[x] \in Int /\ out[x] = q.out[x] + take[x]
        BY <1>5, <2>1
      <3>2. IsFiniteSet(S) BY <2>1
      <3> HIDE DEF S, q
      <3> QED BY <3>1, <3>2, SumAdd
    <2>4. SumOver(q.out, S) = SumOver(q.out, R)
      <3>1. \A x \in S : q.out[x] \in Int BY <1>5, <2>1
      <3>2. \A x \in S \ R : q.out[x] = 0 BY <1>6, <2>1
      <3>3. R \in SUBSET S BY <2>1
      <3> HIDE DEF S, R
      <3> QED BY <2>1, <3>1, <3>2, <3>3, SumWithin
    <2>5. SumOver(q.out, R) \in Int
      <3>1. \A x \in R : q.out[x] \in Int BY <1>5, <2>1
      <3> HIDE DEF R
      <3> QED BY <2>1, <3>1, SumType
    <2>6. CASE LineItem[l] = i
      <3>1. SumOver(take, S) = q.lines[l]
        <4>1. \A x \in Lots \ S : take[x] = 0 BY <1>6, <2>6
        <4>2. S \in SUBSET Lots /\ \A x \in Lots : take[x] \in Int BY <1>5, <2>1
        <4> HIDE DEF S
        <4>3. SumOver(take, Lots) = SumOver(take, S) BY <4>1, <4>2, SumWithin
        <4> QED BY <1>4, <4>3
      <3>2. l \in all /\ all \ {l} = done
        BY <1>2, <2>6 DEF LinesFor, DoneOf
      <3>3. SumOver(q.lines, all) = q.lines[l] + SumOver(q.lines, done)
        <4>1. \A x \in all : q.lines[x] \in Int BY <1>5, <2>1
        <4> HIDE DEF all, done
        <4>2. SumOver(q.lines, all) = q.lines[l] + SumOver(q.lines, all \ {l})
          BY <2>1, <3>2, <4>1, SumAny
        <4> QED BY <3>2, <4>2
      <3>4. q.lines[l] \in Int BY <1>5
      <3> HIDE DEF S, R, done, all
      <3>5. SumOver(out, S) = SumOver(q.lines, all)
        BY <2>2, <2>3, <2>4, <2>5, <3>1, <3>3, <3>4
      <3> QED BY <3>5 DEF S, all, Demand
    <2>7. CASE LineItem[l] # i
      <3>1. SumOver(take, S) = 0
        <4>1. \A x \in S : take[x] = 0 BY <1>6, <2>1, <2>7
        <4> HIDE DEF S
        <4>2. SumOver(take, S) = SumOver(take, {})
          <5>1. {} \in SUBSET S /\ \A x \in S \ {} : take[x] = 0 BY <4>1
          <5>2. \A x \in S : take[x] \in Int BY <4>1
          <5> QED BY <2>1, <5>1, <5>2, SumWithin
        <4>3. SumOver(take, {}) = 0 BY SumStep, FS_EmptySet
        <4> QED BY <4>2, <4>3
      <3>2. all = done
        BY <1>2, <2>7 DEF LinesFor, DoneOf
      <3> HIDE DEF S, R, done, all
      <3>3. SumOver(out, S) = SumOver(q.lines, all)
        BY <2>2, <2>3, <2>4, <2>5, <3>1, <3>2
      <3> QED BY <3>3 DEF S, all, Demand
    <2> QED BY <2>6, <2>7
  <1>8. /\ r.step = "pick" /\ r.has = q.has /\ r.lines = q.lines /\ Free(r) = Free(q)
        /\ r.left = q.left \ {l} /\ r.mine = q.mine \cup from /\ r.out = out
        /\ r.stale = q.stale
    BY <1>1 DEF Doc, Work, Free
  <1>9. Bills(r)'
    <2>1. ASSUME NEW i \in Items
          PROVE  SumOver(r.out, {k \in r.mine : lots'[k].item = {i}})
                     = Demand(DoneOf(r), r.lines, i)
      <3>1. {k \in r.mine : lots'[k].item = {i}} = of(q.mine \cup from, i)
        BY <1>2, <1>8
      <3>2. DoneOf(r) = Free(q) \ (q.left \ {l}) BY <1>8 DEF DoneOf
      <3> QED BY <1>7, <1>8, <3>1, <3>2
    <2>2. \A m \in r.has : LineItem[m] \in r.stale \/ Balance(LineItem[m])' >= r.lines[m]
      BY <1>2, <1>8 DEF Bills, Balance
    <2> QED BY <1>8, <2>1, <2>2 DEF Bills
  <1> QED BY <1>1, <1>2, <1>9, TurnBilled

LEMMA MoveElsewhere ==
    ASSUME Typing, NEW i \in Items, NEW entry, Move(i, entry)
    PROVE  \A j \in Items \ {i} : ledger'[j] = ledger[j]
  BY DEF Move, Typing, TypeOK

LEMMA InflowBilled ==
    ASSUME Typing, Stocked, Billed, Inflow
    PROVE  Billed'
  <1>1. PICK i \in Items, amount \in MoveQty :
            \/ \E k \in Lots : CreateLot(i, k, amount) \/ ReceiveLot(i, k, amount)
            \/ ReceiveLotless(i, amount)
            \/ LoseLotless(i, amount)
    BY DEF Inflow
  <1>2. req' = Others({}, {i})
    BY <1>1 DEF CreateLot, ReceiveLot, ReceiveLotless, LoseLotless
  <1>3. \A t \in Sessions : Hears(t, {i})
    BY <1>2, InflowHeard DEF Typing, TypeOK, ReqTyped
  <1>4. \A j \in Items \ {i} : ledger'[j] = ledger[j]
    BY <1>1, MoveElsewhere DEF CreateLot, ReceiveLot, ReceiveLotless, LoseLotless
  <1>5. \A k \in Lots : lots[k].status # "NONE" => lots'[k] = lots[k]
    <2>1. ASSUME NEW k \in Lots, NEW status, NewLot(i, k, amount, status)
          PROVE  \A n \in Lots : lots[n].status # "NONE" => lots'[n] = lots[n]
      BY <2>1 DEF NewLot, Typing, TypeOK
    <2> QED BY <1>1, <2>1 DEF CreateLot, ReceiveLot, ReceiveLotless, LoseLotless
  <1>6. ASSUME NEW t \in Sessions, NEW k \in req[t].mine
        PROVE  lots'[k].item = lots[k].item
    <2>1. k \in Lots /\ Existing(req[t])
      BY DEF Typing, TypeOK, Requests, Stocked, Sound
    <2> QED BY <1>5, <2>1 DEF Existing
  <1> QED BY <1>3, <1>4, <1>6, HearBilled

LEMMA CommitBilled ==
    ASSUME Typing, Billed, NEW s \in Sessions,
           \/ \E i \in Items, k \in Lots, n \in MoveQty : CommitLoss(s, i, k, n)
           \/ \E o \in Orders : CommitRelease(s, o)
    PROVE  Billed'
  <1>1. \A t \in Sessions : req[t].mine \subseteq Lots BY DEF Typing, TypeOK, Requests
  <1>2. ASSUME NEW i \in Items, NEW k \in Lots, NEW n \in MoveQty, CommitLoss(s, i, k, n)
        PROVE  Billed'
    <2>1. Turns(s, Idle, {i}) BY <1>2, CommitLossTyped
    <2>2. \A j \in Items \ {i} : ledger'[j] = ledger[j]
      BY <1>2, MoveElsewhere DEF CommitLoss
    <2>3. \A j \in Lots : lots'[j].item = lots[j].item
      BY <1>2 DEF CommitLoss, Typing, TypeOK
    <2> QED BY <1>1, <2>1, <2>2, <2>3, EndBilled
  <1>3. ASSUME NEW o \in Orders, CommitRelease(s, o)
        PROVE  Billed'
    <2>1. Turns(s, Idle, Posts(s)) BY <1>3, CommitReleaseTyped
    <2>2. \A j \in Items \ Posts(s) : ledger'[j] = ledger[j] BY <1>3 DEF CommitRelease
    <2>3. ASSUME NEW k \in Lots
          PROVE  lots'[k].item = lots[k].item
      BY <1>3, CommitEffect DEF Typing
    <2> QED BY <1>1, <2>1, <2>2, <2>3, EndBilled
  <1> QED BY <1>2, <1>3

LEMMA BilledInit ==
    Init => Billed
  <1>1. Idle.step = "idle" BY IdleTyped DEF Doc
  <1> QED BY <1>1 DEF Init, Billed, Picking

LEMMA BilledNext ==
    Typing /\ Stocked /\ Billed /\ [Next]_vars => Billed'
  <1> SUFFICES ASSUME Typing, Stocked, Billed, [Next]_vars PROVE Billed' OBVIOUS
  <1>1. ReqTyped /\ \A t \in Sessions : UNCHANGED req => Hears(t, {})
    BY DEF ReqTyped, Typing, TypeOK, Hears, Doc, Work
  <1>2. CASE UNCHANGED vars
    BY <1>1, <1>2, HearBilled DEF vars
  <1>3. ASSUME NEW o \in Orders, CreateOrder(o)
        PROVE  Billed'
    BY <1>1, <1>3, HearBilled DEF CreateOrder
  <1>4. ASSUME NEW s \in Sessions, NEW o \in Orders, LineWritten(s, o)
        PROVE  Billed'
    <2>1. UNCHANGED <<lots, ledger>>
      BY <1>4 DEF LineWritten, AddLine, UpdateLine, RemoveLine, WriteLine
    <2> QED BY <1>4, <2>1, LineWrittenTyped, EndBilled
  <1>5. ASSUME NEW s \in Sessions, Rollback(s)
        PROVE  Billed'
    <2>1. UNCHANGED <<lots, ledger>> /\ req' = [req EXCEPT ![s] = Idle]
      BY <1>5 DEF Rollback
    <2> QED BY <1>1, <2>1, RollbackTurns, EndBilled
  <1>6. CASE Next
    BY <1>3, <1>4, <1>5, <1>6, Steps, InflowBilled, BeginBilled, ReadLinesBilled, CheckBalanceBilled,
       PickLotsBilled, TakeLotsBilled, CommitBilled
  <1> QED BY <1>2, <1>6

LEMMA BilledAlways == Spec => [](Typing /\ Stocked /\ Billed)
  BY StockedAlways, BilledInit, BilledNext, PTL DEF Spec

(* What a release commits for item i is what its lines ask for.             *)
LEMMA PostingIsDemand ==
    ASSUME Typing, Billed, NEW s \in Sessions, NEW o \in Orders, CommitRelease(s, o),
           NEW i \in Items
    PROVE  Posting(s, i) = Demand(req[s].has, req[s].lines, i)
  <1> DEFINE q == req[s]
             all == LinesFor(q.has, i)
             free == LinesFor(Free(q), i)
  <1>1. Picking(s) /\ q.left = {} BY DEF CommitRelease, Picking
  <1>2. SumOver(q.out, OutOf(s, i)) = SumOver(q.lines, free)
    <2>1. SumOver(q.out, {k \in q.mine : lots[k].item = {i}}) = Demand(DoneOf(q), q.lines, i)
      BY <1>1 DEF Billed, Bills
    <2>2. DoneOf(q) = Free(q) BY <1>1 DEF DoneOf
    <2> QED BY <2>1, <2>2 DEF OutOf, Demand
  <1>3. /\ free \subseteq all /\ all \subseteq LineIds
        /\ LinesFor(Straight(q), i) = all \ free
        /\ \A l \in LineIds : q.lines[l] \in Int
    <2>1. q.has \subseteq LineIds BY DEF Typing, TypeOK, Requests
    <2>2. \A l \in LineIds : q.lines[l] \in Int BY TakenForTyped DEF Typing
    <2> QED BY <2>1, <2>2 DEF LinesFor, Free, Straight
  <1>4. SumOver(q.lines, all) = SumOver(q.lines, free) + SumOver(q.lines, all \ free)
    <2>1. IsFiniteSet(all) /\ free \in SUBSET all /\ \A l \in all : q.lines[l] \in Int
      BY <1>3, LinesFinite
    <2> HIDE DEF all, free
    <2> QED BY <2>1, SumSplit
  <1> HIDE DEF all, free
  <1>5. Posting(s, i) = SumOver(q.lines, free) + SumOver(q.lines, all \ free)
    BY <1>2, <1>3 DEF Posting, Demand
  <1> QED BY <1>4, <1>5 DEF Demand, all

(* A release leaves an item's stock below zero only when the order has      *)
(* several lines of the item, entries without baseQuantity are mixed with   *)
(* entries that have one, or the ledger changed since the check.            *)
THEOREM StockSold == Spec => SoldFromStock
  <1>1. ASSUME Typing, Billed, [Next]_vars, NEW s \in Sessions, NEW o \in Orders,
               Releases(s, o), NEW i \in Items,
               Cardinality(LinesFor(req[s].has, i)) = 1, Balance(i) = ledger[i].qty,
               i \notin req[s].stale
        PROVE  ledger'[i].qty >= 0
    <2> DEFINE q == req[s]
               mine == LinesFor(q.has, i)
    <2>1. CommitRelease(s, o) BY <1>1, OnlyCommitReleases
    <2>2. /\ q.has \subseteq LineIds /\ IsFiniteSet(mine)
          /\ \A m \in LineIds : q.lines[m] \in Nat
      <3>1. q.has \subseteq LineIds BY <1>1 DEF Typing, TypeOK, Requests
      <3>2. mine \subseteq LineIds BY <3>1 DEF LinesFor
      <3> QED BY <1>1, <3>1, <3>2, LinesFinite, TakenForTyped DEF Typing
    <2>3. PICK l : mine = {l}
      BY <1>1, <2>2, FS_Singleton
    <2>4. l \in q.has /\ LineItem[l] = i /\ q.lines[l] \in Nat
      BY <2>2, <2>3 DEF LinesFor
    <2>5. Balance(i) >= q.lines[l]
      <3>1. Picking(s) BY <2>1 DEF CommitRelease, Picking
      <3> QED BY <1>1, <2>4, <3>1 DEF Billed, Bills
    <2>6. Posting(s, i) = q.lines[l]
      <3>1. Posting(s, i) = SumOver(q.lines, mine)
        BY <1>1, <2>1, PostingIsDemand DEF Demand
      <3>2. SumOver(q.lines, {l}) = q.lines[l] + SumOver(q.lines, {l} \ {l})
        <4>1. IsFiniteSet({l}) /\ \A x \in {l} : q.lines[x] \in Int
          BY <2>2, <2>3, <2>4
        <4> QED BY <4>1, SumAny
      <3>3. SumOver(q.lines, {l} \ {l}) = 0
        <4>1. IsFiniteSet({l} \ {l}) /\ {l} \ {l} = {} BY FS_EmptySet, {l} \ {l} = {}
        <4> QED BY <4>1, SumStep
      <3>4. SumOver(q.lines, mine) = SumOver(q.lines, {l}) BY Zenon, <2>3
      <3> HIDE DEF q, mine
      <3> QED BY <2>4, <3>1, <3>2, <3>3, <3>4
    <2>7. ledger[i] \in [qty: Int, base: Int, hasBase: BOOLEAN]
      BY <1>1 DEF Typing, TypeOK
    <2>8. CASE i \in Posts(s)
      <3>1. ledger'[i].qty = ledger[i].qty - Posting(s, i)
        BY <2>1, <2>4, <2>6, <2>7, <2>8 DEF CommitRelease, InBase
      <3> QED BY <1>1, <2>4, <2>5, <2>6, <2>7, <3>1
    <2>9. CASE i \notin Posts(s)
      <3>1. ledger'[i] = ledger[i] BY <2>1, <2>9 DEF CommitRelease
      <3> QED BY <1>1, <2>4, <2>5, <2>7, <3>1
    <2> QED BY <2>8, <2>9
  <1>2. Typing /\ Billed /\ [Next]_vars =>
            [\A s \in Sessions : \A o \in Orders : Releases(s, o) =>
                \A i \in Items :
                    (/\ Cardinality(LinesFor(req[s].has, i)) = 1
                     /\ Balance(i) = ledger[i].qty
                     /\ i \notin req[s].stale)
                    => ledger'[i].qty >= 0]_vars
    BY <1>1
  <1> QED BY <1>2, BilledAlways, PTL DEF Spec, SoldFromStock

-----------------------------------------------------------------------------
(* Orders no two requests were at work on at the same time.                 *)

BusyAs(q, o) == q.step # "idle" /\ q.order = {o}

(* The request at work on such an order is the only one, and the order is   *)
(* the draft, with the lines, that the request has read.                    *)
Sole ==
    \A o \in Orders \ disturbed : \A s, t \in Sessions :
        BusyAs(req[s], o) /\ BusyAs(req[t], o) => s = t

ReadIs(q, order) ==
    /\ order.status = "DRAFT"
    /\ q.step \notin {"edit", "order"} => q.has = order.has /\ q.lines = order.lines

Fresh ==
    \A o \in Orders \ disturbed : \A s \in Sessions :
        BusyAs(req[s], o) => ReadIs(req[s], so[o])

PostedOf(order) ==
    \A i \in Items : order.posted[i] = IF order.status = "OPEN"
                                       THEN Demand(order.has, order.lines, i) ELSE 0

Ordered == Sole /\ Fresh /\ \A o \in Orders \ disturbed : PostedOf(so[o])

(* A step of request s, or of none, that leaves it working on no order it   *)
(* was not at work on alone, and changes no order another is at work on.    *)
LEMMA OrderedKept ==
    ASSUME Ordered, NEW S, S \subseteq Sessions, NEW C, disturbed \subseteq disturbed',
           \A t \in Sessions \ S : Hears(t, C),
           \A o \in Orders \ disturbed' : \A s \in S :
               BusyAs(req'[s], o) => /\ ReadIs(req'[s], so'[o])
                                     /\ \A t \in Sessions \ {s} : ~BusyAs(req'[t], o),
           \A o \in Orders \ disturbed' :
               \/ so'[o] = so[o]
               \/ PostedOf(so'[o]) /\ \A t \in Sessions \ S : ~BusyAs(req[t], o)
    PROVE  Ordered'
  <1>1. ASSUME NEW t \in Sessions \ S
        PROVE  /\ \A o : BusyAs(req'[t], o) <=> BusyAs(req[t], o)
               /\ req'[t].step = req[t].step /\ req'[t].has = req[t].has
               /\ req'[t].lines = req[t].lines
    BY DEF Hears, Doc, BusyAs
  <1>2. Sole'
    <2>1. ASSUME NEW o \in Orders \ disturbed', NEW s \in Sessions, NEW t \in Sessions,
                 BusyAs(req'[s], o), BusyAs(req'[t], o)
          PROVE  s = t
      <3>1. CASE s \in S \/ t \in S BY <2>1, <3>1
      <3>2. CASE s \notin S /\ t \notin S BY <1>1, <2>1, <3>2 DEF Ordered, Sole
      <3> QED BY <3>1, <3>2
    <2> QED BY <2>1 DEF Sole, BusyAs
  <1>3. Fresh'
    <2>1. ASSUME NEW o \in Orders \ disturbed', NEW s \in Sessions, BusyAs(req'[s], o)
          PROVE  ReadIs(req'[s], so'[o])
      <3>1. CASE s \in S BY <2>1, <3>1
      <3>2. CASE s \notin S
        <4>1. BusyAs(req[s], o) /\ so'[o] = so[o] BY <1>1, <2>1, <3>2
        <4>2. ReadIs(req[s], so[o]) BY <4>1 DEF Ordered, Fresh
        <4> QED BY <1>1, <3>2, <4>1, <4>2 DEF ReadIs
      <3> QED BY <3>1, <3>2
    <2> QED BY <2>1 DEF Fresh, BusyAs, ReadIs
  <1>4. \A o \in Orders \ disturbed' : PostedOf(so'[o])
    BY DEF Ordered
  <1> QED BY <1>2, <1>3, <1>4 DEF Ordered, PostedOf

(* The request ends, or goes on with what it read.                          *)
LEMMA GoesOnOrdered ==
    ASSUME Ordered, NEW s \in Sessions, NEW r, NEW C, Turns(s, r, C),
           UNCHANGED <<so, disturbed>>,
           \/ r.step = "idle"
           \/ /\ req[s].step \notin {"idle", "edit", "order"} /\ r.order = req[s].order
              /\ r.has = req[s].has /\ r.lines = req[s].lines
    PROVE  Ordered'
  <1>1. req'[s] = r /\ \A t \in Sessions \ {s} : Hears(t, C) BY DEF Turns
  <1>2. ASSUME NEW o \in Orders \ disturbed', BusyAs(r, o)
        PROVE  ReadIs(r, so[o]) /\ \A t \in Sessions \ {s} : ~BusyAs(req'[t], o)
    <2>1. BusyAs(req[s], o) /\ req[s].step \notin {"edit", "order"} BY <1>2 DEF BusyAs
    <2>2. ReadIs(req[s], so[o]) /\ \A t \in Sessions \ {s} : ~BusyAs(req[t], o)
      BY <2>1 DEF Ordered, Sole, Fresh
    <2>3. ReadIs(r, so[o]) BY <1>2, <2>1, <2>2 DEF ReadIs, BusyAs
    <2>4. \A t \in Sessions \ {s} : BusyAs(req'[t], o) <=> BusyAs(req[t], o)
      BY <1>1 DEF Hears, Doc, BusyAs
    <2> QED BY <2>2, <2>3, <2>4
  <1> DEFINE S == {s}
  <1>3. /\ S \subseteq Sessions /\ \A t \in Sessions \ S : Hears(t, C)
        /\ \A o \in Orders \ disturbed' : \A u \in S :
               BusyAs(req'[u], o) => /\ ReadIs(req'[u], so'[o])
                                     /\ \A t \in Sessions \ {u} : ~BusyAs(req'[t], o)
    BY <1>1, <1>2
  <1>4. disturbed \subseteq disturbed' /\ \A o \in Orders \ disturbed' : so'[o] = so[o]
    OBVIOUS
  <1> HIDE DEF S
  <1> QED BY <1>3, <1>4, OrderedKept

LEMMA HearOrdered ==
    ASSUME Ordered, NEW C, \A t \in Sessions : Hears(t, C), UNCHANGED <<so, disturbed>>
    PROVE  Ordered'
  <1> DEFINE S == {}
  <1>1. /\ S \subseteq Sessions /\ disturbed \subseteq disturbed'
        /\ \A t \in Sessions \ S : Hears(t, C)
        /\ \A o \in Orders \ disturbed' : so'[o] = so[o]
        /\ \A o \in Orders \ disturbed' : \A u \in S :
               BusyAs(req'[u], o) => /\ ReadIs(req'[u], so'[o])
                                     /\ \A t \in Sessions \ {u} : ~BusyAs(req'[t], o)
    OBVIOUS
  <1> HIDE DEF S
  <1> QED BY <1>1, OrderedKept

(* A request for order o begins; o is disturbed when another is at work.    *)
LEMMA BeginOrdered ==
    ASSUME Typing, Ordered, NEW s \in Sessions, NEW o \in Orders,
           BeginEdit(s, o) \/ BeginRelease(s, o)
    PROVE  Ordered'
  <1>1. so[o].status = "DRAFT" /\ so' = so
    BY DEF BeginEdit, BeginRelease, Begin
  <1>2. /\ disturbed \subseteq disturbed'
        /\ o \notin disturbed' => \A t \in Sessions \ {s} : ~BusyAs(req[t], o)
    BY DEF BeginEdit, BeginRelease, Begin, Busy, BusyAs
  <1>3. PICK r : Turns(s, r, {}) /\ r.order = {o} /\ ReadIs(r, so[o])
    <2>1. CASE BeginEdit(s, o)
      <3>1. PICK r \in Requests : /\ Turns(s, r, {})
                                  /\ Doc(r, "edit", {o}, so[o].has, NoLines, FALSE, NoBounds)
                                  /\ Work(r, {}, {}, NoStock, {}, NoStock, NoStock)
        BY <2>1, BeginEditTurns DEF Typing
      <3> QED BY <1>1, <3>1 DEF ReadIs, Doc
    <2>2. CASE BeginRelease(s, o)
      <3>1. PICK r \in Requests, fefo \in BOOLEAN :
                /\ Turns(s, r, {})
                /\ Doc(r, "order", {o}, {}, NoLines, fefo, NoBounds)
                /\ Work(r, {}, {}, NoStock, {}, NoStock, NoStock)
        BY <2>2, BeginReleaseTurns DEF Typing
      <3>2. r.order = {o} /\ r.step = "order" BY <3>1 DEF Doc
      <3> QED BY <1>1, <3>1, <3>2 DEF ReadIs
    <2> QED BY <2>1, <2>2
  <1> DEFINE S == {s}
  <1>4. /\ S \subseteq Sessions /\ \A t \in Sessions \ S : Hears(t, {})
        /\ req'[s] = r
    BY <1>3 DEF Turns
  <1>5. ASSUME NEW p \in Orders \ disturbed', BusyAs(r, p)
        PROVE  ReadIs(r, so'[p]) /\ \A t \in Sessions \ {s} : ~BusyAs(req'[t], p)
    <2>1. p = o BY <1>3, <1>5 DEF BusyAs
    <2>2. \A t \in Sessions \ {s} : BusyAs(req'[t], o) <=> BusyAs(req[t], o)
      BY <1>4 DEF Hears, Doc, BusyAs
    <2> QED BY <1>1, <1>2, <1>3, <2>1, <2>2
  <1>6. \A p \in Orders \ disturbed' : \A u \in S :
            BusyAs(req'[u], p) => /\ ReadIs(req'[u], so'[p])
                                  /\ \A t \in Sessions \ {u} : ~BusyAs(req'[t], p)
    BY <1>4, <1>5
  <1>7. \A p \in Orders \ disturbed' : so'[p] = so[p] BY <1>1
  <1> HIDE DEF S
  <1> QED BY <1>2, <1>4, <1>6, <1>7, OrderedKept

(* The end of a request that changes its order: alone on it, it leaves it   *)
(* with what is posted for it.                                              *)
LEMMA EndOrdered ==
    ASSUME Ordered, NEW s \in Sessions, NEW C, Turns(s, Idle, C), NEW o \in Orders,
           BusyAs(req[s], o), disturbed' = disturbed,
           \A p \in Orders \ {o} : so'[p] = so[p],
           o \notin disturbed => PostedOf(so'[o])
    PROVE  Ordered'
  <1>1. ~BusyAs(req'[s], o) /\ \A p : ~BusyAs(req'[s], p)
    BY IdleTyped DEF Turns, BusyAs, Doc
  <1>2. o \notin disturbed => \A t \in Sessions \ {s} : ~BusyAs(req[t], o)
    BY DEF Ordered, Sole
  <1> DEFINE S == {s}
  <1>3. /\ S \subseteq Sessions /\ \A t \in Sessions \ S : Hears(t, C)
        /\ disturbed \subseteq disturbed'
    BY DEF Turns
  <1>4. \A p \in Orders \ disturbed' : \A u \in S :
            BusyAs(req'[u], p) => /\ ReadIs(req'[u], so'[p])
                                  /\ \A t \in Sessions \ {u} : ~BusyAs(req'[t], p)
    BY <1>1
  <1>5. \A p \in Orders \ disturbed' :
            \/ so'[p] = so[p]
            \/ PostedOf(so'[p]) /\ \A t \in Sessions \ S : ~BusyAs(req[t], p)
    BY <1>2
  <1> HIDE DEF S
  <1> QED BY <1>3, <1>4, <1>5, OrderedKept

LEMMA LineWrittenOrdered ==
    ASSUME Typing, Ordered, NEW s \in Sessions, NEW o \in Orders, LineWritten(s, o)
    PROVE  Ordered'
  <1>1. Turns(s, Idle, {}) /\ BusyAs(req[s], o)
    BY LineWrittenTyped DEF LineWritten, AddLine, UpdateLine, RemoveLine, BusyAs
  <1>2. PICK l, q, ids : WriteLine(s, o, l, q, ids)
    BY DEF LineWritten, AddLine, UpdateLine, RemoveLine
  <1>3. disturbed' = disturbed BY <1>2 DEF WriteLine
  <1>4. so[o] \in SalesOrders
    BY DEF Typing, TypeOK
  <1>5. so'[o].status = so[o].status /\ so'[o].posted = so[o].posted
    BY <1>2, <1>4 DEF WriteLine, Typing, TypeOK
  <1>6. \A p \in Orders \ {o} : so'[p] = so[p]
    BY <1>2 DEF WriteLine, Typing, TypeOK
  <1>7. o \notin disturbed => so[o].status = "DRAFT" /\ PostedOf(so[o])
    BY <1>1 DEF Ordered, Fresh, ReadIs
  <1>8. o \notin disturbed => PostedOf(so'[o])
    BY <1>5, <1>7 DEF PostedOf
  <1> QED BY <1>1, <1>3, <1>6, <1>8, EndOrdered

LEMMA CommitReleaseOrdered ==
    ASSUME Typing, Billed, Ordered, NEW s \in Sessions, NEW o \in Orders, CommitRelease(s, o)
    PROVE  Ordered'
  <1> DEFINE q == req[s]
  <1>1. /\ Turns(s, Idle, Posts(s)) /\ BusyAs(q, o) /\ q.step = "pick"
        /\ disturbed' = disturbed
    BY CommitReleaseTyped DEF CommitRelease, BusyAs
  <1>2. so[o] \in SalesOrders
    BY DEF Typing, TypeOK
  <1>3. \A p \in Orders \ {o} : so'[p] = so[p]
    BY CommitEffect DEF Typing
  <1>4. /\ so'[o].status = "OPEN" /\ so'[o].has = so[o].has /\ so'[o].lines = so[o].lines
        /\ so'[o].posted = [i \in Items |-> so[o].posted[i] + Posting(s, i)]
    BY CommitEffect DEF Typing
  <1>5. ASSUME o \notin disturbed
        PROVE  PostedOf(so'[o])
    <2>1. /\ so[o].status = "DRAFT" /\ q.has = so[o].has /\ q.lines = so[o].lines
          /\ PostedOf(so[o])
      BY <1>1, <1>5 DEF Ordered, Fresh, ReadIs
    <2>2. ASSUME NEW i \in Items
          PROVE  so'[o].posted[i] = Demand(so[o].has, so[o].lines, i)
      <3>1. so[o].posted[i] = 0 BY <2>1 DEF PostedOf
      <3>2. Posting(s, i) = Demand(so[o].has, so[o].lines, i)
        BY <2>1, PostingIsDemand
      <3>3. Posting(s, i) \in Int BY PostingTyped DEF Typing
      <3> QED BY <1>4, <3>1, <3>2, <3>3
    <2> QED BY <1>4, <2>2 DEF PostedOf
  <1> QED BY <1>1, <1>3, <1>5, EndOrdered

LEMMA CreateOrderOrdered ==
    ASSUME Typing, Ordered, NEW o \in Orders, CreateOrder(o)
    PROVE  Ordered'
  <1>1. so[o].status = "NONE" /\ disturbed' = disturbed /\ req' = req
    BY DEF CreateOrder
  <1>2. so[o] \in SalesOrders
    BY DEF Typing, TypeOK
  <1>3. /\ \A p \in Orders \ {o} : so'[p] = so[p]
        /\ so'[o].status = "DRAFT" /\ so'[o].posted = so[o].posted
    BY <1>2 DEF CreateOrder, Typing, TypeOK
  <1>4. o \notin disturbed => /\ \A t \in Sessions : ~BusyAs(req[t], o)
                              /\ PostedOf(so'[o])
    BY <1>1, <1>3 DEF Ordered, Fresh, ReadIs, PostedOf
  <1> DEFINE S == {}
  <1>5. /\ S \subseteq Sessions /\ disturbed \subseteq disturbed'
        /\ \A t \in Sessions \ S : Hears(t, {})
        /\ \A p \in Orders \ disturbed' : \A u \in S :
               BusyAs(req'[u], p) => /\ ReadIs(req'[u], so'[p])
                                     /\ \A t \in Sessions \ {u} : ~BusyAs(req'[t], p)
    BY <1>1 DEF Hears, Doc, Work
  <1>6. \A p \in Orders \ disturbed' :
            \/ so'[p] = so[p]
            \/ PostedOf(so'[p]) /\ \A t \in Sessions \ S : ~BusyAs(req[t], p)
    BY <1>1, <1>3, <1>4
  <1> HIDE DEF S
  <1> QED BY <1>5, <1>6, OrderedKept

(* The steps that only advance or end a request, or begin a loss.           *)
LEMMA StepOrdered ==
    ASSUME Typing, Ordered, NEW s \in Sessions,
           \/ CheckBalance(s)
           \/ \E l \in LineIds : PickLots(s, l) \/ TakeLots(s, l)
           \/ Rollback(s)
           \/ \E i \in Items, k \in Lots, n \in MoveQty : CommitLoss(s, i, k, n)
    PROVE  Ordered'
  <1> DEFINE q == req[s]
             Goes(r) == r.order = q.order /\ r.has = q.has /\ r.lines = q.lines
  <1>1. UNCHANGED <<so, disturbed>> /\ TypeOK /\ ReqTyped
    BY DEF CheckBalance, PickLots, TakeLots, Rollback, CommitLoss, Typing, TypeOK, ReqTyped
  <1>2. ASSUME CheckBalance(s)
        PROVE  q.step \notin {"idle", "edit", "order"} /\ \E r : Turns(s, r, {}) /\ Goes(r)
    <2>1. PICK r \in Requests :
              /\ Turns(s, r, {})
              /\ Doc(r, "pick", q.order, q.has, q.lines, q.fefo, q.bound)
              /\ Work(r, Free(q), q.line, q.seen, q.mine, q.wrote, q.out)
              /\ r.stale = q.stale
      BY <1>1, <1>2, CheckBalanceTurns
    <2> QED BY <1>2, <2>1 DEF CheckBalance, Doc
  <1>3. ASSUME NEW l \in LineIds, PickLots(s, l)
        PROVE  q.step \notin {"idle", "edit", "order"} /\ \E r : Turns(s, r, {}) /\ Goes(r)
    <2>1. PICK r \in Requests :
              /\ Turns(s, r, {})
              /\ Doc(r, "take", q.order, q.has, q.lines, q.fefo, q.bound)
              /\ Work(r, q.left, {l}, [k \in Lots |-> IF k \in Pickable(s, l)
                                                     THEN OnHand(s, k) ELSE 0],
                      q.mine, q.wrote, q.out)
              /\ r.stale = q.stale
      BY <1>1, <1>3, PickLotsTurns
    <2> QED BY <1>3, <2>1 DEF PickLots, Doc
  <1>4. ASSUME NEW l \in LineIds, TakeLots(s, l)
        PROVE  q.step \notin {"idle", "edit", "order"} /\ \E r : Turns(s, r, {}) /\ Goes(r)
    <2>1. PICK r \in Requests :
              /\ Turns(s, r, {})
              /\ Doc(r, "pick", q.order, q.has, q.lines, q.fefo, q.bound)
              /\ Work(r, q.left \ {l}, {}, NoStock, q.mine \cup FromLots(s, l),
                      WroteFor(s, l), OutFor(s, l))
              /\ r.stale = q.stale
      BY <1>1, <1>4, TakeLotsTurns
    <2> QED BY <1>4, <2>1 DEF TakeLots, Doc
  <1>5. ASSUME \/ Rollback(s)
               \/ \E i \in Items, k \in Lots, n \in MoveQty : CommitLoss(s, i, k, n)
        PROVE  \E C : Turns(s, Idle, C)
    BY <1>1, <1>5, RollbackTurns, CommitLossTyped DEF Rollback
  <1>6. Idle.step = "idle" BY IdleTyped DEF Doc
  <1> QED BY <1>1, <1>2, <1>3, <1>4, <1>5, <1>6, GoesOnOrdered

(* A release reads the lines of its order.                                  *)
LEMMA ReadLinesOrdered ==
    ASSUME Typing, Ordered, NEW s \in Sessions, NEW o \in Orders, ReadLines(s, o)
    PROVE  Ordered'
  <1> DEFINE q == req[s]
             S == {s}
  <1>1. PICK r \in Requests :
            /\ Turns(s, r, {})
            /\ Doc(r, "check", q.order, so[o].has, so[o].lines, q.fefo, so[o].lot)
            /\ Work(r, q.left, q.line, q.seen, q.mine, q.wrote, q.out)
    BY ReadLinesTurns DEF Typing
  <1>2. UNCHANGED <<so, disturbed>> /\ BusyAs(q, o) BY DEF ReadLines, BusyAs
  <1>3. /\ S \subseteq Sessions /\ disturbed \subseteq disturbed' /\ req'[s] = r
        /\ \A t \in Sessions \ S : Hears(t, {})
        /\ \A p \in Orders \ disturbed' : so'[p] = so[p]
    BY <1>1, <1>2 DEF Turns
  <1>4. ASSUME NEW p \in Orders \ disturbed', BusyAs(r, p)
        PROVE  ReadIs(r, so'[p]) /\ \A t \in Sessions \ {s} : ~BusyAs(req'[t], p)
    <2>1. p = o BY <1>1, <1>2, <1>4 DEF BusyAs, Doc
    <2>2. so[o].status = "DRAFT" /\ \A t \in Sessions \ {s} : ~BusyAs(req[t], o)
      BY <1>2, <1>4, <2>1 DEF Ordered, Sole, Fresh, ReadIs
    <2>3. \A t \in Sessions \ {s} : BusyAs(req'[t], o) <=> BusyAs(req[t], o)
      BY <1>1 DEF Turns, Hears, Doc, BusyAs
    <2> QED BY <1>1, <1>2, <2>1, <2>2, <2>3 DEF ReadIs, Doc
  <1>5. \A p \in Orders \ disturbed' : \A u \in S :
            BusyAs(req'[u], p) => /\ ReadIs(req'[u], so'[p])
                                  /\ \A t \in Sessions \ {u} : ~BusyAs(req'[t], p)
    BY <1>3, <1>4
  <1> HIDE DEF S
  <1> QED BY <1>3, <1>5, OrderedKept

LEMMA BeginLossOrdered ==
    ASSUME Typing, Ordered, NEW s \in Sessions, NEW k \in Lots, BeginLoss(s, k)
    PROVE  Ordered'
  <1>1. PICK r \in Requests :
            /\ Turns(s, r, {})
            /\ Doc(r, "loss", {}, {}, NoLines, FALSE, NoBounds)
            /\ Work(r, {}, {}, [NoStock EXCEPT ![k] = lots[k].onHand], {}, NoStock, NoStock)
            /\ r.lot = {k}
    BY BeginLossTurns DEF Typing
  <1>2. UNCHANGED <<so, disturbed>> BY DEF BeginLoss
  <1>3. \A o : ~BusyAs(r, o) BY <1>1 DEF Doc, BusyAs
  <1> DEFINE S == {s}
  <1>4. /\ S \subseteq Sessions /\ disturbed \subseteq disturbed'
        /\ \A t \in Sessions \ S : Hears(t, {})
        /\ \A p \in Orders \ disturbed' : \A u \in S :
               BusyAs(req'[u], p) => /\ ReadIs(req'[u], so'[p])
                                     /\ \A t \in Sessions \ {u} : ~BusyAs(req'[t], p)
        /\ \A p \in Orders \ disturbed' : so'[p] = so[p]
    BY <1>1, <1>2, <1>3 DEF Turns
  <1> HIDE DEF S
  <1> QED BY <1>4, OrderedKept

LEMMA OrderedInit ==
    Init => Ordered
  <1> SUFFICES ASSUME Init PROVE Ordered OBVIOUS
  <1>1. \A s \in Sessions : \A o : ~BusyAs(req[s], o)
    BY IdleTyped DEF Init, BusyAs, Doc
  <1>2. \A o \in Orders : so[o] = NewOrder BY DEF Init
  <1>3. PostedOf(NewOrder) BY DEF PostedOf, NewOrder
  <1> QED BY <1>1, <1>2, <1>3 DEF Ordered, Sole, Fresh

LEMMA OrderedNext ==
    Typing /\ Billed /\ Ordered /\ [Next]_vars => Ordered'
  <1> SUFFICES ASSUME Typing, Billed, Ordered, [Next]_vars PROVE Ordered' OBVIOUS
  <1>1. CASE UNCHANGED vars
    <2>1. \A t \in Sessions : Hears(t, {})
      BY <1>1 DEF vars, Hears, Doc, Work
    <2> QED BY <1>1, <2>1, HearOrdered DEF vars
  <1>2. ASSUME Inflow
        PROVE  Ordered'
    <2>1. UNCHANGED <<so, disturbed>>
      BY <1>2 DEF Inflow, CreateLot, ReceiveLot, ReceiveLotless, LoseLotless
    <2> QED BY <1>2, <2>1, InflowTyped, HearOrdered
  <1>3. CASE Next
    BY <1>2, <1>3, Steps, CreateOrderOrdered, BeginOrdered, BeginLossOrdered,
       LineWrittenOrdered, ReadLinesOrdered, StepOrdered, CommitReleaseOrdered
  <1> QED BY <1>1, <1>3

(* All or nothing: an order nobody else was at work on is open with exactly *)
(* its lines posted against each item, or a draft with nothing posted.      *)
THEOREM LinesPosted == Spec => []ReleasePostsLines
  <1>1. Ordered => ReleasePostsLines BY DEF Ordered, PostedOf, ReleasePostsLines
  <1> QED BY <1>1, BilledAlways, OrderedInit, OrderedNext, PTL DEF Spec
=============================================================================
