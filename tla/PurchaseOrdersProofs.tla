------------------------ MODULE PurchaseOrdersProofs ------------------------
(* Proofs about PurchaseOrders, for any number of orders, lines, requests   *)
(* in flight, quantities and policies.                                      *)
EXTENDS PurchaseOrders, WellFoundedInduction, TLAPS

-----------------------------------------------------------------------------
(* Facts about the operators. *)

(* The total of any set of lines is one of the amounts. *)
LEMMA TotalType == \A m \in LineMaps : Total(m) \in Amounts
  BY DEF Amounts

(* Line maps assign a natural number to each line, and changing one line to *)
(* an allowed quantity leaves a line map.                                   *)
LEMMA LineMapType ==
    /\ LineMaps \subseteq [LineIds -> Nat]
    /\ [l \in LineIds |-> 0] \in LineMaps
    /\ \A m \in LineMaps, l \in LineIds :
          \A q \in 0 .. MaxQty[l] : [m EXCEPT ![l] = q] \in LineMaps
<1>1. Quantities \subseteq Nat
  BY PurchaseAssumption DEF Quantities
<1>2. \A l \in LineIds : 0 \in Quantities /\ 0 .. MaxQty[l] \subseteq Quantities
  BY PurchaseAssumption DEF Quantities
<1>3. LineMaps \subseteq [LineIds -> Nat]
  BY <1>1 DEF LineMaps
<1>4. [l \in LineIds |-> 0] \in LineMaps
  BY <1>2, PurchaseAssumption DEF LineMaps
<1>5. ASSUME NEW m \in LineMaps, NEW l \in LineIds, NEW q \in 0 .. MaxQty[l]
      PROVE  [m EXCEPT ![l] = q] \in LineMaps
  BY <1>2, PurchaseAssumption DEF LineMaps
<1>6. QED
  BY <1>3, <1>4, <1>5

(* A non-empty set of numbers up to n has a greatest element. *)
LEMMA GreatestExists ==
    ASSUME NEW n \in Nat, NEW S \in SUBSET (0 .. n), S # {}
    PROVE  \E x \in S : \A y \in S : y <= x
<1> DEFINE T == {n - x : x \in S}
<1>1. T \subseteq Nat /\ T # {}
  <2>1. T \subseteq Nat
    OBVIOUS
  <2>2. PICK x \in S : TRUE
    OBVIOUS
  <2>3. n - x \in T
    OBVIOUS
  <2>4. QED
    BY <2>1, <2>3
<1>2. \E t \in T : \A u \in T : ~(<<u, t>> \in OpToRel(<, Nat))
  BY <1>1, NatLessThanWellFounded, WFMin
<1>3. PICK t \in T : \A u \in T : ~(u < t)
  BY <1>1, <1>2 DEF OpToRel
<1>4. PICK x \in S : t = n - x
  OBVIOUS
<1>5. ASSUME NEW y \in S PROVE y <= x
  <2>1. ~(n - y < n - x)
    BY <1>3, <1>4
  <2>2. QED
    BY <2>1
<1>6. QED
  BY <1>5

(* The policy chosen for an order is none, or one that covers it. *)
LEMMA PolicyForType ==
    ASSUME NEW o, NEW amount, policies \in 0 .. MaxPolicies
    PROVE  LET p == PolicyFor(o, amount) IN
           \/ p = NoPolicy
           \/ /\ p \in PolicyIds
              /\ o \in PolicyDef[p].scope
              /\ PolicyDef[p].min <= amount
              /\ amount <= PolicyDef[p].max
<1>1. CASE Matching(o, amount) = {}
  BY <1>1 DEF PolicyFor
<1>2. CASE Matching(o, amount) # {}
  <2>1. policies \in Nat /\ Matching(o, amount) \subseteq 0 .. policies
    BY PurchaseAssumption DEF Matching
  <2>2. \E p \in Matching(o, amount) : \A q \in Matching(o, amount) : q <= p
    BY <1>2, <2>1, GreatestExists
  <2>3. PolicyFor(o, amount) \in Matching(o, amount)
    BY <1>2, <2>2 DEF PolicyFor
  <2>4. QED
    BY <2>3, PurchaseAssumption DEF Matching, PolicyIds
<1>3. QED
  BY <1>1, <1>2
-----------------------------------------------------------------------------
(* Type correctness. *)

LEMMA NewRowType == NewRow \in Rows /\ Nothing \in Copies
  BY LineMapType, TotalType
     DEF NewRow, Nothing, Rows, Copies, NoInstance, Statuses, InstanceStatuses

LEMMA BeginType ==
    ASSUME TypeOK, NEW s \in Sessions, NEW o \in Orders, NEW step \in Steps,
           NEW copy \in Copies, Begin(s, o, step, copy)
    PROVE  /\ pc' \in [Sessions -> Steps]
           /\ at' \in [Sessions -> Orders]
           /\ view' \in [Sessions -> Copies]
           /\ disturbed' \subseteq Orders
  BY DEF TypeOK, Begin

LEMMA FinishType ==
    ASSUME TypeOK, NEW s \in Sessions, Finish(s)
    PROVE  /\ pc' \in [Sessions -> Steps]
           /\ at' \in [Sessions -> Orders]
           /\ view' \in [Sessions -> Copies]
           /\ sum' \in [Sessions -> Amounts]
           /\ need' \in [Sessions -> BOOLEAN]
<1>1. NewRow.total \in Amounts /\ "idle" \in Steps
  BY LineMapType, TotalType DEF NewRow, Steps
<1>2. QED
  BY <1>1, NewRowType DEF TypeOK, Finish

LEMMA CommitType ==
    ASSUME TypeOK, NEW s \in Sessions, NEW r \in Rows, Commit(s, r)
    PROVE  TypeOK'
<1>1. Finish(s) /\ po' \in [Orders -> Rows]
  BY DEF Commit, TypeOK
<1>2. QED
  BY <1>1, FinishType DEF Commit, TypeOK

(* A line edit writes the quantity of one line and the set of lines. *)
LEMMA EditWrites ==
    ASSUME TypeOK, NEW s \in Sessions, Edit(s)
    PROVE  /\ pc[s] = "edit"
           /\ \E l \in LineIds : \E q \in 0 .. MaxQty[l] : \E ids \in SUBSET LineIds :
                  WriteLine(s, l, q, ids)
<1>1. po[at[s]].has \in SUBSET LineIds
  BY DEF TypeOK, Rows
<1>2. PICK l \in LineIds : \/ \E q \in 0 .. MaxQty[l] : AddLine(s, l, q) \/ UpdateLine(s, l, q)
                           \/ RemoveLine(s, l)
  BY DEF Edit
<1>3. CASE RemoveLine(s, l)
  <2>1. pc[s] = "edit" /\ WriteLine(s, l, 0, po[at[s]].has \ {l})
    BY <1>3 DEF RemoveLine
  <2>2. 0 \in 0 .. MaxQty[l]
    BY PurchaseAssumption
  <2>3. QED
    BY <1>1, <2>1, <2>2
<1>4. CASE \E q \in 0 .. MaxQty[l] : AddLine(s, l, q) \/ UpdateLine(s, l, q)
  <2>1. PICK q \in 0 .. MaxQty[l] : AddLine(s, l, q) \/ UpdateLine(s, l, q)
    BY <1>4
  <2>2. /\ pc[s] = "edit"
        /\ \/ WriteLine(s, l, q, po[at[s]].has \cup {l})
           \/ WriteLine(s, l, q, po[at[s]].has)
    BY <2>1 DEF AddLine, UpdateLine
  <2>3. QED
    BY <1>1, <2>2
<1>5. QED
  BY <1>2, <1>3, <1>4

(* What such a write leaves in the rows. *)
LEMMA WriteType ==
    ASSUME TypeOK, NEW s \in Sessions, NEW l \in LineIds, NEW q \in 0 .. MaxQty[l],
           NEW ids \in SUBSET LineIds, WriteLine(s, l, q, ids)
    PROVE  LET row == po[at[s]]  new == po'[at[s]] IN
           /\ new \in Rows /\ po' \in [Orders -> Rows]
           /\ new.status = row.status /\ new.inst = row.inst
           /\ new.recd = row.recd /\ new.lineRecd = row.lineRecd
           /\ \A o \in Orders \ {at[s]} : po'[o] = po[o]
<1> DEFINE row == po[at[s]]
           lines == [row.lines EXCEPT ![l] = q]
           new == [row EXCEPT !.has = ids, !.lines = lines]
<1>1. row \in Rows /\ at[s] \in Orders /\ po \in [Orders -> Rows]
  BY DEF TypeOK
<1>2. lines \in LineMaps
  BY <1>1, LineMapType DEF Rows
<1>3. po' = [po EXCEPT ![at[s]] = new]
  BY DEF WriteLine
<1> HIDE DEF lines
<1>4. /\ new \in Rows
      /\ new.status = row.status /\ new.inst = row.inst
      /\ new.recd = row.recd /\ new.lineRecd = row.lineRecd
  BY <1>1, <1>2 DEF Rows
<1> HIDE DEF new
<1>5. QED
  BY <1>1, <1>3, <1>4

(* Every request step keeps the types. *)
LEMMA RequestType ==
    ASSUME TypeOK, NEW s \in Sessions, Request(s)
    PROVE  TypeOK'
<1>1. po[at[s]] \in Rows /\ view[s] \in Copies /\ at[s] \in Orders
  BY DEF TypeOK
<1>2. ASSUME NEW o \in Orders, BeginEdit(s, o) PROVE TypeOK'
  <2>1. [Nothing EXCEPT !.has = po[o].has] \in Copies
    BY NewRowType DEF TypeOK, Copies, Rows
  <2>2. QED
    BY <1>2, <2>1, BeginType DEF BeginEdit, TypeOK, rows, Steps
<1>3. ASSUME NEW o \in Orders, BeginSubmit(s, o) PROVE TypeOK'
  <2>1. [Nothing EXCEPT !.total = po[o].total] \in Copies
    BY NewRowType DEF TypeOK, Copies, Rows
  <2>2. QED
    BY <1>3, <2>1, BeginType DEF BeginSubmit, TypeOK, rows, Steps
<1>4. ASSUME NEW o \in Orders, BeginAct(s, o) PROVE TypeOK'
  <2>1. [Nothing EXCEPT !.inst = po[o].inst] \in Copies
    BY NewRowType DEF TypeOK, Copies, Rows
  <2>2. QED
    BY <1>4, <2>1, BeginType DEF BeginAct, TypeOK, rows, Steps
<1>5. ASSUME NEW o \in Orders, BeginRelease(s, o) PROVE TypeOK'
  <2>1. need' \in [Sessions -> BOOLEAN]
    BY <1>5 DEF BeginRelease, NeedsApproval, TypeOK
  <2>2. QED
    BY <1>5, <2>1, NewRowType, BeginType DEF BeginRelease, TypeOK, rows, Steps
<1>6. ASSUME NEW o \in Orders, BeginReceive(s, o) PROVE TypeOK'
  <2>1. [Nothing EXCEPT !.has = po[o].has, !.lines = po[o].lines,
                             !.recd = po[o].recd] \in Copies
    BY NewRowType DEF TypeOK, Copies, Rows
  <2>2. QED
    BY <1>6, <2>1, BeginType DEF BeginReceive, TypeOK, rows, Steps
<1>7. ASSUME Edit(s) PROVE TypeOK'
  <2>1. PICK l \in LineIds : \E q \in 0 .. MaxQty[l] : \E ids \in SUBSET LineIds :
            WriteLine(s, l, q, ids)
    BY <1>7, EditWrites
  <2>2. PICK q \in 0 .. MaxQty[l] : \E ids \in SUBSET LineIds : WriteLine(s, l, q, ids)
    BY <2>1
  <2>3. PICK ids \in SUBSET LineIds : WriteLine(s, l, q, ids)
    BY <2>2
  <2>4. po' \in [Orders -> Rows]
    BY <2>3, WriteType
  <2>5. pc' \in [Sessions -> Steps] /\ view' \in [Sessions -> Copies]
    BY <2>3, NewRowType DEF WriteLine, TypeOK, Steps
  <2>6. QED
    BY <2>3, <2>4, <2>5 DEF WriteLine, TypeOK
<1>8. ASSUME RecalcRead(s) PROVE TypeOK'
  <2>1. Total(po[at[s]].lines) \in Amounts
    BY <1>1, TotalType DEF Rows
  <2>2. QED
    BY <1>8, <2>1 DEF RecalcRead, TypeOK, rows, Steps
<1>9. ASSUME RecalcWrite(s) PROVE TypeOK'
  <2>1. [po[at[s]] EXCEPT !.total = sum[s]] \in Rows
    BY <1>1 DEF TypeOK, Rows
  <2>2. QED
    BY <1>9, <2>1, CommitType DEF RecalcWrite
<1>10. ASSUME CrashInEdit(s) PROVE TypeOK'
  <2>1. Finish(s) /\ disturbed' \subseteq Orders
    BY <1>1, <1>10 DEF CrashInEdit, TypeOK
  <2>2. QED
    BY <1>10, <2>1, FinishType DEF CrashInEdit, rows, TypeOK
<1>11. ASSUME CommitSubmit(s) PROVE TypeOK'
  <2> DEFINE p == PolicyFor(at[s], view[s].total)
             r == [po[at[s]] EXCEPT
                     !.status = "PENDING_APPROVAL",
                     !.inst = [status |-> "PENDING", step |-> 1, policy |-> p],
                     !.approvals = 0]
  <2>1. p \in PolicyIds \cup {NoPolicy}
    BY PolicyForType DEF TypeOK
  <2>2. r \in Rows
    BY <1>1, <2>1 DEF Rows, Statuses, InstanceStatuses
  <2>3. QED
    BY <1>11, <2>2, CommitType DEF CommitSubmit
<1>12. ASSUME Approve(s) PROVE TypeOK'
  <2>0. po[at[s]].approvals + 1 \in Nat /\ view[s].inst.step + 1 \in Nat
    BY <1>1 DEF Rows, Copies
  <2>1. [po[at[s]] EXCEPT !.status = "APPROVED",
                          !.inst = [@ EXCEPT !.status = "APPROVED"],
                          !.approvals = @ + 1] \in Rows
    BY <1>1, <2>0 DEF Rows, Statuses, InstanceStatuses
  <2>2. [po[at[s]] EXCEPT !.inst = [@ EXCEPT !.step = view[s].inst.step + 1],
                          !.approvals = @ + 1] \in Rows
    BY <1>1, <2>0 DEF Rows
  <2>3. QED
    BY <1>12, <2>1, <2>2, CommitType DEF Approve
<1>13. ASSUME Reject(s) PROVE TypeOK'
  <2>1. [po[at[s]] EXCEPT !.status = "REJECTED",
                          !.inst = [@ EXCEPT !.status = "REJECTED"]] \in Rows
    BY <1>1 DEF Rows, Statuses, InstanceStatuses
  <2>2. QED
    BY <1>13, <2>1, CommitType DEF Reject
<1>14. ASSUME RequestChanges(s) PROVE TypeOK'
  <2>1. [po[at[s]] EXCEPT !.status = "DRAFT",
                          !.inst = [@ EXCEPT !.status = "CHANGES_REQUESTED"]] \in Rows
    BY <1>1 DEF Rows, Statuses, InstanceStatuses
  <2>2. QED
    BY <1>14, <2>1, CommitType DEF RequestChanges
<1>15. ASSUME CommitRelease(s) PROVE TypeOK'
  <2>1. [po[at[s]] EXCEPT !.status = "OPEN"] \in Rows
    BY <1>1 DEF Rows, Statuses
  <2>2. QED
    BY <1>15, <2>1, CommitType DEF CommitRelease
<1>16. ASSUME NEW qty \in LineMaps, NEW defaults \in SUBSET LineIds,
              CommitReceive(s, qty, defaults)
       PROVE  TypeOK'
  <2> DEFINE row == po[at[s]]
             mine == Received(LineIds, qty)
             recd == [l \in LineIds |-> row.recd[l] + qty[l]]
             col == [l \in LineIds |-> IF l \in mine THEN view[s].recd[l] + qty[l]
                                       ELSE row.lineRecd[l]]
             st == IF Fully(view[s].lines, recd) THEN "RECEIVED" ELSE "PARTIALLY_RECEIVED"
             r == [row EXCEPT !.recd = recd, !.lineRecd = col,
                              !.defaultLot = row.defaultLot \cup defaults, !.status = st]
  <2>1. qty \in [LineIds -> Nat]
    BY LineMapType
  <2>2. recd \in [LineIds -> Nat] /\ col \in [LineIds -> Nat]
    BY <1>1, <2>1 DEF Rows, Copies
  <2>3. st \in Statuses
    BY DEF Statuses
  <2>4. r \in Rows
    <3> HIDE DEF recd, col, st
    <3> QED BY <1>1, <2>2, <2>3 DEF Rows
  <2>5. Commit(s, r)
    BY <1>16 DEF CommitReceive
  <2>6. QED
    BY <2>4, <2>5, CommitType
<1>17. ASSUME Rollback(s) PROVE TypeOK'
  BY <1>17, FinishType DEF Rollback, rows, TypeOK
<1>18. QED
  BY <1>2, <1>3, <1>4, <1>5, <1>6, <1>7, <1>8, <1>9, <1>10, <1>11, <1>12, <1>13,
     <1>14, <1>15, <1>16, <1>17 DEF Request, Receive

LEMMA InitTypes == Init => TypeOK
<1>1. NewRow.total \in Amounts
  BY LineMapType, TotalType DEF NewRow
<1>2. 0 \in 0 .. MaxPolicies
  BY PurchaseAssumption
<1> SUFFICES ASSUME Init PROVE TypeOK
  OBVIOUS
<1>3. po \in [Orders -> Rows] /\ view \in [Sessions -> Copies]
  BY NewRowType DEF Init
<1>4. pc \in [Sessions -> Steps] /\ at \in [Sessions -> Orders]
  BY DEF Init, Steps
<1>5. sum \in [Sessions -> Amounts] /\ need \in [Sessions -> BOOLEAN]
  BY <1>1 DEF Init
<1>6. QED
  BY <1>2, <1>3, <1>4, <1>5 DEF Init, TypeOK

LEMMA NextTypes == TypeOK /\ [Next]_vars => TypeOK'
<1> SUFFICES ASSUME TypeOK, [Next]_vars PROVE TypeOK'
  OBVIOUS
<1>1. CASE CreatePolicy
  BY <1>1, PurchaseAssumption DEF CreatePolicy, TypeOK
<1>2. CASE SetApprovalFlag
  BY <1>2 DEF SetApprovalFlag, TypeOK
<1>3. ASSUME NEW o \in Orders, CreateOrder(o) PROVE TypeOK'
  <2>1. po[o] \in Rows /\ lastNumber + 1 \in Nat
    BY DEF TypeOK
  <2>2. [po[o] EXCEPT !.status = "DRAFT", !.number = lastNumber + 1] \in Rows
    BY <2>1 DEF Rows, Statuses
  <2>3. QED
    BY <1>3, <2>1, <2>2 DEF CreateOrder, TypeOK
<1>4. ASSUME NEW s \in Sessions, Request(s) PROVE TypeOK'
  BY <1>4, RequestType
<1>5. CASE UNCHANGED vars
  BY <1>5 DEF vars, rows, TypeOK
<1>6. QED
  BY <1>1, <1>2, <1>3, <1>4, <1>5 DEF Next

(* Every reachable state has the types of TypeOK. *)
THEOREM TypeCorrect == Spec => []TypeOK
<1>1. QED
  BY InitTypes, NextTypes, PTL DEF Spec

-----------------------------------------------------------------------------
(* The inductive invariant.  The properties of an undisturbed order hold    *)
(* because one request at most is at work on it (Sole), so that what the    *)
(* request read at its first step is still so (Fresh) when it commits.      *)

Sole ==
    \A o \in Undisturbed : \A s, t \in Sessions : Busy(s, o) /\ Busy(t, o) => s = t

FreshOf(s) ==
    LET row == po[at[s]] IN
    /\ pc[s] \in {"edit", "sum", "total", "submit"} => row.status = "DRAFT"
    /\ pc[s] = "total" => sum[s] = Total(row.lines)
    /\ pc[s] = "submit" => view[s].total = row.total
    /\ pc[s] = "act" => row.status = "PENDING_APPROVAL" /\ view[s].inst = row.inst
    /\ pc[s] = "release" => row.status \in {"DRAFT", "APPROVED"}
    /\ pc[s] = "receive" => /\ row.status \in {"OPEN", "PARTIALLY_RECEIVED"}
                            /\ view[s].lines = row.lines
                            /\ view[s].recd = row.recd
Fresh == \A s \in Sessions : at[s] \in Undisturbed => FreshOf(s)

(* What every row of an undisturbed order satisfies: the parts the          *)
(* properties state, and what makes them inductive.  A submitted order has  *)
(* a policy that covers it, and its step counts the approvals it has.       *)
Covers(o, p, amount) ==
    /\ p \in PolicyIds
    /\ o \in PolicyDef[p].scope
    /\ PolicyDef[p].min <= amount
    /\ amount <= PolicyDef[p].max

InstanceOK(row) ==
    /\ (row.status = "PENDING_APPROVAL") <=> (row.inst.status = "PENDING")
    /\ (row.status = "REJECTED") <=> (row.inst.status = "REJECTED")
    /\ row.status = "APPROVED" => row.inst.status = "APPROVED"
    /\ row.status = "DRAFT" => row.inst.status \in {"NONE", "CHANGES_REQUESTED"}
    /\ row.status = "NONE" => row.inst.status = "NONE"

ApprovalOK(o, row) ==
    /\ row.status = "PENDING_APPROVAL" =>
          /\ Covers(o, row.inst.policy, Total(row.lines))
          /\ row.inst.step = row.approvals + 1
          /\ row.inst.step <= PolicyDef[row.inst.policy].steps
    /\ row.status = "APPROVED" =>
          /\ Covers(o, row.inst.policy, Total(row.lines))
          /\ row.approvals = PolicyDef[row.inst.policy].steps
          /\ row.approvals > 0

ReceiptOK(row) ==
    /\ \A l \in LineIds : row.recd[l] <= row.lines[l]
    /\ row.lineRecd = row.recd
    /\ row.status = "RECEIVED" => row.recd = row.lines
    /\ row.status = "PARTIALLY_RECEIVED" => row.recd # row.lines
    /\ (\E l \in LineIds : row.recd[l] > 0)
           => row.status \in {"PARTIALLY_RECEIVED", "RECEIVED"}

RowOK(o, row) == InstanceOK(row) /\ ApprovalOK(o, row) /\ ReceiptOK(row)

IInv ==
    /\ TypeOK
    /\ Sole
    /\ Fresh
    /\ \A o \in Undisturbed : RowOK(o, po[o])
    /\ TotalAgrees

(* The invariant implies the properties of the rows. *)
LEMMA IInvImplies ==
    IInv => InstanceAgrees /\ ApprovalEarned /\ ReceiptAgrees /\ TotalAgrees
<1> SUFFICES ASSUME IInv PROVE InstanceAgrees /\ ApprovalEarned /\ ReceiptAgrees
  BY DEF IInv
<1>1. InstanceAgrees
  BY DEF IInv, RowOK, InstanceOK, InstanceAgrees
<1>2. ApprovalEarned
  <2> SUFFICES ASSUME NEW o \in Undisturbed, po[o].status = "APPROVED"
               PROVE  LET row == po[o]  p == row.inst.policy IN
                      /\ p # NoPolicy
                      /\ row.approvals = PolicyDef[p].steps /\ row.approvals > 0
                      /\ o \in PolicyDef[p].scope
                      /\ PolicyDef[p].min <= Total(row.lines)
                      /\ Total(row.lines) <= PolicyDef[p].max
    BY DEF ApprovalEarned
  <2>1. ApprovalOK(o, po[o])
    BY DEF IInv, RowOK
  <2>2. po[o].inst.policy # NoPolicy
    BY <2>1 DEF ApprovalOK, Covers, PolicyIds, NoPolicy
  <2>3. QED
    BY <2>1, <2>2 DEF ApprovalOK, Covers
<1>3. ReceiptAgrees
  BY DEF IInv, RowOK, ReceiptOK, ReceiptAgrees
<1>4. QED
  BY <1>1, <1>2, <1>3

-----------------------------------------------------------------------------
(* How the three kinds of step preserve the invariant. *)

(* While s is at work on an undisturbed order, no other request is. *)
LEMMA Alone ==
    ASSUME IInv, NEW s \in Sessions, pc[s] # "idle", at[s] \in Undisturbed,
           NEW t \in Sessions, t # s
    PROVE  ~Busy(t, at[s])
  BY DEF IInv, Sole, Busy

(* A first step that copies nothing stale and touches no row. *)
LEMMA BeginKeeps ==
    ASSUME IInv, TypeOK', NEW s \in Sessions, NEW o \in Orders,
           NEW step \in Steps \ {"sum", "total"}, NEW copy,
           Begin(s, o, step, copy), po' = po, sum' = sum,
           o \in Undisturbed => FreshOf(s)'
    PROVE  IInv'
<1>1. /\ pc[s] = "idle" /\ at'[s] = o /\ pc'[s] = step
      /\ \A t \in Sessions \ {s} :
            at'[t] = at[t] /\ pc'[t] = pc[t] /\ view'[t] = view[t]
  BY DEF Begin, IInv, TypeOK
<1>2. Undisturbed' \subseteq Undisturbed
  BY DEF Begin, Undisturbed
<1>3. o \in Undisturbed' => \A t \in Sessions \ {s} : ~Busy(t, o)
  BY DEF Begin, Undisturbed
<1>4. Sole'
  BY <1>1, <1>2, <1>3 DEF IInv, Sole, Busy
<1>5. Fresh'
  <2> SUFFICES ASSUME NEW t \in Sessions, at'[t] \in Undisturbed' PROVE FreshOf(t)'
    BY DEF Fresh
  <2>1. CASE t = s
    BY <1>1, <1>2, <2>1
  <2>2. CASE t # s
    <3>1. FreshOf(t)
      BY <1>1, <1>2, <2>2 DEF IInv, Fresh
    <3>2. QED
      BY <1>1, <2>2, <3>1 DEF FreshOf
  <2>3. QED
    BY <2>1, <2>2
<1>6. (\A q \in Undisturbed : RowOK(q, po[q]))'
  BY <1>2 DEF IInv
<1>7. TotalAgrees'
  <2> SUFFICES ASSUME NEW q \in Undisturbed',
                      \A t \in Sessions : ~(Busy(t, q)' /\ pc'[t] \in {"sum", "total"})
               PROVE  po[q].total = Total(po[q].lines)
    BY DEF TotalAgrees
  <2>1. \A t \in Sessions : ~(Busy(t, q) /\ pc[t] \in {"sum", "total"})
    BY <1>1 DEF Busy
  <2>2. QED
    BY <1>2, <2>1 DEF IInv, TotalAgrees
<1>8. QED
  BY <1>4, <1>5, <1>6, <1>7 DEF IInv

(* A last step that leaves the order's row as it should be. *)
LEMMA CommitKeeps ==
    ASSUME IInv, NEW s \in Sessions, pc[s] # "idle", NEW r \in Rows, Commit(s, r),
           at[s] \in Undisturbed => RowOK(at[s], r) /\ r.total = Total(r.lines)
    PROVE  IInv'
<1>0. TypeOK /\ at[s] \in Orders
  BY DEF IInv, TypeOK
<1>1. TypeOK'
  BY <1>0, CommitType
<1>2. /\ at' = at /\ pc'[s] = "idle" /\ Undisturbed' = Undisturbed
      /\ po'[at[s]] = r
      /\ \A o \in Orders \ {at[s]} : po'[o] = po[o]
      /\ \A t \in Sessions \ {s} :
            pc'[t] = pc[t] /\ view'[t] = view[t] /\ sum'[t] = sum[t]
  BY <1>0 DEF Commit, Finish, TypeOK, Undisturbed
<1>3. Sole'
  BY <1>2 DEF IInv, Sole, Busy
<1>4. Fresh'
  <2> SUFFICES ASSUME NEW t \in Sessions, at[t] \in Undisturbed PROVE FreshOf(t)'
    BY <1>2 DEF Fresh
  <2>1. CASE pc'[t] = "idle"
    BY <2>1 DEF FreshOf
  <2>2. CASE pc'[t] # "idle"
    <3>1. t # s
      BY <1>2, <2>2
    <3>2. at[t] # at[s]
      BY <1>2, <2>2, <3>1, Alone DEF Busy
    <3>3. po'[at[t]] = po[at[t]]
      BY <1>2, <3>2 DEF Undisturbed
    <3>4. FreshOf(t)
      BY DEF IInv, Fresh
    <3>5. QED
      BY <1>2, <3>1, <3>3, <3>4 DEF FreshOf
  <2>3. QED
    BY <2>1, <2>2
<1>5. (\A o \in Undisturbed : RowOK(o, po[o]))'
  BY <1>2 DEF IInv, Undisturbed
<1>6. TotalAgrees'
  <2> SUFFICES ASSUME NEW o \in Undisturbed,
                      \A t \in Sessions : ~(Busy(t, o)' /\ pc'[t] \in {"sum", "total"})
               PROVE  po'[o].total = Total(po'[o].lines)
    BY <1>2 DEF TotalAgrees
  <2>1. CASE o = at[s]
    BY <1>2, <2>1
  <2>2. CASE o # at[s]
    <3>1. \A t \in Sessions : ~(Busy(t, o) /\ pc[t] \in {"sum", "total"})
      BY <1>2, <2>2 DEF Busy
    <3>2. QED
      BY <1>2, <2>2, <3>1 DEF IInv, TotalAgrees, Undisturbed
  <2>3. QED
    BY <2>1, <2>2
<1>7. QED
  BY <1>1, <1>3, <1>4, <1>5, <1>6 DEF IInv

(* A request past its first step that is not between the statements of a    *)
(* line edit sees a settled total.                                          *)
LEMMA Settled ==
    ASSUME IInv, NEW s \in Sessions, at[s] \in Undisturbed,
           pc[s] \notin {"idle", "sum", "total"}
    PROVE  po[at[s]].total = Total(po[at[s]].lines)
<1>1. \A t \in Sessions : ~(Busy(t, at[s]) /\ pc[t] \in {"sum", "total"})
  BY Alone
<1>2. QED
  BY <1>1 DEF IInv, TotalAgrees

-----------------------------------------------------------------------------
(* Every request step preserves the invariant. *)

LEMMA BeginsKeep ==
    ASSUME IInv, TypeOK', NEW s \in Sessions, NEW o \in Orders,
           \/ BeginEdit(s, o) \/ BeginSubmit(s, o) \/ BeginAct(s, o)
           \/ BeginRelease(s, o) \/ BeginReceive(s, o)
    PROVE  IInv'
<1>0. TypeOK /\ Nothing \in Copies
  BY NewRowType DEF IInv
<1>1. ASSUME NEW step \in Steps \ {"sum", "total"}, NEW copy, Begin(s, o, step, copy)
      PROVE  pc'[s] = step /\ at'[s] = o /\ view'[s] = copy
  BY <1>0, <1>1 DEF Begin, TypeOK
<1>2. {"edit", "submit", "act", "release", "receive"} \subseteq Steps \ {"sum", "total"}
  BY DEF Steps
<1>3. CASE BeginEdit(s, o)
  <2> DEFINE copy == [Nothing EXCEPT !.has = po[o].has]
  <2>1. Begin(s, o, "edit", copy) /\ po' = po /\ sum' = sum /\ po[o].status = "DRAFT"
    BY <1>3 DEF BeginEdit, rows
  <2>2. pc'[s] = "edit" /\ at'[s] = o
    BY <1>1, <1>2, <2>1
  <2>3. FreshOf(s)'
    BY <2>1, <2>2 DEF FreshOf
  <2>4. QED
    BY <1>2, <2>1, <2>3, BeginKeeps
<1>4. CASE BeginSubmit(s, o)
  <2> DEFINE copy == [Nothing EXCEPT !.total = po[o].total]
  <2>1. Begin(s, o, "submit", copy) /\ po' = po /\ sum' = sum /\ po[o].status = "DRAFT"
    BY <1>4 DEF BeginSubmit, rows
  <2>2. pc'[s] = "submit" /\ at'[s] = o /\ view'[s] = copy
    BY <1>1, <1>2, <2>1
  <2>3. copy.total = po[o].total
    BY <1>0 DEF Copies
  <2>4. FreshOf(s)'
    BY <2>1, <2>2, <2>3 DEF FreshOf
  <2>5. QED
    BY <1>2, <2>1, <2>4, BeginKeeps
<1>5. CASE BeginAct(s, o)
  <2> DEFINE copy == [Nothing EXCEPT !.inst = po[o].inst]
  <2>1. /\ Begin(s, o, "act", copy) /\ po' = po /\ sum' = sum
        /\ po[o].status = "PENDING_APPROVAL"
    BY <1>5 DEF BeginAct, rows
  <2>2. pc'[s] = "act" /\ at'[s] = o /\ view'[s] = copy
    BY <1>1, <1>2, <2>1
  <2>3. copy.inst = po[o].inst
    BY <1>0 DEF Copies
  <2>4. FreshOf(s)'
    BY <2>1, <2>2, <2>3 DEF FreshOf
  <2>5. QED
    BY <1>2, <2>1, <2>4, BeginKeeps
<1>6. CASE BeginRelease(s, o)
  <2>1. /\ Begin(s, o, "release", Nothing) /\ po' = po /\ sum' = sum
        /\ po[o].status \in {"DRAFT", "APPROVED"}
    BY <1>6 DEF BeginRelease, rows
  <2>2. pc'[s] = "release" /\ at'[s] = o
    BY <1>1, <1>2, <2>1
  <2>3. FreshOf(s)'
    BY <2>1, <2>2 DEF FreshOf
  <2>4. QED
    BY <1>2, <2>1, <2>3, BeginKeeps
<1>7. CASE BeginReceive(s, o)
  <2> DEFINE copy == [Nothing EXCEPT !.has = po[o].has, !.lines = po[o].lines,
                             !.recd = po[o].recd]
  <2>1. /\ Begin(s, o, "receive", copy) /\ po' = po /\ sum' = sum
        /\ po[o].status \in {"OPEN", "PARTIALLY_RECEIVED"}
    BY <1>7 DEF BeginReceive, rows
  <2>2. pc'[s] = "receive" /\ at'[s] = o /\ view'[s] = copy
    BY <1>1, <1>2, <2>1
  <2>3. copy.lines = po[o].lines /\ copy.recd = po[o].recd
    BY <1>0 DEF Copies
  <2>4. FreshOf(s)'
    BY <2>1, <2>2, <2>3 DEF FreshOf
  <2>5. QED
    BY <1>2, <2>1, <2>4, BeginKeeps
<1>8. QED
  BY <1>3, <1>4, <1>5, <1>6, <1>7

(* The steps of a line edit: only a draft's lines change. *)
LEMMA EditKeeps ==
    ASSUME IInv, TypeOK', NEW s \in Sessions, Edit(s)
    PROVE  IInv'
<1>0. TypeOK /\ at[s] \in Orders
  BY DEF IInv, TypeOK
<1>1. PICK l \in LineIds : \E q \in 0 .. MaxQty[l] : \E ids \in SUBSET LineIds :
          WriteLine(s, l, q, ids)
  BY <1>0, EditWrites
<1>1a. PICK q \in 0 .. MaxQty[l] : \E ids \in SUBSET LineIds : WriteLine(s, l, q, ids)
  BY <1>1
<1>1b. PICK ids \in SUBSET LineIds : WriteLine(s, l, q, ids)
  BY <1>1a
<1>2. pc[s] = "edit"
  BY <1>0, EditWrites
<1>3. /\ at' = at /\ Undisturbed' = Undisturbed /\ sum' = sum
      /\ pc'[s] = "sum"
      /\ \A o \in Orders \ {at[s]} : po'[o] = po[o]
      /\ \A t \in Sessions \ {s} : pc'[t] = pc[t] /\ view'[t] = view[t]
  <2>1. at' = at /\ Undisturbed' = Undisturbed /\ sum' = sum
    BY <1>1b DEF WriteLine, Undisturbed
  <2>2. pc'[s] = "sum" /\ \A t \in Sessions \ {s} : pc'[t] = pc[t]
    BY <1>0, <1>1b DEF WriteLine, TypeOK
  <2>3. \A o \in Orders \ {at[s]} : po'[o] = po[o]
    BY <1>0, <1>1b DEF WriteLine, TypeOK
  <2>4. \A t \in Sessions \ {s} : view'[t] = view[t]
    BY <1>0, <1>1b DEF WriteLine, TypeOK
  <2>5. QED
    BY <2>1, <2>2, <2>3, <2>4
<1>4. /\ po'[at[s]].status = po[at[s]].status
      /\ po'[at[s]].inst = po[at[s]].inst
      /\ po'[at[s]].recd = po[at[s]].recd
      /\ po'[at[s]].lineRecd = po[at[s]].lineRecd
      /\ po'[at[s]].lines \in [LineIds -> Nat]
      /\ po[at[s]].recd \in [LineIds -> Nat]
  <2>1. po[at[s]] \in Rows /\ po'[at[s]] \in Rows
    BY <1>0, <1>1b, WriteType DEF TypeOK
  <2>2. QED
    BY <1>0, <1>1b, <2>1, LineMapType, WriteType DEF Rows
<1>5. at[s] \in Undisturbed => po[at[s]].status = "DRAFT" /\ RowOK(at[s], po[at[s]])
  BY <1>2 DEF IInv, Fresh, FreshOf
<1>6. at[s] \in Undisturbed => RowOK(at[s], po'[at[s]])
  <2> SUFFICES ASSUME at[s] \in Undisturbed PROVE RowOK(at[s], po'[at[s]])
    OBVIOUS
  <2>1. InstanceOK(po'[at[s]]) /\ ApprovalOK(at[s], po'[at[s]])
    BY <1>4, <1>5 DEF RowOK, InstanceOK, ApprovalOK
  <2>2. \A k \in LineIds : po[at[s]].recd[k] = 0
    BY <1>4, <1>5 DEF RowOK, ReceiptOK
  <2>3. ReceiptOK(po'[at[s]])
    BY <1>4, <1>5, <2>2 DEF RowOK, ReceiptOK
  <2>4. QED
    BY <2>1, <2>3 DEF RowOK
<1>7. Sole'
  BY <1>2, <1>3 DEF IInv, Sole, Busy
<1>8. Fresh'
  <2> SUFFICES ASSUME NEW t \in Sessions, at[t] \in Undisturbed PROVE FreshOf(t)'
    BY <1>3 DEF Fresh
  <2>1. CASE t = s
    BY <1>3, <1>4, <1>5, <2>1 DEF FreshOf
  <2>2. CASE t # s /\ pc[t] = "idle"
    BY <1>3, <2>2 DEF FreshOf
  <2>3. CASE t # s /\ pc[t] # "idle"
    <3>1. at[t] # at[s]
      BY <1>2, <2>3, Alone DEF Busy
    <3>2. po'[at[t]] = po[at[t]]
      BY <1>3, <3>1 DEF Undisturbed
    <3>3. FreshOf(t)
      BY DEF IInv, Fresh
    <3>4. QED
      BY <1>3, <2>3, <3>2, <3>3 DEF FreshOf
  <2>4. QED
    BY <2>1, <2>2, <2>3
<1>9. (\A o \in Undisturbed : RowOK(o, po[o]))'
  BY <1>3, <1>6 DEF IInv, Undisturbed
<1>10. TotalAgrees'
  <2> SUFFICES ASSUME NEW o \in Undisturbed,
                      \A t \in Sessions : ~(Busy(t, o)' /\ pc'[t] \in {"sum", "total"})
               PROVE  po'[o].total = Total(po'[o].lines)
    BY <1>3 DEF TotalAgrees
  <2>1. o # at[s]
    BY <1>3 DEF Busy
  <2>2. \A t \in Sessions : ~(Busy(t, o) /\ pc[t] \in {"sum", "total"})
    BY <1>3, <2>1 DEF Busy
  <2>3. QED
    BY <1>3, <2>1, <2>2 DEF IInv, TotalAgrees, Undisturbed
<1>11. QED
  BY <1>7, <1>8, <1>9, <1>10 DEF IInv

LEMMA RecalcReadKeeps ==
    ASSUME IInv, TypeOK', NEW s \in Sessions, RecalcRead(s)
    PROVE  IInv'
<1>0. TypeOK
  BY DEF IInv
<1>1. /\ po' = po /\ at' = at /\ view' = view /\ Undisturbed' = Undisturbed
      /\ pc[s] = "sum" /\ pc'[s] = "total" /\ sum'[s] = Total(po[at[s]].lines)
      /\ \A t \in Sessions \ {s} : pc'[t] = pc[t] /\ sum'[t] = sum[t]
  BY <1>0 DEF RecalcRead, rows, TypeOK, Undisturbed
<1>2. Sole'
  BY <1>1 DEF IInv, Sole, Busy
<1>3. Fresh'
  <2> SUFFICES ASSUME NEW t \in Sessions, at[t] \in Undisturbed PROVE FreshOf(t)'
    BY <1>1 DEF Fresh
  <2>1. FreshOf(t)
    BY DEF IInv, Fresh
  <2>2. CASE t = s
    BY <1>1, <2>1, <2>2 DEF FreshOf
  <2>3. CASE t # s
    BY <1>1, <2>1, <2>3 DEF FreshOf
  <2>4. QED
    BY <2>2, <2>3
<1>4. (\A o \in Undisturbed : RowOK(o, po[o]))'
  BY <1>1 DEF IInv
<1>5. TotalAgrees'
  <2> SUFFICES ASSUME NEW o \in Undisturbed,
                      \A t \in Sessions : ~(Busy(t, o)' /\ pc'[t] \in {"sum", "total"})
               PROVE  po[o].total = Total(po[o].lines)
    BY <1>1 DEF TotalAgrees
  <2>1. \A t \in Sessions : ~(Busy(t, o) /\ pc[t] \in {"sum", "total"})
    BY <1>1 DEF Busy
  <2>2. QED
    BY <2>1 DEF IInv, TotalAgrees
<1>6. QED
  BY <1>2, <1>3, <1>4, <1>5 DEF IInv

(* A crash that leaves an edit half done takes its order out of the claim. *)
LEMMA CrashKeeps ==
    ASSUME IInv, TypeOK', NEW s \in Sessions, CrashInEdit(s)
    PROVE  IInv'
<1>0. TypeOK
  BY DEF IInv
<1>1. /\ po' = po /\ at' = at /\ pc'[s] = "idle"
      /\ Undisturbed' = Undisturbed \ {at[s]}
      /\ \A t \in Sessions \ {s} :
            pc'[t] = pc[t] /\ view'[t] = view[t] /\ sum'[t] = sum[t]
  BY <1>0 DEF CrashInEdit, Finish, rows, TypeOK, Undisturbed
<1>2. Sole'
  BY <1>1 DEF IInv, Sole, Busy
<1>3. Fresh'
  <2> SUFFICES ASSUME NEW t \in Sessions, at[t] \in Undisturbed, t # s PROVE FreshOf(t)'
    BY <1>1 DEF Fresh
  <2>1. FreshOf(t)
    BY DEF IInv, Fresh
  <2>2. QED
    BY <1>1, <2>1 DEF FreshOf
<1>4. (\A o \in Undisturbed : RowOK(o, po[o]))'
  BY <1>1 DEF IInv
<1>5. TotalAgrees'
  <2> SUFFICES ASSUME NEW o \in Undisturbed, o # at[s],
                      \A t \in Sessions : ~(Busy(t, o)' /\ pc'[t] \in {"sum", "total"})
               PROVE  po[o].total = Total(po[o].lines)
    BY <1>1 DEF TotalAgrees
  <2>1. \A t \in Sessions : ~(Busy(t, o) /\ pc[t] \in {"sum", "total"})
    BY <1>1 DEF Busy
  <2>2. QED
    BY <2>1 DEF IInv, TotalAgrees
<1>6. QED
  BY <1>2, <1>3, <1>4, <1>5 DEF IInv

(* What a committing request still finds true of an undisturbed order. *)
LEMMA CommitFinds ==
    ASSUME IInv, NEW s \in Sessions, at[s] \in Undisturbed,
           pc[s] \in {"edit", "submit", "act", "release", "receive"}
    PROVE  /\ po[at[s]] \in Rows /\ view[s] \in Copies
           /\ FreshOf(s)
           /\ RowOK(at[s], po[at[s]])
           /\ po[at[s]].total = Total(po[at[s]].lines)
<1>1. po[at[s]] \in Rows /\ view[s] \in Copies
  BY DEF IInv, TypeOK
<1>2. FreshOf(s) /\ RowOK(at[s], po[at[s]])
  BY DEF IInv, Fresh
<1>3. po[at[s]].total = Total(po[at[s]].lines)
  BY Settled
<1>4. QED
  BY <1>1, <1>2, <1>3

LEMMA RecalcWriteKeeps ==
    ASSUME IInv, NEW s \in Sessions, RecalcWrite(s)
    PROVE  IInv'
<1> DEFINE r == [po[at[s]] EXCEPT !.total = sum[s]]
<1>1. po[at[s]] \in Rows /\ sum[s] \in Amounts /\ at[s] \in Orders
  BY DEF IInv, TypeOK
<1>2. /\ r \in Rows /\ r.total = sum[s]
      /\ r.status = po[at[s]].status /\ r.inst = po[at[s]].inst
      /\ r.approvals = po[at[s]].approvals /\ r.lines = po[at[s]].lines
      /\ r.recd = po[at[s]].recd /\ r.lineRecd = po[at[s]].lineRecd
  BY <1>1 DEF Rows
<1>3. pc[s] = "total" /\ Commit(s, r)
  BY DEF RecalcWrite
<1> HIDE DEF r
<1>4. ASSUME at[s] \in Undisturbed
      PROVE  RowOK(at[s], r) /\ r.total = Total(r.lines)
  <2>1. RowOK(at[s], po[at[s]]) /\ sum[s] = Total(po[at[s]].lines)
    BY <1>3, <1>4 DEF IInv, Fresh, FreshOf
  <2>2. QED
    BY <1>2, <2>1 DEF RowOK, InstanceOK, ApprovalOK, ReceiptOK
<1>5. QED
  BY <1>2, <1>3, <1>4, CommitKeeps

LEMMA SubmitKeeps ==
    ASSUME IInv, NEW s \in Sessions, CommitSubmit(s)
    PROVE  IInv'
<1> DEFINE p == PolicyFor(at[s], view[s].total)
           r == [po[at[s]] EXCEPT
                   !.status = "PENDING_APPROVAL",
                   !.inst = [status |-> "PENDING", step |-> 1, policy |-> p],
                   !.approvals = 0]
<1>0. pc[s] = "submit" /\ p # NoPolicy /\ StepsOf(p) > 0 /\ Commit(s, r)
  BY DEF CommitSubmit
<1>1. po[at[s]] \in Rows /\ at[s] \in Orders
  BY DEF IInv, TypeOK
<1>2. Covers(at[s], p, view[s].total)
  BY <1>0, PolicyForType DEF IInv, TypeOK, Covers
<1>3. StepsOf(p) = PolicyDef[p].steps /\ PolicyDef[p].steps \in Nat
  BY <1>0, <1>2, PurchaseAssumption DEF StepsOf, Covers
<1> HIDE DEF p
<1>4. /\ r \in Rows
      /\ r.status = "PENDING_APPROVAL" /\ r.approvals = 0
      /\ r.inst = [status |-> "PENDING", step |-> 1, policy |-> p]
      /\ r.lines = po[at[s]].lines /\ r.total = po[at[s]].total
      /\ r.recd = po[at[s]].recd /\ r.lineRecd = po[at[s]].lineRecd
  BY <1>1, <1>2 DEF Rows, Statuses, InstanceStatuses, Covers
<1> HIDE DEF r
<1>5. ASSUME at[s] \in Undisturbed
      PROVE  RowOK(at[s], r) /\ r.total = Total(r.lines)
  <2>1. /\ FreshOf(s) /\ RowOK(at[s], po[at[s]])
        /\ po[at[s]].total = Total(po[at[s]].lines)
    BY <1>0, <1>5, CommitFinds
  <2>2. po[at[s]].status = "DRAFT" /\ view[s].total = Total(r.lines)
    BY <1>0, <1>4, <2>1 DEF FreshOf
  <2>3. InstanceOK(r)
    BY <1>4 DEF InstanceOK
  <2>4. ApprovalOK(at[s], r)
    BY <1>0, <1>2, <1>3, <1>4, <2>2 DEF ApprovalOK
  <2>5. ReceiptOK(r)
    BY <1>4, <2>1, <2>2 DEF RowOK, ReceiptOK
  <2>6. QED
    BY <1>4, <2>1, <2>3, <2>4, <2>5 DEF RowOK
<1>6. QED
  BY <1>0, <1>4, <1>5, CommitKeeps

(* The three ways an approver acts. *)
LEMMA ActKeeps ==
    ASSUME IInv, NEW s \in Sessions, Approve(s) \/ Reject(s) \/ RequestChanges(s)
    PROVE  IInv'
<1> DEFINE row == po[at[s]]
<1>0. pc[s] = "act"
  BY DEF Approve, Reject, RequestChanges
<1>1. row \in Rows /\ view[s] \in Copies /\ at[s] \in Orders
  BY DEF IInv, TypeOK
(* Rows that differ from row in status, instance and approvals only. *)
<1>2. ASSUME NEW r \in Rows, Commit(s, r),
             /\ r.total = row.total /\ r.lines = row.lines
             /\ r.recd = row.recd /\ r.lineRecd = row.lineRecd,
             r.status \notin {"RECEIVED", "PARTIALLY_RECEIVED"},
             InstanceOK(r),
             (/\ FreshOf(s) /\ ApprovalOK(at[s], row)
              /\ row.status = "PENDING_APPROVAL") => ApprovalOK(at[s], r)
      PROVE  IInv'
  <2>1. ASSUME at[s] \in Undisturbed
        PROVE  RowOK(at[s], r) /\ r.total = Total(r.lines)
    <3>1. /\ FreshOf(s) /\ RowOK(at[s], row) /\ row.total = Total(row.lines)
          /\ row.status = "PENDING_APPROVAL"
      BY <1>0, <2>1, CommitFinds DEF FreshOf
    <3>2. ReceiptOK(r)
      BY <1>2, <3>1 DEF RowOK, ReceiptOK
    <3>3. QED
      BY <1>2, <3>1, <3>2 DEF RowOK
  <2>2. QED
    BY <1>0, <1>2, <2>1, CommitKeeps
<1>3. CASE Reject(s)
  <2> DEFINE r == [row EXCEPT !.status = "REJECTED",
                              !.inst = [row.inst EXCEPT !.status = "REJECTED"]]
  <2>1. Commit(s, r)
    BY <1>3 DEF Reject
  <2>2. /\ r \in Rows /\ r.status = "REJECTED" /\ r.inst.status = "REJECTED"
        /\ r.total = row.total /\ r.lines = row.lines
        /\ r.recd = row.recd /\ r.lineRecd = row.lineRecd
    BY <1>1 DEF Rows, Statuses, InstanceStatuses
  <2> HIDE DEF r
  <2>3. InstanceOK(r) /\ ApprovalOK(at[s], r)
    BY <2>2 DEF InstanceOK, ApprovalOK
  <2>4. QED
    BY <1>2, <2>1, <2>2, <2>3
<1>4. CASE RequestChanges(s)
  <2> DEFINE r == [row EXCEPT !.status = "DRAFT",
                              !.inst = [row.inst EXCEPT !.status = "CHANGES_REQUESTED"]]
  <2>1. Commit(s, r)
    BY <1>4 DEF RequestChanges
  <2>2. /\ r \in Rows /\ r.status = "DRAFT" /\ r.inst.status = "CHANGES_REQUESTED"
        /\ r.total = row.total /\ r.lines = row.lines
        /\ r.recd = row.recd /\ r.lineRecd = row.lineRecd
    BY <1>1 DEF Rows, Statuses, InstanceStatuses
  <2> HIDE DEF r
  <2>3. InstanceOK(r) /\ ApprovalOK(at[s], r)
    BY <2>2 DEF InstanceOK, ApprovalOK
  <2>4. QED
    BY <1>2, <2>1, <2>2, <2>3
<1>5. CASE Approve(s) /\ IsLast(view[s].inst)
  <2> DEFINE r == [row EXCEPT !.status = "APPROVED",
                              !.inst = [row.inst EXCEPT !.status = "APPROVED"],
                              !.approvals = row.approvals + 1]
  <2>0. row.approvals + 1 \in Nat
    BY <1>1 DEF Rows
  <2>1. Commit(s, r)
    BY <1>5 DEF Approve
  <2>2. /\ r \in Rows /\ r.status = "APPROVED" /\ r.inst.status = "APPROVED"
        /\ r.inst.policy = row.inst.policy /\ r.approvals = row.approvals + 1
        /\ r.total = row.total /\ r.lines = row.lines
        /\ r.recd = row.recd /\ r.lineRecd = row.lineRecd
    BY <1>1, <2>0 DEF Rows, Statuses, InstanceStatuses
  <2> HIDE DEF r
  <2>3. InstanceOK(r)
    BY <2>2 DEF InstanceOK
  <2>4. ASSUME FreshOf(s), ApprovalOK(at[s], row), row.status = "PENDING_APPROVAL"
        PROVE  ApprovalOK(at[s], r)
    <3>1. /\ Covers(at[s], row.inst.policy, Total(row.lines))
          /\ row.inst.step = row.approvals + 1
          /\ row.inst.step <= PolicyDef[row.inst.policy].steps
      BY <2>4 DEF ApprovalOK
    <3>2. row.inst.step >= StepsOf(row.inst.policy)
      BY <1>0, <1>5, <2>4 DEF FreshOf, IsLast
    <3>3. /\ StepsOf(row.inst.policy) = PolicyDef[row.inst.policy].steps
          /\ PolicyDef[row.inst.policy].steps \in Nat
      BY <3>1, PurchaseAssumption DEF StepsOf, Covers, PolicyIds, NoPolicy
    <3>4. row.approvals \in Nat /\ row.inst.step \in Nat
      BY <1>1 DEF Rows
    <3>5. r.approvals = PolicyDef[row.inst.policy].steps /\ r.approvals > 0
      BY <2>2, <3>1, <3>2, <3>3, <3>4
    <3>6. QED
      BY <2>2, <3>1, <3>5 DEF ApprovalOK
  <2>5. QED
    BY <1>2, <2>1, <2>2, <2>3, <2>4
<1>6. CASE Approve(s) /\ ~IsLast(view[s].inst)
  <2> DEFINE r == [row EXCEPT !.inst = [row.inst EXCEPT !.step = view[s].inst.step + 1],
                              !.approvals = row.approvals + 1]
  <2>1. Commit(s, r)
    BY <1>6 DEF Approve
  <2>0. view[s].inst.step + 1 \in Nat /\ row.approvals + 1 \in Nat
    BY <1>1 DEF Rows, Copies
  <2>2. /\ r \in Rows /\ r.status = row.status /\ r.inst.status = row.inst.status
        /\ r.inst.policy = row.inst.policy /\ r.inst.step = view[s].inst.step + 1
        /\ r.approvals = row.approvals + 1
        /\ r.total = row.total /\ r.lines = row.lines
        /\ r.recd = row.recd /\ r.lineRecd = row.lineRecd
    BY <1>1, <2>0 DEF Rows
  <2> HIDE DEF r
  <2>3. ASSUME at[s] \in Undisturbed
        PROVE  RowOK(at[s], r) /\ r.total = Total(r.lines)
    <3>1. /\ FreshOf(s) /\ RowOK(at[s], row) /\ row.total = Total(row.lines)
      BY <1>0, <2>3, CommitFinds
    <3>2. row.status = "PENDING_APPROVAL" /\ view[s].inst = row.inst
      BY <1>0, <3>1 DEF FreshOf
    <3>3. /\ Covers(at[s], row.inst.policy, Total(row.lines))
          /\ row.inst.step = row.approvals + 1
          /\ row.inst.step <= PolicyDef[row.inst.policy].steps
      BY <3>1, <3>2 DEF RowOK, ApprovalOK
    <3>4. ~(row.inst.step >= StepsOf(row.inst.policy))
      BY <1>6, <3>2 DEF IsLast
    <3>5. /\ StepsOf(row.inst.policy) = PolicyDef[row.inst.policy].steps
          /\ PolicyDef[row.inst.policy].steps \in Nat
      BY <3>3, PurchaseAssumption DEF StepsOf, Covers, PolicyIds, NoPolicy
    <3>6. row.approvals \in Nat /\ row.inst.step \in Nat
      BY <1>1 DEF Rows
    <3>7. /\ r.inst.step = r.approvals + 1
          /\ r.inst.step <= PolicyDef[r.inst.policy].steps
      BY <2>2, <3>2, <3>3, <3>4, <3>5, <3>6
    <3>8. ApprovalOK(at[s], r)
      BY <2>2, <3>2, <3>3, <3>7 DEF ApprovalOK
    <3>9. InstanceOK(r) /\ ReceiptOK(r)
      BY <2>2, <3>1 DEF RowOK, InstanceOK, ReceiptOK
    <3>10. QED
      BY <2>2, <3>1, <3>8, <3>9 DEF RowOK
  <2>4. QED
    BY <1>0, <2>1, <2>2, <2>3, CommitKeeps
<1>7. QED
  BY <1>3, <1>4, <1>5, <1>6

LEMMA ReleaseKeeps ==
    ASSUME IInv, NEW s \in Sessions, CommitRelease(s)
    PROVE  IInv'
<1> DEFINE r == [po[at[s]] EXCEPT !.status = "OPEN"]
<1>0. pc[s] = "release" /\ Commit(s, r)
  BY DEF CommitRelease
<1>1. po[at[s]] \in Rows
  BY DEF IInv, TypeOK
<1>2. /\ r \in Rows /\ r.status = "OPEN" /\ r.inst = po[at[s]].inst
      /\ r.lines = po[at[s]].lines /\ r.total = po[at[s]].total
      /\ r.recd = po[at[s]].recd /\ r.lineRecd = po[at[s]].lineRecd
  BY <1>1 DEF Rows, Statuses
<1> HIDE DEF r
<1>3. ASSUME at[s] \in Undisturbed
      PROVE  RowOK(at[s], r) /\ r.total = Total(r.lines)
  <2>1. /\ FreshOf(s) /\ RowOK(at[s], po[at[s]])
        /\ po[at[s]].total = Total(po[at[s]].lines)
    BY <1>0, <1>3, CommitFinds
  <2>2. po[at[s]].status \in {"DRAFT", "APPROVED"}
    BY <1>0, <2>1 DEF FreshOf
  <2>3. InstanceOK(r) /\ ApprovalOK(at[s], r)
    BY <1>2, <2>1, <2>2 DEF RowOK, InstanceOK, ApprovalOK
  <2>4. ReceiptOK(r)
    BY <1>2, <2>1, <2>2 DEF RowOK, ReceiptOK
  <2>5. QED
    BY <1>2, <2>1, <2>3, <2>4 DEF RowOK
<1>4. QED
  BY <1>0, <1>2, <1>3, CommitKeeps

LEMMA ReceiveKeeps ==
    ASSUME IInv, NEW s \in Sessions, NEW qty \in LineMaps,
           NEW defaults \in SUBSET LineIds, CommitReceive(s, qty, defaults)
    PROVE  IInv'
<1> DEFINE row == po[at[s]]
           mine == Received(LineIds, qty)
           recd == [l \in LineIds |-> row.recd[l] + qty[l]]
           col == [l \in LineIds |-> IF l \in mine THEN view[s].recd[l] + qty[l]
                                     ELSE row.lineRecd[l]]
           st == IF Fully(view[s].lines, recd) THEN "RECEIVED" ELSE "PARTIALLY_RECEIVED"
           r == [row EXCEPT !.recd = recd, !.lineRecd = col,
                            !.defaultLot = row.defaultLot \cup defaults, !.status = st]
<1>0. /\ pc[s] = "receive" /\ Commit(s, r)
      /\ \A l \in mine : view[s].recd[l] + qty[l] <= view[s].lines[l]
  BY DEF CommitReceive
<1>1. row \in Rows /\ view[s] \in Copies /\ at[s] \in Orders
  BY DEF IInv, TypeOK
<1>2. qty \in [LineIds -> Nat]
  BY LineMapType
<1>3. /\ recd \in [LineIds -> Nat] /\ col \in [LineIds -> Nat]
      /\ \A l \in LineIds : recd[l] = row.recd[l] + qty[l]
      /\ \A l \in LineIds : l \notin mine => qty[l] = 0 /\ col[l] = row.lineRecd[l]
      /\ \A l \in mine : col[l] = view[s].recd[l] + qty[l]
  BY <1>1, <1>2 DEF Rows, Copies, Received
<1>4. st \in {"RECEIVED", "PARTIALLY_RECEIVED"}
  OBVIOUS
<1> HIDE DEF mine, recd, col
<1>5. st = "RECEIVED" <=> \A l \in LineIds : recd[l] >= view[s].lines[l]
  BY DEF Fully
<1> HIDE DEF st
<1>6. /\ r \in Rows /\ r.status = st /\ r.inst = row.inst
      /\ r.lines = row.lines /\ r.total = row.total
      /\ r.recd = recd /\ r.lineRecd = col
  BY <1>1, <1>3, <1>4 DEF Rows, Statuses
<1> HIDE DEF r
<1>7. ASSUME at[s] \in Undisturbed
      PROVE  RowOK(at[s], r) /\ r.total = Total(r.lines)
  <2>1. FreshOf(s) /\ RowOK(at[s], row) /\ row.total = Total(row.lines)
    BY <1>0, <1>7, CommitFinds
  <2>2. /\ row.status \in {"OPEN", "PARTIALLY_RECEIVED"}
        /\ view[s].lines = row.lines /\ view[s].recd = row.recd
    BY <1>0, <2>1 DEF FreshOf
  <2>3. InstanceOK(r) /\ ApprovalOK(at[s], r)
    BY <1>4, <1>6, <2>1, <2>2 DEF RowOK, InstanceOK, ApprovalOK
  <2>4. row.lineRecd = row.recd /\ \A l \in LineIds : row.recd[l] <= row.lines[l]
    BY <2>1 DEF RowOK, ReceiptOK
  <2>5. row.lines \in [LineIds -> Nat] /\ row.recd \in [LineIds -> Nat]
    BY <1>1, LineMapType DEF Rows
  <2>6. \A l \in LineIds : recd[l] <= row.lines[l]
    <3> SUFFICES ASSUME NEW l \in LineIds PROVE recd[l] <= row.lines[l]
      OBVIOUS
    <3>1. CASE l \in mine
      BY <1>0, <1>3, <2>2, <3>1
    <3>2. CASE l \notin mine
      BY <1>3, <2>4, <2>5, <3>2
    <3>3. QED
      BY <3>1, <3>2
  <2>7. col = recd
    <3>1. \A l \in LineIds : col[l] = recd[l]
      <4> SUFFICES ASSUME NEW l \in LineIds PROVE col[l] = recd[l]
        OBVIOUS
      <4>1. CASE l \in mine
        BY <1>3, <2>2, <4>1
      <4>2. CASE l \notin mine
        BY <1>3, <2>4, <2>5, <4>2
      <4>3. QED
        BY <4>1, <4>2
    <3>2. QED
      BY <1>3, <3>1
  <2>8. st = "RECEIVED" => recd = row.lines
    <3> SUFFICES ASSUME st = "RECEIVED" PROVE recd = row.lines
      OBVIOUS
    <3>1. \A l \in LineIds : recd[l] = row.lines[l]
      BY <1>3, <1>5, <2>2, <2>5, <2>6
    <3>2. QED
      BY <1>3, <2>5, <3>1
  <2>9. st = "PARTIALLY_RECEIVED" => recd # row.lines
    BY <1>3, <1>5, <2>2, <2>5
  <2>10. ReceiptOK(r)
    BY <1>4, <1>6, <2>6, <2>7, <2>8, <2>9 DEF ReceiptOK
  <2>11. QED
    BY <1>6, <2>1, <2>3, <2>10 DEF RowOK
<1>8. QED
  BY <1>0, <1>6, <1>7, CommitKeeps

(* A transaction that ends with nothing done commits the row as it was. *)
LEMMA RollbackKeeps ==
    ASSUME IInv, NEW s \in Sessions, Rollback(s)
    PROVE  IInv'
<1>1. po[at[s]] \in Rows /\ po' = po /\ po \in [Orders -> Rows] /\ at[s] \in Orders
  BY DEF IInv, TypeOK, Rollback, rows
<1>2. Commit(s, po[at[s]])
  BY <1>1 DEF Rollback, Commit, rows
<1>3. pc[s] \in {"edit", "submit", "act", "release", "receive"}
  BY DEF Rollback
<1>4. at[s] \in Undisturbed =>
          RowOK(at[s], po[at[s]]) /\ po[at[s]].total = Total(po[at[s]].lines)
  BY <1>3, CommitFinds
<1>5. QED
  BY <1>1, <1>2, <1>3, <1>4, CommitKeeps

(* A new order is a draft nobody is at work on yet. *)
LEMMA CreateKeeps ==
    ASSUME IInv, TypeOK', NEW o \in Orders, CreateOrder(o)
    PROVE  IInv'
<1>0. TypeOK
  BY DEF IInv
<1>1. /\ pc' = pc /\ at' = at /\ view' = view /\ sum' = sum
      /\ Undisturbed' = Undisturbed
      /\ \A q \in Orders \ {o} : po'[q] = po[q]
      /\ po[o].status = "NONE" /\ po'[o].status = "DRAFT"
      /\ po'[o].inst = po[o].inst /\ po'[o].lines = po[o].lines
      /\ po'[o].total = po[o].total
      /\ po'[o].recd = po[o].recd /\ po'[o].lineRecd = po[o].lineRecd
  BY <1>0 DEF CreateOrder, TypeOK, Rows, Undisturbed
<1>2. ASSUME NEW t \in Sessions, at[t] = o, o \in Undisturbed
      PROVE  pc[t] = "idle"
  <2>1. FreshOf(t)
    BY <1>2 DEF IInv, Fresh
  <2>2. pc[t] \in Steps
    BY <1>0 DEF TypeOK
  <2>3. QED
    BY <1>1, <1>2, <2>1, <2>2 DEF FreshOf, Steps
<1>3. Sole'
  BY <1>1 DEF IInv, Sole, Busy
<1>4. Fresh'
  <2> SUFFICES ASSUME NEW t \in Sessions, at[t] \in Undisturbed PROVE FreshOf(t)'
    BY <1>1 DEF Fresh
  <2>1. CASE at[t] = o
    BY <1>1, <1>2, <2>1 DEF FreshOf
  <2>2. CASE at[t] # o
    <3>1. FreshOf(t)
      BY DEF IInv, Fresh
    <3>2. po'[at[t]] = po[at[t]]
      BY <1>1, <2>2 DEF Undisturbed
    <3>3. QED
      BY <1>1, <3>1, <3>2 DEF FreshOf
  <2>3. QED
    BY <2>1, <2>2
<1>5. o \in Undisturbed => RowOK(o, po'[o])
  <2> SUFFICES ASSUME o \in Undisturbed PROVE RowOK(o, po'[o])
    OBVIOUS
  <2>1. RowOK(o, po[o])
    BY DEF IInv
  <2>2. QED
    BY <1>1, <2>1 DEF RowOK, InstanceOK, ApprovalOK, ReceiptOK
<1>6. (\A q \in Undisturbed : RowOK(q, po[q]))'
  BY <1>1, <1>5 DEF IInv, Undisturbed
<1>7. TotalAgrees'
  <2> SUFFICES ASSUME NEW q \in Undisturbed,
                      \A t \in Sessions : ~(Busy(t, q)' /\ pc'[t] \in {"sum", "total"})
               PROVE  po'[q].total = Total(po'[q].lines)
    BY <1>1 DEF TotalAgrees
  <2>1. po[q].total = Total(po[q].lines)
    BY <1>1 DEF IInv, TotalAgrees, Busy
  <2>2. QED
    BY <1>1, <2>1 DEF Undisturbed
<1>8. QED
  BY <1>3, <1>4, <1>6, <1>7 DEF IInv

LEMMA RequestKeeps ==
    ASSUME IInv, NEW s \in Sessions, Request(s)
    PROVE  IInv'
<1>1. TypeOK'
  BY RequestType DEF IInv
<1>2. QED
  BY <1>1, BeginsKeep, EditKeeps, RecalcReadKeeps, RecalcWriteKeeps, CrashKeeps,
     SubmitKeeps, ActKeeps, ReleaseKeeps, ReceiveKeeps, RollbackKeeps
     DEF Request, Receive

-----------------------------------------------------------------------------
(* The theorems. *)

LEMMA InitIInv == Init => IInv
<1> SUFFICES ASSUME Init PROVE IInv
  OBVIOUS
<1>1. TypeOK
  BY InitTypes
<1>2. /\ \A s \in Sessions : pc[s] = "idle"
      /\ \A o \in Orders : po[o] = NewRow
  BY DEF Init
<1>3. Sole /\ Fresh
  BY <1>2 DEF Sole, Busy, Fresh, FreshOf
<1>4. \A o : RowOK(o, NewRow)
  <2>1. /\ NewRow.status = "NONE" /\ NewRow.inst.status = "NONE"
        /\ NewRow.recd = NewRow.lineRecd
        /\ \A l \in LineIds : NewRow.recd[l] = 0 /\ NewRow.lines[l] = 0
    BY DEF NewRow, NoInstance
  <2>2. QED
    BY <2>1 DEF RowOK, InstanceOK, ApprovalOK, ReceiptOK
<1>5. TotalAgrees
  BY <1>2 DEF TotalAgrees, NewRow, Undisturbed
<1>6. QED
  BY <1>1, <1>2, <1>3, <1>4, <1>5 DEF IInv, Undisturbed

LEMMA NextIInv == IInv /\ [Next]_vars => IInv'
<1> SUFFICES ASSUME IInv, [Next]_vars PROVE IInv'
  OBVIOUS
<1>0. TypeOK'
  BY NextTypes DEF IInv
<1>1. ASSUME UNCHANGED <<po, pc, at, view, sum, disturbed>> PROVE IInv'
  <2>1. Undisturbed' = Undisturbed /\ Sole'
    BY <1>1 DEF IInv, Sole, Busy, Undisturbed
  <2>2. Fresh'
    BY <1>1, <2>1 DEF IInv, Fresh, FreshOf
  <2>3. TotalAgrees'
    BY <1>1, <2>1 DEF IInv, TotalAgrees, Busy
  <2>4. (\A o \in Undisturbed : RowOK(o, po[o]))'
    BY <1>1, <2>1 DEF IInv
  <2>5. QED
    BY <1>0, <2>1, <2>2, <2>3, <2>4 DEF IInv
<1>2. CASE CreatePolicy \/ SetApprovalFlag \/ UNCHANGED vars
  BY <1>1, <1>2 DEF CreatePolicy, SetApprovalFlag, vars, rows
<1>3. ASSUME NEW o \in Orders, CreateOrder(o) PROVE IInv'
  BY <1>0, <1>3, CreateKeeps
<1>4. ASSUME NEW s \in Sessions, Request(s) PROVE IInv'
  BY <1>4, RequestKeeps
<1>5. QED
  BY <1>2, <1>3, <1>4 DEF Next

(* The inductive invariant holds in every reachable state: rows and replies *)
(* are typed, and every order that requests did not overlap on keeps its    *)
(* instance, its approval, its receipts and its total in agreement.         *)
THEOREM Invariance == Spec => []IInv
<1>1. QED
  BY InitIInv, NextIInv, PTL DEF Spec

(* Whatever happens to other orders, policies and flags: an order that no   *)
(* two requests overlapped on and whose edits did not die half way has an   *)
(* approval instance that agrees with its status.                           *)
THEOREM InstanceAlwaysAgrees == Spec => []InstanceAgrees
<1>1. QED
  BY Invariance, IInvImplies, PTL

(* Such an order is approved only after all the steps of a policy that      *)
(* covers the amount of its lines.                                          *)
THEOREM ApprovalAlwaysEarned == Spec => []ApprovalEarned
<1>1. QED
  BY Invariance, IInvImplies, PTL

(* Such an order never has more received than ordered, and its receipts,    *)
(* its lines and its status agree.                                          *)
THEOREM ReceiptAlwaysAgrees == Spec => []ReceiptAgrees
<1>1. QED
  BY Invariance, IInvImplies, PTL

(* The total of such an order is the sum of its lines between two edits. *)
THEOREM TotalAlwaysAgrees == Spec => []TotalAgrees
<1>1. QED
  BY Invariance, IInvImplies, PTL

-----------------------------------------------------------------------------
(* The lifecycle: a step moves an undisturbed order as documented, because  *)
(* the status a request checked at its first step is still the order's.     *)

LEMMA CommitFollows ==
    ASSUME IInv, NEW s \in Sessions, NEW r, Commit(s, r),
           at[s] \in Undisturbed =>
               /\ r.has = po[at[s]].has /\ r.lines = po[at[s]].lines
               /\ r.status # po[at[s]].status =>
                      <<po[at[s]].status, r.status>> \in Lifecycle
    PROVE  \A o \in Undisturbed : LifecycleStep(o)
<1> SUFFICES ASSUME NEW o \in Undisturbed PROVE LifecycleStep(o)
  OBVIOUS
<1>1. /\ o = at[s] => po'[o] = r
      /\ o # at[s] => po'[o] = po[o]
  BY DEF Commit, IInv, TypeOK, Undisturbed
<1>2. QED
  BY <1>1 DEF LifecycleStep

LEMMA NextFollows ==
    IInv /\ [Next]_vars => [\A o \in Undisturbed : LifecycleStep(o)]_vars
<1> SUFFICES ASSUME IInv, Next PROVE \A o \in Undisturbed : LifecycleStep(o)
  OBVIOUS
<1>0. TypeOK
  BY DEF IInv
<1>1. ASSUME po' = po PROVE \A o \in Undisturbed : LifecycleStep(o)
  BY <1>1 DEF LifecycleStep
<1>2. CASE CreatePolicy \/ SetApprovalFlag
  BY <1>1, <1>2 DEF CreatePolicy, SetApprovalFlag
<1>3. ASSUME NEW q \in Orders, CreateOrder(q)
      PROVE  \A o \in Undisturbed : LifecycleStep(o)
  <2>1. /\ po[q].status = "NONE" /\ po'[q].status = "DRAFT" /\ po'[q].lines = po[q].lines
        /\ po'[q].has = po[q].has
        /\ \A o \in Orders \ {q} : po'[o] = po[o]
    BY <1>0, <1>3 DEF CreateOrder, TypeOK, Rows
  <2>2. QED
    BY <2>1 DEF LifecycleStep, Lifecycle, Undisturbed
<1>4. ASSUME NEW s \in Sessions, Request(s)
      PROVE  \A o \in Undisturbed : LifecycleStep(o)
  <2>0. po[at[s]] \in Rows /\ at[s] \in Orders
    BY <1>0 DEF TypeOK
  <2>00. at[s] \in Undisturbed => FreshOf(s)
    BY DEF IInv, Fresh
  <2>1. ASSUME NEW o \in Orders,
               \/ BeginEdit(s, o) \/ BeginSubmit(s, o) \/ BeginAct(s, o)
               \/ BeginRelease(s, o) \/ BeginReceive(s, o)
        PROVE  po' = po
    BY <2>1 DEF BeginEdit, BeginSubmit, BeginAct, BeginRelease, BeginReceive, rows
  <2>2. CASE RecalcRead(s) \/ CrashInEdit(s) \/ Rollback(s)
    BY <1>1, <2>2 DEF RecalcRead, CrashInEdit, Rollback, rows
  <2>3. CASE Edit(s)
    <3>0. pc[s] = "edit"
      BY <1>0, <2>3, EditWrites
    <3>1. PICK l \in LineIds : \E n \in 0 .. MaxQty[l] : \E ids \in SUBSET LineIds :
              WriteLine(s, l, n, ids)
      BY <1>0, <2>3, EditWrites
    <3>2. PICK n \in 0 .. MaxQty[l] : \E ids \in SUBSET LineIds : WriteLine(s, l, n, ids)
      BY <3>1
    <3>3. /\ po'[at[s]].status = po[at[s]].status
          /\ \A o \in Orders \ {at[s]} : po'[o] = po[o]
      BY <1>0, <3>2, WriteType
    <3>4. at[s] \in Undisturbed => po[at[s]].status = "DRAFT"
      BY <2>00, <3>0 DEF FreshOf
    <3>5. QED
      BY <3>3, <3>4 DEF LifecycleStep, Undisturbed
  <2>4. CASE RecalcWrite(s)
    <3> DEFINE r == [po[at[s]] EXCEPT !.total = sum[s]]
    <3>1. /\ r.has = po[at[s]].has /\ r.lines = po[at[s]].lines
          /\ r.status = po[at[s]].status
      BY <2>0 DEF Rows
    <3>2. QED
      BY <2>4, <3>1, CommitFollows DEF RecalcWrite
  <2>5. CASE CommitSubmit(s)
    <3> DEFINE p == PolicyFor(at[s], view[s].total)
               r == [po[at[s]] EXCEPT
                       !.status = "PENDING_APPROVAL",
                       !.inst = [status |-> "PENDING", step |-> 1, policy |-> p],
                       !.approvals = 0]
    <3>1. pc[s] = "submit" /\ Commit(s, r)
      BY <2>5 DEF CommitSubmit
    <3>2. /\ r.has = po[at[s]].has /\ r.lines = po[at[s]].lines
          /\ r.status = "PENDING_APPROVAL"
      BY <2>0 DEF Rows
    <3> HIDE DEF r
    <3>3. QED
      BY <2>00, <3>1, <3>2, CommitFollows DEF FreshOf, Lifecycle
  <2>6. CASE Approve(s)
    <3> DEFINE row == po[at[s]]
               r == [row EXCEPT !.status = "APPROVED",
                                !.inst = [row.inst EXCEPT !.status = "APPROVED"],
                                !.approvals = row.approvals + 1]
               q == [row EXCEPT !.inst = [row.inst EXCEPT !.step = view[s].inst.step + 1],
                                !.approvals = row.approvals + 1]
    <3>1. pc[s] = "act" /\ (Commit(s, r) \/ Commit(s, q))
      BY <2>6 DEF Approve
    <3>2. /\ r.has = row.has /\ r.lines = row.lines /\ r.status = "APPROVED"
          /\ q.has = row.has /\ q.lines = row.lines /\ q.status = row.status
      BY <2>0 DEF Rows
    <3> HIDE DEF r, q
    <3>3. QED
      BY <2>00, <3>1, <3>2, CommitFollows DEF FreshOf, Lifecycle
  <2>7. CASE Reject(s) \/ RequestChanges(s)
    <3> DEFINE row == po[at[s]]
               r == [row EXCEPT !.status = "REJECTED",
                                !.inst = [row.inst EXCEPT !.status = "REJECTED"]]
               q == [row EXCEPT !.status = "DRAFT",
                                !.inst = [row.inst EXCEPT !.status = "CHANGES_REQUESTED"]]
    <3>1. pc[s] = "act" /\ (Commit(s, r) \/ Commit(s, q))
      BY <2>7 DEF Reject, RequestChanges
    <3>2. /\ r.has = row.has /\ r.lines = row.lines /\ r.status = "REJECTED"
          /\ q.has = row.has /\ q.lines = row.lines /\ q.status = "DRAFT"
      BY <2>0 DEF Rows
    <3> HIDE DEF r, q
    <3>3. QED
      BY <2>00, <3>1, <3>2, CommitFollows DEF FreshOf, Lifecycle
  <2>8. CASE CommitRelease(s)
    <3> DEFINE r == [po[at[s]] EXCEPT !.status = "OPEN"]
    <3>1. pc[s] = "release" /\ Commit(s, r)
      BY <2>8 DEF CommitRelease
    <3>2. /\ r.has = po[at[s]].has /\ r.lines = po[at[s]].lines
          /\ r.status = "OPEN"
      BY <2>0 DEF Rows
    <3> HIDE DEF r
    <3>3. QED
      BY <2>00, <3>1, <3>2, CommitFollows DEF FreshOf, Lifecycle
  <2>9. ASSUME NEW qty, NEW defaults, CommitReceive(s, qty, defaults)
        PROVE  \A o \in Undisturbed : LifecycleStep(o)
    <3>1. PICK recd, col, lots, st :
             /\ st \in {"RECEIVED", "PARTIALLY_RECEIVED"}
             /\ Commit(s, [po[at[s]] EXCEPT !.recd = recd, !.lineRecd = col,
                                           !.defaultLot = lots, !.status = st])
      BY <2>9 DEF CommitReceive
    <3> DEFINE r == [po[at[s]] EXCEPT !.recd = recd, !.lineRecd = col,
                                      !.defaultLot = lots, !.status = st]
    <3>2. /\ r.has = po[at[s]].has /\ r.lines = po[at[s]].lines
          /\ r.status = st
      BY <2>0 DEF Rows
    <3> HIDE DEF r
    <3>3. Commit(s, r)
      BY <3>1 DEF r
    <3>4. pc[s] = "receive"
      BY <2>9 DEF CommitReceive
    <3>5. QED
      BY <2>00, <3>1, <3>2, <3>3, <3>4, CommitFollows DEF FreshOf, Lifecycle
  <2>10. QED
    BY <1>1, <1>4, <2>1, <2>2, <2>3, <2>4, <2>5, <2>6, <2>7, <2>8, <2>9
       DEF Request, Receive
<1>5. QED
  BY <1>2, <1>3, <1>4 DEF Next

(* An order nobody disturbs goes from draft through approval and release to *)
(* receipt along the documented lifecycle, and its lines change in draft    *)
(* only.                                                                    *)
THEOREM LifecycleAlwaysFollowed == Spec => LifecycleFollowed
<1>1. QED
  BY Invariance, NextFollows, PTL DEF Spec, LifecycleFollowed

-----------------------------------------------------------------------------
(* The received column under races.  What a receipt remembers of the ledger *)
(* is old at worst, and the ledger only grows.                              *)

Remembered ==
    \A s \in Sessions : pc[s] = "receive" =>
        \A l \in LineIds : view[s].recd[l] <= po[at[s]].recd[l]

CInv == TypeOK /\ ColumnNeverAhead /\ Remembered

LEMMA CommitGrows ==
    ASSUME CInv, TypeOK', NEW s \in Sessions, NEW r \in Rows, Commit(s, r),
           \A l \in LineIds : /\ po[at[s]].recd[l] <= r.recd[l]
                              /\ r.lineRecd[l] <= r.recd[l]
    PROVE  CInv'
<1>1. /\ at' = at /\ pc'[s] = "idle" /\ po'[at[s]] = r /\ at[s] \in Orders
      /\ \A o \in Orders \ {at[s]} : po'[o] = po[o]
      /\ \A t \in Sessions \ {s} : pc'[t] = pc[t] /\ view'[t] = view[t]
  BY DEF Commit, Finish, CInv, TypeOK
<1>2. ColumnNeverAhead'
  BY <1>1 DEF CInv, ColumnNeverAhead
<1>3. Remembered'
  <2> SUFFICES ASSUME NEW t \in Sessions, pc'[t] = "receive", NEW l \in LineIds
               PROVE  view'[t].recd[l] <= po'[at[t]].recd[l]
    BY <1>1 DEF Remembered
  <2>1. view[t].recd[l] <= po[at[t]].recd[l] /\ view'[t] = view[t] /\ at[t] \in Orders
    BY <1>1 DEF CInv, Remembered, TypeOK
  <2>2. CASE at[t] # at[s]
    BY <1>1, <2>1, <2>2
  <2>3. CASE at[t] = at[s]
    <3>1. /\ view[t].recd[l] \in Nat /\ po[at[s]].recd[l] \in Nat
          /\ r.recd[l] \in Nat
      BY <1>1 DEF CInv, TypeOK, Copies, Rows
    <3>2. QED
      BY <1>1, <2>1, <2>3, <3>1
  <2>4. QED
    BY <2>2, <2>3
<1>4. QED
  BY <1>2, <1>3 DEF CInv

(* A commit of a row that keeps both is the common case. *)
LEMMA CommitSame ==
    ASSUME CInv, TypeOK', NEW s \in Sessions, NEW r \in Rows, Commit(s, r),
           r.recd = po[at[s]].recd, r.lineRecd = po[at[s]].lineRecd
    PROVE  CInv'
<1>1. /\ at[s] \in Orders /\ r.recd \in [LineIds -> Nat]
      /\ \A l \in LineIds : po[at[s]].lineRecd[l] <= po[at[s]].recd[l]
  BY DEF CInv, ColumnNeverAhead, TypeOK, Rows
<1>2. QED
  BY <1>1, CommitGrows

LEMMA BeginsGrow ==
    ASSUME CInv, TypeOK', NEW s \in Sessions, NEW o \in Orders,
           \/ BeginEdit(s, o) \/ BeginSubmit(s, o) \/ BeginAct(s, o)
           \/ BeginRelease(s, o) \/ BeginReceive(s, o)
    PROVE  CInv'
<1>1. TypeOK /\ Nothing \in Copies /\ po' = po
  BY NewRowType DEF CInv, BeginEdit, BeginSubmit, BeginAct, BeginRelease,
                    BeginReceive, rows
<1>2. ColumnNeverAhead'
  BY <1>1 DEF CInv, ColumnNeverAhead
<1>3. /\ \A t \in Sessions \ {s} : pc'[t] = pc[t] /\ view'[t] = view[t] /\ at'[t] = at[t]
      /\ at'[s] = o
  BY <1>1 DEF BeginEdit, BeginSubmit, BeginAct, BeginRelease, BeginReceive, Begin, TypeOK
<1>4. pc'[s] = "receive" => view'[s].recd = po[o].recd
  <2> DEFINE copy == [Nothing EXCEPT !.has = po[o].has, !.lines = po[o].lines,
                             !.recd = po[o].recd]
  <2>1. copy.recd = po[o].recd
    BY <1>1 DEF Copies
  <2>2. BeginReceive(s, o) => view'[s] = copy
    BY <1>1 DEF BeginReceive, Begin, TypeOK
  <2>3. ~BeginReceive(s, o) => pc'[s] # "receive"
    BY <1>1 DEF BeginEdit, BeginSubmit, BeginAct, BeginRelease, Begin, TypeOK
  <2>4. QED
    BY <2>1, <2>2, <2>3
<1>5. Remembered'
  <2> SUFFICES ASSUME NEW t \in Sessions, pc'[t] = "receive", NEW l \in LineIds
               PROVE  view'[t].recd[l] <= po[at'[t]].recd[l]
    BY <1>1 DEF Remembered
  <2>1. po[o].recd[l] \in Nat
    BY <1>1 DEF TypeOK, Rows
  <2>2. CASE t = s
    BY <1>3, <1>4, <2>1, <2>2
  <2>3. CASE t # s
    BY <1>3, <2>3 DEF CInv, Remembered
  <2>4. QED
    BY <2>2, <2>3
<1>6. QED
  BY <1>2, <1>5 DEF CInv

LEMMA ReceiveGrows ==
    ASSUME CInv, TypeOK', NEW s \in Sessions, NEW qty \in LineMaps,
           NEW defaults \in SUBSET LineIds, CommitReceive(s, qty, defaults)
    PROVE  CInv'
<1> DEFINE row == po[at[s]]
           mine == Received(LineIds, qty)
           recd == [l \in LineIds |-> row.recd[l] + qty[l]]
           col == [l \in LineIds |-> IF l \in mine THEN view[s].recd[l] + qty[l]
                                     ELSE row.lineRecd[l]]
           st == IF Fully(view[s].lines, recd) THEN "RECEIVED" ELSE "PARTIALLY_RECEIVED"
           r == [row EXCEPT !.recd = recd, !.lineRecd = col,
                            !.defaultLot = row.defaultLot \cup defaults, !.status = st]
<1>1. pc[s] = "receive" /\ Commit(s, r)
  BY DEF CommitReceive
<1>2. /\ row \in Rows /\ view[s] \in Copies /\ qty \in [LineIds -> Nat]
      /\ \A l \in LineIds : /\ view[s].recd[l] <= row.recd[l]
                            /\ row.lineRecd[l] <= row.recd[l]
  BY <1>1, LineMapType DEF CInv, TypeOK, Remembered, ColumnNeverAhead
<1>3. recd \in [LineIds -> Nat] /\ col \in [LineIds -> Nat]
  BY <1>2 DEF Rows, Copies
<1>4. \A l \in LineIds : row.recd[l] <= recd[l] /\ col[l] <= recd[l]
  <2> SUFFICES ASSUME NEW l \in LineIds PROVE row.recd[l] <= recd[l] /\ col[l] <= recd[l]
    OBVIOUS
  <2>1. /\ row.recd[l] \in Nat /\ row.lineRecd[l] \in Nat
        /\ view[s].recd[l] \in Nat /\ qty[l] \in Nat
    BY <1>2 DEF Rows, Copies
  <2>2. recd[l] = row.recd[l] + qty[l]
    OBVIOUS
  <2>3. col[l] \in {view[s].recd[l] + qty[l], row.lineRecd[l]}
    OBVIOUS
  <2> HIDE DEF recd, col
  <2>4. QED
    BY <1>2, <2>1, <2>2, <2>3
<1>5. st \in Statuses
  BY DEF Statuses
<1> HIDE DEF recd, col, st
<1>6. r \in Rows /\ r.recd = recd /\ r.lineRecd = col
  BY <1>2, <1>3, <1>5 DEF Rows
<1> HIDE DEF r
<1>7. QED
  BY <1>1, <1>4, <1>6, CommitGrows

LEMMA RequestGrows ==
    ASSUME CInv, NEW s \in Sessions, Request(s)
    PROVE  CInv'
<1>0. TypeOK /\ TypeOK' /\ po[at[s]] \in Rows /\ at[s] \in Orders
  BY RequestType DEF CInv, TypeOK
<1> DEFINE row == po[at[s]]
           Same(r) == r \in Rows /\ r.recd = row.recd /\ r.lineRecd = row.lineRecd
<1>1. ASSUME NEW r, Commit(s, r), Same(r) PROVE CInv'
  BY <1>0, <1>1, CommitSame
<1>2. CASE RecalcRead(s) \/ CrashInEdit(s) \/ Rollback(s)
  <2>1. /\ po' = po /\ at' = at
        /\ \A t \in Sessions : pc'[t] = "receive" => pc[t] = "receive" /\ view'[t] = view[t]
    BY <1>0, <1>2 DEF RecalcRead, CrashInEdit, Rollback, Finish, rows, TypeOK
  <2>2. QED
    BY <1>0, <2>1 DEF CInv, ColumnNeverAhead, Remembered
<1>3. CASE Edit(s)
  <2>0. pc[s] = "edit"
    BY <1>0, <1>3, EditWrites
  <2>1. PICK l \in LineIds : \E q \in 0 .. MaxQty[l] : \E ids \in SUBSET LineIds :
            WriteLine(s, l, q, ids)
    BY <1>0, <1>3, EditWrites
  <2>2. PICK q \in 0 .. MaxQty[l] : \E ids \in SUBSET LineIds : WriteLine(s, l, q, ids)
    BY <2>1
  <2>22. /\ at' = at
         /\ \A t \in Sessions : pc'[t] = "receive" => pc[t] = "receive" /\ view'[t] = view[t]
    BY <1>0, <2>2 DEF WriteLine, TypeOK
  <2>3. \A o \in Orders : po'[o].recd = po[o].recd /\ po'[o].lineRecd = po[o].lineRecd
    BY <1>0, <2>2, WriteType
  <2>4. QED
    BY <1>0, <2>22, <2>3 DEF CInv, ColumnNeverAhead, Remembered, TypeOK
<1>4. CASE RecalcWrite(s)
  <2> DEFINE r == [row EXCEPT !.total = sum[s]]
  <2>1. Commit(s, r)
    BY <1>4 DEF RecalcWrite
  <2>2. Same(r)
    BY <1>0 DEF TypeOK, Rows
  <2>3. QED
    BY <1>1, <2>1, <2>2
<1>5. CASE CommitSubmit(s)
  <2> DEFINE p == PolicyFor(at[s], view[s].total)
             r == [row EXCEPT
                     !.status = "PENDING_APPROVAL",
                     !.inst = [status |-> "PENDING", step |-> 1, policy |-> p],
                     !.approvals = 0]
  <2>1. Commit(s, r)
    BY <1>5 DEF CommitSubmit
  <2>2. p \in PolicyIds \cup {NoPolicy}
    BY <1>0, PolicyForType DEF TypeOK
  <2>3. Same(r)
    <3> HIDE DEF p
    <3> QED BY <1>0, <2>2 DEF Rows, Statuses, InstanceStatuses
  <2>4. QED
    BY <1>1, <2>1, <2>3
<1>6. CASE Approve(s)
  <2> DEFINE r == [row EXCEPT !.status = "APPROVED",
                              !.inst = [row.inst EXCEPT !.status = "APPROVED"],
                              !.approvals = row.approvals + 1]
             q == [row EXCEPT !.inst = [row.inst EXCEPT !.step = view[s].inst.step + 1],
                              !.approvals = row.approvals + 1]
  <2>1. Commit(s, r) \/ Commit(s, q)
    BY <1>6 DEF Approve
  <2>2. view[s].inst.step + 1 \in Nat /\ row.approvals + 1 \in Nat
    BY <1>0 DEF TypeOK, Rows, Copies
  <2>3. Same(r) /\ Same(q)
    BY <1>0, <2>2 DEF Rows, Statuses, InstanceStatuses
  <2>4. QED
    BY <1>1, <2>1, <2>3
<1>7. CASE Reject(s) \/ RequestChanges(s)
  <2> DEFINE r == [row EXCEPT !.status = "REJECTED",
                              !.inst = [row.inst EXCEPT !.status = "REJECTED"]]
             q == [row EXCEPT !.status = "DRAFT",
                              !.inst = [row.inst EXCEPT !.status = "CHANGES_REQUESTED"]]
  <2>1. Commit(s, r) \/ Commit(s, q)
    BY <1>7 DEF Reject, RequestChanges
  <2>2. Same(r) /\ Same(q)
    BY <1>0 DEF Rows, Statuses, InstanceStatuses
  <2>3. QED
    BY <1>1, <2>1, <2>2
<1>8. CASE CommitRelease(s)
  <2> DEFINE r == [row EXCEPT !.status = "OPEN"]
  <2>1. Commit(s, r)
    BY <1>8 DEF CommitRelease
  <2>2. Same(r)
    BY <1>0 DEF Rows, Statuses
  <2>3. QED
    BY <1>1, <2>1, <2>2
<1>9. QED
  BY <1>0, <1>2, <1>3, <1>4, <1>5, <1>6, <1>7, <1>8, BeginsGrow, ReceiveGrows
     DEF Request, Receive

(* Even when receipts of one order race, its receivedBaseQuantity column    *)
(* never claims more than the ledger holds.                                 *)
THEOREM ColumnIsNeverAhead == Spec => []ColumnNeverAhead
<1>1. Init => CInv
  <2> SUFFICES ASSUME Init PROVE CInv
    OBVIOUS
  <2>1. TypeOK /\ Remembered
    BY InitTypes DEF Init, Remembered
  <2>2. ColumnNeverAhead
    BY DEF Init, ColumnNeverAhead, NewRow
  <2>3. QED
    BY <2>1, <2>2 DEF CInv
<1>2. CInv /\ [Next]_vars => CInv'
  <2> SUFFICES ASSUME CInv, [Next]_vars PROVE CInv'
    OBVIOUS
  <2>0. TypeOK /\ TypeOK'
    BY NextTypes DEF CInv
  <2>1. CASE CreatePolicy \/ SetApprovalFlag \/ UNCHANGED vars
    <3>1. UNCHANGED <<po, pc, at, view>>
      BY <2>1 DEF CreatePolicy, SetApprovalFlag, vars, rows
    <3>2. QED
      BY <2>0, <3>1 DEF CInv, ColumnNeverAhead, Remembered
  <2>2. ASSUME NEW q \in Orders, CreateOrder(q) PROVE CInv'
    <3>1. /\ pc' = pc /\ at' = at /\ view' = view
          /\ \A o \in Orders : po'[o].recd = po[o].recd /\ po'[o].lineRecd = po[o].lineRecd
      BY <2>0, <2>2 DEF CreateOrder, TypeOK, Rows
    <3>2. QED
      BY <2>0, <3>1 DEF CInv, ColumnNeverAhead, Remembered, TypeOK
  <2>3. ASSUME NEW s \in Sessions, Request(s) PROVE CInv'
    BY <2>3, RequestGrows
  <2>4. QED
    BY <2>1, <2>2, <2>3 DEF Next
<1>3. CInv => ColumnNeverAhead
  BY DEF CInv
<1>4. QED
  BY <1>1, <1>2, <1>3, PTL DEF Spec
=============================================================================
