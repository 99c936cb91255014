--------------------------- MODULE PurchaseOrders ---------------------------
(***************************************************************************)
(* Purchase orders from draft to receipt, with the approval workflow:      *)
(* apps/api/src/modules/purchases/purchases.service.ts and                 *)
(* apps/api/src/modules/approvals/approvals.service.ts.                    *)
(*                                                                         *)
(* HTTP requests run concurrently.  A database transaction runs at READ    *)
(* COMMITTED: it reads the rows of its order (a Begin action copies them   *)
(* into view[s]) and writes and commits later (a Commit action writes the  *)
(* columns the code writes, computed from the copy where the code computes *)
(* them from what it read).  The line edits run outside any transaction:   *)
(* each of their statements is an action, and a crash may fall between.    *)
(*                                                                         *)
(* Quantities are in the base unit of the item (UomConversion is another   *)
(* component) and every unit cost is 1, so a line's total is its quantity. *)
(***************************************************************************)
EXTENDS Integers, FiniteSetsExt

CONSTANTS
    Orders,       \* ids of purchase orders
    LineIds,      \* ids a line of an order can take
    Sessions,     \* HTTP requests in flight at the same time
    MaxQty,       \* bound: the largest quantity of each line
    MaxPolicies,  \* bound: policies ever created, 1 is the oldest
    PolicyDef     \* what each policy says

PolicyIds == 1 .. MaxPolicies
NoPolicy == 0
Quantities == UNION {0 .. MaxQty[l] : l \in LineIds}
(* How much each line orders: zero is legal, and what an absent line has. *)
LineMaps == {m \in [LineIds -> Quantities] : \A l \in LineIds : m[l] <= MaxQty[l]}

ASSUME PurchaseAssumption ==
    /\ IsFiniteSet(LineIds)
    /\ MaxQty \in [LineIds -> Nat]
    /\ MaxPolicies \in Nat
    /\ PolicyDef \in [PolicyIds -> [scope: SUBSET Orders, min: Nat, max: Nat,
                                    steps: Nat]]

(***************************************************************************)
(* The rows.  po[o] gathers what the database says of order o: its own     *)
(* columns, its lines, its approval instance (one per document), the       *)
(* APPROVE actions recorded since the last SUBMIT, the PURCHASE_RECEIVE    *)
(* sum of the ledger and the receivedBaseQuantity column of each line, and *)
(* the lines that have a lot numbered by default.                          *)
(***************************************************************************)
VARIABLES
    po,
    lastNumber,        \* DocumentNumberSeries 'PURCHASE_ORDER'
    policies,          \* policies 1 .. policies exist
    approvalRequired,  \* tenant flag po_approval_required
    pc, at, view, sum, need,  \* a request: its step, order, copies and locals
    disturbed          \* history: orders two requests overlapped on, or whose
                       \* line edit died half way

rows == <<po, lastNumber, policies, approvalRequired>>
vars == <<rows, pc, at, view, sum, need, disturbed>>

Statuses == {"NONE", "DRAFT", "PENDING_APPROVAL", "APPROVED", "REJECTED",
             "OPEN", "PARTIALLY_RECEIVED", "RECEIVED"}
InstanceStatuses == {"NONE", "PENDING", "APPROVED", "REJECTED",
                     "CHANGES_REQUESTED"}

Total(lines) == MapThenSumSet(LAMBDA l : lines[l], LineIds)
Amounts == {Total(m) : m \in LineMaps}

NoInstance == [status |-> "NONE", step |-> 0, policy |-> NoPolicy]
NewRow == [number |-> 0, status |-> "NONE", total |-> Total([l \in LineIds |-> 0]),
           has |-> {}, lines |-> [l \in LineIds |-> 0], inst |-> NoInstance, approvals |-> 0,
           recd |-> [l \in LineIds |-> 0], lineRecd |-> [l \in LineIds |-> 0],
           defaultLot |-> {}]

Rows == [number: Nat, status: Statuses, total: Amounts,
         has: SUBSET LineIds, lines: LineMaps,
         inst: [status: InstanceStatuses, step: Nat, policy: PolicyIds \cup {NoPolicy}],
         approvals: Nat, recd: [LineIds -> Nat], lineRecd: [LineIds -> Nat],
         defaultLot: SUBSET LineIds]

(* What a request keeps of the rows it read: the columns it uses later. *)
Nothing == [has |-> {}, lines |-> NewRow.lines, total |-> NewRow.total,
            inst |-> NoInstance, recd |-> NewRow.recd]
Copies == [has: SUBSET LineIds, lines: LineMaps, total: Amounts,
           inst: [status: InstanceStatuses, step: Nat, policy: PolicyIds \cup {NoPolicy}],
           recd: [LineIds -> Nat]]

Steps == {"idle", "edit", "sum", "total", "submit", "act", "release", "receive"}

TypeOK ==
    /\ po \in [Orders -> Rows]
    /\ lastNumber \in Nat
    /\ policies \in 0 .. MaxPolicies
    /\ approvalRequired \in BOOLEAN
    /\ pc \in [Sessions -> Steps]
    /\ at \in [Sessions -> Orders]
    /\ view \in [Sessions -> Copies]
    /\ sum \in [Sessions -> Amounts]
    /\ need \in [Sessions -> BOOLEAN]
    /\ disturbed \subseteq Orders

Init ==
    /\ po = [o \in Orders |-> NewRow]
    /\ lastNumber = 0
    /\ policies = 0
    /\ approvalRequired = FALSE
    /\ pc = [s \in Sessions |-> "idle"]
    /\ at \in [Sessions -> Orders]
    /\ view = [s \in Sessions |-> Nothing]
    /\ sum = [s \in Sessions |-> NewRow.total]
    /\ need = [s \in Sessions |-> FALSE]
    /\ disturbed = {}

-----------------------------------------------------------------------------
(* Policies: the newest active one whose scope and amounts match wins. *)

Matching(o, amount) ==
    {p \in 1 .. policies : /\ o \in PolicyDef[p].scope
                           /\ PolicyDef[p].min <= amount
                           /\ amount <= PolicyDef[p].max}

PolicyFor(o, amount) ==
    IF Matching(o, amount) = {} THEN NoPolicy
    ELSE CHOOSE p \in Matching(o, amount) : \A q \in Matching(o, amount) : q <= p

StepsOf(p) == IF p = NoPolicy THEN 1 ELSE PolicyDef[p].steps

CreatePolicy ==
    /\ policies < MaxPolicies
    /\ policies' = policies + 1
    /\ UNCHANGED <<po, lastNumber, approvalRequired, pc, at, view, sum, need, disturbed>>

SetApprovalFlag ==
    /\ approvalRequired' = ~approvalRequired
    /\ UNCHANGED <<po, lastNumber, policies, pc, at, view, sum, need, disturbed>>

-----------------------------------------------------------------------------
(* Requests: the first read copies the order, the last step forgets it. *)

Busy(s, o) == pc[s] # "idle" /\ at[s] = o

Begin(s, o, step, copy) ==
    /\ pc[s] = "idle"
    /\ pc' = [pc EXCEPT ![s] = step]
    /\ at' = [at EXCEPT ![s] = o]
    /\ view' = [view EXCEPT ![s] = copy]
    /\ disturbed' = IF \E t \in Sessions \ {s} : Busy(t, o)
                    THEN disturbed \cup {o} ELSE disturbed

Finish(s) ==
    /\ pc' = [pc EXCEPT ![s] = "idle"]
    /\ view' = [view EXCEPT ![s] = Nothing]
    /\ sum' = [sum EXCEPT ![s] = NewRow.total]
    /\ need' = [need EXCEPT ![s] = FALSE]
    /\ UNCHANGED at

(* The transaction of request s writes row r and commits. *)
Commit(s, r) ==
    /\ po' = [po EXCEPT ![at[s]] = r]
    /\ Finish(s)
    /\ UNCHANGED <<lastNumber, policies, approvalRequired, disturbed>>

(* A transaction is refused, times out or loses its connection: nothing it *)
(* did remains.                                                            *)
Rollback(s) ==
    /\ pc[s] \in {"edit", "submit", "act", "release", "receive"}
    /\ Finish(s)
    /\ UNCHANGED <<rows, disturbed>>

(* The number is taken and the order inserted in one transaction that      *)
(* locks the series' row from its first statement.                         *)
CreateOrder(o) ==
    /\ po[o].status = "NONE"
    /\ lastNumber' = lastNumber + 1
    /\ po' = [po EXCEPT ![o] = [@ EXCEPT !.status = "DRAFT", !.number = lastNumber + 1]]
    /\ UNCHANGED <<policies, approvalRequired, pc, at, view, sum, need, disturbed>>

-----------------------------------------------------------------------------
(* addLine, updateLine, removeLine: the draft check, the write of the line *)
(* and the two statements of recalcOrderTotal commit one by one.           *)

(* Mutant: the draft check is missing. *)
BeginEditAnyStatus(s, o) ==
    /\ po[o].status # "NONE"
    /\ Begin(s, o, "edit", [Nothing EXCEPT !.has = po[o].has])
    /\ UNCHANGED <<rows, sum, need>>

BeginEdit(s, o) ==
    /\ po[o].status = "DRAFT"
    /\ Begin(s, o, "edit", [Nothing EXCEPT !.has = po[o].has])
    /\ UNCHANGED <<rows, sum, need>>

WriteLine(s, l, q, ids) ==
    /\ po' = [po EXCEPT ![at[s]] =
                  [po[at[s]] EXCEPT !.has = ids, !.lines = [po[at[s]].lines EXCEPT ![l] = q]]]
    /\ pc' = [pc EXCEPT ![s] = "sum"]
    /\ view' = [view EXCEPT ![s] = Nothing]
    /\ UNCHANGED <<lastNumber, policies, approvalRequired, at, sum, need, disturbed>>

(* A new line takes an id of its own; ids with postings are not reused. *)
AddLine(s, l, q) ==
    /\ pc[s] = "edit"
    /\ l \notin po[at[s]].has \cup view[s].has /\ po[at[s]].recd[l] = 0
    /\ WriteLine(s, l, q, po[at[s]].has \cup {l})

(* Mutant: an update adds to the line instead of replacing its quantity. *)
UpdateLineAdds(s, l, q) ==
    /\ pc[s] = "edit"
    /\ l \in view[s].has \cap po[at[s]].has
    /\ WriteLine(s, l, po[at[s]].lines[l] + q, po[at[s]].has)

(* An update or delete by id of a line that was deleted in between throws: *)
(* that request ends by Rollback.                                          *)
UpdateLine(s, l, q) ==
    /\ pc[s] = "edit"
    /\ l \in view[s].has \cap po[at[s]].has
    /\ WriteLine(s, l, q, po[at[s]].has)

(* Mutant: a removed line leaves the total as it was. *)
RemoveLineOnly(s, l) ==
    /\ pc[s] = "edit"
    /\ l \in view[s].has \cap po[at[s]].has
    /\ Commit(s, [po[at[s]] EXCEPT !.lines[l] = 0, !.has = @ \ {l}])

RemoveLine(s, l) ==
    /\ pc[s] = "edit"
    /\ l \in view[s].has \cap po[at[s]].has
    /\ WriteLine(s, l, 0, po[at[s]].has \ {l})

RecalcRead(s) ==
    /\ pc[s] = "sum"
    /\ sum' = [sum EXCEPT ![s] = Total(po[at[s]].lines)]
    /\ pc' = [pc EXCEPT ![s] = "total"]
    /\ UNCHANGED <<rows, at, view, need, disturbed>>

RecalcWrite(s) ==
    /\ pc[s] = "total"
    /\ Commit(s, [po[at[s]] EXCEPT !.total = sum[s]])

(* The process dies after the line is written: the total stays behind. *)
CrashInEdit(s) ==
    /\ pc[s] \in {"sum", "total"}
    /\ Finish(s)
    /\ disturbed' = disturbed \cup {at[s]}
    /\ UNCHANGED rows

-----------------------------------------------------------------------------
(* submitPurchaseOrder *)

BeginSubmit(s, o) ==
    /\ po[o].status = "DRAFT"
    /\ po[o].inst.status # "PENDING"
    /\ Begin(s, o, "submit", [Nothing EXCEPT !.total = po[o].total])
    /\ UNCHANGED <<rows, sum, need>>

(* Mutant: an order submitted again resumes at the step it was sent back   *)
(* from.                                                                   *)
CommitSubmitResumes(s) ==
    LET p == PolicyFor(at[s], view[s].total)
        row == po[at[s]]
    IN
    /\ pc[s] = "submit"
    /\ p # NoPolicy /\ StepsOf(p) > 0
    /\ Commit(s, [row EXCEPT
                    !.status = "PENDING_APPROVAL",
                    !.inst = [status |-> "PENDING", policy |-> p,
                              step |-> IF row.inst.status = "NONE" THEN 1
                                       ELSE row.inst.step],
                    !.approvals = 0])

CommitSubmit(s) ==
    LET p == PolicyFor(at[s], view[s].total) IN
    /\ pc[s] = "submit"
    /\ p # NoPolicy /\ StepsOf(p) > 0
    /\ Commit(s, [po[at[s]] EXCEPT
                    !.status = "PENDING_APPROVAL",
                    !.inst = [status |-> "PENDING", step |-> 1, policy |-> p],
                    !.approvals = 0])

-----------------------------------------------------------------------------
(* actOnPurchaseOrder.  Who acts, and the step's minApprovals, are never   *)
(* looked at: any caller may approve any step, once.                       *)

BeginAct(s, o) ==
    /\ po[o].status = "PENDING_APPROVAL"
    /\ Begin(s, o, "act", [Nothing EXCEPT !.inst = po[o].inst])
    /\ UNCHANGED <<rows, sum, need>>

IsLast(inst) == inst.step >= StepsOf(inst.policy)

Approve(s) ==
    /\ pc[s] = "act"
    /\ \/ /\ IsLast(view[s].inst)
          /\ Commit(s, [po[at[s]] EXCEPT
                          !.status = "APPROVED",
                          !.inst = [@ EXCEPT !.status = "APPROVED"],
                          !.approvals = @ + 1])
       \/ /\ ~IsLast(view[s].inst)
          /\ Commit(s, [po[at[s]] EXCEPT
                          !.inst = [@ EXCEPT !.step = view[s].inst.step + 1],
                          !.approvals = @ + 1])

Reject(s) ==
    /\ pc[s] = "act"
    /\ Commit(s, [po[at[s]] EXCEPT !.status = "REJECTED",
                                   !.inst = [@ EXCEPT !.status = "REJECTED"]])

(* Mutant: the order goes back to draft and its instance stays pending. *)
RequestChangesOrderOnly(s) ==
    /\ pc[s] = "act"
    /\ Commit(s, [po[at[s]] EXCEPT !.status = "DRAFT"])

RequestChanges(s) ==
    /\ pc[s] = "act"
    /\ Commit(s, [po[at[s]] EXCEPT !.status = "DRAFT",
                                   !.inst = [@ EXCEPT !.status = "CHANGES_REQUESTED"]])

-----------------------------------------------------------------------------
(* releaseOrder *)

NeedsApproval(row, o) ==
    approvalRequired /\ PolicyFor(o, row.total) # NoPolicy

BeginRelease(s, o) ==
    /\ po[o].status = IF NeedsApproval(po[o], o) THEN "APPROVED" ELSE "DRAFT"
    /\ po[o].has # {}
    /\ Begin(s, o, "release", Nothing)
    /\ need' = [need EXCEPT ![s] = NeedsApproval(po[o], o)]
    /\ UNCHANGED <<rows, sum>>

CommitRelease(s) ==
    /\ pc[s] = "release"
    /\ Commit(s, [po[at[s]] EXCEPT !.status = "OPEN"])

-----------------------------------------------------------------------------
(* receiveOrder: qty says how much of each line the request receives, and  *)
(* defaults which of these lines get a lot numbered by default.  The       *)
(* default number is the same on every receipt and lot numbers are unique. *)

BeginReceive(s, o) ==
    /\ po[o].status \in {"OPEN", "PARTIALLY_RECEIVED"}
    /\ Begin(s, o, "receive",
             [Nothing EXCEPT !.has = po[o].has, !.lines = po[o].lines,
                             !.recd = po[o].recd])
    /\ UNCHANGED <<rows, sum, need>>

Received(lines, qty) == {l \in lines : qty[l] > 0}
Fully(lines, recd) == \A l \in LineIds : recd[l] >= lines[l]

(* Mutant: a receipt is compared with the ordered quantity and not with    *)
(* what is left of it.                                                     *)
CommitReceiveUpToOrdered(s, qty, defaults) ==
    LET row  == po[at[s]]
        mine == Received(LineIds, qty)
        recd == [l \in LineIds |-> row.recd[l] + qty[l]]
    IN
    /\ pc[s] = "receive"
    /\ mine # {}
    /\ mine \subseteq view[s].has \cap row.has
    /\ \A l \in mine : qty[l] <= view[s].lines[l]
    /\ defaults \subseteq mine \ row.defaultLot
    /\ Commit(s, [row EXCEPT
          !.recd = recd,
          !.lineRecd = [l \in LineIds |-> IF l \in mine THEN view[s].recd[l] + qty[l]
                                          ELSE row.lineRecd[l]],
          !.defaultLot = row.defaultLot \cup defaults,
          !.status = IF Fully(view[s].lines, recd) THEN "RECEIVED"
                     ELSE "PARTIALLY_RECEIVED"])

(* Mutant: every receipt marks the lines as received in full. *)
CommitReceiveMarksOrdered(s, qty, defaults) ==
    LET row  == po[at[s]]
        mine == Received(LineIds, qty)
        recd == [l \in LineIds |-> row.recd[l] + qty[l]]
    IN
    /\ pc[s] = "receive"
    /\ mine # {}
    /\ mine \subseteq view[s].has \cap row.has
    /\ \A l \in mine : view[s].recd[l] + qty[l] <= view[s].lines[l]
    /\ defaults \subseteq mine \ row.defaultLot
    /\ Commit(s, [row EXCEPT
          !.recd = recd,
          !.lineRecd = view[s].lines,
          !.defaultLot = row.defaultLot \cup defaults,
          !.status = IF Fully(view[s].lines, recd) THEN "RECEIVED"
                     ELSE "PARTIALLY_RECEIVED"])

CommitReceive(s, qty, defaults) ==
    LET row  == po[at[s]]
        mine == Received(LineIds, qty)
        recd == [l \in LineIds |-> row.recd[l] + qty[l]]
    IN
    /\ pc[s] = "receive"
    /\ mine # {}
    /\ mine \subseteq view[s].has \cap row.has
    /\ \A l \in mine : view[s].recd[l] + qty[l] <= view[s].lines[l]
    /\ defaults \subseteq mine \ row.defaultLot
    /\ Commit(s, [row EXCEPT
          !.recd = recd,
          !.lineRecd = [l \in LineIds |-> IF l \in mine THEN view[s].recd[l] + qty[l]
                                          ELSE row.lineRecd[l]],
          !.defaultLot = row.defaultLot \cup defaults,
          !.status = IF Fully(view[s].lines, recd) THEN "RECEIVED"
                     ELSE "PARTIALLY_RECEIVED"])

-----------------------------------------------------------------------------
Edit(s) ==
    \E l \in LineIds :
        \/ \E q \in 0 .. MaxQty[l] : AddLine(s, l, q) \/ UpdateLine(s, l, q)
        \/ RemoveLine(s, l)

Receive(s) ==
    \E qty \in LineMaps : \E defaults \in SUBSET LineIds : CommitReceive(s, qty, defaults)

Request(s) ==
    \/ \E o \in Orders :
          \/ BeginEdit(s, o)
          \/ BeginSubmit(s, o)
          \/ BeginAct(s, o)
          \/ BeginRelease(s, o)
          \/ BeginReceive(s, o)
    \/ Edit(s)
    \/ RecalcRead(s)
    \/ RecalcWrite(s)
    \/ CrashInEdit(s)
    \/ CommitSubmit(s)
    \/ Approve(s)
    \/ Reject(s)
    \/ RequestChanges(s)
    \/ CommitRelease(s)
    \/ Receive(s)
    \/ Rollback(s)

Next ==
    \/ CreatePolicy
    \/ SetApprovalFlag
    \/ \E o \in Orders : CreateOrder(o)
    \/ \E s \in Sessions : Request(s)

Spec == Init /\ [][Next]_vars

-----------------------------------------------------------------------------
(* What must hold of an order that no two requests ever overlapped on and   *)
(* whose line edits never died half way, whatever happens to other orders,  *)
(* policies and flags.                                                      *)

Undisturbed == Orders \ disturbed

(* The order's status and its approval instance, written in two statements  *)
(* by five handlers, tell the same story.                                   *)
InstanceAgrees ==
    \A o \in Undisturbed :
        LET row == po[o] IN
        /\ (row.status = "PENDING_APPROVAL") <=> (row.inst.status = "PENDING")
        /\ (row.status = "REJECTED") <=> (row.inst.status = "REJECTED")
        /\ row.status = "APPROVED" => row.inst.status = "APPROVED"
        /\ row.status = "DRAFT" => row.inst.status \in {"NONE", "CHANGES_REQUESTED"}

(* An approved order was approved as many times as its policy has steps     *)
(* since it was last submitted, and the amount approved is the amount of    *)
(* the lines it has now: one the policy covers.                             *)
ApprovalEarned ==
    \A o \in Undisturbed :
        LET row == po[o]  p == row.inst.policy IN
        row.status = "APPROVED" =>
            /\ p # NoPolicy
            /\ row.approvals = PolicyDef[p].steps /\ row.approvals > 0
            /\ o \in PolicyDef[p].scope
            /\ PolicyDef[p].min <= Total(row.lines)
            /\ Total(row.lines) <= PolicyDef[p].max

(* No line has more stock posted than was ordered; the column the receipts  *)
(* write is the sum of the ledger; and the status says whether something is *)
(* still to come.                                                           *)
ReceiptAgrees ==
    \A o \in Undisturbed :
        LET row == po[o] IN
        /\ \A l \in LineIds : row.recd[l] <= row.lines[l]
        /\ row.lineRecd = row.recd
        /\ row.status = "RECEIVED" => row.recd = row.lines
        /\ row.status = "PARTIALLY_RECEIVED" => row.recd # row.lines
        /\ (\E l \in LineIds : row.recd[l] > 0)
               => row.status \in {"PARTIALLY_RECEIVED", "RECEIVED"}

(* The total is the sum of the lines whenever no edit of the order is under *)
(* way: submit and release choose the policy by it.                         *)
TotalAgrees ==
    \A o \in Undisturbed :
        (\A s \in Sessions : ~(Busy(s, o) /\ pc[s] \in {"sum", "total"}))
            => po[o].total = Total(po[o].lines)

(* A step takes an order only along the documented lifecycle, and only in   *)
(* draft do its lines change; a released order never returns to approval.   *)
Lifecycle ==
    {<<"NONE", "DRAFT">>, <<"DRAFT", "PENDING_APPROVAL">>, <<"DRAFT", "OPEN">>,
     <<"PENDING_APPROVAL", "APPROVED">>, <<"PENDING_APPROVAL", "REJECTED">>,
     <<"PENDING_APPROVAL", "DRAFT">>, <<"APPROVED", "OPEN">>,
     <<"OPEN", "PARTIALLY_RECEIVED">>, <<"OPEN", "RECEIVED">>,
     <<"PARTIALLY_RECEIVED", "RECEIVED">>}

LifecycleStep(o) ==
    /\ po'[o].status # po[o].status => <<po[o].status, po'[o].status>> \in Lifecycle
    /\ <<po'[o].has, po'[o].lines>> # <<po[o].has, po[o].lines>>
           => po[o].status = "DRAFT"

LifecycleFollowed == [][\A o \in Undisturbed : LifecycleStep(o)]_vars

(* Even when receipts race or an order's edits die half way: the column     *)
(* receivedBaseQuantity, written from a sum read earlier, never claims more *)
(* than the ledger holds, so the goods still to come are never understated. *)
ColumnNeverAhead ==
    \A o \in Orders : \A l \in LineIds : po[o].lineRecd[l] <= po[o].recd[l]

(* What docs/v1-known-limits.md says: a second receipt beyond the ordered   *)
(* quantity is rejected.  No line ever ordered more than MaxQty, whatever   *)
(* edits race; yet two receipts in flight together both pass the            *)
(* comparison, each with a sum that lacks the other.                        *)
NoOverReceipt == \A o \in Orders : \A l \in LineIds : po[o].recd[l] <= MaxQty[l]
=============================================================================
