--------------------------- MODULE Reconciliation ---------------------------
(***************************************************************************)
(* Matching bank transactions with open receivables and payables, and      *)
(* posting the confirmed matches to the bank ledger:                       *)
(* apps/api/src/modules/banking/reconciliation/reconciliation.service.ts,  *)
(* finance-bridge/finance-bridge.service.ts, and the upsert of             *)
(* sync/bank-sync.service.ts that can change a transaction meanwhile.      *)
(*                                                                         *)
(* No handler here opens a database transaction: each statement is an      *)
(* action, and a process may die between two of them.  The receivables and *)
(* payables are a constant: no code of the repository writes them.         *)
(***************************************************************************)
EXTENDS Matcher, Sequences, Functions

CONSTANTS
    Txns,         \* ids of bank transactions
    Versions,     \* what the bank can report of each of them
    Entries,      \* open ledger entries: customers' first, then suppliers'
    AmountTolerance, DayTolerance,  \* of the active rule
    Page,         \* transactions a request reads at most
    Rows,         \* ids of matches, numbers given out in order
    Suggesters,   \* suggest-persist requests in flight
    Confirmers,   \* confirm requests in flight
    MaxSyncs,     \* bound: reports of the bank that add or change a transaction
    MaxConfirms,  \* bound: confirmations of all matches
    MaxCrashes    \* bound: requests that die

(* A transaction as it is reported. *)
Reports == [amount: Int, at: Nat, type: STRING, doc: STRING, endToEnd: STRING]

ASSUME ReconAssumption ==
    /\ Rows \subseteq Nat
    /\ Versions \in [Txns -> SUBSET Reports]
    /\ Len(Entries) \in Nat /\ DOMAIN Entries = 1 .. Len(Entries)
    /\ \A k \in DOMAIN Entries : Entries[k].open \in Int /\ Entries[k].due \in Nat
    /\ Page \in Nat
    /\ MaxSyncs \in Nat /\ MaxConfirms \in Nat /\ MaxCrashes \in Nat

VARIABLES
    txn,        \* bank transactions: none, or the row
    status,     \* of each match
    about,      \* the transaction and the target of each match
    ledger,     \* the number of bank ledger entries posted for each match
    suggest,    \* suggest-persist requests
    confirm,    \* confirm requests
    syncs, confirms, crashes,
    revised,    \* history: transactions that changed once suggestions were
                \* made of them, or being made
    twins,      \* history: those of which two requests were about to create
                \* the same suggestion
    torn,       \* history: those whose suggestions a death left half made
    lost        \* history: matches of which a confirmation died

bounds == <<syncs, confirms, crashes>>
history == <<revised, twins, torn, lost>>
vars == <<txn, status, about, ledger, suggest, confirm, bounds, history>>

(* A suggest-persist request has read transactions, and goes through the    *)
(* suggestions of each of them in turn: left are the targets of those it    *)
(* has not done.                                                            *)
NoSuggest == [step |-> "idle", read |-> <<>>]
NoConfirm == [step |-> "idle", row |-> {}]

Targets == {Entries[k].id : k \in DOMAIN Entries}

(* What the row of t can hold: an update takes over amount and document,    *)
(* the end-to-end id if there is one, and leaves date and type.             *)
Contents(t) ==
    {row \in Reports : \E new, old, any \in Versions[t] :
        /\ row.amount = new.amount /\ row.doc = new.doc
        /\ row.at = old.at /\ row.type = old.type
        /\ row.endToEnd = any.endToEnd}

TypeOK ==
    /\ DOMAIN txn = Txns
    /\ \A t \in Txns : txn[t] \subseteq Contents(t) /\ \A row, other \in txn[t] : row = other
    /\ status \in [Rows -> {"NONE", "SUGGESTED", "CONFIRMED", "POSTED"}]
    /\ about \in [Rows -> SUBSET [txn: Txns, target: Targets]]
    /\ ledger \in [Rows -> Nat]
    /\ suggest \in [Suggesters -> [step: {"idle", "filter", "look", "create"},
                                    read: Seq([txn: Txns, row: Reports, left: Seq(Targets)])]]
    /\ confirm \in [Confirmers -> [step: {"idle", "read", "post", "mark"},
                                   row: SUBSET Rows]]
    /\ syncs \in 0 .. MaxSyncs /\ confirms \in 0 .. MaxConfirms
    /\ crashes \in 0 .. MaxCrashes
    /\ revised \cup twins \cup torn \subseteq Txns /\ lost \subseteq Rows

Init ==
    /\ txn = [t \in Txns |-> {}]
    /\ status = [r \in Rows |-> "NONE"]
    /\ about = [r \in Rows |-> {}]
    /\ ledger = [r \in Rows |-> 0]
    /\ suggest = [s \in Suggesters |-> NoSuggest]
    /\ confirm = [c \in Confirmers |-> NoConfirm]
    /\ syncs = 0 /\ confirms = 0 /\ crashes = 0
    /\ revised = {} /\ twins = {} /\ torn = {} /\ lost = {}

RowsOf(t) == {r \in Rows : \E m \in about[r] : m.txn = t}
Fresh(r) == status[r] = "NONE" /\ \A q \in Rows : q < r => status[q] # "NONE"
Exists(m) == \E r \in Rows : about[r] = {m}

(* loadCandidates: what a customer owes comes in, what a supplier is owed   *)
(* goes out.  Ledger entries have no end-to-end id.                         *)
Candidates ==
    [k \in DOMAIN Entries |->
        [target |-> Entries[k].id,
         amount |-> IF Entries[k].customer THEN Entries[k].open ELSE -Entries[k].open,
         at |-> Entries[k].due, doc |-> Entries[k].doc, endToEnd |-> NoRef]]

Suggested(row) == SuggestMatches(row, Candidates, AmountTolerance, DayTolerance)

(* The first transaction a request has something left of, if any. *)
Current(read) ==
    {k \in DOMAIN read : read[k].left # <<>> /\ \A j \in 1 .. k - 1 : read[j].left = <<>>}

Due(p) == [txn |-> p.txn, target |-> Head(p.left)]

(* Request s has read t and not finished with it. *)
AtWork(s, t) ==
    \E k \in DOMAIN suggest[s].read :
        /\ suggest[s].read[k].txn = t
        /\ suggest[s].step = "filter" \/ suggest[s].read[k].left # <<>>

-----------------------------------------------------------------------------
(* Mutant: a report is always a new row. *)
SyncInserts(t, report) ==
    /\ syncs < MaxSyncs /\ syncs' = syncs + 1
    /\ report \notin txn[t]
    /\ txn' = [txn EXCEPT ![t] = @ \cup {report}]
    /\ revised' = IF RowsOf(t) # {} \/ \E s \in Suggesters : AtWork(s, t)
                  THEN revised \cup {t} ELSE revised
    /\ UNCHANGED <<status, about, ledger, suggest, confirm, confirms, crashes, twins, torn, lost>>

(* syncTransactions: the upsert of one reported transaction.  An update     *)
(* leaves its date and type as they were.                                   *)
Sync(t, report) ==
    LET updated == {[row EXCEPT !.amount = report.amount, !.doc = report.doc,
                                !.endToEnd = IF report.endToEnd = NoRef THEN @
                                             ELSE report.endToEnd] : row \in txn[t]}
        row == IF txn[t] = {} THEN {report} ELSE updated
    IN
    /\ syncs < MaxSyncs /\ syncs' = syncs + 1
    /\ txn[t] # row
    /\ txn' = [txn EXCEPT ![t] = row]
    /\ revised' = IF RowsOf(t) # {} \/ \E s \in Suggesters : AtWork(s, t)
                  THEN revised \cup {t} ELSE revised
    /\ UNCHANGED <<status, about, ledger, suggest, confirm, confirms, crashes, twins, torn, lost>>

-----------------------------------------------------------------------------
(* persistSuggestions. *)

(* The first page of the known ones of T, latest first; the order of those  *)
(* booked at the same instant is left open.                                 *)
Pages(T) ==
    LET known == {t \in T : txn[t] # {}}
        row(t) == CHOOSE r \in txn[t] : TRUE
        orders == {o \in UNION {[1 .. n -> known] : n \in 0 .. Page} :
                      /\ IsInjective(o)
                      /\ \A i, j \in DOMAIN o : i < j => row(o[i]).at >= row(o[j]).at
                      /\ \A t \in known \ Range(o) :
                            Len(o) = Page /\ \A i \in DOMAIN o : row(o[i]).at >= row(t).at}
    IN {[k \in DOMAIN o |-> [txn |-> o[k], row |-> row(o[k]), left |-> <<>>]] : o \in orders}

(* One transaction, or all of them. *)
ReadTransactions(s) ==
    /\ suggest[s].step = "idle"
    /\ \E T \in {Txns} \cup {{t} : t \in Txns} : \E read \in Pages(T) :
          /\ read # <<>>
          /\ suggest' = [suggest EXCEPT ![s] = [step |-> "filter", read |-> read]]
    /\ UNCHANGED <<txn, status, about, ledger, confirm, bounds, history>>

Remaining(read) ==
    IF Current(read) = {} THEN NoSuggest ELSE [step |-> "look", read |-> read]

SuggestedTargets(row) == [k \in DOMAIN Suggested(row) |-> Suggested(row)[k].target]

(* Those with matches are left out.  No code rejects a match. *)
FilterUnmatched(s) ==
    LET read == suggest[s].read
        left(p) == IF RowsOf(p.txn) = {} THEN SuggestedTargets(p.row) ELSE <<>>
    IN
    /\ suggest[s].step = "filter"
    /\ suggest' = [suggest EXCEPT ![s] =
          Remaining([k \in DOMAIN read |-> [read[k] EXCEPT !.left = left(read[k])]])]
    /\ UNCHANGED <<txn, status, about, ledger, confirm, bounds, history>>

(* Request s goes on to the next suggestion. *)
Proceed(s, k) ==
    suggest' = [suggest EXCEPT ![s] =
                   Remaining([suggest[s].read EXCEPT ![k].left = Tail(@)])]

(* Mutant: the suggestion is created without looking for it. *)
LookNever(s) ==
    /\ suggest[s].step = "look"
    /\ suggest' = [suggest EXCEPT ![s].step = "create"]
    /\ UNCHANGED <<txn, status, about, ledger, confirm, bounds, history>>

LookForExisting(s) ==
    /\ suggest[s].step = "look"
    /\ \E k \in Current(suggest[s].read) :
          IF Exists(Due(suggest[s].read[k])) THEN Proceed(s, k)
          ELSE suggest' = [suggest EXCEPT ![s].step = "create"]
    /\ UNCHANGED <<txn, status, about, ledger, confirm, bounds, history>>

(* Another request is about to create what s creates. *)
Crossed(s, due) ==
    \E u \in Suggesters \ {s} : \E k \in Current(suggest[u].read) :
        suggest[u].step = "create" /\ Due(suggest[u].read[k]) = due

(* Mutant: only the best suggestion is made. *)
CreateSuggestionBest(s, r) ==
    /\ suggest[s].step = "create"
    /\ Fresh(r)
    /\ status' = [status EXCEPT ![r] = "SUGGESTED"]
    /\ \E k \in Current(suggest[s].read) : \E due \in {Due(suggest[s].read[k])} :
          /\ about' = [about EXCEPT ![r] = {due}]
          /\ twins' = IF Crossed(s, due) THEN twins \cup {due.txn} ELSE twins
    /\ suggest' = [suggest EXCEPT ![s] = NoSuggest]
    /\ UNCHANGED <<txn, ledger, confirm, bounds, revised, torn, lost>>

CreateSuggestion(s, r) ==
    /\ suggest[s].step = "create"
    /\ Fresh(r)
    /\ status' = [status EXCEPT ![r] = "SUGGESTED"]
    /\ \E k \in Current(suggest[s].read) : \E due \in {Due(suggest[s].read[k])} :
          /\ about' = [about EXCEPT ![r] = {due}]
          /\ twins' = IF Crossed(s, due) THEN twins \cup {due.txn} ELSE twins
          /\ Proceed(s, k)
    /\ UNCHANGED <<txn, ledger, confirm, bounds, revised, torn, lost>>

SuggestDies(s) ==
    /\ suggest[s].step # "idle"
    /\ crashes < MaxCrashes /\ crashes' = crashes + 1
    /\ suggest' = [suggest EXCEPT ![s] = NoSuggest]
    /\ torn' = IF suggest[s].step = "filter" THEN torn
               ELSE torn \cup {suggest[s].read[k].txn : k \in Current(suggest[s].read)}
    /\ UNCHANGED <<txn, status, about, ledger, confirm, syncs, confirms, revised, twins, lost>>

-----------------------------------------------------------------------------
(* confirmMatch, and postMatch of the finance bridge. *)

(* Whatever the status of the match is, POSTED included. *)
ConfirmMatch(c, r) ==
    /\ confirm[c].step = "idle"
    /\ status[r] # "NONE"
    /\ confirms < MaxConfirms /\ confirms' = confirms + 1
    /\ status' = [status EXCEPT ![r] = "CONFIRMED"]
    /\ confirm' = [confirm EXCEPT ![c] = [step |-> "read", row |-> {r}]]
    /\ UNCHANGED <<txn, about, ledger, suggest, syncs, crashes, history>>

(* Mutant: the posting is skipped for a match that is confirmed. *)
ReadMatchConfirmed(c, r) ==
    /\ confirm[c].step = "read" /\ confirm[c].row = {r}
    /\ confirm' = [confirm EXCEPT ![c] = IF status[r] \in {"CONFIRMED", "POSTED"}
                                         THEN NoConfirm
                                         ELSE [step |-> "post", row |-> {r}]]
    /\ UNCHANGED <<txn, status, about, ledger, suggest, bounds, history>>

(* Another confirmation may have posted it since. *)
ReadMatch(c, r) ==
    /\ confirm[c].step = "read" /\ confirm[c].row = {r}
    /\ confirm' = [confirm EXCEPT ![c] = IF status[r] = "POSTED" THEN NoConfirm
                                         ELSE [step |-> "post", row |-> {r}]]
    /\ UNCHANGED <<txn, status, about, ledger, suggest, bounds, history>>

(* Mutant: a failed update of the match is retried from the posting. *)
PostEntryAgain(c, r) ==
    /\ confirm[c].step = "post" /\ confirm[c].row = {r}
    /\ ledger' = [ledger EXCEPT ![r] = @ + 1]
    /\ \E step \in {"post", "mark"} :
          confirm' = [confirm EXCEPT ![c] = [step |-> step, row |-> {r}]]
    /\ UNCHANGED <<txn, status, about, suggest, bounds, history>>

PostEntry(c, r) ==
    /\ confirm[c].step = "post" /\ confirm[c].row = {r}
    /\ ledger' = [ledger EXCEPT ![r] = @ + 1]
    /\ confirm' = [confirm EXCEPT ![c] = [step |-> "mark", row |-> {r}]]
    /\ UNCHANGED <<txn, status, about, suggest, bounds, history>>

MarkPosted(c, r) ==
    /\ confirm[c].step = "mark" /\ confirm[c].row = {r}
    /\ status' = [status EXCEPT ![r] = "POSTED"]
    /\ confirm' = [confirm EXCEPT ![c] = NoConfirm]
    /\ UNCHANGED <<txn, about, ledger, suggest, bounds, history>>

ConfirmDies(c, r) ==
    /\ confirm[c].step # "idle" /\ confirm[c].row = {r}
    /\ crashes < MaxCrashes /\ crashes' = crashes + 1
    /\ confirm' = [confirm EXCEPT ![c] = NoConfirm]
    /\ lost' = lost \cup {r}
    /\ UNCHANGED <<txn, status, about, ledger, suggest, syncs, confirms, revised, twins, torn>>

-----------------------------------------------------------------------------
Persist(s) ==
    \/ FilterUnmatched(s)
    \/ LookForExisting(s)
    \/ \E r \in Rows : CreateSuggestion(s, r)

Bridge(c) == \E r \in Rows : ReadMatch(c, r) \/ PostEntry(c, r) \/ MarkPosted(c, r)

Next ==
    \/ \E t \in Txns : \E report \in Versions[t] : Sync(t, report)
    \/ \E s \in Suggesters : ReadTransactions(s) \/ Persist(s) \/ SuggestDies(s)
    \/ \E c \in Confirmers :
          \/ Bridge(c)
          \/ \E r \in Rows : ConfirmMatch(c, r) \/ ConfirmDies(c, r)

Spec == Init /\ [][Next]_vars

(* A handler that has begun goes on, statement after statement. *)
FairSpec ==
    /\ Spec
    /\ \A s \in Suggesters : WF_vars(Persist(s))
    /\ \A c \in Confirmers : WF_vars(Bridge(c))

-----------------------------------------------------------------------------
MatchTargets(t) == {m.target : m \in UNION {about[r] : r \in RowsOf(t)}}
FirstTargets(ranked, n) == {ranked[k].target : k \in 1 .. n}

(* However requests overlap or die, the suggestions of a transaction are    *)
(* the n best ones, each once: none is there without the better ones.       *)
SuggestedInOrder ==
    \A t \in Txns \ (revised \cup twins) : \A row \in txn[t] :
        LET ranked == Suggested(row)
            n == Cardinality(RowsOf(t))
        IN n <= Len(ranked) /\ MatchTargets(t) = FirstTargets(ranked, n)

(* Once the requests at work on a transaction are done, it has no           *)
(* suggestion or all of them; a death is what leaves it with some, for a    *)
(* transaction with a suggestion is passed over from then on.               *)
SuggestedWhole ==
    \A t \in Txns \ (revised \cup twins \cup torn) : \A row \in txn[t] :
        (\A s \in Suggesters : ~AtWork(s, t)) =>
            Cardinality(RowsOf(t)) \in {0, Len(Suggested(row))}

(* Each confirmation posts at most once, and passes the posting over only   *)
(* if the match has been posted; the match says POSTED only then.           *)
Owes(c, r) == confirm[c].step \in {"read", "post"} /\ confirm[c].row = {r}
Owed == [r \in Rows |-> {c \in Confirmers : Owes(c, r)}]

P == INSTANCE Posting WITH owed <- Owed, entries <- ledger

PostsOncePerConfirmation == P!Spec

(* A confirmed match is posted in the end, although two confirmations of it *)
(* overwrite each other's status and one of them gives up when it reads     *)
(* POSTED, unless a confirmation of it died.                                *)
ConfirmedIsPosted ==
    \A r \in Rows : (status[r] = "CONFIRMED")
                        ~> (status[r] = "POSTED" \/ r \in lost)
=============================================================================
