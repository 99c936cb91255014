------------------------ MODULE ReconciliationProofs ------------------------
(***************************************************************************)
(* Confirmations of a match implement Posting, and the suggestions of a    *)
(* transaction are the best ones, for any number of transactions, entries, *)
(* matches, requests and deaths.                                           *)
(*                                                                         *)
(* The first part is about the bridge: the status of matches, their ledger *)
(* entries and the confirm requests, whatever the matcher suggests.  The   *)
(* second part is about the matcher and the suggest-persist requests.      *)
(***************************************************************************)
EXTENDS Reconciliation, SummationProofs, SequenceTheorems, TLAPS

BridgeType ==
    /\ status \in [Rows -> {"NONE", "SUGGESTED", "CONFIRMED", "POSTED"}]
    /\ ledger \in [Rows -> Nat]
    /\ confirm \in [Confirmers -> [step: {"idle", "read", "post", "mark"},
                                   row: SUBSET Rows]]

(* A request about to mark a match has posted it, and so has some request   *)
(* if the match is marked already.                                          *)
MarksPosted ==
    \A c \in Confirmers : \A r \in Rows :
        confirm[c].step = "mark" /\ confirm[c].row = {r} => ledger[r] > 0

PostedHasEntry == \A r \in Rows : status[r] = "POSTED" => ledger[r] > 0

BInv == BridgeType /\ MarksPosted /\ PostedHasEntry

bridge == <<status, ledger, confirm>>

(* The steps of other requests that leave the bridge alone. *)
Elsewhere ==
    \/ \E t \in Txns : \E report \in Versions[t] : Sync(t, report)
    \/ \E s \in Suggesters :
          \/ ReadTransactions(s) \/ FilterUnmatched(s) \/ LookForExisting(s)
          \/ SuggestDies(s)

LEMMA ElsewhereStutters == Elsewhere => bridge' = bridge /\ lost' = lost
  BY DEF Elsewhere, Sync, ReadTransactions, FilterUnmatched, LookForExisting, SuggestDies,
         bridge, history

LEMMA CreateStep ==
    ASSUME NEW s \in Suggesters, NEW r \in Rows, CreateSuggestion(s, r)
    PROVE  /\ status[r] = "NONE" /\ status' = [status EXCEPT ![r] = "SUGGESTED"]
           /\ ledger' = ledger /\ confirm' = confirm /\ lost' = lost
  BY DEF CreateSuggestion, Fresh

LEMMA Steps ==
    ASSUME Next
    PROVE  \/ Elsewhere
           \/ \E s \in Suggesters : \E r \in Rows : CreateSuggestion(s, r)
           \/ \E c \in Confirmers : \E r \in Rows :
                 \/ ReadMatch(c, r) \/ PostEntry(c, r) \/ MarkPosted(c, r)
                 \/ ConfirmMatch(c, r) \/ ConfirmDies(c, r)
  BY DEF Next, Elsewhere, Persist, Bridge

-----------------------------------------------------------------------------
(* The invariant. *)

LEMMA InitBridge == Init => BInv
<1> SUFFICES ASSUME Init PROVE BInv
  OBVIOUS
<1>1. BridgeType
  BY DEF Init, BridgeType, NoConfirm
<1>2. MarksPosted
  BY DEF Init, MarksPosted, NoConfirm
<1>3. PostedHasEntry
  BY DEF Init, PostedHasEntry
<1>4. QED
  BY <1>1, <1>2, <1>3 DEF BInv

LEMMA FrameKeeps ==
    ASSUME BInv, bridge' = bridge
    PROVE  BInv'
  BY DEF BInv, BridgeType, MarksPosted, PostedHasEntry, bridge

LEMMA CreateKeeps ==
    ASSUME BInv, NEW r \in Rows, status' = [status EXCEPT ![r] = "SUGGESTED"],
           ledger' = ledger, confirm' = confirm
    PROVE  BInv'
<1>1. BridgeType'
  BY DEF BInv, BridgeType
<1>2. MarksPosted'
  BY DEF BInv, MarksPosted
<1>3. PostedHasEntry'
  BY DEF BInv, BridgeType, PostedHasEntry
<1>4. QED
  BY <1>1, <1>2, <1>3 DEF BInv

LEMMA ConfirmKeeps ==
    ASSUME BInv, NEW c \in Confirmers, NEW r \in Rows,
           \/ ReadMatch(c, r) \/ PostEntry(c, r) \/ MarkPosted(c, r)
           \/ ConfirmMatch(c, r) \/ ConfirmDies(c, r)
    PROVE  BInv'
<1>0. BridgeType /\ NoConfirm.step = "idle" /\ NoConfirm.row = {}
  BY DEF BInv, NoConfirm
<1>1. CASE ReadMatch(c, r) \/ ConfirmDies(c, r)
  <2>1. status' = status /\ ledger' = ledger
    BY <1>1 DEF ReadMatch, ConfirmDies
  <2>2. \/ confirm' = [confirm EXCEPT ![c] = NoConfirm]
        \/ confirm' = [confirm EXCEPT ![c] = [step |-> "post", row |-> {r}]]
    BY <1>1 DEF ReadMatch, ConfirmDies
  <2>3. BridgeType'
    BY <1>0, <2>1, <2>2 DEF BridgeType, NoConfirm
  <2>4. MarksPosted'
    BY <1>0, <2>1, <2>2 DEF BInv, BridgeType, MarksPosted
  <2>5. QED
    BY <2>1, <2>3, <2>4 DEF BInv, PostedHasEntry
<1>2. CASE PostEntry(c, r)
  <2>1. /\ status' = status /\ ledger' = [ledger EXCEPT ![r] = ledger[r] + 1]
        /\ confirm' = [confirm EXCEPT ![c] = [step |-> "mark", row |-> {r}]]
    BY <1>2 DEF PostEntry
  <2>2. BridgeType'
    BY <1>0, <2>1 DEF BridgeType
  <2>3. ledger'[r] > 0 /\ \A q \in Rows : ledger[q] > 0 => ledger'[q] > 0
    BY <1>0, <2>1 DEF BridgeType
  <2>4. MarksPosted'
    <3> SUFFICES ASSUME NEW d \in Confirmers, NEW q \in Rows,
                        confirm'[d].step = "mark", confirm'[d].row = {q}
                 PROVE  ledger'[q] > 0
      BY DEF MarksPosted
    <3>1. CASE d = c
      <4>1. q = r
        BY <1>0, <2>1, <3>1 DEF BridgeType
      <4>2. QED
        BY <2>3, <4>1
    <3>2. CASE d # c
      <4>1. confirm'[d] = confirm[d]
        BY <1>0, <2>1, <3>2 DEF BridgeType
      <4>2. QED
        BY <2>3, <4>1 DEF BInv, MarksPosted
    <3>3. QED
      BY <3>1, <3>2
  <2>5. PostedHasEntry'
    BY <2>1, <2>3 DEF BInv, PostedHasEntry
  <2>6. QED
    BY <2>2, <2>4, <2>5 DEF BInv
<1>3. CASE MarkPosted(c, r)
  <2>1. /\ ledger' = ledger /\ status' = [status EXCEPT ![r] = "POSTED"]
        /\ confirm' = [confirm EXCEPT ![c] = NoConfirm]
        /\ confirm[c].step = "mark" /\ confirm[c].row = {r}
    BY <1>3 DEF MarkPosted
  <2>2. BridgeType'
    BY <1>0, <2>1 DEF BridgeType, NoConfirm
  <2>3. MarksPosted'
    BY <1>0, <2>1 DEF BInv, BridgeType, MarksPosted
  <2>4. ledger[r] > 0
    BY <2>1 DEF BInv, MarksPosted
  <2>5. PostedHasEntry'
    BY <1>0, <2>1, <2>4 DEF BInv, BridgeType, PostedHasEntry
  <2>6. QED
    BY <2>2, <2>3, <2>5 DEF BInv
<1>4. CASE ConfirmMatch(c, r)
  <2>1. /\ ledger' = ledger /\ status' = [status EXCEPT ![r] = "CONFIRMED"]
        /\ confirm' = [confirm EXCEPT ![c] = [step |-> "read", row |-> {r}]]
    BY <1>4 DEF ConfirmMatch
  <2>2. BridgeType'
    BY <1>0, <2>1 DEF BridgeType
  <2>3. MarksPosted'
    BY <1>0, <2>1 DEF BInv, BridgeType, MarksPosted
  <2>4. PostedHasEntry'
    BY <1>0, <2>1 DEF BInv, BridgeType, PostedHasEntry
  <2>5. QED
    BY <2>2, <2>3, <2>4 DEF BInv
<1>5. QED
  BY <1>1, <1>2, <1>3, <1>4

LEMMA StepKeeps == BInv /\ [Next]_vars => BInv'
<1> SUFFICES ASSUME BInv, [Next]_vars PROVE BInv'
  OBVIOUS
<1>1. CASE Next
  <2>1. CASE Elsewhere
    BY <2>1, ElsewhereStutters, FrameKeeps
  <2>2. ASSUME NEW s \in Suggesters, NEW r \in Rows, CreateSuggestion(s, r) PROVE BInv'
    BY <2>2, CreateStep, CreateKeeps
  <2>3. ASSUME NEW c \in Confirmers, NEW r \in Rows,
               \/ ReadMatch(c, r) \/ PostEntry(c, r) \/ MarkPosted(c, r)
               \/ ConfirmMatch(c, r) \/ ConfirmDies(c, r)
        PROVE  BInv'
    BY <2>3, ConfirmKeeps
  <2>4. QED
    BY <1>1, Steps, <2>1, <2>2, <2>3
<1>2. CASE UNCHANGED vars
  BY <1>2, FrameKeeps DEF vars, bridge
<1>3. QED
  BY <1>1, <1>2

(* The inductive invariant holds in every reachable state, however many     *)
(* confirmations of a match overlap and die: a request about to mark it has *)
(* posted, in the order of the statements of postMatch.                     *)
THEOREM Invariance == Spec => []BInv
<1>1. QED
  BY InitBridge, StepKeeps, PTL DEF Spec

(* A match that says POSTED has an entry in the bank ledger: a later        *)
(* confirmation or a death takes none away.                                 *)
THEOREM PostedHasEntryAlways == Spec => []PostedHasEntry
<1>1. BInv => PostedHasEntry
  BY DEF BInv
<1>2. QED
  BY <1>1, Invariance, PTL

-----------------------------------------------------------------------------
(* The refinement. *)

LEMMA OwedValue ==
    ASSUME NEW r \in Rows
    PROVE  /\ Owed[r] = {c \in Confirmers : Owes(c, r)}
           /\ Owed'[r] = {c \in Confirmers : Owes(c, r)'}
  BY DEF Owed

(* A step that moves one request leaves what the others owe. *)
OwedElsewhere(c) == \A d \in Confirmers \ {c} : \A q \in Rows : Owes(d, q)' <=> Owes(d, q)

LEMMA OwedBut ==
    ASSUME BridgeType, NEW c \in Confirmers, NEW new,
           confirm' = [confirm EXCEPT ![c] = new]
    PROVE  confirm'[c] = new /\ OwedElsewhere(c)
<1>1. confirm'[c] = new /\ \A d \in Confirmers \ {c} : confirm'[d] = confirm[d]
  BY DEF BridgeType
<1>2. QED
  BY <1>1 DEF Owes, OwedElsewhere

LEMMA OwedSame ==
    ASSUME \A d \in Confirmers : \A q \in Rows : Owes(d, q)' <=> Owes(d, q)
    PROVE  Owed' = Owed
<1>1. \A q \in Rows : Owed'[q] = Owed[q]
  BY OwedValue
<1>2. QED
  BY <1>1 DEF Owed

LEMMA OwedRow ==
    ASSUME NEW c \in Confirmers, NEW r \in Rows, OwedElsewhere(c),
           \A q \in Rows \ {r} : ~Owes(c, q) /\ ~Owes(c, q)'
    PROVE  /\ \A q \in Rows \ {r} : Owed'[q] = Owed[q]
           /\ \A d \in Confirmers \ {c} : d \in Owed'[r] <=> d \in Owed[r]
<1>1. ASSUME NEW q \in Rows \ {r} PROVE Owed'[q] = Owed[q]
  <2>1. \A d \in Confirmers : Owes(d, q)' <=> Owes(d, q)
    BY DEF OwedElsewhere
  <2>2. QED
    BY <2>1, OwedValue
<1>2. \A d \in Confirmers \ {c} : d \in Owed'[r] <=> d \in Owed[r]
  BY OwedValue DEF OwedElsewhere
<1>3. QED
  BY <1>1, <1>2

LEMMA OwedLess ==
    ASSUME NEW c \in Confirmers, NEW r \in Rows, OwedElsewhere(c),
           \A q \in Rows : ~Owes(c, q)',
           \A q \in Rows : Owes(c, q) => q = r
    PROVE  Owed' = [Owed EXCEPT ![r] = Owed[r] \ {c}]
<1>1. /\ \A q \in Rows \ {r} : Owed'[q] = Owed[q]
      /\ \A d \in Confirmers \ {c} : d \in Owed'[r] <=> d \in Owed[r]
  BY OwedRow
<1>2. c \notin Owed'[r] /\ Owed'[r] \subseteq Confirmers /\ Owed[r] \subseteq Confirmers
  BY OwedValue
<1>3. Owed'[r] = Owed[r] \ {c}
  BY <1>1, <1>2
<1>4. QED
  BY <1>1, <1>3 DEF Owed

LEMMA OwedMore ==
    ASSUME NEW c \in Confirmers, NEW r \in Rows, OwedElsewhere(c),
           \A q \in Rows : Owes(c, q)' <=> q = r,
           \A q \in Rows : ~Owes(c, q)
    PROVE  Owed' = [Owed EXCEPT ![r] = Owed[r] \cup {c}]
<1>1. /\ \A q \in Rows \ {r} : Owed'[q] = Owed[q]
      /\ \A d \in Confirmers \ {c} : d \in Owed'[r] <=> d \in Owed[r]
  BY OwedRow
<1>2. c \in Owed'[r] /\ Owed'[r] \subseteq Confirmers /\ Owed[r] \subseteq Confirmers
  BY OwedValue
<1>3. Owed'[r] = Owed[r] \cup {c}
  BY <1>1, <1>2
<1>4. QED
  BY <1>1, <1>3 DEF Owed

LEMMA ConfirmRefines ==
    ASSUME BInv, NEW c \in Confirmers, NEW r \in Rows, ConfirmMatch(c, r)
    PROVE  P!Confirm(r, c)
<1>1. /\ status[r] # "NONE" /\ status' = [status EXCEPT ![r] = "CONFIRMED"]
      /\ confirm[c].step = "idle"
      /\ confirm' = [confirm EXCEPT ![c] = [step |-> "read", row |-> {r}]]
      /\ ledger' = ledger /\ lost' = lost
  BY DEF ConfirmMatch, history
<1>2. \A q \in Rows : ~Owes(c, q)
  BY <1>1 DEF Owes
<1>3. confirm'[c] = [step |-> "read", row |-> {r}] /\ OwedElsewhere(c)
  BY <1>1, OwedBut DEF BInv
<1>3a. \A q \in Rows : Owes(c, q)' <=> q = r
  BY <1>3 DEF Owes
<1>4. Owed' = [Owed EXCEPT ![r] = Owed[r] \cup {c}]
  BY <1>2, <1>3, <1>3a, OwedMore
<1>5. \A q \in Rows : c \notin Owed[q]
  BY <1>2, OwedValue
<1>6. QED
  BY <1>1, <1>4, <1>5 DEF P!Confirm

LEMMA ReadRefines ==
    ASSUME BInv, NEW c \in Confirmers, NEW r \in Rows, ReadMatch(c, r)
    PROVE  P!Skip(r, c) \/ UNCHANGED P!vars
<1>1. /\ status' = status /\ ledger' = ledger /\ lost' = lost
      /\ confirm[c].step = "read" /\ confirm[c].row = {r}
  BY DEF ReadMatch, history
<1>2. Owes(c, r) /\ \A q \in Rows : Owes(c, q) => q = r
  BY <1>1 DEF Owes
<1>3. CASE status[r] = "POSTED"
  <2>1. confirm' = [confirm EXCEPT ![c] = NoConfirm]
    BY <1>3 DEF ReadMatch
  <2>2. confirm'[c] = NoConfirm /\ OwedElsewhere(c)
    BY <2>1, OwedBut DEF BInv
  <2>2a. \A q \in Rows : ~Owes(c, q)'
    BY <2>2 DEF Owes, NoConfirm
  <2>3. Owed' = [Owed EXCEPT ![r] = Owed[r] \ {c}]
    BY <1>2, <2>2, <2>2a, OwedLess
  <2>4. c \in Owed[r] /\ ledger[r] > 0
    BY <1>2, <1>3, OwedValue DEF BInv, PostedHasEntry
  <2>5. QED
    BY <1>1, <2>3, <2>4 DEF P!Skip
<1>4. CASE status[r] # "POSTED"
  <2>1. confirm' = [confirm EXCEPT ![c] = [step |-> "post", row |-> {r}]]
    BY <1>4 DEF ReadMatch
  <2>2. confirm'[c] = [step |-> "post", row |-> {r}] /\ OwedElsewhere(c)
    BY <2>1, OwedBut DEF BInv
  <2>3. \A d \in Confirmers : \A q \in Rows : Owes(d, q)' <=> Owes(d, q)
    BY <1>1, <2>2 DEF Owes, OwedElsewhere
  <2>4. QED
    BY <1>1, <2>3, OwedSame DEF P!vars
<1>5. QED
  BY <1>3, <1>4

LEMMA PostRefines ==
    ASSUME BInv, NEW c \in Confirmers, NEW r \in Rows, PostEntry(c, r)
    PROVE  P!Post(r, c)
<1>1. /\ status' = status /\ ledger' = [ledger EXCEPT ![r] = ledger[r] + 1] /\ lost' = lost
      /\ confirm[c].step = "post" /\ confirm[c].row = {r}
      /\ confirm' = [confirm EXCEPT ![c] = [step |-> "mark", row |-> {r}]]
  BY DEF PostEntry, history
<1>2. Owes(c, r) /\ \A q \in Rows : Owes(c, q) => q = r
  BY <1>1 DEF Owes
<1>3. confirm'[c] = [step |-> "mark", row |-> {r}] /\ OwedElsewhere(c)
  BY <1>1, OwedBut DEF BInv
<1>3a. \A q \in Rows : ~Owes(c, q)'
  BY <1>3 DEF Owes
<1>4. Owed' = [Owed EXCEPT ![r] = Owed[r] \ {c}] /\ c \in Owed[r]
  BY <1>2, <1>3, <1>3a, OwedLess, OwedValue
<1>5. QED
  BY <1>1, <1>4 DEF P!Post

LEMMA MarkRefines ==
    ASSUME BInv, NEW c \in Confirmers, NEW r \in Rows, MarkPosted(c, r)
    PROVE  P!Mark(r)
<1>1. /\ status' = [status EXCEPT ![r] = "POSTED"] /\ ledger' = ledger /\ lost' = lost
      /\ confirm[c].step = "mark" /\ confirm[c].row = {r}
      /\ confirm' = [confirm EXCEPT ![c] = NoConfirm]
  BY DEF MarkPosted, history
<1>1a. confirm'[c] = NoConfirm /\ OwedElsewhere(c)
  BY <1>1, OwedBut DEF BInv
<1>2. \A d \in Confirmers : \A q \in Rows : Owes(d, q)' <=> Owes(d, q)
  BY <1>1, <1>1a DEF Owes, OwedElsewhere, NoConfirm
<1>3. Owed' = Owed /\ ledger[r] > 0
  BY <1>1, <1>2, OwedSame DEF BInv, MarksPosted
<1>4. QED
  BY <1>1, <1>3 DEF P!Mark

LEMMA DeathRefines ==
    ASSUME BInv, NEW c \in Confirmers, NEW r \in Rows, ConfirmDies(c, r)
    PROVE  P!Lose(r, c)
<1>1. /\ status' = status /\ ledger' = ledger /\ lost' = lost \cup {r}
      /\ confirm[c].row = {r} /\ confirm' = [confirm EXCEPT ![c] = NoConfirm]
  BY DEF ConfirmDies
<1>2. \A q \in Rows : Owes(c, q) => q = r
  BY <1>1 DEF Owes
<1>3. confirm'[c] = NoConfirm /\ OwedElsewhere(c)
  BY <1>1, OwedBut DEF BInv
<1>3a. \A q \in Rows : ~Owes(c, q)'
  BY <1>3 DEF Owes, NoConfirm
<1>4. Owed' = [Owed EXCEPT ![r] = Owed[r] \ {c}]
  BY <1>2, <1>3, <1>3a, OwedLess
<1>5. QED
  BY <1>1, <1>4 DEF P!Lose

LEMMA StutterRefines ==
    ASSUME bridge' = bridge, lost' = lost
    PROVE  UNCHANGED P!vars
<1>1. Owed' = Owed
  BY OwedSame DEF Owes, bridge
<1>2. QED
  BY <1>1 DEF P!vars, bridge

LEMMA StepRefines == BInv /\ [Next]_vars => [P!Next]_P!vars
<1> SUFFICES ASSUME BInv, [Next]_vars PROVE P!Next \/ UNCHANGED P!vars
  OBVIOUS
<1>1. CASE Next
  <2>1. CASE Elsewhere
    BY <2>1, ElsewhereStutters, StutterRefines
  <2>2. ASSUME NEW s \in Suggesters, NEW r \in Rows, CreateSuggestion(s, r) PROVE P!Next
    <3>1. /\ status[r] = "NONE" /\ status' = [status EXCEPT ![r] = "SUGGESTED"]
          /\ ledger' = ledger /\ confirm' = confirm /\ lost' = lost
      BY <2>2, CreateStep
    <3>2. Owed' = Owed
      BY <3>1, OwedSame DEF Owes
    <3>3. QED
      BY <3>1, <3>2 DEF P!Next, P!Suggest
  <2>3. ASSUME NEW c \in Confirmers, NEW r \in Rows,
               \/ ReadMatch(c, r) \/ PostEntry(c, r) \/ MarkPosted(c, r)
               \/ ConfirmMatch(c, r) \/ ConfirmDies(c, r)
        PROVE  P!Next \/ UNCHANGED P!vars
    <3>1. \/ P!Confirm(r, c) \/ P!Post(r, c) \/ P!Skip(r, c) \/ P!Lose(r, c) \/ P!Mark(r)
          \/ UNCHANGED P!vars
      BY <2>3, ConfirmRefines, ReadRefines, PostRefines, MarkRefines, DeathRefines
    <3>2. QED
      BY <3>1 DEF P!Next
  <2>4. QED
    BY <1>1, Steps, <2>1, <2>2, <2>3
<1>2. CASE UNCHANGED vars
  BY <1>2, StutterRefines DEF vars, bridge, history
<1>3. QED
  BY <1>1, <1>2

LEMMA InitRefines == Init => P!Init
<1> SUFFICES ASSUME Init PROVE P!Init
  OBVIOUS
<1>1. \A r \in Rows : Owed[r] = {}
  BY OwedValue DEF Init, Owes, NoConfirm
<1>2. Owed = [r \in Rows |-> {}]
  BY <1>1 DEF Owed
<1>3. QED
  BY <1>2 DEF Init, P!Init

(* confirmMatch and postMatch implement Posting: however confirmations of   *)
(* the matches overlap and die, each posts its match at most once, gives up *)
(* only on a match that has been posted, and none is marked before.         *)
THEOREM PostsOnceAlways == Spec => PostsOncePerConfirmation
<1>1. QED
  BY InitBridge, StepKeeps, InitRefines, StepRefines, PTL
     DEF Spec, PostsOncePerConfirmation, P!Spec

-----------------------------------------------------------------------------
(* What the matcher suggests. *)

LEMMA CandidateFacts ==
    /\ DOMAIN Candidates \subseteq Nat
    /\ \A k \in DOMAIN Candidates :
          LET c == Candidates[k] IN
          c.target \in Targets /\ c.amount \in Int /\ c.at \in Nat /\ c.endToEnd = NoRef
<1>1. DOMAIN Candidates = DOMAIN Entries /\ DOMAIN Entries \subseteq Nat
  BY ReconAssumption DEF Candidates
<1>2. ASSUME NEW k \in DOMAIN Candidates
      PROVE  /\ Candidates[k].target \in Targets /\ Candidates[k].amount \in Int
             /\ Candidates[k].at \in Nat /\ Candidates[k].endToEnd = NoRef
  <2>1. Candidates[k] =
           [target |-> Entries[k].id,
            amount |-> IF Entries[k].customer THEN Entries[k].open ELSE -Entries[k].open,
            at |-> Entries[k].due, doc |-> Entries[k].doc, endToEnd |-> NoRef]
    BY <1>1 DEF Candidates
  <2>2. Entries[k].open \in Int /\ Entries[k].due \in Nat /\ Entries[k].id \in Targets
    BY <1>1, ReconAssumption DEF Targets
  <2>3. QED
    BY <2>1, <2>2
<1>3. QED
  BY <1>1, <1>2

(* A matcher gives nothing, or a suggestion of one of its hits. *)
LEMMA FirstOfHits ==
    ASSUME NEW cs, NEW hits \in SUBSET Nat, NEW confidence
    PROVE  \/ FirstMatch(cs, hits, confidence) = {}
           \/ \E k \in hits : FirstMatch(cs, hits, confidence) = {Suggestion(cs[k], confidence)}
<1>1. CASE hits = {}
  BY <1>1 DEF FirstMatch
<1>2. CASE hits # {}
  BY <1>2, MinIn DEF FirstMatch
<1>3. QED
  BY <1>1, <1>2

Of(found, confidence) ==
    found = {} \/ \E target \in Targets :
                      found = {[target |-> target, confidence |-> confidence]}

LEMMA ExactOnce ==
    ASSUME NEW row \in Reports
    PROVE  Of(MatchExact(row, Candidates), 10000)
<1> DEFINE hits == {k \in DOMAIN Candidates : /\ Candidates[k].amount = row.amount
                                              /\ SameCalendarDay(Candidates[k].at, row.at)
                                              /\ Candidates[k].doc # NoRef
                                              /\ Candidates[k].doc = row.doc}
<1>1. hits \in SUBSET Nat /\ hits \subseteq DOMAIN Candidates
  BY CandidateFacts
<1>2. MatchExact(row, Candidates) = FirstMatch(Candidates, hits, 10000)
  BY DEF MatchExact
<1> HIDE DEF hits
<1>3. \/ FirstMatch(Candidates, hits, 10000) = {}
      \/ \E k \in hits : FirstMatch(Candidates, hits, 10000) = {Suggestion(Candidates[k], 10000)}
  BY <1>1, FirstOfHits
<1>4. \A k \in hits : Candidates[k].target \in Targets
  BY <1>1, CandidateFacts
<1>5. QED
  BY <1>2, <1>3, <1>4 DEF Of, Suggestion

(* Ledger entries have no end-to-end id. *)
LEMMA PixNever ==
    ASSUME NEW row \in Reports
    PROVE  MatchPix(row, Candidates) = {}
<1>1. CASE row.endToEnd = NoRef
  BY <1>1 DEF MatchPix
<1>2. CASE row.endToEnd # NoRef
  <2>1. {k \in DOMAIN Candidates : Candidates[k].endToEnd = row.endToEnd} = {}
    BY <1>2, CandidateFacts
  <2>2. QED
    BY <2>1 DEF MatchPix, FirstMatch
<1>3. QED
  BY <1>1, <1>2

(* What the fuzzy matcher scores. *)
Scores == 5000 .. 9500

LEMMA ConfidenceBounds ==
    ASSUME NEW row \in Reports, NEW k \in DOMAIN Candidates
    PROVE  Confidence(row, Candidates[k]) \in Scores
<1>1. /\ Candidates[k].amount \in Int /\ Candidates[k].at \in Int
      /\ row.amount \in Int /\ row.at \in Int
  BY CandidateFacts DEF Reports
<1>2. \A a, b \in Int : Distance(a, b) \in Nat
  BY DEF Distance
<1>3. \A n \in Nat : n \div 2 \in Nat
  OBVIOUS
<1> DEFINE cents == Distance(Candidates[k].amount, row.amount)
           days == DaysBetween(Candidates[k].at, row.at)
           score == 9500 - 100 * cents - 500 * days
<1>4. cents \in Nat /\ days \in Nat
  BY <1>1, <1>2, <1>3 DEF DaysBetween
<1>5. Confidence(row, Candidates[k]) = IF score > 5000 THEN score ELSE 5000
  BY DEF Confidence
<1> HIDE DEF cents, days
<1>6. score \in Int /\ score <= 9500
  BY <1>4
<1> HIDE DEF score
<1>7. QED
  BY <1>5, <1>6 DEF Scores

LEMMA FuzzyOnce ==
    ASSUME NEW row \in Reports
    PROVE  \E x : /\ x \in Scores
                  /\ Of(MatchFuzzy(row, Candidates, AmountTolerance, DayTolerance), x)
<1> DEFINE score == [k \in DOMAIN Candidates |-> Confidence(row, Candidates[k])]
           hits == {k \in DOMAIN Candidates :
                       Within(row, Candidates[k], AmountTolerance, DayTolerance)}
           best == {k \in hits : \A j \in hits : score[j] <= score[k]}
           found == FirstMatch(Candidates, best, score[Min(best)])
<1>1. MatchFuzzy(row, Candidates, AmountTolerance, DayTolerance) = found
  BY DEF MatchFuzzy
<1>2. best \in SUBSET Nat /\ best \subseteq DOMAIN Candidates
  BY CandidateFacts
<1>3. \A k \in DOMAIN Candidates : score[k] \in Scores
  BY ConfidenceBounds
<1> HIDE DEF best, score
<1>4. CASE best = {}
  <2>1. Of(found, 9500)
    BY <1>4 DEF FirstMatch, Of
  <2>2. 9500 \in Scores
    BY DEF Scores
  <2> HIDE DEF found
  <2>3. QED
    BY <1>1, <2>1, <2>2
<1>5. CASE best # {}
  <2>1. Min(best) \in best
    BY <1>2, <1>5, MinIn
  <2>2. PICK k, x : k = Min(best) /\ x = score[k]
    OBVIOUS
  <2>3. found = {Suggestion(Candidates[k], x)}
    BY <1>5, <2>2 DEF FirstMatch
  <2>4. k \in DOMAIN Candidates
    BY <1>2, <2>1, <2>2
  <2>5. x \in Scores
    BY <1>3, <2>2, <2>4
  <2> HIDE DEF found
  <2>6. Candidates[k].target \in Targets
    BY <2>4, CandidateFacts
  <2>7. Of(found, x)
    BY <2>3, <2>6 DEF Of, Suggestion
  <2>8. QED
    BY <1>1, <2>5, <2>7
<1>6. QED
  BY <1>4, <1>5

(* Suggestions of different targets, no two as confident. *)
Rankable(S) ==
    /\ \A a \in S : a.target \in Targets /\ a.confidence \in Int
    /\ \A a, b \in S : a # b => a.target # b.target /\ a.confidence # b.confidence

RankedBy(S, r) ==
    /\ r \in [1 .. Cardinality(S) -> S]
    /\ \A i, j \in DOMAIN r : i < j => r[i].confidence > r[j].confidence

LEMMA SingletonSize ==
    \A a : IsFiniteSet({a}) /\ Cardinality({a}) = 1
<1> TAKE a
<1>1. IsFiniteSet({} \cup {a}) /\ Cardinality({} \cup {a}) = 1
  BY FS_EmptySet, FS_AddElement
<1>2. {} \cup {a} = {a}
  OBVIOUS
<1>3. QED
  BY <1>1, <1>2

LEMMA SuggestedSet ==
    ASSUME NEW row \in Reports
    PROVE  \E S : /\ Rankable(S) /\ Cardinality(S) \in Nat /\ \E r : RankedBy(S, r)
                  /\ Suggested(row) = Ranked(S)
<1> DEFINE exact == MatchExact(row, Candidates)
           best == MatchFuzzy(row, Candidates, AmountTolerance, DayTolerance)
           fuzzy == {f \in best : \A s \in exact : s.target # f.target}
           S == exact \cup fuzzy
<1>1. Suggested(row) = Ranked(S)
  <2>1. exact \cup MatchPix(row, Candidates) = exact
    BY PixNever
  <2>2. QED
    BY <2>1 DEF Suggested, SuggestMatches
<1>2. Of(exact, 10000)
  BY ExactOnce
<1>3. PICK confidence : confidence \in Scores /\ Of(best, confidence)
  BY FuzzyOnce
<1>3a. confidence \in Int /\ 10000 > confidence
  BY <1>3 DEF Scores
<1>a. /\ S = exact \cup fuzzy /\ fuzzy \subseteq best
      /\ \A e \in exact, f \in fuzzy : e.target # f.target
  OBVIOUS
<1> HIDE DEF exact, best, fuzzy, S
<1>4. ASSUME NEW a, S = {a}, a.target \in Targets, a.confidence \in Int
      PROVE  Rankable(S) /\ Cardinality(S) \in Nat /\ \E r : RankedBy(S, r)
  <2>1. Cardinality({a}) = 1
    BY SingletonSize
  <2>1a. Cardinality(S) = 1
    BY <1>4, <2>1
  <2>2. RankedBy(S, [i \in 1 .. 1 |-> a])
    BY <1>4, <2>1a DEF RankedBy
  <2>3. QED
    BY <1>4, <2>1a, <2>2 DEF Rankable
<1>5. CASE S = {}
  <2>1. Cardinality(S) = 0
    BY <1>5, FS_EmptySet
  <2>2. RankedBy(S, [i \in 1 .. 0 |-> 0])
    BY <2>1 DEF RankedBy
  <2>3. QED
    BY <1>1, <1>5, <2>1, <2>2 DEF Rankable
<1>6. CASE exact # {} /\ fuzzy # {}
  <2>1. PICK e : exact = {e} /\ e.target \in Targets /\ e.confidence = 10000
    BY <1>2, <1>6 DEF Of
  <2>2. PICK f : fuzzy = {f} /\ f.target \in Targets /\ f.confidence = confidence
    BY <1>3, <1>6, <1>a DEF Of
  <2>3. e.target # f.target /\ e.confidence > f.confidence /\ f.confidence \in Int
    BY <1>a, <1>3a, <2>1, <2>2
  <2>4. S = {e, f} /\ e # f
    BY <1>a, <2>1, <2>2, <2>3
  <2>5. Cardinality(S) = 2
    <3>1. IsFiniteSet({f}) /\ Cardinality({f}) = 1
      BY SingletonSize
    <3>2. Cardinality({f} \cup {e}) = 2
      BY <2>4, <3>1, FS_AddElement
    <3>3. QED
      BY <2>4, <3>2
  <2>6. RankedBy(S, [i \in 1 .. 2 |-> IF i = 1 THEN e ELSE f])
    BY <2>3, <2>4, <2>5 DEF RankedBy
  <2>7. Rankable(S)
    BY <2>1, <2>2, <2>3, <2>4 DEF Rankable
  <2>8. QED
    BY <1>1, <2>5, <2>6, <2>7
<1>7. CASE exact # {} /\ fuzzy = {}
  <2>1. PICK e : exact = {e} /\ e.target \in Targets /\ e.confidence \in Int
    BY <1>2, <1>7 DEF Of
  <2>2. S = {e}
    BY <1>7, <1>a, <2>1
  <2>3. QED
    BY <1>1, <1>4, <2>1, <2>2
<1>8. CASE exact = {} /\ fuzzy # {}
  <2>1. PICK f : fuzzy = {f} /\ f.target \in Targets /\ f.confidence \in Int
    <3>1. best # {}
      BY <1>8, <1>a
    <3>2. PICK f : best = {f} /\ f.target \in Targets /\ f.confidence = confidence
      BY <1>3, <3>1 DEF Of
    <3>3. fuzzy = {f}
      BY <1>8, <1>a, <3>2
    <3>4. QED
      BY <1>3a, <3>2, <3>3
  <2>2. S = {f}
    BY <1>8, <1>a, <2>1
  <2>3. QED
    BY <1>1, <1>4, <2>1, <2>2
<1>9. QED
  BY <1>5, <1>6, <1>7, <1>8, <1>a

(* The suggestions of a transaction are of different targets. *)
LEMMA SuggestedFacts ==
    ASSUME NEW row \in Reports
    PROVE  /\ Len(Suggested(row)) \in Nat
           /\ DOMAIN Suggested(row) = 1 .. Len(Suggested(row))
           /\ \A k \in DOMAIN Suggested(row) : Suggested(row)[k].target \in Targets
           /\ \A i, j \in DOMAIN Suggested(row) :
                  Suggested(row)[i].target = Suggested(row)[j].target => i = j
<1>1. PICK S : /\ Rankable(S) /\ Cardinality(S) \in Nat /\ \E r : RankedBy(S, r)
               /\ Suggested(row) = Ranked(S)
  BY SuggestedSet
<1>2. RankedBy(S, Ranked(S))
  BY <1>1 DEF RankedBy, Ranked
<1> DEFINE r == Suggested(row)
<1>3. RankedBy(S, r) /\ r \in Seq(S) /\ Len(r) = Cardinality(S)
  BY <1>1, <1>2 DEF RankedBy
<1> HIDE DEF r
<1>4. DOMAIN r = 1 .. Len(r) /\ Len(r) \in Nat /\ \A k \in DOMAIN r : r[k] \in S
  BY <1>1, <1>3 DEF RankedBy
<1>5. ASSUME NEW i \in DOMAIN r, NEW j \in DOMAIN r, r[i].target = r[j].target
      PROVE  i = j
  <2>1. r[i] = r[j]
    BY <1>1, <1>4, <1>5 DEF Rankable
  <2>2. ~(i < j) /\ ~(j < i)
    BY <1>1, <1>3, <1>4, <2>1 DEF RankedBy, Rankable
  <2>3. QED
    BY <1>4, <2>2
<1>6. \A k \in DOMAIN r : r[k].target \in Targets
  BY <1>1, <1>4 DEF Rankable
<1>7. QED
  BY <1>4, <1>5, <1>6 DEF r

LEMMA TargetsFacts ==
    ASSUME NEW row \in Reports
    PROVE  /\ SuggestedTargets(row) \in Seq(Targets)
           /\ Len(SuggestedTargets(row)) = Len(Suggested(row))
           /\ \A k \in 1 .. Len(Suggested(row)) :
                  SuggestedTargets(row)[k] = Suggested(row)[k].target
  BY SuggestedFacts DEF SuggestedTargets

-----------------------------------------------------------------------------
(* Types. *)

Reading == [txn: Txns, row: Reports, left: Seq(Targets)]
Requests == [step: {"idle", "filter", "look", "create"}, read: Seq(Reading)]

Typed ==
    /\ DOMAIN txn = Txns
    /\ \A t \in Txns : txn[t] \subseteq Contents(t) /\ \A row, other \in txn[t] : row = other
    /\ about \in [Rows -> SUBSET [txn: Txns, target: Targets]]
    /\ suggest \in [Suggesters -> Requests]
    /\ syncs \in 0 .. MaxSyncs /\ confirms \in 0 .. MaxConfirms
    /\ crashes \in 0 .. MaxCrashes
    /\ revised \cup twins \cup torn \subseteq Txns /\ lost \subseteq Rows

LEMMA TypeSplit == TypeOK <=> Typed /\ BridgeType
  BY DEF TypeOK, Typed, BridgeType, Reading, Requests

LEMMA ContentsAreReports ==
    ASSUME NEW t \in Txns
    PROVE  Contents(t) \subseteq Reports /\ Versions[t] \subseteq Contents(t)
<1>1. Versions[t] \subseteq Reports
  BY ReconAssumption
<1>2. QED
  BY <1>1 DEF Contents

LEMMA CurrentFacts ==
    ASSUME NEW read \in Seq(Reading), NEW k \in Current(read)
    PROVE  /\ k \in DOMAIN read /\ k \in Nat /\ read[k] \in Reading /\ read[k].left # <<>>
           /\ \A j \in Current(read) : j = k
<1>1. /\ DOMAIN read = 1 .. Len(read) /\ Len(read) \in Nat
      /\ \A j \in DOMAIN read : read[j] \in Reading
  OBVIOUS
<1>2. ASSUME NEW j \in Current(read) PROVE ~(j < k) /\ ~(k < j)
  BY <1>1 DEF Current
<1>3. QED
  BY <1>1, <1>2 DEF Current

LEMMA IdleRequest == NoSuggest \in Requests /\ NoSuggest.step = "idle" /\ NoSuggest.read = <<>>
  BY DEF NoSuggest, Requests

LEMMA RemainingFacts ==
    ASSUME NEW read \in Seq(Reading)
    PROVE  /\ Remaining(read) \in Requests
           /\ \/ Remaining(read) = NoSuggest /\ Current(read) = {}
              \/ Remaining(read) = [step |-> "look", read |-> read]
  BY IdleRequest DEF Remaining, Requests

(* What a request reads is there. *)
LEMMA PagesFacts ==
    ASSUME Typed, NEW T \in SUBSET Txns, NEW read \in Pages(T)
    PROVE  /\ read \in Seq(Reading)
           /\ \A k \in DOMAIN read : read[k].left = <<>> /\ txn[read[k].txn] = {read[k].row}
<1> DEFINE known == {t \in T : txn[t] # {}}
           row(t) == CHOOSE r \in txn[t] : TRUE
<1>1. PICK o \in UNION {[1 .. n -> known] : n \in 0 .. Page} :
         read = [k \in DOMAIN o |-> [txn |-> o[k], row |-> row(o[k]), left |-> <<>>]]
  BY DEF Pages
<1>2. PICK n \in 0 .. Page : o \in [1 .. n -> known]
  OBVIOUS
<1>3. n \in Nat /\ DOMAIN o = 1 .. n
  BY <1>2, ReconAssumption
<1>4. ASSUME NEW t \in known
      PROVE  t \in Txns /\ row(t) \in Reports /\ txn[t] = {row(t)}
  <2>1. t \in Txns /\ txn[t] # {} /\ row(t) \in txn[t]
    OBVIOUS
  <2>2. txn[t] \subseteq Contents(t) /\ \A a, b \in txn[t] : a = b
    BY <2>1 DEF Typed
  <2>3. QED
    BY <2>1, <2>2, ContentsAreReports
<1> HIDE DEF known, row
<1>5. ASSUME NEW k \in 1 .. n
      PROVE  read[k] \in Reading /\ read[k].left = <<>> /\ txn[read[k].txn] = {read[k].row}
  <2>1. o[k] \in known /\ read[k] = [txn |-> o[k], row |-> row(o[k]), left |-> <<>>]
    BY <1>1, <1>2, <1>3
  <2>2. o[k] \in Txns /\ row(o[k]) \in Reports /\ txn[o[k]] = {row(o[k])}
    BY <1>4, <2>1
  <2>3. QED
    BY <2>1, <2>2 DEF Reading
<1>6. DOMAIN read = 1 .. n /\ \A k \in 1 .. n : read[k] \in Reading
  BY <1>1, <1>3, <1>5
<1>7. read = [k \in 1 .. n |-> read[k]]
  BY <1>1, <1>6
<1>8. read \in Seq(Reading)
  BY <1>3, <1>6, <1>7
<1>9. QED
  BY <1>5, <1>6, <1>8

LEMMA TailReading ==
    ASSUME NEW p \in Reading, p.left # <<>>
    PROVE  LET q == [p EXCEPT !.left = Tail(p.left)] IN
           /\ q \in Reading /\ q.txn = p.txn /\ q.row = p.row
           /\ Len(p.left) \in Nat \ {0} /\ Len(q.left) = Len(p.left) - 1
           /\ \A j \in 1 .. Len(q.left) : q.left[j] = p.left[j + 1]
           /\ Head(p.left) = p.left[1] /\ Head(p.left) \in Targets
  BY DEF Reading

(* Going on leaves the rest of what was read alone. *)
Shortened(read, k) == [read EXCEPT ![k].left = Tail(@)]

LEMMA ShortenedFacts ==
    ASSUME NEW read \in Seq(Reading), NEW k \in Current(read)
    PROVE  /\ Shortened(read, k) \in Seq(Reading)
           /\ DOMAIN Shortened(read, k) = DOMAIN read
           /\ Shortened(read, k)[k] = [read[k] EXCEPT !.left = Tail(read[k].left)]
           /\ \A j \in DOMAIN read \ {k} : Shortened(read, k)[j] = read[j]
<1>1. k \in DOMAIN read /\ read[k] \in Reading /\ read[k].left # <<>>
  BY CurrentFacts
<1>2. [read[k] EXCEPT !.left = Tail(read[k].left)] \in Reading
  BY <1>1, TailReading
<1>3. Shortened(read, k) = [read EXCEPT ![k] = [read[k] EXCEPT !.left = Tail(read[k].left)]]
  BY DEF Shortened
<1>4. QED
  BY <1>1, <1>2, <1>3

LEMMA ProceedStep ==
    ASSUME Typed, NEW s \in Suggesters, NEW k \in Current(suggest[s].read), Proceed(s, k)
    PROVE  /\ suggest[s].read \in Seq(Reading)
           /\ suggest' = [suggest EXCEPT ![s] = Remaining(Shortened(suggest[s].read, k))]
           /\ Remaining(Shortened(suggest[s].read, k)) \in Requests
<1>1. suggest[s].read \in Seq(Reading)
  BY DEF Typed, Requests
<1>2. Shortened(suggest[s].read, k) \in Seq(Reading)
  BY <1>1, ShortenedFacts
<1>3. Remaining(Shortened(suggest[s].read, k)) \in Requests
  BY <1>2, RemainingFacts
<1>4. suggest' = [suggest EXCEPT ![s] = Remaining(Shortened(suggest[s].read, k))]
  BY DEF Proceed, Shortened
<1>5. QED
  BY <1>1, <1>3, <1>4

LEMMA FilterStep ==
    ASSUME Typed, NEW s \in Suggesters, FilterUnmatched(s)
    PROVE  \E read \in Seq(Reading) :
              /\ suggest' = [suggest EXCEPT ![s] = Remaining(read)]
              /\ DOMAIN read = DOMAIN suggest[s].read
              /\ \A k \in DOMAIN read :
                    /\ read[k].txn = suggest[s].read[k].txn
                    /\ read[k].row = suggest[s].read[k].row
                    /\ read[k].left # <<>> =>
                          /\ RowsOf(read[k].txn) = {}
                          /\ read[k].left = SuggestedTargets(read[k].row)
<1> DEFINE old == suggest[s].read
           read == [k \in DOMAIN old |->
                       [old[k] EXCEPT !.left = IF RowsOf(old[k].txn) = {}
                                               THEN SuggestedTargets(old[k].row) ELSE <<>>]]
<1>1. old \in Seq(Reading)
  BY DEF Typed, Requests
<1>2. suggest' = [suggest EXCEPT ![s] = Remaining(read)]
  BY DEF FilterUnmatched
<1>3. ASSUME NEW k \in DOMAIN old
      PROVE  /\ read[k] \in Reading /\ read[k].txn = old[k].txn /\ read[k].row = old[k].row
             /\ read[k].left # <<>> => /\ RowsOf(read[k].txn) = {}
                                       /\ read[k].left = SuggestedTargets(read[k].row)
  <2>1. old[k] \in Reading
    BY <1>1
  <2>2. SuggestedTargets(old[k].row) \in Seq(Targets) /\ <<>> \in Seq(Targets)
    BY <2>1, TargetsFacts DEF Reading
  <2>3. QED
    BY <2>1, <2>2 DEF Reading
<1> HIDE DEF old
<1>4. DOMAIN old = 1 .. Len(old) /\ Len(old) \in Nat
  BY <1>1
<1>4a. DOMAIN read = 1 .. Len(old) /\ read = [k \in 1 .. Len(old) |-> read[k]]
  BY <1>4
<1>4b. \A k \in 1 .. Len(old) : read[k] \in Reading
  BY <1>3, <1>4
<1> HIDE DEF read
<1>5. read \in Seq(Reading)
  BY <1>4, <1>4a, <1>4b
<1>6. QED
  BY <1>2, <1>3, <1>4, <1>4a, <1>5 DEF old

-----------------------------------------------------------------------------
LEMMA InitTyped == Init => Typed
<1> SUFFICES ASSUME Init PROVE Typed
  OBVIOUS
<1>1. /\ DOMAIN txn = Txns /\ \A t \in Txns : txn[t] = {}
      /\ about \in [Rows -> SUBSET [txn: Txns, target: Targets]]
  BY DEF Init
<1>2. suggest \in [Suggesters -> Requests]
  BY IdleRequest DEF Init
<1>3. syncs \in 0 .. MaxSyncs /\ confirms \in 0 .. MaxConfirms /\ crashes \in 0 .. MaxCrashes
  BY ReconAssumption DEF Init
<1>4. revised \cup twins \cup torn \subseteq Txns /\ lost \subseteq Rows
  BY DEF Init
<1>5. QED
  BY <1>1, <1>2, <1>3, <1>4 DEF Typed

LEMMA UpdateKeepsContents ==
    ASSUME NEW t \in Txns, NEW report \in Versions[t], NEW row \in Contents(t), NEW e,
           e = IF report.endToEnd = NoRef THEN row.endToEnd ELSE report.endToEnd
    PROVE  [row EXCEPT !.amount = report.amount, !.doc = report.doc, !.endToEnd = e]
               \in Contents(t)
<1> DEFINE u == [row EXCEPT !.amount = report.amount, !.doc = report.doc, !.endToEnd = e]
<1>1. PICK old \in Versions[t], any \in Versions[t] :
         row.at = old.at /\ row.type = old.type /\ row.endToEnd = any.endToEnd
  BY DEF Contents
<1>2. row \in Reports /\ report \in Reports
  BY ContentsAreReports
<1>3. \E w \in Versions[t] : e = w.endToEnd
  BY <1>1
<1>4. e \in STRING
  BY <1>2 DEF Reports
<1>5. /\ u \in Reports /\ u.amount = report.amount /\ u.doc = report.doc /\ u.at = row.at
      /\ u.type = row.type /\ u.endToEnd = e
  BY <1>2, <1>4 DEF Reports
<1> HIDE DEF u
<1>6. u \in Contents(t)
  BY <1>1, <1>3, <1>5 DEF Contents
<1>7. QED
  BY <1>6 DEF u

(* What an update makes of the row of a transaction, or an insert. *)
LEMMA SyncTxn ==
    ASSUME Typed, NEW t \in Txns, NEW report \in Versions[t], Sync(t, report)
    PROVE  /\ txn' = [txn EXCEPT ![t] = txn'[t]]
           /\ txn'[t] \subseteq Contents(t) /\ \A a, b \in txn'[t] : a = b
<1> DEFINE update(row) == [row EXCEPT !.amount = report.amount, !.doc = report.doc,
                              !.endToEnd = IF report.endToEnd = NoRef THEN row.endToEnd
                                           ELSE report.endToEnd]
           new == IF txn[t] = {} THEN {report} ELSE {update(row) : row \in txn[t]}
<1>1. txn' = [txn EXCEPT ![t] = new] /\ DOMAIN txn = Txns
  BY DEF Sync, Typed
<1>2. txn'[t] = new
  BY <1>1
<1>3. CASE txn[t] = {}
  <2>1. new = {report} /\ report \in Contents(t)
    BY <1>3, ContentsAreReports
  <2>2. QED
    BY <1>1, <1>2, <2>1
<1>4. CASE txn[t] # {}
  <2>1. PICK row \in txn[t] : TRUE
    BY <1>4
  <2>2. txn[t] = {row} /\ row \in Contents(t)
    BY <2>1 DEF Typed
  <2>3. new = {update(row)}
    BY <1>4, <2>2
  <2>4. update(row) \in Contents(t)
    BY <2>2, UpdateKeepsContents
  <2> HIDE DEF new
  <2>5. QED
    BY <1>1, <1>2, <2>3, <2>4
<1>5. QED
  BY <1>3, <1>4

LEMMA SyncTyped ==
    ASSUME Typed, NEW t \in Txns, NEW report \in Versions[t], Sync(t, report)
    PROVE  Typed'
<1>1. /\ txn' = [txn EXCEPT ![t] = txn'[t]]
      /\ txn'[t] \subseteq Contents(t) /\ \A a, b \in txn'[t] : a = b
  BY SyncTxn
<1>2. /\ about' = about /\ suggest' = suggest /\ confirms' = confirms /\ crashes' = crashes
      /\ twins' = twins /\ torn' = torn /\ lost' = lost
      /\ syncs < MaxSyncs /\ syncs' = syncs + 1 /\ revised' \subseteq revised \cup {t}
  BY DEF Sync
<1>3. DOMAIN txn' = Txns /\ \A u \in Txns \ {t} : txn'[u] = txn[u]
  BY <1>1 DEF Typed
<1>4. syncs' \in 0 .. MaxSyncs
  BY <1>2, ReconAssumption DEF Typed
<1>5. \A u \in Txns : txn'[u] \subseteq Contents(u) /\ \A a, b \in txn'[u] : a = b
  BY <1>1, <1>3 DEF Typed
<1>6. (revised \cup twins \cup torn)' \subseteq Txns
  BY <1>2 DEF Typed
<1>7. QED
  BY <1>2, <1>3, <1>4, <1>5, <1>6 DEF Typed

LEMMA RequestTyped ==
    ASSUME Typed, NEW s \in Suggesters, NEW q \in Requests,
           suggest' = [suggest EXCEPT ![s] = q],
           UNCHANGED <<txn, syncs, confirms, revised, lost>>,
           about' \in [Rows -> SUBSET [txn: Txns, target: Targets]],
           crashes' \in 0 .. MaxCrashes, (twins \cup torn)' \subseteq Txns
    PROVE  Typed'
<1>1. suggest' \in [Suggesters -> Requests]
  BY DEF Typed
<1>2. QED
  BY <1>1 DEF Typed

LEMMA DueTyped ==
    ASSUME Typed, NEW s \in Suggesters, NEW k \in Current(suggest[s].read)
    PROVE  /\ suggest[s].read[k] \in Reading
           /\ Due(suggest[s].read[k]) \in [txn: Txns, target: Targets]
           /\ Due(suggest[s].read[k]).txn = suggest[s].read[k].txn
<1>1. suggest[s].read \in Seq(Reading)
  BY DEF Typed, Requests
<1>2. suggest[s].read[k] \in Reading /\ suggest[s].read[k].left # <<>>
  BY <1>1, CurrentFacts
<1>3. Head(suggest[s].read[k].left) \in Targets
  BY <1>2, TailReading
<1>4. QED
  BY <1>2, <1>3 DEF Due, Reading

LEMMA ReadTyped ==
    ASSUME Typed, NEW s \in Suggesters, ReadTransactions(s)
    PROVE  Typed'
<1>1. PICK T \in {Txns} \cup {{t} : t \in Txns} : \E read \in Pages(T) :
         suggest' = [suggest EXCEPT ![s] = [step |-> "filter", read |-> read]]
  BY DEF ReadTransactions
<1>2. T \in SUBSET Txns
  OBVIOUS
<1>3. PICK read \in Pages(T) :
         suggest' = [suggest EXCEPT ![s] = [step |-> "filter", read |-> read]]
  BY <1>1
<1>4. [step |-> "filter", read |-> read] \in Requests
  BY <1>2, PagesFacts DEF Requests
<1>5. UNCHANGED <<txn, about, bounds, history>>
  BY DEF ReadTransactions
<1>6. QED
  BY <1>3, <1>4, <1>5, RequestTyped DEF Typed, bounds, history

LEMMA FilterTyped ==
    ASSUME Typed, NEW s \in Suggesters, FilterUnmatched(s)
    PROVE  Typed'
<1>1. PICK read \in Seq(Reading) : suggest' = [suggest EXCEPT ![s] = Remaining(read)]
  BY FilterStep
<1>2. Remaining(read) \in Requests
  BY RemainingFacts
<1>3. UNCHANGED <<txn, about, bounds, history>>
  BY DEF FilterUnmatched
<1>4. QED
  BY <1>1, <1>2, <1>3, RequestTyped DEF Typed, bounds, history

LEMMA LookTyped ==
    ASSUME Typed, NEW s \in Suggesters, LookForExisting(s)
    PROVE  Typed'
<1>1. UNCHANGED <<txn, about, bounds, history>>
  BY DEF LookForExisting
<1>2. \E q \in Requests : suggest' = [suggest EXCEPT ![s] = q]
  <2>1. PICK k \in Current(suggest[s].read) :
           \/ Proceed(s, k)
           \/ suggest' = [suggest EXCEPT ![s].step = "create"]
    BY DEF LookForExisting
  <2>2. CASE Proceed(s, k)
    BY <2>2, ProceedStep
  <2>3. CASE suggest' = [suggest EXCEPT ![s].step = "create"]
    <3>1. [suggest[s] EXCEPT !.step = "create"] \in Requests
      BY DEF Typed, Requests
    <3>2. QED
      BY <2>3, <3>1
  <2>4. QED
    BY <2>1, <2>2, <2>3
<1>3. QED
  BY <1>1, <1>2, RequestTyped DEF Typed, bounds, history

LEMMA CreateTyped ==
    ASSUME Typed, NEW s \in Suggesters, NEW r \in Rows, CreateSuggestion(s, r)
    PROVE  Typed'
<1>1. UNCHANGED <<txn, bounds, revised, torn, lost>>
  BY DEF CreateSuggestion
<1>2. PICK k \in Current(suggest[s].read) :
         LET due == Due(suggest[s].read[k]) IN
         /\ about' = [about EXCEPT ![r] = {due}]
         /\ twins' = IF Crossed(s, due) THEN twins \cup {due.txn} ELSE twins
         /\ Proceed(s, k)
  BY DEF CreateSuggestion
<1>3. \E q \in Requests : suggest' = [suggest EXCEPT ![s] = q]
  BY <1>2, ProceedStep
<1>4. Due(suggest[s].read[k]) \in [txn: Txns, target: Targets]
  BY DueTyped
<1>5. about' \in [Rows -> SUBSET [txn: Txns, target: Targets]]
  BY <1>2, <1>4 DEF Typed
<1>6. (twins \cup torn)' \subseteq Txns
  BY <1>1, <1>2, <1>4 DEF Typed
<1>7. QED
  BY <1>1, <1>3, <1>5, <1>6, RequestTyped DEF Typed, bounds

LEMMA DeathTyped ==
    ASSUME Typed, NEW s \in Suggesters, SuggestDies(s)
    PROVE  Typed'
<1>1. /\ UNCHANGED <<txn, about, syncs, confirms, revised, twins, lost>>
      /\ suggest' = [suggest EXCEPT ![s] = NoSuggest]
      /\ crashes < MaxCrashes /\ crashes' = crashes + 1
      /\ torn' \subseteq torn \cup {suggest[s].read[k].txn : k \in Current(suggest[s].read)}
  BY DEF SuggestDies
<1>2. crashes' \in 0 .. MaxCrashes
  BY <1>1, ReconAssumption DEF Typed
<1>3. \A k \in Current(suggest[s].read) : suggest[s].read[k].txn \in Txns
  BY DueTyped DEF Reading
<1>4. (twins \cup torn)' \subseteq Txns
  BY <1>1, <1>3 DEF Typed
<1>5. QED
  BY <1>1, <1>2, <1>4, IdleRequest, RequestTyped DEF Typed

LEMMA ConfirmTyped ==
    ASSUME Typed, NEW c \in Confirmers, NEW r \in Rows,
           \/ ReadMatch(c, r) \/ PostEntry(c, r) \/ MarkPosted(c, r)
           \/ ConfirmMatch(c, r) \/ ConfirmDies(c, r)
    PROVE  Typed'
<1>1. UNCHANGED <<txn, about, suggest, syncs, revised, twins, torn>>
  BY DEF ReadMatch, PostEntry, MarkPosted, ConfirmMatch, ConfirmDies, bounds, history
<1>2. confirms' \in 0 .. MaxConfirms
  BY ReconAssumption
     DEF Typed, ReadMatch, PostEntry, MarkPosted, ConfirmMatch, ConfirmDies, bounds
<1>3. crashes' \in 0 .. MaxCrashes
  BY ReconAssumption
     DEF Typed, ReadMatch, PostEntry, MarkPosted, ConfirmMatch, ConfirmDies, bounds
<1>4. lost' \subseteq Rows
  BY DEF Typed, ReadMatch, PostEntry, MarkPosted, ConfirmMatch, ConfirmDies, history
<1>5. QED
  BY <1>1, <1>2, <1>3, <1>4 DEF Typed

LEMMA StepTyped == Typed /\ [Next]_vars => Typed'
<1> SUFFICES ASSUME Typed, [Next]_vars PROVE Typed'
  OBVIOUS
<1>1. CASE UNCHANGED vars
  BY <1>1 DEF vars, bounds, history, Typed
<1>2. CASE Next
  <2>1. CASE Elsewhere
    BY <2>1, SyncTyped, ReadTyped, FilterTyped, LookTyped, DeathTyped DEF Elsewhere
  <2>2. QED
    BY <1>2, <2>1, Steps, CreateTyped, ConfirmTyped
<1>3. QED
  BY <1>1, <1>2

(* Types. *)
THEOREM TypeCorrect == Spec => []TypeOK
<1>1. Typed /\ BInv => TypeOK
  BY TypeSplit DEF BInv
<1>2. Spec => []Typed
  BY InitTyped, StepTyped, PTL DEF Spec
<1>3. QED
  BY <1>1, <1>2, Invariance, PTL

-----------------------------------------------------------------------------
(* Which suggestions are there. *)

Undisturbed(t) == t \notin revised \cup twins

(* All but the first i suggestions of the row are left. *)
Follows(p, i) ==
    LET ranked == Suggested(p.row)
    IN /\ Len(p.left) + i = Len(ranked)
       /\ \A j \in 1 .. Len(p.left) : p.left[j] = ranked[i + j].target

Working(q) == q.step \in {"look", "create"}

(* A match that is not there is of nothing, one that is is of one target. *)
MatchesAbout ==
    \A r \in Rows : /\ status[r] = "NONE" => about[r] = {}
                    /\ \A m \in about[r] : about[r] = {m}

(* A transaction that has not changed is as the request read it. *)
ReadIsRow(q) ==
    \A k \in DOMAIN q.read :
        /\ q.step = "filter" \/ q.read[k].left # <<>>
        /\ q.read[k].txn \notin revised
        => txn[q.read[k].txn] = {q.read[k].row}

(* What a request has passed of a transaction is there. *)
PassedIsThere(q) ==
    \A k \in DOMAIN q.read :
        Working(q) /\ q.read[k].left # <<>> /\ Undisturbed(q.read[k].txn) =>
            \E i \in Nat : /\ i <= Cardinality(RowsOf(q.read[k].txn))
                           /\ Follows(q.read[k], i)

(* What a request is about to create is not there. *)
DueIsMissing(q) ==
    \A k \in Current(q.read) :
        q.step = "create" /\ Undisturbed(q.read[k].txn) => ~Exists(Due(q.read[k]))

(* The suggestions there are the best ones, each once. *)
Laddered(t) ==
    /\ IsFiniteSet(RowsOf(t))
    /\ \A row \in txn[t] :
          /\ Cardinality(RowsOf(t)) <= Len(Suggested(row))
          /\ MatchTargets(t) = FirstTargets(Suggested(row), Cardinality(RowsOf(t)))

(* Some request has come to transaction t and not finished with it. *)
At(q, t) == Working(q) /\ \E k \in Current(q.read) : q.read[k].txn = t
InProgress(t) == \E s \in Suggesters : At(suggest[s], t)

Complete(t) == \A row \in txn[t] : Cardinality(RowsOf(t)) \in {0, Len(Suggested(row))}

RequestInv(q) == ReadIsRow(q) /\ PassedIsThere(q) /\ DueIsMissing(q)

LadderInv ==
    /\ MatchesAbout
    /\ \A s \in Suggesters : RequestInv(suggest[s])
    /\ \A t \in Txns : Undisturbed(t) => Laddered(t)
    /\ \A t \in Txns : Undisturbed(t) /\ t \notin torn => Complete(t) \/ InProgress(t)

LEMMA InitLadder == Init => LadderInv
<1> SUFFICES ASSUME Init PROVE LadderInv
  OBVIOUS
<1>1. MatchesAbout
  BY DEF Init, MatchesAbout
<1>2. ASSUME NEW s \in Suggesters PROVE RequestInv(suggest[s])
  <2>1. suggest[s].read = <<>>
    BY IdleRequest DEF Init
  <2>2. DOMAIN suggest[s].read = {} /\ Current(suggest[s].read) = {}
    BY <2>1 DEF Current
  <2>3. QED
    BY <2>2 DEF RequestInv, ReadIsRow, PassedIsThere, DueIsMissing
<1>3. \A t \in Txns : Laddered(t) /\ Complete(t)
  <2>1. \A t \in Txns : txn[t] = {} /\ RowsOf(t) = {}
    BY DEF Init, RowsOf
  <2>2. QED
    BY <2>1, FS_EmptySet DEF Laddered, Complete
<1>4. QED
  BY <1>1, <1>2, <1>3 DEF LadderInv

(* The matches of a transaction. *)
LEMMA MatchTargetsAre ==
    ASSUME Typed, MatchesAbout, NEW t \in Txns, NEW x
    PROVE  x \in MatchTargets(t) <=> Exists([txn |-> t, target |-> x])
<1>1. ASSUME x \in MatchTargets(t) PROVE Exists([txn |-> t, target |-> x])
  <2>1. PICK r \in RowsOf(t) : \E m \in about[r] : m.target = x
    BY <1>1 DEF MatchTargets
  <2>1a. PICK m \in about[r] : m.target = x
    BY <2>1
  <2>2. PICK n \in about[r] : n.txn = t
    BY DEF RowsOf
  <2>3. r \in Rows /\ about[r] = {m} /\ m.txn = t
    BY <2>1a, <2>2 DEF RowsOf, MatchesAbout
  <2>4. m \in [txn: Txns, target: Targets]
    BY <2>1a, <2>3 DEF Typed
  <2>5. m = [txn |-> t, target |-> x]
    BY <2>1a, <2>3, <2>4
  <2>6. QED
    BY <2>3, <2>5 DEF Exists
<1>2. ASSUME Exists([txn |-> t, target |-> x]) PROVE x \in MatchTargets(t)
  <2>1. PICK r \in Rows : about[r] = {[txn |-> t, target |-> x]}
    BY <1>2 DEF Exists
  <2> DEFINE m == [txn |-> t, target |-> x]
  <2>2. about[r] = {m} /\ m.txn = t /\ m.target = x
    BY <2>1
  <2> HIDE DEF m
  <2>3. r \in RowsOf(t)
    BY <2>2 DEF RowsOf
  <2>4. QED
    BY <2>2, <2>3 DEF MatchTargets
<1>3. QED
  BY <1>1, <1>2

LEMMA CountIsNat ==
    ASSUME NEW t \in Txns, Laddered(t)
    PROVE  Cardinality(RowsOf(t)) \in Nat
  BY FS_CardinalityType DEF Laddered

(* The suggestion a request has come to is there exactly when some of those *)
(* it has not passed are.                                                   *)
LEMMA DueIsNext ==
    ASSUME Typed, MatchesAbout, NEW t \in Txns, Laddered(t), NEW p \in Reading,
           p.txn = t, txn[t] = {p.row}, p.left # <<>>,
           NEW i \in Nat, i <= Cardinality(RowsOf(t)), Follows(p, i)
    PROVE  /\ Exists(Due(p)) <=> i < Cardinality(RowsOf(t))
           /\ Cardinality(RowsOf(t)) \in Nat /\ Cardinality(RowsOf(t)) <= Len(Suggested(p.row))
           /\ Len(Suggested(p.row)) \in Nat /\ i < Len(Suggested(p.row))
           /\ Head(p.left) = Suggested(p.row)[i + 1].target
<1> DEFINE ranked == Suggested(p.row)
           n == Cardinality(RowsOf(t))
<1>1. /\ n \in Nat /\ n <= Len(ranked) /\ MatchTargets(t) = FirstTargets(ranked, n)
      /\ p.row \in Reports
  BY CountIsNat DEF Laddered, Reading
<1>2. /\ Len(ranked) \in Nat /\ DOMAIN ranked = 1 .. Len(ranked)
      /\ \A a, b \in DOMAIN ranked : ranked[a].target = ranked[b].target => a = b
  BY <1>1, SuggestedFacts
<1>3. Len(p.left) \in Nat \ {0} /\ Head(p.left) = p.left[1]
  BY TailReading
<1>4. i < Len(ranked) /\ Head(p.left) = ranked[i + 1].target
  BY <1>2, <1>3 DEF Follows
<1>5. Exists(Due(p)) <=> ranked[i + 1].target \in MatchTargets(t)
  BY <1>4, MatchTargetsAre DEF Due
<1> HIDE DEF ranked, n
<1>6. ranked[i + 1].target \in FirstTargets(ranked, n) <=> i < n
  <2>1. ASSUME i < n PROVE ranked[i + 1].target \in FirstTargets(ranked, n)
    BY <1>1, <2>1 DEF FirstTargets
  <2>2. ASSUME NEW k \in 1 .. n, ranked[i + 1].target = ranked[k].target PROVE i < n
    <3>1. i + 1 \in DOMAIN ranked /\ k \in DOMAIN ranked
      BY <1>1, <1>2, <1>4, <2>2
    <3>2. i + 1 = k
      BY <1>2, <2>2, <3>1
    <3>3. QED
      BY <1>1, <2>2, <3>2
  <2>3. QED
    BY <2>1, <2>2 DEF FirstTargets
<1>7. QED
  BY <1>1, <1>2, <1>4, <1>5, <1>6 DEF ranked, n

LEMMA FollowsNext ==
    ASSUME NEW p \in Reading, p.left # <<>>, NEW i \in Nat, Follows(p, i)
    PROVE  LET q == [p EXCEPT !.left = Tail(p.left)] IN
           /\ Follows(q, i + 1)
           /\ q.left = <<>> <=> i + 1 = Len(Suggested(p.row))
<1> DEFINE q == [p EXCEPT !.left = Tail(p.left)]
<1>1. /\ q \in Reading /\ q.row = p.row
      /\ Len(p.left) \in Nat \ {0} /\ Len(q.left) = Len(p.left) - 1
      /\ \A j \in 1 .. Len(q.left) : q.left[j] = p.left[j + 1]
  BY TailReading
<1>2. Len(Suggested(p.row)) \in Nat
  BY SuggestedFacts DEF Reading
<1> HIDE DEF q
<1>3. Len(p.left) + i = Len(Suggested(p.row))
  BY DEF Follows
<1>4. \A j \in 1 .. Len(q.left) : q.left[j] = Suggested(p.row)[i + 1 + j].target
  <2>1. ASSUME NEW j \in 1 .. Len(q.left)
        PROVE  q.left[j] = Suggested(p.row)[i + 1 + j].target
    <3>1. j + 1 \in 1 .. Len(p.left) /\ q.left[j] = p.left[j + 1]
      BY <1>1
    <3>2. p.left[j + 1] = Suggested(p.row)[i + (j + 1)].target
      BY <3>1 DEF Follows
    <3>3. i + (j + 1) = i + 1 + j
      OBVIOUS
    <3>4. QED
      BY <3>1, <3>2, <3>3
  <2>2. QED
    BY <2>1
<1> DEFINE length == Len(p.left)
           count == Len(Suggested(p.row))
<1>4a. /\ length \in Nat \ {0} /\ count \in Nat /\ length + i = count
       /\ Len(q.left) = length - 1 /\ Len(Suggested(q.row)) = count
  BY <1>1, <1>2, <1>3
<1> HIDE DEF length, count
<1>4b. (length - 1) + (i + 1) = count /\ (length - 1 = 0 <=> i + 1 = count)
  BY <1>4a
<1>5. Len(q.left) + (i + 1) = Len(Suggested(q.row))
  BY <1>4a, <1>4b
<1>6. Follows(q, i + 1)
  BY <1>1, <1>4, <1>5 DEF Follows
<1>7. q.left = <<>> <=> Len(q.left) = 0
  BY <1>1, EmptySeq DEF Reading
<1>8. q.left = <<>> <=> i + 1 = Len(Suggested(p.row))
  BY <1>4a, <1>4b, <1>7 DEF count
<1>9. QED
  BY <1>6, <1>8 DEF q

-----------------------------------------------------------------------------
(* What the invariant says of a request depends on these alone. *)
tables == <<txn, about, revised, twins>>

LEMMA RequestFrame ==
    ASSUME tables' = tables, NEW s \in Suggesters, RequestInv(suggest'[s])
    PROVE  RequestInv(suggest[s])'
<1>1. /\ txn' = txn /\ about' = about /\ revised' = revised /\ twins' = twins
      /\ \A t : RowsOf(t)' = RowsOf(t)
  BY DEF tables, RowsOf
<1>2. ReadIsRow(suggest[s])'
  BY <1>1 DEF RequestInv, ReadIsRow
<1>3. PassedIsThere(suggest[s])'
  BY <1>1 DEF RequestInv, PassedIsThere, Working, Undisturbed
<1>4. DueIsMissing(suggest[s])'
  BY <1>1 DEF RequestInv, DueIsMissing, Undisturbed, Exists, Due
<1>5. QED
  BY <1>2, <1>3, <1>4 DEF RequestInv

LEMMA LadderFrame ==
    ASSUME tables' = tables, NEW t \in Txns
    PROVE  /\ Undisturbed(t)' = Undisturbed(t) /\ Laddered(t)' = Laddered(t)
           /\ Complete(t)' = Complete(t)
<1>1. /\ txn' = txn /\ about' = about /\ revised' = revised /\ twins' = twins
      /\ RowsOf(t)' = RowsOf(t)
  BY DEF tables, RowsOf
<1>2. MatchTargets(t)' = MatchTargets(t)
  BY <1>1 DEF MatchTargets
<1>3. QED
  BY <1>1, <1>2 DEF Undisturbed, Laddered, Complete

(* A step of a request that creates nothing. *)
LEMMA RequestKeeps ==
    ASSUME Typed, LadderInv, NEW s \in Suggesters, NEW q,
           suggest' = [suggest EXCEPT ![s] = q],
           tables' = tables, status' = status, torn \subseteq torn',
           RequestInv(q),
           \A t \in Txns : At(suggest[s], t) /\ Undisturbed(t) /\ t \notin torn'
                               => At(q, t) \/ Complete(t)
    PROVE  LadderInv'
<1>1. suggest'[s] = q /\ \A u \in Suggesters \ {s} : suggest'[u] = suggest[u]
  BY DEF Typed
<1>2. MatchesAbout'
  BY DEF LadderInv, MatchesAbout, tables
<1>3. ASSUME NEW u \in Suggesters PROVE RequestInv(suggest[u])'
  <2>1. RequestInv(suggest[u])
    BY DEF LadderInv
  <2>2. RequestInv(suggest'[u])
    <3>1. CASE u = s
      BY <1>1, <3>1
    <3>2. CASE u # s
      BY <1>1, <2>1, <3>2
    <3>3. QED
      BY <3>1, <3>2
  <2>3. QED
    BY <2>2, RequestFrame
<1>4. ASSUME NEW t \in Txns, Undisturbed(t)' PROVE Laddered(t)'
  BY <1>4, LadderFrame DEF LadderInv
<1>5. ASSUME NEW t \in Txns, Undisturbed(t)', t \notin torn'
      PROVE  Complete(t)' \/ InProgress(t)'
  <2>1. Undisturbed(t) /\ t \notin torn
    BY <1>5, LadderFrame
  <2>2. CASE Complete(t)
    BY <2>2, LadderFrame
  <2>3. CASE InProgress(t)
    <3>1. PICK u \in Suggesters : At(suggest[u], t)
      BY <2>3 DEF InProgress
    <3>2. Complete(t) \/ At(suggest'[u], t)
      <4>1. CASE u = s
        BY <1>1, <1>5, <2>1, <3>1, <4>1
      <4>2. CASE u # s
        BY <1>1, <3>1, <4>2
      <4>3. QED
        BY <4>1, <4>2
    <3>3. QED
      BY <3>2, LadderFrame DEF InProgress, At, Working
  <2>4. QED
    BY <2>1, <2>2, <2>3 DEF LadderInv
<1>6. QED
  BY <1>2, <1>3, <1>4, <1>5 DEF LadderInv

LEMMA NothingRead ==
    ASSUME NEW q, q.read = <<>>
    PROVE  RequestInv(q)
<1>1. DOMAIN q.read = {} /\ Current(q.read) = {}
  BY DEF Current
<1>2. QED
  BY <1>1 DEF RequestInv, ReadIsRow, PassedIsThere, DueIsMissing

LEMMA NoneInv == RequestInv(NoSuggest)
  BY NothingRead, IdleRequest

LEMMA ReadLadder ==
    ASSUME Typed, LadderInv, NEW s \in Suggesters, ReadTransactions(s)
    PROVE  LadderInv'
<1>1. PICK T \in {Txns} \cup {{t} : t \in Txns} : \E read \in Pages(T) :
         suggest' = [suggest EXCEPT ![s] = [step |-> "filter", read |-> read]]
  BY DEF ReadTransactions
<1>2. T \in SUBSET Txns
  OBVIOUS
<1>3. PICK read \in Pages(T) :
         suggest' = [suggest EXCEPT ![s] = [step |-> "filter", read |-> read]]
  BY <1>1
<1> DEFINE q == [step |-> "filter", read |-> read]
<1>4. q.step = "filter" /\ q.read = read
  OBVIOUS
<1>5. RequestInv(q)
  <2>1. \A k \in DOMAIN read : read[k].left = <<>> /\ txn[read[k].txn] = {read[k].row}
    BY <1>2, PagesFacts
  <2> HIDE DEF q
  <2>2. QED
    BY <1>4, <2>1 DEF RequestInv, ReadIsRow, PassedIsThere, DueIsMissing, Working
<1>6. suggest[s].step = "idle" /\ tables' = tables /\ status' = status /\ torn' = torn
  BY DEF ReadTransactions, tables, history
<1>7. \A t : ~At(suggest[s], t)
  BY <1>6 DEF At, Working
<1> HIDE DEF q
<1>8. suggest' = [suggest EXCEPT ![s] = q]
  BY <1>3 DEF q
<1>9. QED
  BY <1>5, <1>6, <1>7, <1>8, RequestKeeps

LEMMA FilterLadder ==
    ASSUME Typed, LadderInv, NEW s \in Suggesters, FilterUnmatched(s)
    PROVE  LadderInv'
<1>1. PICK read \in Seq(Reading) :
         /\ suggest' = [suggest EXCEPT ![s] = Remaining(read)]
         /\ DOMAIN read = DOMAIN suggest[s].read
         /\ \A k \in DOMAIN read :
               /\ read[k].txn = suggest[s].read[k].txn
               /\ read[k].row = suggest[s].read[k].row
               /\ read[k].left # <<>> =>
                     /\ RowsOf(read[k].txn) = {}
                     /\ read[k].left = SuggestedTargets(read[k].row)
  BY FilterStep
<1>2. suggest[s].step = "filter" /\ tables' = tables /\ status' = status /\ torn' = torn
  BY DEF FilterUnmatched, tables, history
<1>3. \A t : ~At(suggest[s], t)
  BY <1>2 DEF At, Working
<1>4. RequestInv(Remaining(read))
  <2>1. CASE Remaining(read) = NoSuggest
    BY <2>1, NoneInv
  <2>2. CASE Remaining(read) = [step |-> "look", read |-> read]
    <3> DEFINE q == Remaining(read)
    <3>1. q.step = "look" /\ q.read = read
      BY <2>2
    <3> HIDE DEF q
    <3>2. ReadIsRow(q)
      <4>1. ReadIsRow(suggest[s])
        BY DEF LadderInv, RequestInv
      <4>2. QED
        BY <1>1, <1>2, <3>1, <4>1 DEF ReadIsRow
    <3>3. PassedIsThere(q)
      <4> SUFFICES ASSUME NEW k \in DOMAIN read, read[k].left # <<>>
                   PROVE  /\ 0 <= Cardinality(RowsOf(read[k].txn))
                          /\ Follows(read[k], 0)
        BY <3>1 DEF PassedIsThere
      <4>0. read[k] \in Reading
        OBVIOUS
      <4>1a. RowsOf(read[k].txn) = {} /\ read[k].left = SuggestedTargets(read[k].row)
        BY <1>1
      <4>1. read[k] \in Reading /\ RowsOf(read[k].txn) = {}
            /\ read[k].left = SuggestedTargets(read[k].row)
        BY <4>0, <4>1a
      <4>2. Cardinality(RowsOf(read[k].txn)) = 0
        BY <4>1, FS_EmptySet
      <4>3. read[k].row \in Reports
        BY <4>1 DEF Reading
      <4>4. /\ Len(read[k].left) = Len(Suggested(read[k].row))
            /\ \A j \in 1 .. Len(Suggested(read[k].row)) :
                  read[k].left[j] = Suggested(read[k].row)[j].target
        BY <4>1, <4>3, TargetsFacts
      <4>5. Len(Suggested(read[k].row)) \in Nat
        BY <4>3, SuggestedFacts
      <4>6. Follows(read[k], 0)
        BY <4>4, <4>5 DEF Follows
      <4>7. QED
        BY <4>2, <4>6
    <3>4. DueIsMissing(q)
      BY <3>1 DEF DueIsMissing
    <3>5. QED
      BY <3>2, <3>3, <3>4 DEF RequestInv, q
  <2>3. QED
    BY <2>1, <2>2, RemainingFacts
<1>5. QED
  BY <1>1, <1>2, <1>3, <1>4, RequestKeeps

LEMMA DeathLadder ==
    ASSUME Typed, LadderInv, NEW s \in Suggesters, SuggestDies(s)
    PROVE  LadderInv'
<1>1. /\ suggest' = [suggest EXCEPT ![s] = NoSuggest]
      /\ tables' = tables /\ status' = status
      /\ torn' = IF suggest[s].step = "filter" THEN torn
                 ELSE torn \cup {suggest[s].read[k].txn : k \in Current(suggest[s].read)}
  BY DEF SuggestDies, tables
<1>2. ASSUME NEW t \in Txns, At(suggest[s], t) PROVE t \in torn'
  BY <1>1, <1>2 DEF At, Working
<1>3. torn \subseteq torn'
  BY <1>1
<1>4. QED
  BY <1>1, <1>2, <1>3, NoneInv, RequestKeeps

-----------------------------------------------------------------------------
(* What is left when a request has gone on. *)
LEMMA GoneOn ==
    ASSUME NEW read \in Seq(Reading), NEW k \in Current(read), NEW q,
           q = Remaining(Shortened(read, k))
    PROVE  /\ q.step \in {"idle", "look"}
           /\ \A j \in DOMAIN q.read :
                 /\ j \in DOMAIN read /\ q.step = "look"
                 /\ q.read[j].txn = read[j].txn /\ q.read[j].row = read[j].row
                 /\ q.read[j].left # <<>> => read[j].left # <<>>
                 /\ j # k => q.read[j] = read[j]
                 /\ \A i \in Nat : j = k /\ Follows(read[k], i) => Follows(q.read[k], i + 1)
           /\ \A i \in Nat :
                 Follows(read[k], i) =>
                    \/ q.step = "look" /\ k \in Current(q.read)
                    \/ i + 1 = Len(Suggested(read[k].row))
<1> DEFINE short == Shortened(read, k)
           p == read[k]
           next == [p EXCEPT !.left = Tail(p.left)]
<1>1. /\ k \in DOMAIN read /\ p \in Reading /\ p.left # <<>>
      /\ \A j \in 1 .. k - 1 : read[j].left = <<>>
  BY CurrentFacts DEF Current
<1>2. /\ short \in Seq(Reading) /\ DOMAIN short = DOMAIN read /\ short[k] = next
      /\ \A j \in DOMAIN read \ {k} : short[j] = read[j]
  BY ShortenedFacts
<1>3. next.txn = p.txn /\ next.row = p.row
  BY <1>1, TailReading
<1>4. \A i \in Nat : Follows(p, i) =>
         Follows(next, i + 1) /\ (next.left = <<>> <=> i + 1 = Len(Suggested(p.row)))
  BY <1>1, FollowsNext
<1>5. next.left # <<>> => k \in Current(short)
  <2>1. DOMAIN read = 1 .. Len(read) /\ Len(read) \in Nat
    OBVIOUS
  <2> HIDE DEF next, short
  <2>2. \A j \in 1 .. k - 1 : j \in DOMAIN read \ {k}
    BY <1>1, <2>1
  <2>3. QED
    BY <1>1, <1>2, <2>2 DEF Current
<1> HIDE DEF short, next, p
<1>6. CASE q = NoSuggest /\ Current(short) = {}
  BY <1>4, <1>5, <1>6, IdleRequest DEF p
<1>7. CASE q = [step |-> "look", read |-> short]
  <2>1. q.step = "look" /\ q.read = short
    BY <1>7
  <2>2. ASSUME NEW j \in DOMAIN short
        PROVE  /\ j \in DOMAIN read
               /\ short[j].txn = read[j].txn /\ short[j].row = read[j].row
               /\ short[j].left # <<>> => read[j].left # <<>>
               /\ j # k => short[j] = read[j]
               /\ \A i \in Nat : j = k /\ Follows(read[k], i) => Follows(short[k], i + 1)
    <3>1. CASE j = k
      BY <1>1, <1>2, <1>3, <1>4, <3>1 DEF p
    <3>2. CASE j # k
      BY <1>2, <2>2, <3>2
    <3>3. QED
      BY <3>1, <3>2
  <2>3. QED
    BY <1>4, <1>5, <2>1, <2>2 DEF p
<1>8. QED
  BY <1>2, <1>6, <1>7, RemainingFacts DEF short

(* A request has read what its transaction holds, and passed what is there. *)
LEMMA CurrentPlace ==
    ASSUME Typed, LadderInv, NEW s \in Suggesters, Working(suggest[s]),
           NEW k \in Current(suggest[s].read), Undisturbed(suggest[s].read[k].txn)
    PROVE  LET p == suggest[s].read[k] IN
           /\ p \in Reading /\ p.txn \in Txns /\ p.left # <<>> /\ txn[p.txn] = {p.row}
           /\ Laddered(p.txn) /\ k \in DOMAIN suggest[s].read
           /\ \E i \in Nat : i <= Cardinality(RowsOf(p.txn)) /\ Follows(p, i)
<1>1. suggest[s].read \in Seq(Reading)
  BY DEF Typed, Requests
<1>2. /\ k \in DOMAIN suggest[s].read /\ suggest[s].read[k] \in Reading
      /\ suggest[s].read[k].left # <<>>
  BY <1>1, CurrentFacts
<1>3. suggest[s].read[k].txn \in Txns
  BY <1>2 DEF Reading
<1>4. ReadIsRow(suggest[s]) /\ PassedIsThere(suggest[s])
  BY DEF LadderInv, RequestInv
<1>5. QED
  BY <1>2, <1>3, <1>4 DEF LadderInv, ReadIsRow, PassedIsThere, Undisturbed

LEMMA PassedLadder ==
    ASSUME Typed, LadderInv, NEW s \in Suggesters, suggest[s].step = "look",
           NEW k \in Current(suggest[s].read), Exists(Due(suggest[s].read[k])),
           Proceed(s, k), tables' = tables, status' = status, torn' = torn
    PROVE  LadderInv'
<1> DEFINE read == suggest[s].read
           q == Remaining(Shortened(read, k))
           p == read[k]
           t == p.txn
           n == Cardinality(RowsOf(t))
<1>1. read \in Seq(Reading) /\ suggest' = [suggest EXCEPT ![s] = q]
  BY ProceedStep
<1>2. Working(suggest[s])
  BY DEF Working
<1>3. ASSUME Undisturbed(t)
      PROVE  /\ p \in Reading /\ t \in Txns /\ txn[t] = {p.row} /\ Laddered(t)
             /\ \E i \in Nat : /\ i < n /\ Follows(p, i) /\ n \in Nat
                               /\ n <= Len(Suggested(p.row)) /\ Len(Suggested(p.row)) \in Nat
  <2>1. /\ p \in Reading /\ t \in Txns /\ p.left # <<>> /\ txn[t] = {p.row} /\ Laddered(t)
        /\ \E i \in Nat : i <= n /\ Follows(p, i)
    BY <1>2, <1>3, CurrentPlace
  <2>2. PICK i \in Nat : i <= n /\ Follows(p, i)
    BY <2>1
  <2>3. Exists(Due(p)) /\ MatchesAbout
    BY DEF LadderInv
  <2> HIDE DEF p
  <2>4. i < n /\ n \in Nat /\ n <= Len(Suggested(p.row)) /\ Len(Suggested(p.row)) \in Nat
    BY <2>1, <2>2, <2>3, DueIsNext
  <2>5. QED
    BY <2>1, <2>2, <2>4
<1> HIDE DEF q
<1>4. /\ q.step \in {"idle", "look"}
      /\ \A j \in DOMAIN q.read :
            /\ j \in DOMAIN read /\ q.step = "look"
            /\ q.read[j].txn = read[j].txn /\ q.read[j].row = read[j].row
            /\ q.read[j].left # <<>> => read[j].left # <<>>
            /\ j # k => q.read[j] = read[j]
            /\ \A i \in Nat : j = k /\ Follows(p, i) => Follows(q.read[k], i + 1)
      /\ \A i \in Nat : Follows(p, i) => \/ q.step = "look" /\ k \in Current(q.read)
                                         \/ i + 1 = Len(Suggested(p.row))
  BY <1>1, GoneOn DEF q
<1>5. ReadIsRow(suggest[s]) /\ PassedIsThere(suggest[s])
  BY DEF LadderInv, RequestInv
<1>6. ReadIsRow(q)
  BY <1>4, <1>5 DEF ReadIsRow
<1>7. PassedIsThere(q)
  <2> SUFFICES ASSUME NEW j \in DOMAIN q.read, q.read[j].left # <<>>,
                      Undisturbed(q.read[j].txn)
               PROVE  \E i \in Nat : /\ i <= Cardinality(RowsOf(q.read[j].txn))
                                     /\ Follows(q.read[j], i)
    BY DEF PassedIsThere
  <2>1. CASE j = k
    <3>1. Undisturbed(t) /\ q.read[j].txn = t
      BY <1>4, <2>1
    <3>2. PICK i \in Nat : i < n /\ Follows(p, i) /\ n \in Nat
      BY <1>3, <3>1
    <3>3. Follows(q.read[k], i + 1)
      BY <1>4, <2>1, <3>2
    <3>4. i + 1 \in Nat /\ i + 1 <= n
      BY <3>2
    <3>5. QED
      BY <2>1, <3>1, <3>3, <3>4
  <2>2. CASE j # k
    <3>1. j \in DOMAIN read /\ q.read[j] = read[j]
      BY <1>4, <2>2
    <3>2. QED
      BY <1>2, <1>5, <3>1 DEF PassedIsThere
  <2>3. QED
    BY <2>1, <2>2
<1>8. RequestInv(q)
  BY <1>4, <1>6, <1>7 DEF RequestInv, DueIsMissing
<1>9. ASSUME NEW u \in Txns, At(suggest[s], u), Undisturbed(u), u \notin torn'
      PROVE  At(q, u) \/ Complete(u)
  <2>1. u = t
    BY <1>1, <1>9, CurrentFacts DEF At
  <2>2. PICK i \in Nat : /\ i < n /\ Follows(p, i) /\ n \in Nat
                         /\ n <= Len(Suggested(p.row)) /\ Len(Suggested(p.row)) \in Nat
    BY <1>3, <1>9, <2>1
  <2>3. CASE q.step = "look" /\ k \in Current(q.read)
    <3>1. k \in DOMAIN q.read
      BY <2>3 DEF Current
    <3>2. q.read[k].txn = t
      BY <1>4, <3>1
    <3>3. QED
      BY <2>1, <2>3, <3>2 DEF At, Working
  <2>4. CASE i + 1 = Len(Suggested(p.row))
    <3>1. n = Len(Suggested(p.row))
      BY <2>2, <2>4
    <3>2. txn[t] = {p.row}
      BY <1>3, <1>9, <2>1
    <3>3. QED
      BY <2>1, <3>1, <3>2 DEF Complete
  <2>5. QED
    BY <1>4, <2>2, <2>3, <2>4
<1>10. torn \subseteq torn'
  OBVIOUS
<1> HIDE DEF read, p, t, n
<1>11. QED
  BY <1>1, <1>8, <1>9, <1>10, RequestKeeps

LEMMA LookLadder ==
    ASSUME Typed, LadderInv, NEW s \in Suggesters, LookForExisting(s)
    PROVE  LadderInv'
<1>1. /\ suggest[s].step = "look" /\ tables' = tables /\ status' = status /\ torn' = torn
      /\ suggest[s] \in Requests
  BY DEF LookForExisting, tables, history, Typed
<1>2. PICK k \in Current(suggest[s].read) :
         IF Exists(Due(suggest[s].read[k])) THEN Proceed(s, k)
         ELSE suggest' = [suggest EXCEPT ![s].step = "create"]
  BY DEF LookForExisting
<1>3. CASE Exists(Due(suggest[s].read[k]))
  BY <1>1, <1>2, <1>3, PassedLadder
<1>4. CASE ~Exists(Due(suggest[s].read[k]))
  <2> DEFINE q == [suggest[s] EXCEPT !.step = "create"]
  <2>1. suggest' = [suggest EXCEPT ![s] = q]
    BY <1>2, <1>4 DEF Typed
  <2>2. q.step = "create" /\ q.read = suggest[s].read
    BY <1>1 DEF Requests
  <2> HIDE DEF q
  <2>3. ReadIsRow(suggest[s]) /\ PassedIsThere(suggest[s])
    BY DEF LadderInv, RequestInv
  <2>4. ReadIsRow(q) /\ PassedIsThere(q)
    BY <1>1, <2>2, <2>3 DEF ReadIsRow, PassedIsThere, Working
  <2>5. suggest[s].read \in Seq(Reading)
    BY <1>1 DEF Requests
  <2>6. \A j \in Current(suggest[s].read) : j = k
    BY <2>5, CurrentFacts
  <2>7. DueIsMissing(q)
    BY <1>4, <2>2, <2>6 DEF DueIsMissing
  <2>8. \A t : At(suggest[s], t) => At(q, t)
    BY <2>2 DEF At, Working
  <2>9. RequestInv(q) /\ torn \subseteq torn'
    BY <1>1, <2>4, <2>7 DEF RequestInv
  <2>10. QED
    BY <1>1, <2>1, <2>8, <2>9, RequestKeeps
<1>5. QED
  BY <1>3, <1>4

-----------------------------------------------------------------------------
(* What the creation of a suggestion changes, and what it finds. *)
Created(s, r, k) ==
    LET due == Due(suggest[s].read[k]) IN
    /\ suggest[s].step = "create" /\ status[r] = "NONE"
    /\ status' = [status EXCEPT ![r] = "SUGGESTED"]
    /\ about' = [about EXCEPT ![r] = {due}]
    /\ twins' = IF Crossed(s, due) THEN twins \cup {due.txn} ELSE twins
    /\ txn' = txn /\ revised' = revised /\ torn' = torn
    /\ Proceed(s, k)

LEMMA CreateIsCreated ==
    ASSUME NEW s \in Suggesters, NEW r \in Rows, CreateSuggestion(s, r)
    PROVE  \E k \in Current(suggest[s].read) : Created(s, r, k)
<1>1. /\ suggest[s].step = "create" /\ status[r] = "NONE"
      /\ status' = [status EXCEPT ![r] = "SUGGESTED"]
      /\ txn' = txn /\ revised' = revised /\ torn' = torn
  BY DEF CreateSuggestion, Fresh
<1>2. PICK k \in Current(suggest[s].read) :
         LET due == Due(suggest[s].read[k]) IN
         /\ about' = [about EXCEPT ![r] = {due}]
         /\ twins' = IF Crossed(s, due) THEN twins \cup {due.txn} ELSE twins
         /\ Proceed(s, k)
  BY DEF CreateSuggestion
<1>3. QED
  BY <1>1, <1>2 DEF Created

(* The new match, and the matches of the transactions. *)
LEMMA NewMatch ==
    ASSUME Typed, BridgeType, LadderInv, NEW s \in Suggesters, NEW r \in Rows,
           NEW k \in Current(suggest[s].read), Created(s, r, k),
           NEW due, due = Due(suggest[s].read[k])
    PROVE  /\ about[r] = {} /\ about'[r] = {due} /\ \A x \in Rows \ {r} : about'[x] = about[x]
           /\ MatchesAbout'
           /\ r \notin RowsOf(due.txn) /\ RowsOf(due.txn)' = RowsOf(due.txn) \cup {r}
           /\ \A t : t # due.txn => RowsOf(t)' = RowsOf(t)
           /\ \A m : Exists(m)' => Exists(m) \/ m = due
<1>1. about[r] = {}
  BY DEF LadderInv, MatchesAbout, Created
<1>2. about'[r] = {due} /\ \A x \in Rows \ {r} : about'[x] = about[x]
  BY DEF Created, Typed
<1>3. status'[r] = "SUGGESTED" /\ \A x \in Rows \ {r} : status'[x] = status[x]
  BY DEF Created, BridgeType
<1>4. MatchesAbout'
  <2>1. ASSUME NEW x \in Rows
        PROVE  /\ status'[x] = "NONE" => about'[x] = {}
               /\ \A m \in about'[x] : about'[x] = {m}
    <3>1. CASE x = r
      BY <1>2, <1>3, <3>1
    <3>2. CASE x # r
      BY <1>2, <1>3, <3>2 DEF LadderInv, MatchesAbout
    <3>3. QED
      BY <3>1, <3>2
  <2>2. QED
    BY <2>1 DEF MatchesAbout
<1>5. /\ r \notin RowsOf(due.txn) /\ RowsOf(due.txn)' = RowsOf(due.txn) \cup {r}
      /\ \A t : t # due.txn => RowsOf(t)' = RowsOf(t)
  <2>1. \A t : RowsOf(t)' = {x \in Rows : \E m \in about'[x] : m.txn = t}
    BY DEF RowsOf
  <2>2. r \notin RowsOf(due.txn)
    BY <1>1 DEF RowsOf
  <2>3. ASSUME NEW t, NEW x \in Rows
        PROVE  x \in RowsOf(t)' <=> x \in RowsOf(t) \/ (x = r /\ t = due.txn)
    <3>1. CASE x = r
      BY <1>1, <1>2, <2>1, <3>1 DEF RowsOf
    <3>2. CASE x # r
      BY <1>2, <2>1, <3>2 DEF RowsOf
    <3>3. QED
      BY <3>1, <3>2
  <2>4. \A t : RowsOf(t)' \subseteq Rows /\ RowsOf(t) \subseteq Rows
    BY <2>1 DEF RowsOf
  <2>5. RowsOf(due.txn)' = RowsOf(due.txn) \cup {r}
    BY <2>3, <2>4
  <2>6. \A t : t # due.txn => RowsOf(t)' = RowsOf(t)
    BY <2>3, <2>4
  <2>7. QED
    BY <2>2, <2>5, <2>6
<1>6. ASSUME NEW m, Exists(m)' PROVE Exists(m) \/ m = due
  <2>1. PICK x \in Rows : about'[x] = {m}
    BY <1>6 DEF Exists
  <2>2. QED
    BY <1>2, <2>1 DEF Exists
<1>7. QED
  BY <1>1, <1>2, <1>4, <1>5, <1>6

(* The transaction of which the suggestion is made gets its next best one.  *)
LEMMA NextBest ==
    ASSUME Typed, BridgeType, LadderInv, NEW s \in Suggesters, NEW r \in Rows,
           NEW k \in Current(suggest[s].read), Created(s, r, k),
           NEW p, p = suggest[s].read[k], NEW t, t = p.txn, Undisturbed(t)
    PROVE  \E n \in Nat :
              /\ txn'[t] = {p.row} /\ n + 1 <= Len(Suggested(p.row))
              /\ Cardinality(RowsOf(t)') = n + 1 /\ Len(Suggested(p.row)) \in Nat
              /\ Follows(p, n) /\ Laddered(t)'
<1> DEFINE ranked == Suggested(p.row)
           due == Due(p)
<1>0. PICK n : n = Cardinality(RowsOf(t))
  OBVIOUS
<1>1. Working(suggest[s]) /\ suggest[s].step = "create" /\ txn' = txn
  BY DEF Created, Working
<1>2. /\ p \in Reading /\ t \in Txns /\ p.left # <<>> /\ txn[t] = {p.row} /\ Laddered(t)
      /\ \E i \in Nat : i <= n /\ Follows(p, i)
  BY <1>0, <1>1, CurrentPlace
<1>3. PICK i \in Nat : i <= n /\ Follows(p, i)
  BY <1>2
<1>4. ~Exists(due) /\ MatchesAbout
  BY <1>1 DEF LadderInv, RequestInv, DueIsMissing
<1>5. due.txn = t /\ due.target = Head(p.left)
  BY DEF Due
<1>6. /\ r \notin RowsOf(t) /\ RowsOf(t)' = RowsOf(t) \cup {r}
      /\ about'[r] = {due} /\ \A x \in Rows \ {r} : about'[x] = about[x]
  BY <1>5, NewMatch
<1>7. /\ i >= n /\ n \in Nat /\ n <= Len(ranked) /\ Len(ranked) \in Nat
      /\ i < Len(ranked) /\ Head(p.left) = ranked[i + 1].target
  <2>1. Exists(due) <=> i < n
    BY <1>0, <1>2, <1>3, <1>4, DueIsNext
  <2>2. /\ n \in Nat /\ n <= Len(ranked) /\ Len(ranked) \in Nat
        /\ i < Len(ranked) /\ Head(p.left) = ranked[i + 1].target
    BY <1>0, <1>2, <1>3, <1>4, DueIsNext
  <2> HIDE DEF ranked
  <2>3. QED
    BY <1>4, <2>1, <2>2
<1>8. i = n
  <2>1. QED
    BY <1>3, <1>7
<1>9. IsFiniteSet(RowsOf(t)) /\ MatchTargets(t) = FirstTargets(ranked, n)
  BY <1>0, <1>2 DEF Laddered
<1>10. IsFiniteSet(RowsOf(t)') /\ Cardinality(RowsOf(t)') = n + 1
  BY <1>0, <1>6, <1>9, FS_AddElement
<1>11. MatchTargets(t)' = MatchTargets(t) \cup {due.target}
  <2>1. MatchTargets(t)' = {m.target : m \in UNION {about'[x] : x \in RowsOf(t)'}}
    BY DEF MatchTargets
  <2>2. \A x \in RowsOf(t) : x \in Rows \ {r} /\ about'[x] = about[x]
    BY <1>6 DEF RowsOf
  <2> DEFINE now == UNION {about'[x] : x \in RowsOf(t)'}
             before == UNION {about[x] : x \in RowsOf(t)}
  <2>3. now = before \cup {due}
    <3>1. ASSUME NEW m \in now PROVE m \in before \cup {due}
      <4>1. PICK x \in RowsOf(t)' : m \in about'[x]
        OBVIOUS
      <4>2. QED
        BY <1>6, <2>2, <4>1
    <3>2. ASSUME NEW m \in before PROVE m \in now
      <4>1. PICK x \in RowsOf(t) : m \in about[x]
        OBVIOUS
      <4>2. x \in RowsOf(t)' /\ m \in about'[x]
        BY <1>6, <2>2, <4>1
      <4>3. QED
        BY <4>2
    <3>3. due \in now
      BY <1>6
    <3>4. QED
      BY <3>1, <3>2, <3>3
  <2> HIDE DEF now, before, due
  <2>4. {m.target : m \in now} = {m.target : m \in before} \cup {due.target}
    BY <2>3
  <2>5. QED
    BY <2>1, <2>4 DEF now, before, MatchTargets
<1>12. FirstTargets(ranked, n + 1) = FirstTargets(ranked, n) \cup {ranked[n + 1].target}
  <2> HIDE DEF ranked
  <2>1. 1 .. n + 1 = (1 .. n) \cup {n + 1}
    BY <1>7
  <2>2. QED
    BY <2>1 DEF FirstTargets
<1>13. MatchTargets(t)' = FirstTargets(ranked, n + 1)
  BY <1>5, <1>7, <1>8, <1>9, <1>11, <1>12
<1>14. n + 1 <= Len(ranked)
  <2> HIDE DEF ranked
  <2>1. QED
    BY <1>7, <1>8
<1>15. txn'[t] = {p.row}
  BY <1>1, <1>2
<1>16. Laddered(t)'
  <2>1. \A row \in txn'[t] : /\ Cardinality(RowsOf(t)') <= Len(Suggested(row))
                             /\ MatchTargets(t)' = FirstTargets(Suggested(row), n + 1)
    BY <1>10, <1>13, <1>14, <1>15
  <2>2. QED
    BY <1>10, <2>1 DEF Laddered
<1>17. QED
  BY <1>3, <1>7, <1>8, <1>10, <1>14, <1>15, <1>16

-----------------------------------------------------------------------------
(* The other requests find more suggestions, none of them the one they are  *)
(* about to create.                                                         *)
LEMMA OthersKeep ==
    ASSUME Typed, BridgeType, LadderInv, NEW s \in Suggesters, NEW r \in Rows,
           NEW k \in Current(suggest[s].read), Created(s, r, k),
           NEW u \in Suggesters \ {s}
    PROVE  RequestInv(suggest[u])'
<1> DEFINE read == suggest[u].read
<1>1. suggest'[u] = suggest[u]
  BY ProceedStep DEF Typed, Created
<1>2. txn' = txn /\ revised' = revised /\ twins \subseteq twins'
  BY DEF Created
<1>3. ReadIsRow(suggest[u]) /\ PassedIsThere(suggest[u]) /\ DueIsMissing(suggest[u])
  BY DEF LadderInv, RequestInv
<1>4. PICK due : due = Due(suggest[s].read[k])
  OBVIOUS
<1>5. /\ RowsOf(due.txn)' = RowsOf(due.txn) \cup {r} /\ r \notin RowsOf(due.txn)
      /\ \A t : t # due.txn => RowsOf(t)' = RowsOf(t)
      /\ \A m : Exists(m)' => Exists(m) \/ m = due
  BY <1>4, NewMatch
<1>6. read \in Seq(Reading)
  BY DEF Typed, Requests
<1>7. ReadIsRow(suggest[u])'
  BY <1>1, <1>2, <1>3 DEF ReadIsRow
<1>8. PassedIsThere(suggest[u])'
  <2> SUFFICES ASSUME NEW j \in DOMAIN read, Working(suggest[u]), read[j].left # <<>>,
                      Undisturbed(read[j].txn)
               PROVE  \E i \in Nat : /\ i <= Cardinality(RowsOf(read[j].txn)) /\ Follows(read[j], i)
                                     /\ \A t : t = read[j].txn => i <= Cardinality(RowsOf(t)')
    <3>1. ASSUME NEW p, NEW j \in DOMAIN read, p = read[j], Working(suggest[u]), p.left # <<>>,
                 Undisturbed(p.txn)'
          PROVE  \E i \in Nat : i <= Cardinality(RowsOf(p.txn)') /\ Follows(p, i)
      <4>1. Undisturbed(p.txn)
        BY <1>2, <3>1 DEF Undisturbed
      <4>2. QED
        BY <3>1, <4>1
    <3>2. QED
      BY <1>1, <3>1 DEF PassedIsThere, Working
  <2>1. PICK i \in Nat : i <= Cardinality(RowsOf(read[j].txn)) /\ Follows(read[j], i)
    BY <1>3 DEF PassedIsThere
  <2>2. PICK t : t = read[j].txn
    OBVIOUS
  <2>3. t \in Txns
    <3>1. read[j] \in Reading
      BY <1>6
    <3>2. QED
      BY <2>2, <3>1 DEF Reading
  <2>4. Laddered(t)
    BY <2>2, <2>3 DEF LadderInv
  <2>5. Cardinality(RowsOf(t)) \in Nat
    BY <2>3, <2>4, CountIsNat
  <2>6. Cardinality(RowsOf(t)') \in {Cardinality(RowsOf(t)), Cardinality(RowsOf(t)) + 1}
    <3>1. CASE t = due.txn
      BY <1>5, <2>4, <3>1, FS_AddElement DEF Laddered
    <3>2. CASE t # due.txn
      BY <1>5, <3>2
    <3>3. QED
      BY <3>1, <3>2
  <2>7. i <= Cardinality(RowsOf(t)')
    BY <2>1, <2>2, <2>5, <2>6
  <2>8. QED
    BY <2>1, <2>2, <2>7
<1>9. DueIsMissing(suggest[u])'
  <2>1. ASSUME NEW j \in Current(read), suggest[u].step = "create", NEW p, p = read[j],
               Undisturbed(p.txn)', Exists(Due(p))'
        PROVE  FALSE
    <3>1. Undisturbed(p.txn)
      BY <1>2, <2>1 DEF Undisturbed
    <3>2. ~Exists(Due(p))
      BY <1>3, <2>1, <3>1 DEF DueIsMissing
    <3>3. PICK m : m = Due(p)
      OBVIOUS
    <3>4. Exists(m)' /\ ~Exists(m)
      BY <2>1, <3>2, <3>3 DEF Exists, Due
    <3>5. m = due
      BY <1>5, <3>4
    <3>6. Crossed(s, due)
      BY <2>1, <3>3, <3>5 DEF Crossed
    <3>7. due.txn \in twins'
      BY <1>4, <3>6 DEF Created
    <3>8. due.txn = p.txn
      BY <3>3, <3>5 DEF Due
    <3>9. QED
      BY <2>1, <3>7, <3>8 DEF Undisturbed
  <2>2. QED
    BY <1>1, <2>1 DEF DueIsMissing
<1>10. QED
  BY <1>7, <1>8, <1>9 DEF RequestInv

LEMMA CreateLadder ==
    ASSUME Typed, BridgeType, LadderInv, NEW s \in Suggesters, NEW r \in Rows,
           CreateSuggestion(s, r)
    PROVE  LadderInv'
<1>1. PICK k \in Current(suggest[s].read) : Created(s, r, k)
  BY CreateIsCreated
<1>2. PICK read : read = suggest[s].read
  OBVIOUS
<1>3. PICK p : p = read[k]
  OBVIOUS
<1>4. PICK due : due = Due(p)
  OBVIOUS
<1>5. PICK q : q = Remaining(Shortened(read, k))
  OBVIOUS
<1>6. /\ read \in Seq(Reading) /\ suggest'[s] = q
      /\ \A u \in Suggesters \ {s} : suggest'[u] = suggest[u]
  BY <1>1, <1>2, <1>5, ProceedStep DEF Typed, Created
<1>7. /\ txn' = txn /\ revised' = revised /\ torn' = torn /\ twins \subseteq twins'
      /\ suggest[s].step = "create" /\ Working(suggest[s])
  BY <1>1 DEF Created, Working
<1>8. /\ MatchesAbout'
      /\ RowsOf(due.txn)' = RowsOf(due.txn) \cup {r}
      /\ about'[r] = {due} /\ \A x \in Rows \ {r} : about'[x] = about[x]
      /\ \A t : t # due.txn => RowsOf(t)' = RowsOf(t)
  BY <1>1, <1>2, <1>3, <1>4, NewMatch
<1>9. PICK t0 \in Txns : t0 = p.txn /\ t0 = due.txn
  BY <1>1, <1>2, <1>3, <1>4, <1>6, CurrentFacts DEF Reading, Due
<1>10. ASSUME NEW t \in Txns, Undisturbed(t)' PROVE Undisturbed(t)
  BY <1>7, <1>10 DEF Undisturbed
<1>11. ASSUME NEW t \in Txns, t # t0
       PROVE  /\ RowsOf(t)' = RowsOf(t) /\ Complete(t)' = Complete(t)
              /\ Laddered(t)' = Laddered(t)
  <2>1. RowsOf(t)' = RowsOf(t)
    BY <1>8, <1>9, <1>11
  <2>2. \A x \in RowsOf(t) : x \in Rows /\ x # r
    <3>1. about[r] = {}
      BY <1>1, <1>2, <1>3, <1>4, NewMatch
    <3>2. QED
      BY <3>1 DEF RowsOf
  <2>3. \A x \in RowsOf(t) : about'[x] = about[x]
    BY <1>8, <2>2
  <2>4. MatchTargets(t)' = MatchTargets(t)
    BY <2>1, <2>3 DEF MatchTargets
  <2>5. QED
    BY <1>7, <2>1, <2>4 DEF Laddered, Complete
<1>12. ASSUME Undisturbed(t0)
       PROVE  \E n \in Nat :
                 /\ txn'[t0] = {p.row} /\ n + 1 <= Len(Suggested(p.row))
                 /\ Cardinality(RowsOf(t0)') = n + 1 /\ Len(Suggested(p.row)) \in Nat
                 /\ Follows(p, n) /\ Laddered(t0)'
  <2>1. p = suggest[s].read[k] /\ t0 = p.txn
    BY <1>2, <1>3, <1>9
  <2>2. QED
    BY <1>1, <1>12, <2>1, NextBest
<1>13. /\ q.step \in {"idle", "look"}
       /\ \A j \in DOMAIN q.read :
             /\ j \in DOMAIN read /\ q.step = "look"
             /\ q.read[j].txn = read[j].txn /\ q.read[j].row = read[j].row
             /\ q.read[j].left # <<>> => read[j].left # <<>>
             /\ j # k => q.read[j] = read[j]
             /\ \A i \in Nat : j = k /\ Follows(p, i) => Follows(q.read[k], i + 1)
       /\ \A i \in Nat : Follows(p, i) => \/ q.step = "look" /\ k \in Current(q.read)
                                          \/ i + 1 = Len(Suggested(p.row))
  BY <1>1, <1>2, <1>3, <1>5, <1>6, GoneOn
<1>14. ReadIsRow(suggest[s]) /\ PassedIsThere(suggest[s])
  BY DEF LadderInv, RequestInv
<1>15. RequestInv(suggest[s])'
  <2>1. ReadIsRow(suggest[s])'
    BY <1>2, <1>6, <1>7, <1>13, <1>14 DEF ReadIsRow
  <2>2. ASSUME NEW j \in DOMAIN q.read, q.read[j].left # <<>>, NEW t, t = q.read[j].txn,
               Undisturbed(t)'
        PROVE  \E i \in Nat : i <= Cardinality(RowsOf(t)') /\ Follows(q.read[j], i)
    <3>1. j \in DOMAIN read /\ read[j].txn = t /\ read[j].left # <<>>
      BY <1>13, <2>2
    <3>2. t \in Txns
      <4>1. read[j] \in Reading
        BY <1>6, <3>1
      <4>2. QED
        BY <3>1, <4>1 DEF Reading
    <3>3. Undisturbed(t)
      BY <1>10, <2>2, <3>2
    <3>4. CASE j = k
      <4>1. t = t0
        BY <1>3, <1>9, <3>1, <3>4
      <4>2. PICK n \in Nat : Cardinality(RowsOf(t0)') = n + 1 /\ Follows(p, n)
        BY <1>12, <3>3, <4>1
      <4>3. Follows(q.read[j], n + 1)
        BY <1>13, <3>4, <4>2
      <4>4. n + 1 \in Nat /\ n + 1 <= Cardinality(RowsOf(t)')
        BY <4>1, <4>2
      <4>5. QED
        BY <4>3, <4>4
    <3>5. CASE j # k
      <4>1. q.read[j] = read[j]
        BY <1>13, <3>5
      <4>2. PICK i \in Nat : i <= Cardinality(RowsOf(t)) /\ Follows(read[j], i)
        BY <1>2, <1>7, <1>14, <3>1, <3>3 DEF PassedIsThere
      <4>3. CASE t = t0
        <5>1. PICK n \in Nat : Cardinality(RowsOf(t0)') = n + 1
          BY <1>12, <3>3, <4>3
        <5>2. Laddered(t0)
          BY <3>3, <4>3 DEF LadderInv
        <5>3. /\ Cardinality(RowsOf(t0)) \in Nat
              /\ Cardinality(RowsOf(t0)') \in
                    {Cardinality(RowsOf(t0)), Cardinality(RowsOf(t0)) + 1}
          <6>1. RowsOf(t0)' = RowsOf(t0) \cup {r}
            BY <1>8, <1>9
          <6>2. IsFiniteSet(RowsOf(t0)) /\ Cardinality(RowsOf(t0)) \in Nat
            BY <5>2, CountIsNat DEF Laddered
          <6>3. QED
            BY <6>1, <6>2, FS_AddElement
        <5>4. i <= Cardinality(RowsOf(t)')
          BY <4>2, <4>3, <5>3
        <5>5. QED
          BY <4>1, <4>2, <5>4
      <4>4. CASE t # t0
        BY <1>11, <3>2, <4>1, <4>2, <4>4
      <4>5. QED
        BY <4>3, <4>4
    <3>6. QED
      BY <3>4, <3>5
  <2>3. PassedIsThere(suggest[s])'
    BY <1>6, <2>2 DEF PassedIsThere
  <2>4. DueIsMissing(suggest[s])'
    BY <1>6, <1>13 DEF DueIsMissing
  <2>5. QED
    BY <2>1, <2>3, <2>4 DEF RequestInv
<1>16. ASSUME NEW u \in Suggesters PROVE RequestInv(suggest[u])'
  <2>1. CASE u = s
    BY <1>15, <2>1
  <2>2. CASE u # s
    BY <1>1, <2>2, OthersKeep
  <2>3. QED
    BY <2>1, <2>2
<1>17. ASSUME NEW t \in Txns, Undisturbed(t)' PROVE Laddered(t)'
  <2>1. Undisturbed(t)
    BY <1>10, <1>17
  <2>2. CASE t = t0
    BY <1>12, <2>1, <2>2
  <2>3. CASE t # t0
    BY <1>11, <2>1, <2>3 DEF LadderInv
  <2>4. QED
    BY <2>2, <2>3
<1>18. ASSUME NEW t \in Txns, Undisturbed(t)', t \notin torn'
       PROVE  Complete(t)' \/ InProgress(t)'
  <2>1. Undisturbed(t) /\ t \notin torn
    BY <1>7, <1>10, <1>18
  <2>2. CASE t = t0
    <3>1. PICK n \in Nat :
             /\ txn'[t0] = {p.row} /\ n + 1 <= Len(Suggested(p.row))
             /\ Cardinality(RowsOf(t0)') = n + 1 /\ Len(Suggested(p.row)) \in Nat
             /\ Follows(p, n)
      BY <1>12, <2>1, <2>2
    <3>2. CASE q.step = "look" /\ k \in Current(q.read)
      <4>1. k \in DOMAIN q.read
        BY <3>2 DEF Current
      <4>2. q.read[k].txn = t0
        BY <1>3, <1>9, <1>13, <4>1
      <4>3. At(suggest[s], t)'
        BY <1>6, <2>2, <3>2, <4>2 DEF At, Working
      <4>4. QED
        BY <4>3 DEF InProgress
    <3>3. CASE n + 1 = Len(Suggested(p.row))
      BY <2>2, <3>1, <3>3 DEF Complete
    <3>4. QED
      BY <1>13, <3>1, <3>2, <3>3
  <2>3. CASE t # t0
    <3>1. CASE Complete(t)
      BY <1>11, <2>3, <3>1
    <3>2. CASE InProgress(t)
      <4>1. PICK u \in Suggesters : At(suggest[u], t)
        BY <3>2 DEF InProgress
      <4>2. u # s
        <5>1. \A j \in Current(read) : j = k
          BY <1>1, <1>2, <1>6, CurrentFacts
        <5>2. QED
          BY <1>2, <1>3, <1>9, <2>3, <4>1, <5>1 DEF At
      <4>3. At(suggest[u], t)'
        BY <1>6, <4>1, <4>2 DEF At, Working
      <4>4. QED
        BY <4>3 DEF InProgress
    <3>3. QED
      BY <2>1, <3>1, <3>2 DEF LadderInv
  <2>4. QED
    BY <2>2, <2>3
<1>19. QED
  BY <1>8, <1>16, <1>17, <1>18 DEF LadderInv

-----------------------------------------------------------------------------
(* A report of the bank that changes what is known of a transaction: nothing *)
(* has been made of it, and nobody has read it, unless it counts as revised. *)
LEMMA SyncLadder ==
    ASSUME Typed, LadderInv, NEW t \in Txns, NEW report \in Versions[t], Sync(t, report)
    PROVE  LadderInv'
<1>1. /\ about' = about /\ status' = status /\ suggest' = suggest /\ twins' = twins
      /\ torn' = torn
      /\ revised' = IF RowsOf(t) # {} \/ \E s \in Suggesters : AtWork(s, t)
                    THEN revised \cup {t} ELSE revised
  BY DEF Sync
<1>2. /\ \A u : RowsOf(u)' = RowsOf(u) /\ MatchTargets(u)' = MatchTargets(u)
      /\ \A m : Exists(m)' = Exists(m)
      /\ revised \subseteq revised'
  BY <1>1 DEF RowsOf, MatchTargets, Exists
<1>3. \A u \in Txns \ {t} : txn'[u] = txn[u]
  BY SyncTxn DEF Typed
<1>4. \A u : Undisturbed(u)' => Undisturbed(u)
  BY <1>1, <1>2 DEF Undisturbed
<1>5. t \notin revised' => RowsOf(t) = {} /\ \A s \in Suggesters : ~AtWork(s, t)
  BY <1>1
<1>6. MatchesAbout'
  BY <1>1 DEF LadderInv, MatchesAbout
<1>7. ASSUME NEW s \in Suggesters PROVE RequestInv(suggest[s])'
  <2>1. ReadIsRow(suggest[s]) /\ PassedIsThere(suggest[s]) /\ DueIsMissing(suggest[s])
    BY DEF LadderInv, RequestInv
  <2>2. ReadIsRow(suggest[s])'
    <3>1. ASSUME NEW k \in DOMAIN suggest[s].read, NEW p, p = suggest[s].read[k],
                 suggest[s].step = "filter" \/ p.left # <<>>, p.txn \notin revised'
          PROVE  txn'[p.txn] = {p.row}
      <4>1. p.txn \in Txns
        <5>1. p \in Reading
          BY <3>1 DEF Typed, Requests
        <5>2. QED
          BY <5>1 DEF Reading
      <4>2. txn[p.txn] = {p.row}
        BY <1>2, <2>1, <3>1 DEF ReadIsRow
      <4>3. p.txn # t
        BY <1>5, <3>1 DEF AtWork
      <4>4. QED
        BY <1>3, <4>1, <4>2, <4>3
    <3>2. QED
      BY <1>1, <3>1 DEF ReadIsRow
  <2>3. PassedIsThere(suggest[s])'
    BY <1>1, <1>2, <1>4, <2>1 DEF PassedIsThere, Working
  <2>4. DueIsMissing(suggest[s])'
    BY <1>1, <1>2, <1>4, <2>1 DEF DueIsMissing, Due
  <2>5. QED
    BY <2>2, <2>3, <2>4 DEF RequestInv
<1>8. ASSUME NEW u \in Txns, Undisturbed(u)' PROVE Laddered(u)' /\ (u = t => Complete(u)')
  <2>1. Laddered(u)
    BY <1>4, <1>8 DEF LadderInv
  <2>2. CASE u = t
    <3>1. RowsOf(t)' = {} /\ MatchTargets(t)' = {}
      <4>1. RowsOf(t) = {}
        BY <1>5, <1>8, <2>2 DEF Undisturbed
      <4>2. MatchTargets(t) = {}
        BY <4>1 DEF MatchTargets
      <4>3. QED
        BY <1>2, <4>1, <4>2
    <3>2. IsFiniteSet(RowsOf(t)') /\ Cardinality(RowsOf(t)') = 0
      BY <3>1, FS_EmptySet
    <3>3. \A row \in txn'[t] : Len(Suggested(row)) \in Nat
      <4>1. txn'[t] \subseteq Reports
        BY SyncTxn, ContentsAreReports
      <4>2. QED
        BY <4>1, SuggestedFacts
    <3>4. \A ranked : FirstTargets(ranked, 0) = {}
      BY DEF FirstTargets
    <3>5. Laddered(t)' /\ Complete(t)'
      BY <3>1, <3>2, <3>3, <3>4 DEF Laddered, Complete
    <3>6. QED
      BY <2>2, <3>5
  <2>3. CASE u # t
    BY <1>2, <1>3, <2>1, <2>3 DEF Laddered
  <2>4. QED
    BY <2>2, <2>3
<1>9. ASSUME NEW u \in Txns, Undisturbed(u)', u \notin torn'
      PROVE  Complete(u)' \/ InProgress(u)'
  <2>1. CASE u = t
    BY <1>8, <1>9, <2>1
  <2>2. CASE u # t
    <3>1. Complete(u) \/ InProgress(u)
      BY <1>1, <1>4, <1>9 DEF LadderInv
    <3>2. Complete(u)' = Complete(u)
      BY <1>2, <1>3, <2>2 DEF Complete
    <3>3. InProgress(u)' = InProgress(u)
      BY <1>1 DEF InProgress, At, Working
    <3>4. QED
      BY <3>1, <3>2, <3>3
  <2>3. QED
    BY <2>1, <2>2
<1>10. QED
  BY <1>6, <1>7, <1>8, <1>9 DEF LadderInv

(* A confirmation makes no match and takes none away. *)
LEMMA ConfirmLadder ==
    ASSUME BridgeType, LadderInv, tables' = tables, suggest' = suggest, torn' = torn,
           \A r \in Rows : status'[r] = "NONE" => status[r] = "NONE"
    PROVE  LadderInv'
<1>1. MatchesAbout'
  BY DEF LadderInv, MatchesAbout, tables
<1>2. \A s \in Suggesters : RequestInv(suggest[s])'
  <2>1. \A s \in Suggesters : RequestInv(suggest'[s])
    BY DEF LadderInv
  <2>2. QED
    BY <2>1, RequestFrame
<1>3. \A t \in Txns : Undisturbed(t)' => Laddered(t)'
  BY LadderFrame DEF LadderInv
<1>4. \A t : InProgress(t)' = InProgress(t)
  BY DEF InProgress, At, Working
<1>5. \A t \in Txns : Undisturbed(t)' /\ t \notin torn' => Complete(t)' \/ InProgress(t)'
  BY <1>4, LadderFrame DEF LadderInv
<1>6. QED
  BY <1>1, <1>2, <1>3, <1>5 DEF LadderInv

LEMMA ConfirmStep ==
    ASSUME BridgeType, NEW c \in Confirmers, NEW r \in Rows,
           \/ ReadMatch(c, r) \/ PostEntry(c, r) \/ MarkPosted(c, r)
           \/ ConfirmMatch(c, r) \/ ConfirmDies(c, r)
    PROVE  /\ tables' = tables /\ suggest' = suggest /\ torn' = torn
           /\ \A q \in Rows : status'[q] = "NONE" => status[q] = "NONE"
<1>1. tables' = tables /\ suggest' = suggest /\ torn' = torn
  BY DEF ReadMatch, PostEntry, MarkPosted, ConfirmMatch, ConfirmDies, tables, history
<1>2. \/ status' = status
      \/ \E x \in {"CONFIRMED", "POSTED"} : status' = [status EXCEPT ![r] = x]
  BY DEF ReadMatch, PostEntry, MarkPosted, ConfirmMatch, ConfirmDies
<1>3. QED
  BY <1>1, <1>2 DEF BridgeType

LEMMA StepLadder == Typed /\ BridgeType /\ LadderInv /\ [Next]_vars => LadderInv'
<1> SUFFICES ASSUME Typed, BridgeType, LadderInv, [Next]_vars PROVE LadderInv'
  OBVIOUS
<1>1. CASE UNCHANGED vars
  BY <1>1, ConfirmLadder DEF vars, history, tables
<1>2. CASE Next
  <2>1. CASE Elsewhere
    BY <2>1, SyncLadder, ReadLadder, FilterLadder, LookLadder, DeathLadder DEF Elsewhere
  <2>2. ASSUME NEW s \in Suggesters, NEW r \in Rows, CreateSuggestion(s, r) PROVE LadderInv'
    BY <2>2, CreateLadder
  <2>3. ASSUME NEW c \in Confirmers, NEW r \in Rows,
               \/ ReadMatch(c, r) \/ PostEntry(c, r) \/ MarkPosted(c, r)
               \/ ConfirmMatch(c, r) \/ ConfirmDies(c, r)
        PROVE  LadderInv'
    BY <2>3, ConfirmStep, ConfirmLadder
  <2>4. QED
    BY <1>2, <2>1, <2>2, <2>3, Steps
<1>3. QED
  BY <1>1, <1>2

LEMMA LadderInvariance == Spec => [](Typed /\ LadderInv)
<1>1. Init => Typed /\ LadderInv
  BY InitTyped, InitLadder
<1>2. BInv => BridgeType
  BY DEF BInv
<1>3. QED
  BY <1>1, <1>2, StepTyped, StepLadder, Invariance, PTL DEF Spec

(* Requests overlap, die between two statements, and go by what they read   *)
(* long before: still the suggestions of a transaction are the best ones,   *)
(* from the first on, each once (persistSuggestions).                       *)
THEOREM SuggestionsInOrder == Spec => []SuggestedInOrder
<1>1. LadderInv => SuggestedInOrder
  BY DEF LadderInv, Undisturbed, Laddered, SuggestedInOrder
<1>2. QED
  BY <1>1, LadderInvariance, PTL

(* A transaction that no request is at work on has no suggestion or all of  *)
(* them, unless a request died in the middle of it (persistSuggestions).    *)
THEOREM SuggestionsWhole == Spec => []SuggestedWhole
<1>1. ASSUME Typed, LadderInv PROVE SuggestedWhole
  <2>1. ASSUME NEW t \in Txns, InProgress(t) PROVE \E s \in Suggesters : AtWork(s, t)
    <3>1. PICK s \in Suggesters : At(suggest[s], t)
      BY <2>1 DEF InProgress
    <3>2. PICK k \in Current(suggest[s].read) : suggest[s].read[k].txn = t
      BY <3>1 DEF At
    <3>3. k \in DOMAIN suggest[s].read /\ suggest[s].read[k].left # <<>>
      BY DEF Current
    <3>4. QED
      BY <3>2, <3>3 DEF AtWork
  <2>2. QED
    BY <1>1, <2>1 DEF LadderInv, Undisturbed, Complete, SuggestedWhole
<1>2. QED
  BY <1>1, LadderInvariance, PTL
=============================================================================
