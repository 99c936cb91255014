-------------------------- MODULE BankConsentProofs --------------------------
(***************************************************************************)
(* Proofs about BankConsent, for any sets of consents, requests and jobs   *)
(* and any bounds: types, what the vault holds, and that the bank and the  *)
(* vault agree on every consent that nothing raced or died on.             *)
(***************************************************************************)
EXTENDS BankConsent, TLAPS

USE DEF rows, bank, jobs, vars

LEMMA NoTokenIsNone == NoToken \notin Tokens
<1>1. QED
  BY BankAssumption DEF NoToken, Tokens

-----------------------------------------------------------------------------
(* Types. *)

LEMMA InitTypes == Init => TypeOK
<1>1. QED
  BY BankAssumption DEF Init, TypeOK, Idle, Resting, Tokens, NoToken, Statuses

LEMMA ConsentTypes ==
  ASSUME TypeOK, NEW c \in Consents,
         StartConnection(c) \/ OpenSession(c) \/ SessionLapses(c) \/ ConsentLapses(c)
  PROVE  TypeOK'
<1>1. CASE StartConnection(c)
  BY <1>1 DEF StartConnection, TypeOK, Statuses
<1>2. CASE OpenSession(c)
  BY <1>2 DEF OpenSession, TypeOK, Statuses
<1>3. CASE SessionLapses(c)
  <2>1. consent' \in [Consents -> [status: Statuses, due: BOOLEAN,
                                   session: {"none", "open", "late", "used"}]]
    BY <1>3 DEF SessionLapses, TypeOK
  <2>2. QED
    BY <1>3, <2>1 DEF SessionLapses, TypeOK, bank
<1>4. CASE ConsentLapses(c)
  <2>1. consent' \in [Consents -> [status: Statuses, due: BOOLEAN,
                                   session: {"none", "open", "late", "used"}]]
    <3>1. consent' = [consent EXCEPT ![c].due = TRUE]
      BY <1>4 DEF ConsentLapses
    <3>2. [consent[c] EXCEPT !.due = TRUE] \in
              [status: Statuses, due: BOOLEAN, session: {"none", "open", "late", "used"}]
      <4> DEFINE Rows == [status: Statuses, due: BOOLEAN,
                          session: {"none", "open", "late", "used"}]
      <4>1. consent[c] \in Rows
        BY DEF TypeOK
      <4>2. ASSUME NEW row \in Rows PROVE [row EXCEPT !.due = TRUE] \in Rows
        BY <4>2, Zenon
      <4>3. QED
        BY <4>1, <4>2, Zenon
    <3>3. QED
      BY <3>1, <3>2 DEF TypeOK
  <2>2. QED
    BY <1>4, <2>1 DEF ConsentLapses, TypeOK, bank
<1>5. QED
  BY <1>1, <1>2, <1>3, <1>4

LEMMA BeginTypes ==
  ASSUME TypeOK, NEW r \in Calls, NEW c \in Consents, NEW step, NEW token,
         step \in {"callback", "revoke"}, token \in Tokens \cup {NoToken},
         Begin(r, c, step, token)
  PROVE  TypeOK'
<1>1. QED
  BY DEF Begin, TypeOK

(* A call that has a token in hand has a real one. *)
HeldTokens ==
    \A r \in Calls : call[r].step \in {"exchanged", "revoke", "told"} => call[r].token \in Tokens

LEMMA RequestTypes ==
  ASSUME TypeOK, HeldTokens, NEW r \in Calls, Request(r)
  PROVE  TypeOK' /\ HeldTokens'
<1>1. ASSUME NEW c \in Consents, BeginCallback(r, c) PROVE TypeOK' /\ HeldTokens'
  <2>1. TypeOK'
    BY <1>1, BeginTypes DEF BeginCallback
  <2>2. HeldTokens'
    BY <1>1 DEF BeginCallback, Begin, TypeOK, HeldTokens
  <2>3. QED
    BY <2>1, <2>2
<1>2. ASSUME NEW c \in Consents, Exchange(r, c) PROVE TypeOK' /\ HeldTokens'
  <2>1. PICK t \in Tokens :
          /\ issued' = [issued EXCEPT ![c] = @ \cup {t}]
          /\ call' = [call EXCEPT ![r] = [step |-> "exchanged", on |-> {c}, token |-> t,
                                          job |-> {}]]
    BY <1>2 DEF Exchange
  <2>2. issued' \in [Consents -> SUBSET Tokens]
    BY <2>1 DEF TypeOK
  <2>3. QED
    BY <1>2, <2>1, <2>2 DEF Exchange, TypeOK, HeldTokens
<1>3. ASSUME NEW c \in Consents, Authorise(r, c) PROVE TypeOK' /\ HeldTokens'
  <2>1. [Idle EXCEPT !.step = "create"] =
          [step |-> "create", on |-> {}, token |-> NoToken, job |-> {}]
    BY DEF Idle
  <2>2. QED
    BY <1>3, <2>1 DEF Authorise, TypeOK, Statuses, HeldTokens
<1>4. ASSUME NEW c \in Consents, BeginRevoke(r, c) PROVE TypeOK' /\ HeldTokens'
  <2>1. vault[c] \in Tokens
    BY <1>4 DEF BeginRevoke, TypeOK
  <2>2. TypeOK'
    BY <1>4, <2>1, BeginTypes DEF BeginRevoke
  <2>3. HeldTokens'
    BY <1>4, <2>1 DEF BeginRevoke, Begin, TypeOK, HeldTokens
  <2>4. QED
    BY <2>2, <2>3
<1>5. ASSUME NEW c \in Consents, CommitRevoke(r, c) PROVE TypeOK' /\ HeldTokens'
  <2>1. vault' \in [Consents -> Tokens \cup {NoToken}]
    BY <1>5 DEF CommitRevoke, TypeOK
  <2>2. consent' \in [Consents -> [status: Statuses, due: BOOLEAN,
                                   session: {"none", "open", "late", "used"}]]
    BY <1>5 DEF CommitRevoke, TypeOK, Statuses
  <2>3. QED
    <3>1. call' = [call EXCEPT ![r] = Idle] /\ Idle.step = "idle"
      BY <1>5 DEF CommitRevoke, Idle
    <3>2. HeldTokens'
      BY <3>1 DEF TypeOK, HeldTokens
    <3>3. TypeOK'
      BY <1>5, <2>1, <2>2 DEF CommitRevoke, TypeOK, Idle
    <3>4. QED
      BY <3>2, <3>3
<1>6. CASE BankRevokes(r)
  BY <1>6 DEF BankRevokes, TypeOK, HeldTokens
<1>7. CASE TriggerSync(r)
  <2>1. [Idle EXCEPT !.step = "create"] =
          [step |-> "create", on |-> {}, token |-> NoToken, job |-> {}]
    BY DEF Idle
  <2>2. QED
    BY <1>7, <2>1 DEF TriggerSync, TypeOK, HeldTokens
<1>8. ASSUME NEW j \in Jobs, EnqueueAccountSync(r, j) PROVE TypeOK' /\ HeldTokens'
  BY <1>8 DEF EnqueueAccountSync, TypeOK, HeldTokens
<1>9. CASE QueueAdd(r)
  BY <1>9 DEF QueueAdd, TypeOK, Idle, HeldTokens
<1>10. CASE CallEnds(r)
  BY <1>10 DEF CallEnds, TypeOK, Idle, HeldTokens
<1>11. QED
  BY <1>1, <1>2, <1>3, <1>4, <1>5, <1>6, <1>7, <1>8, <1>9, <1>10 DEF Request

LEMMA WorkerTypes ==
  ASSUME TypeOK, Sweep \/ SweepDies \/ RunSyncJob \/ WorkerDies
  PROVE  TypeOK'
<1>1. CASE BeginSweep
  BY <1>1 DEF BeginSweep, Stale, TypeOK
<1>2. ASSUME NEW c \in Consents, Expire(c) PROVE TypeOK'
  BY <1>2 DEF Expire, TypeOK, Statuses
<1>3. CASE SweepDies
  BY <1>3, BankAssumption DEF SweepDies, TypeOK
<1>4. ASSUME NEW j \in Jobs, SkipSync(j) PROVE TypeOK'
  BY <1>4 DEF SkipSync, TypeOK
<1>5. ASSUME NEW j \in Jobs, StartSync(j) PROVE TypeOK'
  <2>1. LatestToken \in Tokens \cup {NoToken}
    BY DEF LatestToken, Latest, Authorised, TypeOK
  <2>2. QED
    BY <1>5, <2>1 DEF StartSync, TypeOK
<1>6. ASSUME NEW j \in Jobs, NEW status \in {"COMPLETED", "FAILED"}, EndSync(j, status)
      PROVE  TypeOK'
  BY <1>6 DEF EndSync, TypeOK, Resting
<1>7. CASE WorkerDies
  <2>1. job' \in [Jobs -> {"NONE", "PENDING", "RUNNING", "COMPLETED", "FAILED"}]
    BY <1>7 DEF WorkerDies, TypeOK
  <2>2. /\ queue' \subseteq Jobs /\ stalled' \subseteq Jobs /\ unsaid' \subseteq Jobs
        /\ crashes' \in 0 .. MaxCrashes
    BY <1>7, BankAssumption DEF WorkerDies, TypeOK
  <2>3. QED
    BY <1>7, <2>1, <2>2 DEF WorkerDies, TypeOK, Resting
<1>8. ASSUME NEW j \in Jobs, SyncThrows(j) PROVE TypeOK'
  BY <1>8 DEF SyncThrows, TypeOK, Resting
<1>9. QED
  BY <1>1, <1>2, <1>3, <1>4, <1>5, <1>6, <1>7, <1>8
  DEF Sweep, RunSyncJob, CompleteSync, FailSync

LEMMA NextTypes == TypeOK /\ HeldTokens /\ [Next]_vars => TypeOK' /\ HeldTokens'
<1> SUFFICES ASSUME TypeOK, HeldTokens, [Next]_vars PROVE TypeOK' /\ HeldTokens'
  OBVIOUS
<1>1. ASSUME NEW c \in Consents,
             StartConnection(c) \/ OpenSession(c) \/ SessionLapses(c) \/ ConsentLapses(c)
      PROVE  TypeOK' /\ HeldTokens'
  <2>1. call' = call
    BY <1>1 DEF StartConnection, OpenSession, SessionLapses, ConsentLapses
  <2>2. QED
    BY <1>1, <2>1, ConsentTypes DEF HeldTokens
<1>2. ASSUME NEW r \in Calls, Request(r) PROVE TypeOK' /\ HeldTokens'
  BY <1>2, RequestTypes
<1>3. CASE Sweep \/ SweepDies \/ RunSyncJob \/ WorkerDies
  <2>1. call' = call
    BY <1>3 DEF Sweep, BeginSweep, Expire, SweepDies, RunSyncJob, SkipSync, StartSync,
                CompleteSync, FailSync, SyncThrows, EndSync,
                WorkerDies
  <2>2. QED
    BY <1>3, <2>1, WorkerTypes DEF HeldTokens
<1>4. CASE UNCHANGED vars
  BY <1>4 DEF TypeOK, HeldTokens
<1>5. QED
  BY <1>1, <1>2, <1>3, <1>4 DEF Next

LEMMA Types == Spec => [](TypeOK /\ HeldTokens)
<1>1. Init => HeldTokens
  BY DEF Init, HeldTokens, Idle
<1>2. QED
  BY <1>1, InitTypes, NextTypes, PTL DEF Spec

(* Every reachable state is typed; in particular no request is ever about   *)
(* to store, or to have revoked, a token that the bank did not issue.       *)
THEOREM TypeCorrect == Spec => []TypeOK
<1>1. QED
  BY Types, PTL

-----------------------------------------------------------------------------
(* The vault. *)

(* Steps that leave the status of every consent, the vault and the          *)
(* connection alone.                                                        *)
LEMMA CredentialFrame ==
  ASSUME CredentialAgrees, UNCHANGED <<conn, vault>>,
         \A c \in Consents : consent'[c].status = consent[c].status
  PROVE  CredentialAgrees'
<1>1. QED
  BY DEF CredentialAgrees

LEMMA CredentialStep ==
  TypeOK /\ HeldTokens /\ CredentialAgrees /\ [Next]_vars => CredentialAgrees'
<1> SUFFICES ASSUME TypeOK, HeldTokens, CredentialAgrees, [Next]_vars
             PROVE  CredentialAgrees'
  OBVIOUS
<1>1. ASSUME NEW c \in Consents, StartConnection(c) PROVE CredentialAgrees'
  <2>1. /\ vault' = vault
        /\ conn' = IF conn = "NONE" THEN "PENDING_CONSENT" ELSE conn
        /\ \A d \in Consents : consent'[d].status = IF d = c THEN "AWAITING_AUTHORISATION"
                                                    ELSE consent[d].status
        /\ consent[c].status = "NONE"
    BY <1>1 DEF StartConnection, TypeOK
  <2>2. QED
    BY <2>1 DEF CredentialAgrees
<1>2. ASSUME NEW c \in Consents, OpenSession(c) \/ SessionLapses(c) \/ ConsentLapses(c)
      PROVE  CredentialAgrees'
  <2>1. \A d \in Consents : consent'[d].status = consent[d].status
    <3>1. CASE OpenSession(c)
      BY <3>1 DEF OpenSession, TypeOK
    <3>2. CASE SessionLapses(c)
      BY <3>2 DEF SessionLapses, TypeOK
    <3>3. CASE ConsentLapses(c)
      BY <3>3 DEF ConsentLapses, TypeOK
    <3>4. QED
      BY <1>2, <3>1, <3>2, <3>3
  <2>2. QED
    BY <1>2, <2>1, CredentialFrame DEF OpenSession, SessionLapses, ConsentLapses
<1>3. ASSUME NEW r \in Calls, NEW c \in Consents, Authorise(r, c) PROVE CredentialAgrees'
  <2>1. call[r].token \in Tokens
    BY <1>3 DEF Authorise, HeldTokens
  <2>2. /\ conn' = "ACTIVE"
        /\ \A d \in Consents : /\ vault'[d] = IF d = c THEN call[r].token ELSE vault[d]
                               /\ consent'[d].status = IF d = c THEN "AUTHORISED"
                                                       ELSE consent[d].status
    BY <1>3 DEF Authorise, TypeOK
  <2>3. QED
    BY <2>1, <2>2, NoTokenIsNone DEF CredentialAgrees
<1>4. ASSUME NEW r \in Calls, NEW c \in Consents, CommitRevoke(r, c) PROVE CredentialAgrees'
  <2>1. /\ conn' = "REVOKED"
        /\ \A d \in Consents : /\ vault'[d] = IF d = c THEN NoToken ELSE vault[d]
                               /\ consent'[d].status = IF d = c THEN "REVOKED"
                                                       ELSE consent[d].status
    BY <1>4 DEF CommitRevoke, TypeOK
  <2>2. QED
    BY <2>1 DEF CredentialAgrees
<1>5. ASSUME NEW c \in Consents, Expire(c) PROVE CredentialAgrees'
  <2>1. /\ UNCHANGED <<conn, vault>>
        /\ \A d \in Consents : consent'[d].status = IF d = c THEN "EXPIRED"
                                                    ELSE consent[d].status
    BY <1>5 DEF Expire, TypeOK
  <2>2. QED
    BY <2>1 DEF CredentialAgrees
<1>6. CASE UNCHANGED rows
  BY <1>6, CredentialFrame
<1>7. ASSUME NEW r \in Calls, Request(r),
             ~ \E c \in Consents : Authorise(r, c) \/ CommitRevoke(r, c)
      PROVE  UNCHANGED rows
  BY <1>7 DEF Request, BeginCallback, BeginRevoke, Begin, Exchange, BankRevokes, TriggerSync,
              EnqueueAccountSync, QueueAdd, CallEnds
<1>8. ASSUME BeginSweep \/ SweepDies \/ RunSyncJob \/ WorkerDies
      PROVE  UNCHANGED rows
  BY <1>8 DEF BeginSweep, SweepDies, RunSyncJob, SkipSync, StartSync, CompleteSync, FailSync,
              SyncThrows, EndSync, WorkerDies
<1>9. QED
  BY <1>1, <1>2, <1>3, <1>4, <1>5, <1>6, <1>7, <1>8 DEF Next, Sweep

(* Races, crashes and the sweep included: an authorised consent has its     *)
(* credential, one never authorised or revoked has none, and an active      *)
(* connection has a credential.                                             *)
THEOREM CredentialAlwaysAgrees == Spec => []CredentialAgrees
<1>1. Init => CredentialAgrees
  BY DEF Init, CredentialAgrees
<1>2. QED
  BY <1>1, Types, CredentialStep, PTL DEF Spec

-----------------------------------------------------------------------------
(* The bank. *)

(* The bank issues a token once, revokes only tokens it issued, and a token *)
(* stored for a consent, or in the hands of a call on it, was issued for    *)
(* that consent.                                                            *)
OwnTokens ==
    /\ \A c, d \in Consents : c # d => issued[c] \cap issued[d] = {}
    /\ \A t \in dead : \E c \in Consents : t \in issued[c]
    /\ \A c \in Consents : vault[c] # NoToken => vault[c] \in issued[c]
    /\ \A r \in Calls : \A c \in Consents :
          (call[r].on = {c} /\ call[r].step # "callback") => call[r].token \in issued[c]

(* The steps at which a call works on a consent. *)
CallsOK ==
    \A r \in Calls :
        \/ call[r].step \in {"idle", "create", "enqueue"} /\ call[r].on = {}
        \/ /\ call[r].step \in {"callback", "exchanged", "revoke", "told"}
           /\ \E c \in Consents : call[r].on = {c}

(* One call at a time, and none while the sweep has the consent in hand. *)
Alone(c) ==
    /\ \A r, q \in Calls : (call[r].on = {c} /\ call[q].on = {c}) => r = q
    /\ c \in left => /\ consent[c].status \in {"AWAITING_AUTHORISATION", "AUTHORISED"}
                     /\ \A r \in Calls : call[r].on # {c}

(* What the call read still holds. *)
CallAgrees(c) ==
    \A r \in Calls : call[r].on = {c} =>
        /\ call[r].step \in {"callback", "exchanged"}
              => consent[c].status = "AWAITING_AUTHORISATION"
        /\ call[r].step \in {"revoke", "told"}
              => consent[c].status = "AUTHORISED" /\ call[r].token = vault[c]
        /\ call[r].step = "exchanged" => issued[c] \ dead = {call[r].token}
        /\ call[r].step = "told" => call[r].token \in dead

(* What the bank still honours. *)
Known(c) ==
    /\ (\A r \in Calls : call[r].on = {c} => call[r].step # "exchanged")
          => issued[c] \ dead \subseteq {vault[c]}
    /\ vault[c] \in dead => \E r \in Calls : call[r].on = {c} /\ call[r].step = "told"
    /\ consent[c].status = "REVOKED" => issued[c] \subseteq dead

Sound(c) == Alone(c) /\ CallAgrees(c) /\ Known(c)
IInv == OwnTokens /\ CallsOK /\ \A c \in Consents \ touched : Sound(c)

LEMMA KnownGivesAgreement == TypeOK /\ IInv => BankAgrees
<1> SUFFICES ASSUME TypeOK, IInv, NEW c \in Consents \ touched
             PROVE  LET arriving == {call[r].token : r \in {q \in Calls :
                                         call[q].on = {c} /\ call[q].step = "exchanged"}}
                    IN /\ issued[c] \ dead \subseteq {vault[c]} \cup arriving
                       /\ vault[c] \in dead
                             => \E r \in Calls : call[r].on = {c} /\ call[r].step = "told"
                       /\ consent[c].status = "REVOKED" => issued[c] \subseteq dead
  BY DEF BankAgrees
<1> DEFINE arriving == {call[r].token : r \in {q \in Calls :
                            call[q].on = {c} /\ call[q].step = "exchanged"}}
<1>1. Sound(c)
  BY DEF IInv
<1>2. issued[c] \ dead \subseteq {vault[c]} \cup arriving
  <2>1. CASE \E r \in Calls : call[r].on = {c} /\ call[r].step = "exchanged"
    BY <1>1, <2>1 DEF Sound, CallAgrees
  <2>2. CASE \A r \in Calls : call[r].on = {c} => call[r].step # "exchanged"
    BY <1>1, <2>2 DEF Sound, Known
  <2>3. QED
    BY <2>1, <2>2
<1>3. QED
  BY <1>1, <1>2 DEF Sound, Known

(* Steps that touch no token, no status and no call on a consent. *)
LEMMA FrameKeeps ==
  ASSUME IInv, UNCHANGED <<vault, issued, dead, touched>>, left' \in {left, {}},
         \A c \in Consents : consent'[c].status = consent[c].status,
         \A r \in Calls : \/ call'[r] = call[r]
                          \/ /\ call[r].on = {} /\ call'[r].on = {}
                             /\ call'[r].step \in {"idle", "create", "enqueue"}
  PROVE  IInv'
<1>1. \A r \in Calls : call'[r].on = call[r].on
  OBVIOUS
<1>2. \A r \in Calls : \A c \in Consents : call[r].on = {c} => call'[r] = call[r]
  OBVIOUS
<1>3. OwnTokens'
  BY <1>1, <1>2 DEF IInv, OwnTokens
<1>4. CallsOK'
  BY <1>1, <1>2 DEF IInv, CallsOK
<1>5. ASSUME NEW c \in Consents \ touched PROVE Sound(c)'
  <2>1. Sound(c)
    BY DEF IInv
  <2>2. Alone(c)'
    BY <1>1, <2>1 DEF Sound, Alone
  <2>3. CallAgrees(c)'
    BY <1>1, <1>2, <2>1 DEF Sound, CallAgrees
  <2>4. Known(c)'
    BY <1>1, <1>2, <2>1 DEF Sound, Known
  <2>5. QED
    BY <2>2, <2>3, <2>4 DEF Sound
<1>6. QED
  BY <1>3, <1>4, <1>5 DEF IInv

LEMMA StartKeeps ==
  ASSUME TypeOK, IInv, NEW c \in Consents, StartConnection(c)
  PROVE  IInv'
<1>1. /\ UNCHANGED <<vault, issued, dead, call, left, touched>>
      /\ \A d \in Consents : consent'[d].status = IF d = c THEN "AWAITING_AUTHORISATION"
                                                  ELSE consent[d].status
      /\ consent[c].status = "NONE"
  BY DEF StartConnection, TypeOK
<1>2. OwnTokens' /\ CallsOK'
  BY <1>1 DEF IInv, OwnTokens, CallsOK
<1>3. ASSUME NEW d \in Consents \ touched PROVE Sound(d)'
  <2>1. Sound(d)
    BY DEF IInv
  <2>2. d = c => \A r \in Calls : call[r].on # {d}
    BY <1>1, <2>1 DEF Sound, CallAgrees, IInv, CallsOK
  <2>3. Alone(d)' /\ CallAgrees(d)' /\ Known(d)'
    BY <1>1, <2>1, <2>2 DEF Sound, Alone, CallAgrees, Known
  <2>4. QED
    BY <2>3 DEF Sound
<1>4. QED
  BY <1>1, <1>2, <1>3 DEF IInv

(* A call begins on a consent: where no other call and no sweep is at work  *)
(* on it, what the call read is what holds.                                 *)
LEMMA BeginKeeps ==
  ASSUME TypeOK, IInv, NEW r \in Calls, NEW c \in Consents, NEW step, NEW token,
         \/ step = "callback" /\ consent[c].status = "AWAITING_AUTHORISATION"
         \/ /\ step = "revoke" /\ consent[c].status = "AUTHORISED"
            /\ token = vault[c] /\ vault[c] # NoToken,
         Begin(r, c, step, token)
  PROVE  IInv'
<1>1. /\ UNCHANGED <<consent, vault, issued, dead, left>>
      /\ call[r].step = "idle"
      /\ call'[r] = [step |-> step, on |-> {c}, token |-> token, job |-> {}]
      /\ \A q \in Calls \ {r} : call'[q] = call[q]
      /\ touched' = IF c \in left \/ \E q \in Calls \ {r} : call[q].on = {c}
                    THEN touched \cup {c} ELSE touched
  BY DEF Begin, TypeOK
<1>2. call[r].on = {}
  BY <1>1 DEF IInv, CallsOK
<1>3. OwnTokens'
  BY <1>1 DEF IInv, OwnTokens
<1>4. CallsOK'
  BY <1>1 DEF IInv, CallsOK
<1>5. ASSUME NEW d \in Consents \ touched' PROVE Sound(d)'
  <2>1. d \in Consents \ touched /\ Sound(d)
    BY <1>1 DEF IInv
  <2>2. CASE d # c
    <3>1. Alone(d)' /\ CallAgrees(d)' /\ Known(d)'
      BY <1>1, <1>2, <2>1, <2>2 DEF Sound, Alone, CallAgrees, Known
    <3>2. QED
      BY <3>1 DEF Sound
  <2>3. CASE d = c
    <3>1. c \notin left /\ \A q \in Calls : call[q].on # {c}
      BY <1>1, <1>2, <2>3
    <3>2. \A q \in Calls : call'[q].on = {c} => q = r
      BY <1>1, <3>1
    <3>3. Alone(c)'
      BY <1>1, <3>1, <3>2 DEF Alone
    <3>4. CallAgrees(c)'
      BY <1>1, <3>2 DEF CallAgrees
    <3>5. Known(c)'
      BY <1>1, <2>1, <2>3, <3>1, <3>2 DEF Sound, Known
    <3>6. QED
      BY <2>3, <3>3, <3>4, <3>5 DEF Sound
  <2>4. QED
    BY <2>2, <2>3
<1>6. QED
  BY <1>3, <1>4, <1>5 DEF IInv

LEMMA ExchangeKeeps ==
  ASSUME TypeOK, CredentialAgrees, IInv, NEW r \in Calls, NEW c \in Consents, Exchange(r, c)
  PROVE  IInv'
<1>1. PICK t \in Tokens :
        /\ \A d \in Consents : t \notin issued[d]
        /\ \A d \in Consents : issued'[d] = IF d = c THEN issued[c] \cup {t} ELSE issued[d]
        /\ call'[r] = [step |-> "exchanged", on |-> {c}, token |-> t, job |-> {}]
        /\ \A q \in Calls \ {r} : call'[q] = call[q]
  <2>1. PICK t \in Tokens \ UNION {issued[d] : d \in Consents} :
          /\ issued' = [issued EXCEPT ![c] = @ \cup {t}]
          /\ call' = [call EXCEPT ![r] = [step |-> "exchanged", on |-> {c}, token |-> t,
                                          job |-> {}]]
    BY DEF Exchange
  <2>2. \A d \in Consents : t \notin issued[d]
    BY <2>1
  <2>3. \A d \in Consents : issued'[d] = IF d = c THEN issued[c] \cup {t} ELSE issued[d]
    BY <2>1 DEF TypeOK
  <2>4. /\ call'[r] = [step |-> "exchanged", on |-> {c}, token |-> t, job |-> {}]
        /\ \A q \in Calls \ {r} : call'[q] = call[q]
    BY <2>1 DEF TypeOK
  <2>5. QED
    BY <2>1, <2>2, <2>3, <2>4
<1>2. /\ UNCHANGED <<consent, vault, dead, left, touched>>
      /\ call[r].step = "callback" /\ call[r].on = {c}
  BY DEF Exchange
<1>3. t \notin dead
  BY <1>1 DEF IInv, OwnTokens
<1>4. \A q \in Calls : call'[q].on = call[q].on
  <2>1. call'[r].on = {c}
    BY <1>1
  <2>2. QED
    BY <1>1, <1>2, <2>1
<1>5. OwnTokens'
  <2>1. \A d, e \in Consents : d # e => issued'[d] \cap issued'[e] = {}
    BY <1>1 DEF IInv, OwnTokens
  <2>2. /\ \A u \in dead' : \E d \in Consents : u \in issued'[d]
        /\ \A d \in Consents : vault'[d] # NoToken => vault'[d] \in issued'[d]
    BY <1>1, <1>2 DEF IInv, OwnTokens
  <2>3. \A q \in Calls : \A d \in Consents :
          (call'[q].on = {d} /\ call'[q].step # "callback") => call'[q].token \in issued'[d]
    BY <1>1, <1>2 DEF IInv, OwnTokens
  <2>4. QED
    BY <2>1, <2>2, <2>3 DEF OwnTokens
<1>6. CallsOK'
  BY <1>1 DEF IInv, CallsOK
<1>7. ASSUME NEW d \in Consents \ touched PROVE Sound(d)'
  <2>1. Sound(d)
    BY DEF IInv
  <2>2. Alone(d)'
    BY <1>2, <1>4, <2>1 DEF Sound, Alone
  <2>3. CASE d # c
    <3>1. \A q \in Calls : call[q].on = {d} => call'[q] = call[q]
      BY <1>1, <1>2, <2>3
    <3>2. issued'[d] = issued[d]
      BY <1>1, <2>3
    <3>3. CallAgrees(d)' /\ Known(d)'
      BY <1>2, <1>4, <2>1, <3>1, <3>2 DEF Sound, CallAgrees, Known
    <3>4. QED
      BY <2>2, <3>3 DEF Sound
  <2>4. CASE d = c
    <3>1. \A q \in Calls : call[q].on = {c} => q = r
      BY <1>2, <2>1, <2>4 DEF Sound, Alone
    <3>2. consent[c].status = "AWAITING_AUTHORISATION"
      BY <1>2, <2>1, <2>4 DEF Sound, CallAgrees
    <3>3. vault[c] = NoToken /\ vault[c] \notin dead
      BY <3>2, NoTokenIsNone DEF CredentialAgrees, TypeOK
    <3>4. issued[c] \ dead \subseteq {NoToken}
      BY <1>2, <2>1, <2>4, <3>1, <3>3 DEF Sound, Known
    <3>5. issued'[c] \ dead' = {t}
      BY <1>1, <1>2, <1>3, <3>4, NoTokenIsNone DEF TypeOK
    <3>6. CallAgrees(c)'
      BY <1>1, <1>2, <1>4, <3>1, <3>2, <3>5 DEF CallAgrees
    <3>7. Known(c)'
      BY <1>1, <1>2, <3>2, <3>3 DEF Known
    <3>8. QED
      BY <2>2, <2>4, <3>6, <3>7 DEF Sound
  <2>5. QED
    BY <2>3, <2>4
<1>8. QED
  BY <1>2, <1>5, <1>6, <1>7 DEF IInv

LEMMA AuthoriseKeeps ==
  ASSUME TypeOK, HeldTokens, CredentialAgrees, IInv, NEW r \in Calls, NEW c \in Consents,
         Authorise(r, c)
  PROVE  IInv'
<1>1. /\ UNCHANGED <<issued, dead, left, touched>>
      /\ call[r].step = "exchanged" /\ call[r].on = {c}
      /\ \A d \in Consents : /\ vault'[d] = IF d = c THEN call[r].token ELSE vault[d]
                             /\ consent'[d].status = IF d = c THEN "AUTHORISED"
                                                     ELSE consent[d].status
      /\ \A q \in Calls \ {r} : call'[q] = call[q]
  BY DEF Authorise, TypeOK
<1>2. call'[r] = [step |-> "create", on |-> {}, token |-> NoToken, job |-> {}]
  <2>1. [Idle EXCEPT !.step = "create"] =
          [step |-> "create", on |-> {}, token |-> NoToken, job |-> {}]
    BY DEF Idle
  <2>2. QED
    BY <2>1 DEF Authorise, TypeOK
<1>3. call[r].token \in issued[c]
  BY <1>1 DEF IInv, OwnTokens
<1>4. OwnTokens'
  BY <1>1, <1>2, <1>3 DEF IInv, OwnTokens
<1>5. CallsOK'
  BY <1>1, <1>2 DEF IInv, CallsOK
<1>6. ASSUME NEW d \in Consents \ touched PROVE Sound(d)'
  <2>1. Sound(d)
    BY DEF IInv
  <2>2. CASE d # c
    <3>1. /\ \A q \in Calls : call[q].on = {d} => call'[q] = call[q]
          /\ \A q \in Calls : call'[q].on = {d} => call'[q] = call[q]
      BY <1>1, <1>2, <2>2
    <3>2. vault'[d] = vault[d] /\ consent'[d].status = consent[d].status
      BY <1>1, <2>2
    <3>3. Alone(d)' /\ CallAgrees(d)' /\ Known(d)'
      BY <1>1, <2>1, <3>1, <3>2 DEF Sound, Alone, CallAgrees, Known
    <3>4. QED
      BY <3>3 DEF Sound
  <2>3. CASE d = c
    <3>1. \A q \in Calls : call'[q].on # {c}
      BY <1>1, <1>2, <2>1, <2>3 DEF Sound, Alone
    <3>2. c \notin left
      BY <1>1, <2>1, <2>3 DEF Sound, Alone
    <3>3. issued[c] \ dead = {call[r].token}
      BY <1>1, <2>1, <2>3 DEF Sound, CallAgrees
    <3>4. Alone(c)' /\ CallAgrees(c)' /\ Known(c)'
      BY <1>1, <3>1, <3>2, <3>3 DEF Alone, CallAgrees, Known
    <3>5. QED
      BY <2>3, <3>4 DEF Sound
  <2>4. QED
    BY <2>2, <2>3
<1>7. QED
  BY <1>1, <1>4, <1>5, <1>6 DEF IInv

LEMMA BankRevokesKeeps ==
  ASSUME TypeOK, HeldTokens, IInv, NEW r \in Calls, BankRevokes(r)
  PROVE  IInv'
<1>1. PICK c \in Consents : call[r].on = {c}
  BY DEF BankRevokes, IInv, CallsOK
<1>2. /\ UNCHANGED <<consent, vault, issued, left, touched>>
      /\ call[r].step = "revoke"
      /\ dead' = dead \cup {call[r].token}
      /\ call'[r].on = {c} /\ call'[r].step = "told" /\ call'[r].token = call[r].token
      /\ \A q \in Calls \ {r} : call'[q] = call[q]
  BY <1>1 DEF BankRevokes, TypeOK
<1>3. call[r].token \in issued[c]
  BY <1>1, <1>2 DEF IInv, OwnTokens
<1>4. \A q \in Calls : call'[q].on = call[q].on /\ call'[q].token = call[q].token
  BY <1>1, <1>2
<1>5. OwnTokens'
  <2>1. \A u \in dead' : \E d \in Consents : u \in issued[d]
    BY <1>2, <1>3 DEF IInv, OwnTokens
  <2>2. \A q \in Calls : \A d \in Consents :
          (call'[q].on = {d} /\ call'[q].step # "callback") => call'[q].token \in issued[d]
    BY <1>2, <1>4 DEF IInv, OwnTokens
  <2>3. QED
    BY <1>2, <2>1, <2>2 DEF IInv, OwnTokens
<1>6. CallsOK'
  BY <1>1, <1>2 DEF IInv, CallsOK
<1>7. ASSUME NEW d \in Consents \ touched PROVE Sound(d)'
  <2>1. Sound(d)
    BY DEF IInv
  <2>2. Alone(d)'
    BY <1>2, <1>4, <2>1 DEF Sound, Alone
  <2>3. CASE d # c
    <3>1. \A q \in Calls : call[q].on = {d} => call'[q] = call[q]
      BY <1>1, <1>2, <2>3
    <3>2. call[r].token \notin issued[d]
      BY <1>3, <2>3 DEF IInv, OwnTokens
    <3>3. call[r].token # vault[d]
      <4>1. call[r].token \in Tokens
        BY <1>2 DEF HeldTokens
      <4>2. QED
        BY <4>1, <3>2, NoTokenIsNone DEF IInv, OwnTokens
    <3>4. CallAgrees(d)'
      BY <1>2, <1>4, <2>1, <3>1, <3>2 DEF Sound, CallAgrees
    <3>5. Known(d)'
      BY <1>2, <1>4, <2>1, <3>1, <3>2, <3>3 DEF Sound, Known
    <3>6. QED
      BY <2>2, <3>4, <3>5 DEF Sound
  <2>4. CASE d = c
    <3>1. \A q \in Calls : call[q].on = {c} => q = r
      BY <1>1, <2>1, <2>4 DEF Sound, Alone
    <3>2. consent[c].status = "AUTHORISED" /\ call[r].token = vault[c]
      BY <1>1, <1>2, <2>1, <2>4 DEF Sound, CallAgrees
    <3>3. issued[c] \ dead \subseteq {vault[c]}
      BY <1>2, <2>1, <2>4, <3>1 DEF Sound, Known
    <3>4. CallAgrees(c)'
      BY <1>2, <1>4, <3>1, <3>2 DEF CallAgrees
    <3>5. Known(c)'
      BY <1>1, <1>2, <3>2, <3>3 DEF Known
    <3>6. QED
      BY <2>2, <2>4, <3>4, <3>5 DEF Sound
  <2>5. QED
    BY <2>3, <2>4
<1>8. QED
  BY <1>2, <1>5, <1>6, <1>7 DEF IInv

LEMMA CommitRevokeKeeps ==
  ASSUME TypeOK, IInv, NEW r \in Calls, NEW c \in Consents, CommitRevoke(r, c)
  PROVE  IInv'
<1>1. /\ UNCHANGED <<issued, dead, left, touched>>
      /\ call[r].step = "told" /\ call[r].on = {c}
      /\ \A d \in Consents : /\ vault'[d] = IF d = c THEN NoToken ELSE vault[d]
                             /\ consent'[d].status = IF d = c THEN "REVOKED"
                                                     ELSE consent[d].status
      /\ call'[r] = Idle
      /\ \A q \in Calls \ {r} : call'[q] = call[q]
  BY DEF CommitRevoke, TypeOK
<1>2. Idle.on = {} /\ Idle.step = "idle"
  BY DEF Idle
<1>3. OwnTokens'
  BY <1>1, <1>2 DEF IInv, OwnTokens
<1>4. CallsOK'
  BY <1>1, <1>2 DEF IInv, CallsOK
<1>5. ASSUME NEW d \in Consents \ touched PROVE Sound(d)'
  <2>1. Sound(d)
    BY DEF IInv
  <2>2. CASE d # c
    <3>1. /\ \A q \in Calls : call[q].on = {d} => call'[q] = call[q]
          /\ \A q \in Calls : call'[q].on = {d} => call'[q] = call[q]
      BY <1>1, <1>2, <2>2
    <3>2. vault'[d] = vault[d] /\ consent'[d].status = consent[d].status
      BY <1>1, <2>2
    <3>3. Alone(d)' /\ CallAgrees(d)' /\ Known(d)'
      BY <1>1, <2>1, <3>1, <3>2 DEF Sound, Alone, CallAgrees, Known
    <3>4. QED
      BY <3>3 DEF Sound
  <2>3. CASE d = c
    <3>1. \A q \in Calls : call[q].on = {c} => q = r
      BY <1>1, <2>1, <2>3 DEF Sound, Alone
    <3>2. \A q \in Calls : call'[q].on # {c}
      BY <1>1, <1>2, <3>1
    <3>3. c \notin left
      BY <1>1, <2>1, <2>3 DEF Sound, Alone
    <3>4. issued[c] \subseteq dead
      <4>1. issued[c] \ dead \subseteq {vault[c]}
        BY <1>1, <2>1, <2>3, <3>1 DEF Sound, Known
      <4>2. vault[c] \in dead
        BY <1>1, <2>1, <2>3 DEF Sound, CallAgrees
      <4>3. QED
        BY <4>1, <4>2
    <3>5. NoToken \notin dead
      BY NoTokenIsNone DEF TypeOK
    <3>6. Alone(c)' /\ CallAgrees(c)' /\ Known(c)'
      BY <1>1, <3>2, <3>3, <3>4, <3>5 DEF Alone, CallAgrees, Known
    <3>7. QED
      BY <2>3, <3>6 DEF Sound
  <2>4. QED
    BY <2>2, <2>3
<1>6. QED
  BY <1>1, <1>3, <1>4, <1>5 DEF IInv

(* A call that dies between the bank and the database gives its consent up; *)
(* one that dies before leaves nothing behind.                              *)
LEMMA CallEndsKeeps ==
  ASSUME TypeOK, IInv, NEW r \in Calls, CallEnds(r)
  PROVE  IInv'
<1>1. /\ UNCHANGED <<consent, vault, issued, dead, left>>
      /\ touched' = IF call[r].step \in {"exchanged", "told"}
                    THEN touched \cup call[r].on ELSE touched
      /\ call'[r] = Idle
      /\ \A q \in Calls \ {r} : call'[q] = call[q]
  BY DEF CallEnds, TypeOK
<1>2. Idle.on = {} /\ Idle.step = "idle"
  BY DEF Idle
<1>3. OwnTokens'
  BY <1>1, <1>2 DEF IInv, OwnTokens
<1>4. CallsOK'
  BY <1>1, <1>2 DEF IInv, CallsOK
<1>5. ASSUME NEW d \in Consents \ touched' PROVE Sound(d)'
  <2>1. d \notin touched /\ Sound(d)
    BY <1>1 DEF IInv
  <2>2. call[r].on = {d} => call[r].step \notin {"exchanged", "told"}
    BY <1>1
  <2>3. \A q \in Calls : call'[q].on = {d} => call'[q] = call[q]
    BY <1>1, <1>2
  <2>4. Alone(d)' /\ CallAgrees(d)'
    BY <1>1, <2>1, <2>3 DEF Sound, Alone, CallAgrees
  <2>5. Known(d)'
    <3>1. (\A q \in Calls : call'[q].on = {d} => call'[q].step # "exchanged")
             => \A q \in Calls : call[q].on = {d} => call[q].step # "exchanged"
      BY <1>1, <2>2
    <3>2. (\E q \in Calls : call[q].on = {d} /\ call[q].step = "told")
             => \E q \in Calls : call'[q].on = {d} /\ call'[q].step = "told"
      BY <1>1, <2>2
    <3>3. QED
      BY <1>1, <2>1, <3>1, <3>2 DEF Sound, Known
  <2>6. QED
    BY <2>4, <2>5 DEF Sound
<1>6. QED
  BY <1>3, <1>4, <1>5 DEF IInv

LEMMA BeginSweepKeeps ==
  ASSUME TypeOK, IInv, BeginSweep
  PROVE  IInv'
<1>1. /\ UNCHANGED <<consent, vault, issued, dead, call>>
      /\ left' = Stale
      /\ touched' = touched \cup {c \in Stale : \E r \in Calls : call[r].on = {c}}
  BY DEF BeginSweep
<1>2. OwnTokens' /\ CallsOK'
  BY <1>1 DEF IInv, OwnTokens, CallsOK
<1>3. ASSUME NEW d \in Consents \ touched' PROVE Sound(d)'
  <2>1. d \notin touched /\ Sound(d)
    BY <1>1 DEF IInv
  <2>2. d \in Stale => /\ consent[d].status \in {"AWAITING_AUTHORISATION", "AUTHORISED"}
                       /\ \A r \in Calls : call[r].on # {d}
    BY <1>1 DEF Stale
  <2>3. Alone(d)' /\ CallAgrees(d)' /\ Known(d)'
    BY <1>1, <2>1, <2>2 DEF Sound, Alone, CallAgrees, Known
  <2>4. QED
    BY <2>3 DEF Sound
<1>4. QED
  BY <1>2, <1>3 DEF IInv

LEMMA ExpireKeeps ==
  ASSUME TypeOK, IInv, NEW c \in Consents, Expire(c)
  PROVE  IInv'
<1>1. /\ UNCHANGED <<vault, issued, dead, call, touched>>
      /\ c \in left /\ left' = left \ {c}
      /\ \A d \in Consents : consent'[d].status = IF d = c THEN "EXPIRED"
                                                  ELSE consent[d].status
  BY DEF Expire, TypeOK
<1>2. OwnTokens' /\ CallsOK'
  BY <1>1 DEF IInv, OwnTokens, CallsOK
<1>3. ASSUME NEW d \in Consents \ touched PROVE Sound(d)'
  <2>1. Sound(d)
    BY DEF IInv
  <2>2. d = c => \A r \in Calls : call[r].on # {d}
    BY <1>1, <2>1 DEF Sound, Alone
  <2>3. Alone(d)' /\ CallAgrees(d)' /\ Known(d)'
    BY <1>1, <2>1, <2>2 DEF Sound, Alone, CallAgrees, Known
  <2>4. QED
    BY <2>3 DEF Sound
<1>4. QED
  BY <1>1, <1>2, <1>3 DEF IInv

LEMMA TableRead ==
  ASSUME NEW status
  PROVE  /\ CanTransition(status, "AUTHORISED") <=> status = "AWAITING_AUTHORISATION"
         /\ CanTransition(status, "REVOKED") <=> status = "AUTHORISED"
         /\ CanTransition(status, "EXPIRED")
               <=> status \in {"AWAITING_AUTHORISATION", "AUTHORISED"}
<1>1. QED
  BY DEF CanTransition, Transitions

LEMMA IInvStep ==
  TypeOK /\ HeldTokens /\ CredentialAgrees /\ IInv /\ [Next]_vars => IInv'
<1> SUFFICES ASSUME TypeOK, HeldTokens, CredentialAgrees, IInv, [Next]_vars
             PROVE  IInv'
  OBVIOUS
<1>1. ASSUME NEW c \in Consents,
             StartConnection(c) \/ OpenSession(c) \/ SessionLapses(c) \/ ConsentLapses(c)
      PROVE  IInv'
  <2>1. CASE StartConnection(c)
    BY <2>1, StartKeeps
  <2>2. CASE OpenSession(c)
    <3>1. \A d \in Consents : consent'[d].status = consent[d].status
      BY <2>2 DEF OpenSession, TypeOK
    <3>2. QED
      BY <2>2, <3>1, FrameKeeps DEF OpenSession
  <2>3. CASE SessionLapses(c)
    <3>1. \A d \in Consents : consent'[d].status = consent[d].status
      BY <2>3 DEF SessionLapses, TypeOK
    <3>2. QED
      BY <2>3, <3>1, FrameKeeps DEF SessionLapses
  <2>4. CASE ConsentLapses(c)
    <3>1. \A d \in Consents : consent'[d].status = consent[d].status
      BY <2>4 DEF ConsentLapses, TypeOK
    <3>2. QED
      BY <2>4, <3>1, FrameKeeps DEF ConsentLapses
  <2>5. QED
    BY <1>1, <2>1, <2>2, <2>3, <2>4
<1>2. ASSUME NEW r \in Calls, Request(r) PROVE IInv'
  <2>1. ASSUME NEW c \in Consents, BeginCallback(r, c) PROVE IInv'
    BY <2>1, BeginKeeps, TableRead DEF BeginCallback
  <2>2. ASSUME NEW c \in Consents, Exchange(r, c) PROVE IInv'
    BY <2>2, ExchangeKeeps
  <2>3. ASSUME NEW c \in Consents, Authorise(r, c) PROVE IInv'
    BY <2>3, AuthoriseKeeps
  <2>4. ASSUME NEW c \in Consents, BeginRevoke(r, c) PROVE IInv'
    BY <2>4, BeginKeeps, TableRead DEF BeginRevoke
  <2>5. ASSUME NEW c \in Consents, CommitRevoke(r, c) PROVE IInv'
    BY <2>5, CommitRevokeKeeps
  <2>6. CASE BankRevokes(r)
    BY <2>6, BankRevokesKeeps
  <2>7. CASE CallEnds(r)
    BY <2>7, CallEndsKeeps
  <2>8. CASE TriggerSync(r) \/ QueueAdd(r) \/ \E j \in Jobs : EnqueueAccountSync(r, j)
    <3>1. /\ UNCHANGED <<consent, vault, issued, dead, left, touched>>
          /\ call[r].step \in {"idle", "create", "enqueue"}
          /\ call'[r].on = {} /\ call'[r].step \in {"idle", "create", "enqueue"}
          /\ \A q \in Calls \ {r} : call'[q] = call[q]
      <4>1. CASE TriggerSync(r)
        <5>1. [Idle EXCEPT !.step = "create"] =
                [step |-> "create", on |-> {}, token |-> NoToken, job |-> {}]
          BY DEF Idle
        <5>2. QED
          BY <4>1, <5>1 DEF TriggerSync, TypeOK
      <4>2. CASE QueueAdd(r)
        BY <4>2 DEF QueueAdd, TypeOK, Idle
      <4>3. ASSUME NEW j \in Jobs, EnqueueAccountSync(r, j)
            PROVE  /\ UNCHANGED <<consent, vault, issued, dead, left, touched>>
                   /\ call[r].step \in {"idle", "create", "enqueue"}
                   /\ call'[r].on = {} /\ call'[r].step \in {"idle", "create", "enqueue"}
                   /\ \A q \in Calls \ {r} : call'[q] = call[q]
        BY <4>3 DEF EnqueueAccountSync, TypeOK
      <4>4. QED
        BY <2>8, <4>1, <4>2, <4>3
    <3>2. call[r].on = {}
      BY <3>1 DEF IInv, CallsOK
    <3>3. QED
      BY <3>1, <3>2, FrameKeeps
  <2>9. QED
    BY <1>2, <2>1, <2>2, <2>3, <2>4, <2>5, <2>6, <2>7, <2>8 DEF Request
<1>3. CASE Sweep
  BY <1>3, BeginSweepKeeps, ExpireKeeps DEF Sweep
<1>4. CASE SweepDies \/ RunSyncJob \/ WorkerDies \/ UNCHANGED vars
  <2>1. UNCHANGED <<consent, vault, issued, dead, call, touched>> /\ left' \in {left, {}}
    BY <1>4 DEF SweepDies, RunSyncJob, SkipSync, StartSync, CompleteSync, FailSync, SyncThrows,
                EndSync, WorkerDies
  <2>2. QED
    BY <2>1, FrameKeeps
<1>5. QED
  BY <1>1, <1>2, <1>3, <1>4 DEF Next

(* On every consent that nothing raced or died on, what a call read still   *)
(* holds when it writes, and the vault is what the bank knows.              *)
THEOREM Invariance == Spec => []IInv
<1>1. Init => IInv
  <2> SUFFICES ASSUME Init PROVE IInv
    OBVIOUS
  <2>1. /\ \A r \in Calls : call[r].step = "idle" /\ call[r].on = {}
        /\ \A c \in Consents : /\ issued[c] = {} /\ vault[c] = NoToken
                               /\ consent[c].status = "NONE"
        /\ dead = {} /\ left = {}
    BY DEF Init, Idle
  <2>2. OwnTokens /\ CallsOK
    BY <2>1 DEF OwnTokens, CallsOK
  <2>3. ASSUME NEW c \in Consents PROVE Sound(c)
    BY <2>1 DEF Sound, Alone, CallAgrees, Known
  <2>4. QED
    BY <2>2, <2>3 DEF IInv
<1>2. QED
  BY <1>1, Types, CredentialAlwaysAgrees, IInvStep, PTL DEF Spec

(* On such a consent the bank honours only the stored token or one on its   *)
(* way there, and none once the consent is revoked.                         *)
THEOREM BankAlwaysAgrees == Spec => []BankAgrees
<1>1. QED
  BY TypeCorrect, Invariance, KnownGivesAgreement, PTL

LEMMA TableStep ==
  TypeOK /\ IInv /\ [Next]_vars =>
    [\A c \in Consents \ touched :
        \/ consent'[c].status = consent[c].status
        \/ consent[c].status = "NONE"
        \/ CanTransition(consent[c].status, consent'[c].status)]_vars
<1> SUFFICES ASSUME TypeOK, IInv, [Next]_vars, NEW c \in Consents \ touched
             PROVE  \/ consent'[c].status = consent[c].status
                    \/ consent[c].status = "NONE"
                    \/ CanTransition(consent[c].status, consent'[c].status)
  OBVIOUS
<1>1. Sound(c)
  BY DEF IInv
<1>2. ASSUME NEW d \in Consents,
             StartConnection(d) \/ OpenSession(d) \/ SessionLapses(d) \/ ConsentLapses(d)
      PROVE  consent'[c].status = consent[c].status \/ consent[c].status = "NONE"
  <2>1. CASE StartConnection(d)
    BY <2>1 DEF StartConnection, TypeOK
  <2>2. CASE OpenSession(d)
    BY <2>2 DEF OpenSession, TypeOK
  <2>3. CASE SessionLapses(d)
    BY <2>3 DEF SessionLapses, TypeOK
  <2>4. CASE ConsentLapses(d)
    BY <2>4 DEF ConsentLapses, TypeOK
  <2>5. QED
    BY <1>2, <2>1, <2>2, <2>3, <2>4
<1>3. ASSUME NEW r \in Calls, NEW d \in Consents, Authorise(r, d)
      PROVE  \/ consent'[c].status = consent[c].status
             \/ CanTransition(consent[c].status, consent'[c].status)
  <2>1. consent'[c].status = IF c = d THEN "AUTHORISED" ELSE consent[c].status
    BY <1>3 DEF Authorise, TypeOK
  <2>2. c = d => consent[c].status = "AWAITING_AUTHORISATION"
    BY <1>1, <1>3 DEF Authorise, Sound, CallAgrees
  <2>3. QED
    BY <2>1, <2>2, TableRead
<1>4. ASSUME NEW r \in Calls, NEW d \in Consents, CommitRevoke(r, d)
      PROVE  \/ consent'[c].status = consent[c].status
             \/ CanTransition(consent[c].status, consent'[c].status)
  <2>1. consent'[c].status = IF c = d THEN "REVOKED" ELSE consent[c].status
    BY <1>4 DEF CommitRevoke, TypeOK
  <2>2. c = d => consent[c].status = "AUTHORISED"
    BY <1>1, <1>4 DEF CommitRevoke, Sound, CallAgrees
  <2>3. QED
    BY <2>1, <2>2, TableRead
<1>5. ASSUME NEW d \in Consents, Expire(d)
      PROVE  \/ consent'[c].status = consent[c].status
             \/ CanTransition(consent[c].status, consent'[c].status)
  <2>1. consent'[c].status = IF c = d THEN "EXPIRED" ELSE consent[c].status
    BY <1>5 DEF Expire, TypeOK
  <2>2. c = d => consent[c].status \in {"AWAITING_AUTHORISATION", "AUTHORISED"}
    BY <1>1, <1>5 DEF Expire, Sound, Alone
  <2>3. QED
    BY <2>1, <2>2, TableRead
<1>6. ASSUME NEW r \in Calls, Request(r),
             ~ \E d \in Consents : Authorise(r, d) \/ CommitRevoke(r, d)
      PROVE  UNCHANGED consent
  BY <1>6 DEF Request, BeginCallback, BeginRevoke, Begin, Exchange, BankRevokes, TriggerSync,
              EnqueueAccountSync, QueueAdd, CallEnds
<1>7. ASSUME BeginSweep \/ SweepDies \/ RunSyncJob \/ WorkerDies
      PROVE  UNCHANGED consent
  BY <1>7 DEF BeginSweep, SweepDies, RunSyncJob, SkipSync, StartSync, CompleteSync, FailSync,
              SyncThrows, EndSync, WorkerDies
<1>8. QED
  BY <1>2, <1>3, <1>4, <1>5, <1>6, <1>7 DEF Next, Sweep

(* Such a consent moves only as consent-state-machine.ts allows, although   *)
(* no write checks it.                                                      *)
THEOREM TableAlwaysFollowed == Spec => TableFollowed
<1>1. QED
  BY TypeCorrect, Invariance, TableStep, PTL DEF Spec, TableFollowed
=============================================================================
