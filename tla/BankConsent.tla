----------------------------- MODULE BankConsent -----------------------------
(***************************************************************************)
(* Open Finance: the consents of one bank connection, the tokens the bank  *)
(* issues for them, and the jobs that synchronise its accounts:            *)
(* apps/api/src/modules/banking, consent/consent-oauth.service.ts,         *)
(* connections/bank-connections.service.ts, sync/bank-sync.service.ts.     *)
(*                                                                         *)
(* A callback and a revocation read their consent, call the bank, and only *)
(* then write: every await is a split point, and the process may die at    *)
(* each of them.  The expiry sweep and the sync jobs run in a worker that  *)
(* BullMQ feeds; a job whose worker dies is delivered again, once, and a   *)
(* job that throws is not: it is added with one attempt.                   *)
(***************************************************************************)
EXTENDS Integers

CONSTANTS
    Consents,    \* ids of the consents of the connection
    Calls,       \* HTTP requests in flight at the same time
    Jobs,        \* ids of BankSyncJob rows
    MaxTokens,   \* bound: access tokens ever issued, numbered as they arrive
    MaxCrashes,  \* bound: crashes of the worker
    Hosted       \* whether some process runs the processors of BankingModule

ASSUME BankAssumption ==
    /\ MaxTokens \in Nat /\ MaxCrashes \in Nat
    /\ Hosted \in BOOLEAN

VARIABLES
    conn,     \* status of the BankConnection
    consent,  \* BankConsent rows: status, due (expiresAt has passed), session
    vault,    \* BankCredentialVault: the token stored for a consent, or NoToken
    issued,   \* the bank: tokens it issued for each consent
    dead,     \* the bank: tokens it was told to revoke
    call,     \* HTTP requests: step and locals
    job,      \* status of each BankSyncJob
    queue,    \* the bank-sync queue: jobs not yet acknowledged
    worker,   \* the sync processor: the job it runs and the token it read
    stalled,  \* the bank-sync queue: jobs whose worker died once
    left,     \* the expiry sweep: consents it read as stale and not yet wrote
    crashes,
    unsaid,   \* history: jobs that ended where runSyncJob records nothing: an
              \* error outside its try or in its catch, or a second death
    touched   \* history: consents that two calls, or a call and the sweep,
              \* were at work on together, or whose call died after the bank
              \* acted and before the database knew

rows == <<conn, consent, vault>>
bank == <<issued, dead>>
jobs == <<job, queue, worker, stalled, unsaid>>
vars == <<rows, bank, call, jobs, left, crashes, touched>>

NoToken == 0
Tokens == 1 .. MaxTokens
Statuses == {"NONE", "AWAITING_AUTHORISATION", "AUTHORISED", "EXPIRED", "REVOKED"}
Idle == [step |-> "idle", on |-> {}, token |-> NoToken, job |-> {}]
Resting == [job |-> {}, token |-> NoToken]

TypeOK ==
    /\ conn \in {"NONE", "PENDING_CONSENT", "ACTIVE", "REVOKED"}
    /\ consent \in [Consents -> [status: Statuses, due: BOOLEAN,
                                 session: {"none", "open", "late", "used"}]]
    /\ vault \in [Consents -> Tokens \cup {NoToken}]
    /\ issued \in [Consents -> SUBSET Tokens]
    /\ dead \subseteq Tokens
    /\ call \in [Calls -> [step: {"idle", "callback", "exchanged", "revoke", "told",
                                  "create", "enqueue"},
                           on: SUBSET Consents, token: Tokens \cup {NoToken},
                           job: SUBSET Jobs]]
    /\ job \in [Jobs -> {"NONE", "PENDING", "RUNNING", "COMPLETED", "FAILED"}]
    /\ queue \subseteq Jobs
    /\ worker \in [job: SUBSET Jobs, token: Tokens \cup {NoToken}]
    /\ left \subseteq Consents
    /\ stalled \subseteq Jobs /\ unsaid \subseteq Jobs
    /\ crashes \in 0 .. MaxCrashes
    /\ touched \subseteq Consents

Init ==
    /\ conn = "NONE"
    /\ consent = [c \in Consents |-> [status |-> "NONE", due |-> FALSE, session |-> "none"]]
    /\ vault = [c \in Consents |-> NoToken]
    /\ issued = [c \in Consents |-> {}]
    /\ dead = {}
    /\ call = [r \in Calls |-> Idle]
    /\ job = [j \in Jobs |-> "NONE"]
    /\ queue = {}
    /\ worker = Resting
    /\ left = {}
    /\ stalled = {} /\ unsaid = {}
    /\ crashes = 0
    /\ touched = {}

(* consent-state-machine.ts.  No code writes REJECTED. *)
Transitions ==
    {<<"AWAITING_AUTHORISATION", "AUTHORISED">>, <<"AWAITING_AUTHORISATION", "EXPIRED">>,
     <<"AUTHORISED", "REVOKED">>, <<"AUTHORISED", "EXPIRED">>}
CanTransition(from, to) == <<from, to>> \in Transitions

-----------------------------------------------------------------------------
(* startConnection: the connection and the consent, then the session.  An   *)
(* existing connection keeps its status.                                    *)

StartConnection(c) ==
    /\ consent[c].status = "NONE"
    /\ consent' = [consent EXCEPT ![c].status = "AWAITING_AUTHORISATION"]
    /\ conn' = IF conn = "NONE" THEN "PENDING_CONSENT" ELSE conn
    /\ UNCHANGED <<vault, bank, call, jobs, left, crashes, touched>>

(* If the process dies before this, the consent can only expire. *)
OpenSession(c) ==
    /\ consent[c].status = "AWAITING_AUTHORISATION" /\ ~consent[c].due
    /\ consent[c].session = "none"
    /\ consent' = [consent EXCEPT ![c].session = "open"]
    /\ UNCHANGED <<conn, vault, bank, call, jobs, left, crashes, touched>>

(* Time: a session lasts 15 minutes, a consent 30 until it is authorised    *)
(* and as long as its token from then on.                                   *)
SessionLapses(c) ==
    /\ consent[c].session = "open"
    /\ consent' = [consent EXCEPT ![c].session = "late"]
    /\ UNCHANGED <<conn, vault, bank, call, jobs, left, crashes, touched>>

ConsentLapses(c) ==
    /\ consent[c].status \in {"AWAITING_AUTHORISATION", "AUTHORISED"}
    /\ ~consent[c].due /\ consent[c].session # "open"
    /\ consent' = [consent EXCEPT ![c].due = TRUE]
    /\ UNCHANGED <<conn, vault, bank, call, jobs, left, crashes, touched>>

-----------------------------------------------------------------------------
(* Calls. *)

Begin(r, c, step, token) ==
    /\ call[r].step = "idle"
    /\ call' = [call EXCEPT ![r] = [step |-> step, on |-> {c}, token |-> token, job |-> {}]]
    /\ touched' = IF c \in left \/ \E q \in Calls \ {r} : call[q].on = {c}
                  THEN touched \cup {c} ELSE touched
    /\ UNCHANGED <<rows, bank, jobs, left, crashes>>

(* Refused, failed or killed.  A token just received is lost; a token just  *)
(* revoked stays in the vault.                                              *)
CallEnds(r) ==
    /\ call[r].step # "idle"
    /\ call' = [call EXCEPT ![r] = Idle]
    /\ touched' = IF call[r].step \in {"exchanged", "told"}
                  THEN touched \cup call[r].on ELSE touched
    /\ UNCHANGED <<rows, bank, jobs, left, crashes>>

(* handleCallback *)
BeginCallback(r, c) ==
    /\ consent[c].session = "open"
    /\ CanTransition(consent[c].status, "AUTHORISED")
    /\ Begin(r, c, "callback", NoToken)

Exchange(r, c) ==
    /\ call[r].step = "callback" /\ call[r].on = {c}
    /\ \E t \in Tokens \ UNION {issued[d] : d \in Consents} :
          /\ \A u \in Tokens : u < t => \E d \in Consents : u \in issued[d]
          /\ issued' = [issued EXCEPT ![c] = @ \cup {t}]
          /\ call' = [call EXCEPT ![r] = [step |-> "exchanged", on |-> {c}, token |-> t,
                                         job |-> {}]]
    /\ UNCHANGED <<rows, dead, jobs, left, crashes, touched>>

Authorise(r, c) ==
    /\ call[r].step = "exchanged" /\ call[r].on = {c}
    /\ consent' = [consent EXCEPT ![c] =
                      [status |-> "AUTHORISED", due |-> FALSE, session |-> "used"]]
    /\ vault' = [vault EXCEPT ![c] = call[r].token]
    /\ conn' = "ACTIVE"
    /\ call' = [call EXCEPT ![r] = [Idle EXCEPT !.step = "create"]]
    /\ UNCHANGED <<bank, jobs, left, crashes, touched>>

(* Mutant: a consent in any state with a credential can be revoked. *)
BeginRevokeAnyStatus(r, c) ==
    /\ vault[c] # NoToken
    /\ Begin(r, c, "revoke", vault[c])

(* revokeConsent *)
BeginRevoke(r, c) ==
    /\ vault[c] # NoToken
    /\ CanTransition(consent[c].status, "REVOKED")
    /\ Begin(r, c, "revoke", vault[c])

(* Mutant: the bank is not told. *)
BankRevokesNot(r) ==
    /\ call[r].step = "revoke"
    /\ call' = [call EXCEPT ![r].step = "told"]
    /\ UNCHANGED <<rows, bank, jobs, left, crashes, touched>>

BankRevokes(r) ==
    /\ call[r].step = "revoke"
    /\ dead' = dead \cup {call[r].token}
    /\ call' = [call EXCEPT ![r].step = "told"]
    /\ UNCHANGED <<rows, issued, jobs, left, crashes, touched>>

(* Mutant: the credential is not deleted. *)
CommitRevokeKeepsVault(r, c) ==
    /\ call[r].step = "told" /\ call[r].on = {c}
    /\ consent' = [consent EXCEPT ![c].status = "REVOKED"]
    /\ conn' = "REVOKED"
    /\ call' = [call EXCEPT ![r] = Idle]
    /\ UNCHANGED <<vault, bank, jobs, left, crashes, touched>>

(* One transaction; deleting a credential that is gone undoes all of it.    *)
CommitRevoke(r, c) ==
    /\ call[r].step = "told" /\ call[r].on = {c}
    /\ vault[c] # NoToken
    /\ consent' = [consent EXCEPT ![c].status = "REVOKED"]
    /\ vault' = [vault EXCEPT ![c] = NoToken]
    /\ conn' = "REVOKED"
    /\ call' = [call EXCEPT ![r] = Idle]
    /\ UNCHANGED <<bank, jobs, left, crashes, touched>>

(* triggerSync, and what oauthCallback does once the consent is authorised: *)
(* the row of the job, then its entry in the queue.                         *)
TriggerSync(r) ==
    /\ call[r].step = "idle" /\ conn # "NONE"
    /\ call' = [call EXCEPT ![r] = [Idle EXCEPT !.step = "create"]]
    /\ UNCHANGED <<rows, bank, jobs, left, crashes, touched>>

EnqueueAccountSync(r, j) ==
    /\ call[r].step = "create" /\ job[j] = "NONE"
    /\ job' = [job EXCEPT ![j] = "PENDING"]
    /\ call' = [call EXCEPT ![r] = [step |-> "enqueue", on |-> {}, token |-> NoToken,
                                    job |-> {j}]]
    /\ UNCHANGED <<rows, bank, queue, worker, stalled, unsaid, left, crashes, touched>>

QueueAdd(r) ==
    /\ call[r].step = "enqueue"
    /\ queue' = queue \cup call[r].job
    /\ call' = [call EXCEPT ![r] = Idle]
    /\ UNCHANGED <<rows, bank, job, worker, stalled, unsaid, left, crashes, touched>>

-----------------------------------------------------------------------------
(* expireStaleConsents, every hour: the stale consents are read, then each  *)
(* is written without another look.                                         *)

(* Mutant: only consents never authorised expire. *)
StaleAwaitingOnly ==
    {c \in Consents : consent[c].status = "AWAITING_AUTHORISATION" /\ consent[c].due}

Stale ==
    {c \in Consents : /\ consent[c].status \in {"AWAITING_AUTHORISATION", "AUTHORISED"}
                      /\ consent[c].due}

BeginSweep ==
    /\ Hosted /\ left = {} /\ Stale # {}
    /\ left' = Stale
    /\ touched' = touched \cup {c \in Stale : \E r \in Calls : call[r].on = {c}}
    /\ UNCHANGED <<rows, bank, call, jobs, crashes>>

Expire(c) ==
    /\ c \in left
    /\ consent' = [consent EXCEPT ![c].status = "EXPIRED"]
    /\ left' = left \ {c}
    /\ UNCHANGED <<conn, vault, bank, call, jobs, crashes, touched>>

SweepDies ==
    /\ left # {} /\ crashes < MaxCrashes
    /\ left' = {}
    /\ crashes' = crashes + 1
    /\ UNCHANGED <<rows, bank, call, jobs, touched>>

-----------------------------------------------------------------------------
(* runSyncJob.  Consents are authorised in the order their tokens arrive,   *)
(* and the credential of the last one authorised is used.                   *)

Authorised == {c \in Consents : consent[c].status = "AUTHORISED"}
Latest == {c \in Authorised : \A d \in Authorised : vault[d] <= vault[c]}
LatestToken == IF Latest = {} THEN NoToken ELSE vault[CHOOSE c \in Latest : TRUE]

(* Mutant: a job of a connection that is not active gets a status of its    *)
(* own, one the enumeration lacks.                                          *)
SkipSyncMarks(j) ==
    /\ Hosted /\ worker = Resting /\ j \in queue
    /\ conn # "ACTIVE"
    /\ queue' = queue \ {j}
    /\ job' = [job EXCEPT ![j] = "SKIPPED"]
    /\ UNCHANGED <<rows, bank, call, worker, stalled, unsaid, left, crashes, touched>>

SkipSync(j) ==
    /\ Hosted /\ worker = Resting /\ j \in queue
    /\ conn # "ACTIVE"
    /\ queue' = queue \ {j}
    /\ UNCHANGED <<rows, bank, call, job, worker, stalled, unsaid, left, crashes, touched>>

StartSync(j) ==
    /\ Hosted /\ worker = Resting /\ j \in queue
    /\ conn = "ACTIVE"
    /\ job' = [job EXCEPT ![j] = "RUNNING"]
    /\ worker' = [job |-> {j}, token |-> LatestToken]
    /\ UNCHANGED <<rows, bank, call, queue, stalled, unsaid, left, crashes, touched>>

EndSync(j, status) ==
    /\ worker.job = {j}
    /\ job' = [job EXCEPT ![j] = status]
    /\ queue' = queue \ {j}
    /\ worker' = Resting
    /\ UNCHANGED <<rows, bank, call, stalled, unsaid, left, crashes, touched>>

(* Accounts and balances are written; the bank refuses a revoked token.     *)
CompleteSync(j) ==
    /\ worker.token # NoToken /\ worker.token \notin dead
    /\ EndSync(j, "COMPLETED")

(* Mutant: only an error of the bank is caught, not a missing credential. *)
FailSyncCatchesBank(j) ==
    \/ worker.token # NoToken /\ EndSync(j, "FAILED")
    \/ worker.token = NoToken /\ EndSync(j, "RUNNING")

(* No credential, or an error of the bank or the database within the try.   *)
FailSync(j) == EndSync(j, "FAILED")

(* An error that leaves runSyncJob: the job or its update to RUNNING before *)
(* the try, the update to FAILED in the catch.  The queue gives the job up, *)
(* and its row stays as it is.                                              *)
SyncThrows(j) ==
    /\ j \in queue
    /\ \/ Hosted /\ worker = Resting
       \/ worker.job = {j}
    /\ queue' = queue \ {j}
    /\ worker' = Resting
    /\ unsaid' = unsaid \cup {j}
    /\ UNCHANGED <<rows, bank, call, job, stalled, left, crashes, touched>>

(* It dies while the job runs, or after it wrote how the job ended and      *)
(* before it told the queue: the job is delivered, and run, again, unless a *)
(* worker died of it before.                                                *)
WorkerDies ==
    \E j \in worker.job :
        /\ crashes < MaxCrashes
        /\ \/ UNCHANGED job
           \/ \E status \in {"COMPLETED", "FAILED"} : job' = [job EXCEPT ![j] = status]
        /\ queue' = queue \ ({j} \cap stalled)
        /\ unsaid' = unsaid \cup ({j} \cap stalled)
        /\ stalled' = stalled \cup {j}
        /\ worker' = Resting
        /\ crashes' = crashes + 1
        /\ UNCHANGED <<rows, bank, call, left, touched>>

-----------------------------------------------------------------------------
Request(r) ==
    \/ \E c \in Consents :
          \/ BeginCallback(r, c)
          \/ Exchange(r, c)
          \/ Authorise(r, c)
          \/ BeginRevoke(r, c)
          \/ CommitRevoke(r, c)
    \/ BankRevokes(r)
    \/ TriggerSync(r)
    \/ \E j \in Jobs : EnqueueAccountSync(r, j)
    \/ QueueAdd(r)
    \/ CallEnds(r)

Sweep == BeginSweep \/ \E c \in Consents : Expire(c)

RunSyncJob ==
    \E j \in Jobs :
        SkipSync(j) \/ StartSync(j) \/ CompleteSync(j) \/ FailSync(j) \/ SyncThrows(j)

Next ==
    \/ \E c \in Consents :
          \/ StartConnection(c)
          \/ OpenSession(c)
          \/ SessionLapses(c)
          \/ ConsentLapses(c)
    \/ \E r \in Calls : Request(r)
    \/ Sweep
    \/ SweepDies
    \/ RunSyncJob
    \/ WorkerDies

Spec == Init /\ [][Next]_vars

(* The sweep is a repeatable job, and BullMQ runs every job of a queue that *)
(* has a worker to an end; HTTP requests may die at any time.               *)
FairSpec == Spec /\ WF_vars(Sweep) /\ WF_vars(RunSyncJob)

-----------------------------------------------------------------------------
(* Even when calls and the sweep race: an authorised consent has its        *)
(* credential, a consent never authorised or revoked has none, and an       *)
(* active connection has one to synchronise with.                           *)
CredentialAgrees ==
    /\ \A c \in Consents :
          /\ consent[c].status = "AUTHORISED" => vault[c] # NoToken
          /\ consent[c].status \in {"NONE", "AWAITING_AUTHORISATION", "REVOKED"}
                => vault[c] = NoToken
    /\ conn = "ACTIVE" => \E c \in Consents : vault[c] # NoToken
    /\ conn \in {"NONE", "PENDING_CONSENT"} => \A c \in Consents : vault[c] = NoToken

(* The bank and the vault agree on a consent nothing raced or died on: a    *)
(* token the bank still honours is stored or is on its way, so that it can  *)
(* be revoked; a stored token is honoured unless its revocation is at work; *)
(* and once the consent is revoked the bank honours none of its tokens.     *)
BankAgrees ==
    \A c \in Consents \ touched :
        LET arriving == {call[r].token : r \in {q \in Calls : /\ call[q].on = {c}
                                                              /\ call[q].step = "exchanged"}}
        IN
        /\ issued[c] \ dead \subseteq {vault[c]} \cup arriving
        /\ vault[c] \in dead => \E r \in Calls : call[r].on = {c} /\ call[r].step = "told"
        /\ consent[c].status = "REVOKED" => issued[c] \subseteq dead

(* Such a consent moves only as the state machine allows. *)
TableFollowed ==
    [][\A c \in Consents \ touched :
          \/ consent'[c].status = consent[c].status
          \/ consent[c].status = "NONE"
          \/ CanTransition(consent[c].status, consent'[c].status)]_vars

(* What consent-state-machine.ts says: EXPIRED and REVOKED are final.  The  *)
(* transition is asserted before the bank is called and the write that      *)
(* follows looks at nothing.                                                *)
FinalStays ==
    [][\A c \in Consents : consent[c].status \in {"EXPIRED", "REVOKED"}
          => consent'[c].status = consent[c].status]_vars

(* A job in the queue is taken off it in the end, and then its row says     *)
(* COMPLETED or FAILED, or its connection is not active, or it is one of    *)
(* those runSyncJob has no record for: it threw outside the try or in the   *)
(* catch, or stalled twice.                                                 *)
SyncSettles ==
    \A j \in Jobs :
        j \in queue ~> /\ j \notin queue
                       /\ \/ job[j] \in {"COMPLETED", "FAILED"}
                          \/ conn # "ACTIVE"
                          \/ j \in unsaid

(* A consent past its date does not stay authorised. *)
OverdueExpires ==
    \A c \in Consents :
        (consent[c].status = "AUTHORISED" /\ consent[c].due)
            ~> ~(consent[c].status = "AUTHORISED" /\ consent[c].due)
=============================================================================
