----------------------------- MODULE Invitations -----------------------------
(***************************************************************************)
(* Invitations: invite() of apps/api/src/platform/users/                   *)
(* platform-users.service.ts, acceptInvite() of auth.service.ts, and the   *)
(* e-mail each sends through modules/notifications: a row and a job in the *)
(* API, the send and its record in the worker.  One tenant.  An invitation *)
(* names its row, its notification and its job.                            *)
(***************************************************************************)
EXTENDS Sessions

CONSTANTS
    Guests,      \* users an administrator invites
    Attempts,    \* attempts of an e-mail job
    MailKey,     \* whether RESEND_API_KEY is configured
    MaxCrashes   \* bound: lost writes and deaths of the worker

ASSUME InvitationsAssumption ==
    /\ Guests \subseteq Users \ Operators
    /\ Attempts \in Nat \ {0} /\ MailKey \in BOOLEAN /\ MaxCrashes \in Nat

VARIABLES
    invite,      \* rows of invitations
    mail,        \* their notification, its delivery row, and its job in the queue
    crashes,
    crossed      \* history: guests two of these requests worked on at one time

invitationVars == <<invite, mail, crashes, crossed>>
vars == <<account, token, store, call, page, started, revocations, invite, mail, crashes, crossed>>

NoInvite == [status |-> "none", user |-> None]
NoMail == [delivery |-> "none", job |-> "none", left |-> Attempts, out |-> 0,
           stalled |-> FALSE, silent |-> "no"]

(* stalled: the worker died of the job before.  History: out, the messages  *)
(* that went out; silent, what ended the job without a record of it.        *)
InvitationTypeOK ==
    /\ invite \in [Invites -> [status: {"none", "pending", "expired", "accepted", "deleted"},
                               user: Guests \cup {None}]]
    /\ mail \in [Invites -> [delivery: {"none", "QUEUED", "SENT", "FAILED"},
                             job: {"none", "waiting", "sending", "sent", "failing", "over"},
                             left: 0 .. Attempts, out: Nat, stalled: BOOLEAN,
                             silent: {"no", "ignored", "thrown", "stalled"}]]
    /\ \A i \in Invites : (invite[i].status = "none") = (invite[i].user = None)
    /\ crashes \in 0 .. MaxCrashes
    /\ crossed \subseteq Guests

InvitationInit ==
    /\ invite = [i \in Invites |-> NoInvite]
    /\ mail = [i \in Invites |-> NoMail]
    /\ crashes = 0
    /\ crossed = {}

Inviting(u) == {d \in Calls : /\ call[d].user = u
                              /\ call[d].step \in {"link", "clear", "create", "accept"}}
Cross(u) == crossed' = IF Inviting(u) = {} THEN crossed ELSE crossed \cup {u}

(* invite(): only a user that has set a password is refused. *)
BeginInvite(c, u) ==
    /\ ~account[u].password
    /\ Start(c, [Resting EXCEPT !.step = "link", !.user = u])
    /\ Cross(u)
    /\ UNCHANGED <<account, token, clients, revocations, invite, mail, crashes>>

LinkUser(c) ==
    /\ Advance(c, "link", "clear")
    /\ account' = [account EXCEPT ![call[c].user] = [@ EXCEPT !.linked = TRUE]]
    /\ UNCHANGED <<token, clients, started, revocations, invitationVars>>

Unaccepted(u) == {i \in Invites : invite[i].user = u /\ invite[i].status \in {"pending", "expired"}}

(* Mutant: earlier invitations stay. *)
ClearNothing(c) ==
    /\ Advance(c, "clear", "create")
    /\ UNCHANGED <<account, token, clients, started, revocations, invitationVars>>

ClearInvites(c) ==
    /\ Advance(c, "clear", "create")
    /\ invite' = [i \in Invites |-> IF i \in Unaccepted(call[c].user)
                                    THEN [invite[i] EXCEPT !.status = "deleted"] ELSE invite[i]]
    /\ UNCHANGED <<account, token, clients, started, revocations, mail, crashes, crossed>>

Unused == {i \in Invites : invite[i] = NoInvite}

CreateInvite(c) ==
    LET i == CHOOSE i \in Unused : TRUE
    IN  /\ call[c].step = "create" /\ Unused # {}
        /\ invite' = [invite EXCEPT ![i] = [status |-> "pending", user |-> call[c].user]]
        /\ call' = [call EXCEPT ![c] = [@ EXCEPT !.step = "notify", !.invite = i]]
        /\ UNCHANGED <<account, token, clients, started, revocations, mail, crashes, crossed>>

CreateNotification(c) ==
    /\ Advance(c, "notify", "enqueue")
    /\ mail' = [mail EXCEPT ![call[c].invite] = [@ EXCEPT !.delivery = "QUEUED"]]
    /\ UNCHANGED <<account, token, clients, started, revocations, invite, crashes, crossed>>

(* Without a key the row stays QUEUED and no job is made. *)
EnqueueEmail(c) ==
    /\ call[c].step = "enqueue" /\ End(c)
    /\ mail' = IF MailKey THEN [mail EXCEPT ![call[c].invite] = [@ EXCEPT !.job = "waiting"]]
               ELSE mail
    /\ UNCHANGED <<account, token, clients, started, revocations, invite, crashes, crossed>>

(* acceptInvite(): the row and its user are read, the password is hashed,   *)
(* and both are written in one transaction, which fails only when the row   *)
(* is gone.                                                                 *)
BeginAccept(c, i) ==
    LET u == invite[i].user
    IN  /\ invite[i].status = "pending" /\ ~account[u].password
        /\ Start(c, [Resting EXCEPT !.step = "accept", !.user = u, !.invite = i])
        /\ Cross(u)
        /\ UNCHANGED <<account, token, clients, revocations, invite, mail, crashes>>

CommitAccept(c) ==
    LET i == call[c].invite
    IN  /\ call[c].step = "accept" /\ invite[i].status # "deleted"
        /\ account' = [account EXCEPT ![call[c].user] = [@ EXCEPT !.password = TRUE]]
        /\ invite' = [invite EXCEPT ![i] = [@ EXCEPT !.status = "accepted"]]
        /\ End(c)
        /\ UNCHANGED <<token, clients, started, revocations, mail, crashes, crossed>>

(* A request fails or its process dies; what it has written stays. *)
AbandonInvite(c) ==
    /\ call[c].step \in {"link", "clear", "create", "notify", "enqueue", "accept"}
    /\ End(c)
    /\ UNCHANGED <<account, token, clients, started, revocations, invitationVars>>

InviteExpires(i) ==
    /\ invite[i].status = "pending"
    /\ invite' = [invite EXCEPT ![i] = [@ EXCEPT !.status = "expired"]]
    /\ UNCHANGED <<account, token, clients, call, started, revocations, mail, crashes, crossed>>

-----------------------------------------------------------------------------
(* The worker: EmailNotificationProcessor.process().  A job is attempted    *)
(* again while attempts are left.                                           *)
Mailing(i, from, row) ==
    /\ mail[i].job = from
    /\ mail' = [mail EXCEPT ![i] = row]
    /\ UNCHANGED <<account, token, clients, call, revocations, invite, crossed>>

Handling(i, from, row) == Mailing(i, from, row) /\ UNCHANGED started

TakeMail(i) ==
    /\ mail[i].left > 0
    /\ started < MaxStarts /\ started' = started + 1
    /\ Mailing(i, "waiting", [mail[i] EXCEPT !.job = "sending", !.left = @ - 1])
    /\ UNCHANGED crashes

(* The worker has no key, or the notification is not found: the job is done. *)
IgnoreMail(i) ==
    /\ Handling(i, "sending", [mail[i] EXCEPT !.job = "over", !.silent = "ignored"])
    /\ UNCHANGED crashes

Again(i) == IF mail[i].left > 0 THEN "waiting" ELSE "over"

(* An attempt ends with an error of which nothing is recorded.              *)
ThrowSilently(i, from) ==
    /\ Handling(i, from, [mail[i] EXCEPT !.job = Again(i),
           !.silent = IF mail[i].left > 0 THEN @ ELSE "thrown"])
    /\ UNCHANGED crashes

(* The notification is read outside the try. *)
ReadFails(i) == ThrowSilently(i, "sending")

SendMail(i) ==
    /\ Handling(i, "sending", [mail[i] EXCEPT !.job = "sent", !.out = @ + 1])
    /\ UNCHANGED crashes

SendFails(i) ==
    /\ Handling(i, "sending", [mail[i] EXCEPT !.job = "failing"])
    /\ UNCHANGED crashes

(* Only a row that is still QUEUED becomes SENT. *)
RecordSent(i) ==
    /\ Handling(i, "sent", [mail[i] EXCEPT !.job = "over",
           !.delivery = IF @ = "QUEUED" THEN "SENT" ELSE @])
    /\ UNCHANGED crashes

(* The answer is lost or the record cannot be written: the catch clause     *)
(* takes either for a failure to send.                                      *)
RecordLost(i) ==
    /\ crashes < MaxCrashes /\ crashes' = crashes + 1
    /\ Handling(i, "sent", [mail[i] EXCEPT !.job = "failing"])

(* Mutant: the error is recorded and not thrown on. *)
RecordFailedOnly(i) ==
    /\ Handling(i, "failing", [mail[i] EXCEPT !.job = "over", !.delivery = "FAILED"])
    /\ UNCHANGED crashes

RecordFailed(i) ==
    /\ Handling(i, "failing", [mail[i] EXCEPT !.job = Again(i), !.delivery = "FAILED"])
    /\ UNCHANGED crashes

(* The update in the catch clause fails. *)
FailureLost(i) == ThrowSilently(i, "failing")

(* The worker dies: the job stalls and is delivered again, or given up when *)
(* it stalled before.                                                       *)
WorkerDies(i) ==
    /\ mail[i].job \in {"sending", "sent", "failing"}
    /\ crashes < MaxCrashes /\ crashes' = crashes + 1
    /\ Handling(i, mail[i].job,
           IF mail[i].stalled THEN [mail[i] EXCEPT !.job = "over", !.silent = "stalled"]
           ELSE [mail[i] EXCEPT !.job = "waiting", !.left = @ + 1, !.stalled = TRUE])

MailNext(i) ==
    \/ TakeMail(i) \/ IgnoreMail(i) \/ ReadFails(i) \/ SendMail(i) \/ SendFails(i)
    \/ RecordSent(i) \/ RecordLost(i) \/ RecordFailed(i) \/ FailureLost(i)
    \/ WorkerDies(i)

InvitationNext(c) ==
    \/ \E u \in Guests : BeginInvite(c, u)
    \/ LinkUser(c) \/ ClearInvites(c) \/ CreateInvite(c)
    \/ CreateNotification(c) \/ EnqueueEmail(c)
    \/ \E i \in Invites : BeginAccept(c, i)
    \/ CommitAccept(c) \/ AbandonInvite(c)
=============================================================================
