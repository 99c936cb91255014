--------------------------- MODULE AccountsProofs ---------------------------
(***************************************************************************)
(* Theorems about Accounts: types, revocation, rotation, invitations and   *)
(* their mail, for any users, tokens, requests and invitations.            *)
(***************************************************************************)
EXTENDS Accounts, FiniteSetTheorems, TLAPS

USE SessionsAssumption, InvitationsAssumption DEF clients, Places

-----------------------------------------------------------------------------
(* What a step does to the requests.                                        *)

Fields(q, s, u, j, r, i, e, l, t) ==
    /\ q.step = s /\ q.user = u /\ q.jti = j /\ q.root = r
    /\ q.invite = i /\ q.era = e /\ q.late = l /\ q.twin = t

Becomes(c, s, u, j, r, i, e, l, t) ==
    /\ call' \in [Calls -> Requests]
    /\ Fields(call'[c], s, u, j, r, i, e, l, t)
    /\ \A d \in Calls \ {c} : call'[d] = call[d]

Begins(c, s, u) == Becomes(c, s, u, None, None, None, 0, FALSE, FALSE)
Continues(c, s) ==
    Becomes(c, s, call[c].user, call[c].jti, call[c].root, call[c].invite, call[c].era,
            call[c].late, call[c].twin)
Ends(c) == Begins(c, "idle", None)

CallsTyped == call \in [Calls -> Requests]
TokensTyped == token \in [Jtis -> Tokens]

LEMMA AdvanceCall ==
    ASSUME CallsTyped, NEW c \in Calls, NEW from, NEW to \in Steps, Advance(c, from, to)
    PROVE  Continues(c, to)
  <1> DEFINE r == [call[c] EXCEPT !.step = to]
  <1>1. call' = [call EXCEPT ![c] = r] /\ call[c] \in Requests BY DEF Advance, CallsTyped
  <1>2. r \in Requests BY <1>1 DEF Requests
  <1> QED BY <1>1, <1>2 DEF Continues, Becomes, Fields, CallsTyped, Requests

LEMMA EndCall ==
    ASSUME CallsTyped, NEW c \in Calls, End(c)
    PROVE  Ends(c)
  <1>1. Resting \in Requests BY DEF Resting, Requests, Steps
  <1>2. Fields(Resting, "idle", None, None, None, None, 0, FALSE, FALSE)
    BY DEF Resting, Fields
  <1> QED BY <1>1, <1>2 DEF End, Ends, Begins, Becomes, Fields, CallsTyped

LEMMA StartCall ==
    ASSUME CallsTyped, NEW c \in Calls, NEW u \in Users, NEW s \in Steps,
           Start(c, [Resting EXCEPT !.step = s, !.user = u])
    PROVE  Begins(c, s, u) /\ call[c].step = "idle"
  <1> DEFINE r == [Resting EXCEPT !.step = s, !.user = u]
  <1>1. r \in Requests BY DEF Resting, Requests, Steps
  <1>2. Fields(r, s, u, None, None, None, 0, FALSE, FALSE) BY DEF Resting, Fields
  <1>3. call' = [call EXCEPT ![c] = r] /\ call[c].step = "idle" BY DEF Start
  <1> HIDE DEF r
  <1> QED BY <1>1, <1>2, <1>3 DEF Begins, Becomes, Fields, CallsTyped

LEMMA VerifyCall ==
    ASSUME CallsTyped, TokensTyped, NEW c \in Calls, Verify(c), call[c].jti \in Jtis
    PROVE  LET q == call[c]
               t == token[q.jti]
           IN  Becomes(c, "rotate", q.user, q.jti, t.root, q.invite, t.era, t.late,
                       q.twin \/ t.twin)
  <1> DEFINE q == call[c]
             t == token[q.jti]
             r == [q EXCEPT !.step = "rotate", !.root = t.root, !.era = t.era,
                            !.late = t.late, !.twin = q.twin \/ t.twin]
  <1>1. q \in Requests /\ t \in Tokens BY DEF CallsTyped, TokensTyped
  <1>2. r \in Requests BY <1>1 DEF Requests, Tokens, Steps
  <1>3. Fields(r, "rotate", q.user, q.jti, t.root, q.invite, t.era, t.late,
               q.twin \/ t.twin)
    BY <1>1 DEF Fields, Requests
  <1>4. call' = [call EXCEPT ![c] = r] BY DEF Verify, Inherit
  <1> HIDE DEF r
  <1> QED BY <1>2, <1>3, <1>4 DEF Becomes, Fields, CallsTyped

(* A refresh marks the ones beside it; a revocation those it overtakes.     *)
Same(q, r) ==
    /\ q.step = r.step /\ q.user = r.user /\ q.jti = r.jti /\ q.root = r.root
    /\ q.invite = r.invite /\ q.era = r.era

LEMMA RefreshCall ==
    ASSUME CallsTyped, NEW c \in Calls, NEW u \in Users, NEW t \in Tabs, Refresh(c, u, t),
           store[u][t].jti \in Jtis
    PROVE  /\ CallsTyped' /\ call[c].step = "idle"
           /\ Fields(call'[c], "verify", u, store[u][t].jti, None, None, 0, FALSE, Beside(u) # {})
           /\ \A d \in Calls \ {c} :
                  /\ Same(call'[d], call[d]) /\ call'[d].late = call[d].late
                  /\ call'[d].twin = (call[d].twin \/ d \in Beside(u))
  <1> DEFINE r == [Resting EXCEPT !.step = "verify", !.user = u, !.jti = store[u][t].jti,
                                  !.twin = Beside(u) # {}]
             m(d) == [call[d] EXCEPT !.twin = call[d].twin \/ d \in Beside(u)]
  <1>1. r \in Requests BY DEF Resting, Requests, Steps
  <1>2. Fields(r, "verify", u, store[u][t].jti, None, None, 0, FALSE, Beside(u) # {})
    BY DEF Resting, Fields
  <1>3. \A d \in Calls : /\ m(d) \in Requests /\ Same(m(d), call[d])
                         /\ m(d).late = call[d].late
                         /\ m(d).twin = (call[d].twin \/ d \in Beside(u))
    <2> TAKE d \in Calls
    <2>1. call[d] \in Requests BY DEF CallsTyped
    <2> QED BY <2>1 DEF Requests, Same
  <1>4. call' = [d \in Calls |-> IF d = c THEN r ELSE m(d)] /\ call[c].step = "idle"
    BY DEF Refresh
  <1> HIDE DEF r, m
  <1> QED BY <1>1, <1>2, <1>3, <1>4 DEF CallsTyped, Fields

LEMMA MarkLate ==
    ASSUME CallsTyped, NEW S, NEW d \in Calls
    PROVE  LET q == [call[d] EXCEPT !.late = call[d].late \/ d \in S]
           IN  /\ q \in Requests /\ Same(q, call[d]) /\ q.twin = call[d].twin
               /\ q.late = (call[d].late \/ d \in S)
  <1>1. call[d] \in Requests BY DEF CallsTyped
  <1> QED BY <1>1 DEF Requests, Same

LEMMA RevokeSessionsCall ==
    ASSUME CallsTyped, NEW u \in Users, RevokeSessions(u)
    PROVE  /\ CallsTyped'
           /\ \A d \in Calls :
                  /\ Same(call'[d], call[d]) /\ call'[d].twin = call[d].twin
                  /\ call'[d].late = (call[d].late \/ d \in Checked(u))
  <1> DEFINE m(d) == [call[d] EXCEPT !.late = call[d].late \/ d \in Checked(u)]
  <1>1. \A d \in Calls : /\ m(d) \in Requests /\ Same(m(d), call[d])
                         /\ m(d).twin = call[d].twin
                         /\ m(d).late = (call[d].late \/ d \in Checked(u))
    BY MarkLate
  <1>2. call' = [d \in Calls |-> m(d)] BY DEF RevokeSessions
  <1> HIDE DEF m
  <1> QED BY <1>1, <1>2 DEF CallsTyped

LEMMA RevokeAllCall ==
    ASSUME CallsTyped, NEW c \in Calls, RevokeAllRefreshTokens(c)
    PROVE  LET u == call[c].user
           IN  /\ CallsTyped'
               /\ Fields(call'[c], "leave", u, call[c].jti, call[c].root, call[c].invite,
                         call[c].era, call[c].late, call[c].twin)
               /\ \A d \in Calls \ {c} :
                      /\ Same(call'[d], call[d]) /\ call'[d].twin = call[d].twin
                      /\ call'[d].late = (call[d].late \/ d \in Checked(u))
  <1> DEFINE u == call[c].user
             r == [call[c] EXCEPT !.step = "leave"]
             m(d) == [call[d] EXCEPT !.late = call[d].late \/ d \in Checked(u)]
  <1>1. call[c] \in Requests BY DEF CallsTyped
  <1>2. /\ r \in Requests
        /\ Fields(r, "leave", u, call[c].jti, call[c].root, call[c].invite, call[c].era,
                  call[c].late, call[c].twin)
    BY <1>1 DEF Requests, Steps, Fields
  <1>3. \A d \in Calls : /\ m(d) \in Requests /\ Same(m(d), call[d])
                         /\ m(d).twin = call[d].twin
                         /\ m(d).late = (call[d].late \/ d \in Checked(u))
    BY MarkLate
  <1>4. call' = [d \in Calls |-> IF d = c THEN r ELSE m(d)]
    BY DEF RevokeAllRefreshTokens
  <1> HIDE DEF r, m
  <1> QED BY <1>2, <1>3, <1>4 DEF CallsTyped, Fields

LEMMA CreateInviteCall ==
    ASSUME CallsTyped, NEW c \in Calls, CreateInvite(c)
    PROVE  \E i \in Unused :
               /\ invite' = [invite EXCEPT ![i] = [status |-> "pending", user |-> call[c].user]]
               /\ Becomes(c, "notify", call[c].user, call[c].jti, call[c].root, i,
                          call[c].era, call[c].late, call[c].twin)
  <1> DEFINE i == CHOOSE i \in Unused : TRUE
             r == [call[c] EXCEPT !.step = "notify", !.invite = i]
  <1>1. call[c] \in Requests BY DEF CallsTyped
  <1>2. i \in Unused /\ i \in Invites BY DEF CreateInvite, Unused
  <1>3. invite' = [invite EXCEPT ![i] = [status |-> "pending", user |-> call[c].user]]
    BY DEF CreateInvite
  <1>4. call' = [call EXCEPT ![c] = r] BY DEF CreateInvite
  <1> HIDE DEF i
  <1>5. r \in Requests BY <1>1, <1>2 DEF Requests, Steps
  <1>6. Fields(r, "notify", call[c].user, call[c].jti, call[c].root, i, call[c].era,
               call[c].late, call[c].twin)
    BY <1>1 DEF Requests, Fields
  <1> HIDE DEF r
  <1>7. Becomes(c, "notify", call[c].user, call[c].jti, call[c].root, i, call[c].era,
                call[c].late, call[c].twin)
    BY <1>4, <1>5, <1>6 DEF Becomes, Fields, CallsTyped
  <1> QED BY <1>2, <1>3, <1>7

LEMMA IssueCall ==
    ASSUME CallsTyped, NEW c \in Calls, IssueTokens(c)
    PROVE  LET q == call[c]
           IN  \E j \in Fresh :
                  /\ q.step = "issue"
                  /\ token' = [token EXCEPT ![j] =
                        [status |-> "live", user |-> q.user,
                         root |-> IF q.root # None THEN q.root ELSE j,
                         era |-> IF q.root # None THEN q.era ELSE revocations[q.user],
                         late |-> q.late, twin |-> q.twin]]
                  /\ Becomes(c, "answer", q.user, j, q.root, q.invite, q.era, q.late, q.twin)
  <1> DEFINE j == CHOOSE j \in Fresh : TRUE
             q == call[c]
             r == [call[c] EXCEPT !.step = "answer", !.jti = j]
  <1>1. call[c] \in Requests BY DEF CallsTyped
  <1>2. j \in Fresh /\ j \in Jtis BY DEF IssueTokens, Fresh
  <1>3. token' = [token EXCEPT ![j] =
            [status |-> "live", user |-> q.user,
             root |-> IF q.root # None THEN q.root ELSE j,
             era |-> IF q.root # None THEN q.era ELSE revocations[q.user],
             late |-> q.late, twin |-> q.twin]]
    BY DEF IssueTokens
  <1>4. call' = [call EXCEPT ![c] = r] /\ q.step = "issue" BY DEF IssueTokens
  <1> HIDE DEF j
  <1>5. r \in Requests BY <1>1, <1>2 DEF Requests, Steps
  <1>6. Fields(r, "answer", q.user, j, q.root, q.invite, q.era, q.late, q.twin)
    BY <1>1 DEF Requests, Fields
  <1> HIDE DEF r
  <1>7. Becomes(c, "answer", q.user, j, q.root, q.invite, q.era, q.late, q.twin)
    BY <1>4, <1>5, <1>6 DEF Becomes, Fields, CallsTyped
  <1> QED BY <1>2, <1>3, <1>4, <1>7

LEMMA AcceptCall ==
    ASSUME CallsTyped, NEW c \in Calls, NEW i \in Invites, BeginAccept(c, i),
           invite[i].user \in Users
    PROVE  /\ call[c].step = "idle"
           /\ Becomes(c, "accept", invite[i].user, None, None, i, 0, FALSE, FALSE)
  <1> DEFINE r == [Resting EXCEPT !.step = "accept", !.user = invite[i].user, !.invite = i]
  <1>1. r \in Requests BY DEF Resting, Requests, Steps
  <1>2. Fields(r, "accept", invite[i].user, None, None, i, 0, FALSE, FALSE)
    BY DEF Resting, Fields
  <1>3. call' = [call EXCEPT ![c] = r] /\ call[c].step = "idle" BY DEF BeginAccept, Start
  <1> HIDE DEF r
  <1> QED BY <1>1, <1>2, <1>3 DEF Becomes, Fields, CallsTyped

-----------------------------------------------------------------------------
(* The shape of requests and tokens, and whose token a request or a client  *)
(* holds.                                                                   *)

Guesting == {"link", "clear", "create", "notify", "enqueue", "accept"}

ShapeOf(q) ==
    /\ q.step # "idle" => q.user \in Users
    /\ q.step \in {"verify", "rotate", "answer"} => q.jti \in Jtis
    /\ q.step = "rotate" => q.root \in Jtis
    /\ q.step \notin {"rotate", "issue", "answer"} => q.root = None
    /\ q.step \in {"link", "clear", "create", "accept"} => q.user \in Guests
    /\ q.step \in {"notify", "enqueue", "accept"} => q.invite \in Invites

TokenShape ==
    \A j \in Jtis :
        IF token[j].status = "none" THEN token[j].user = None
        ELSE token[j].user \in Users /\ token[j].root \in Jtis

Owned(j, u) == token[j].status # "none" /\ token[j].user = u

StoreHolds ==
    \A u \in Users, p \in Places : store[u][p].jti # None => Owned(store[u][p].jti, u)
CallHolds ==
    \A c \in Calls :
        call[c].step \in {"verify", "rotate", "answer"} => Owned(call[c].jti, call[c].user)

CallsShaped == CallsTyped /\ \A c \in Calls : ShapeOf(call[c])
TokensShaped == TokensTyped /\ TokenShape
StoreTyped == store \in [Users -> [Places -> Copies]]
Holding == StoreTyped /\ StoreHolds /\ CallHolds
PagesTyped == page \in [Calls -> Pages]
CountersTyped ==
    /\ account \in [Users -> [password: BOOLEAN, linked: BOOLEAN]]
    /\ started \in 0 .. MaxStarts
    /\ revocations \in [Users -> Nat]

CallInvites ==
    \A c \in Calls :
        call[c].step \in {"notify", "enqueue", "accept"}
            => invite[call[c].invite].user = call[c].user

MailBounds ==
    \A i \in Invites : mail[i].job \in {"sending", "sent", "failing"} => mail[i].left < Attempts

Typing ==
    /\ CallsShaped /\ TokensShaped /\ Holding /\ PagesTyped /\ CountersTyped
    /\ InvitationTypeOK /\ MailBounds /\ CallInvites

LEMMA NextShapes ==
    ASSUME Next
    PROVE  \/ \E c \in Calls : SessionNext(c) /\ UNCHANGED invitationVars
           \/ \E c \in Calls : InvitationNext(c)
           \/ \E u \in Users : RevokeSessions(u) /\ UNCHANGED invitationVars
           \/ \E u \in Users, t \in Tabs : OpenPage(u, t) /\ UNCHANGED invitationVars
           \/ \E j \in Jtis : Expire(j) /\ UNCHANGED invitationVars
           \/ \E i \in Invites : InviteExpires(i)
           \/ \E i \in Invites : MailNext(i)
  BY DEF Next

LEMMA EndingCall ==
    ASSUME CallsTyped, NEW c \in Calls,
           \/ StoreSession(c) \/ ClearSession(c) \/ LoseAnswer(c) \/ Leave(c)
           \/ EnqueueEmail(c) \/ CommitAccept(c) \/ AbandonInvite(c)
    PROVE  Ends(c)
  BY EndCall DEF StoreSession, ClearSession, LoseAnswer, Drop, Leave, Close, EnqueueEmail,
                 CommitAccept, AbandonInvite

LEMMA MailFrame ==
    ASSUME NEW i \in Invites, MailNext(i)
    PROVE  /\ UNCHANGED <<account, token, store, page, call, revocations, invite, crossed>>
           /\ started' = started \/ (started < MaxStarts /\ started' = started + 1)
  BY DEF MailNext, TakeMail, IgnoreMail, ReadFails, SendMail, SendFails, RecordSent,
         RecordLost, RecordFailed, FailureLost, ThrowSilently, WorkerDies, Handling, Mailing

LEMMA OpenPageFrame ==
    ASSUME NEW u \in Users, NEW t \in Tabs, OpenPage(u, t), UNCHANGED invitationVars
    PROVE  UNCHANGED <<account, token, call, revocations, invite, mail, crashes, crossed>>
  BY DEF OpenPage, invitationVars

LEMMA HeldToken ==
    ASSUME Typing, NEW u \in Users, NEW p \in Places, store[u][p].jti # None
    PROVE  store[u][p].jti \in Jtis /\ Owned(store[u][p].jti, u)
  <1>1. store[u][p] \in Copies BY DEF Typing, Holding, StoreTyped
  <1> QED BY <1>1 DEF Typing, Holding, StoreHolds, Copies

(* One lemma per kind of request: requests keep their shape.                *)
LEMMA SignInShape ==
    ASSUME CallsShaped, NEW c \in Calls, NEW u \in Users, NEW t \in Tabs, SignIn(c, u, t)
    PROVE  CallsShaped' /\ Begins(c, "issue", u) /\ call[c].step = "idle"
  <1>1. Begins(c, "issue", u) /\ call[c].step = "idle"
    BY StartCall DEF SignIn, CallsShaped, Steps
  <1> QED BY <1>1 DEF CallsShaped, CallsTyped, Begins, Becomes, Fields, ShapeOf

LEMMA SessionShape ==
    ASSUME Typing, NEW c \in Calls, SessionNext(c)
    PROVE  CallsShaped'
  <1> USE DEF Typing
  <1>0. CallsTyped /\ TokensTyped BY DEF CallsShaped, TokensShaped
  <1>1. ASSUME NEW u \in Users, NEW t \in Tabs,
               Login(c, u, t) \/ OperatorLogin(c, u, t) PROVE CallsShaped'
    BY <1>1, SignInShape DEF Login, OperatorLogin
  <1>2. ASSUME NEW u \in Users, NEW t \in Tabs, Refresh(c, u, t) PROVE CallsShaped'
    <2>1. store[u][t].jti \in Jtis BY <1>2, HeldToken DEF Refresh
    <2>2. /\ CallsTyped'
          /\ Fields(call'[c], "verify", u, store[u][t].jti, None, None, 0, FALSE, Beside(u) # {})
          /\ \A d \in Calls \ {c} : Same(call'[d], call[d])
      BY <1>0, <1>2, <2>1, RefreshCall
    <2>3. ShapeOf(call'[c]) BY <2>1, <2>2 DEF Fields, ShapeOf
    <2>4. \A d \in Calls \ {c} : ShapeOf(call'[d]) BY <2>2 DEF CallsShaped, Same, ShapeOf
    <2> QED BY <2>2, <2>3, <2>4 DEF CallsShaped
  <1>3. ASSUME NEW u \in Users, NEW t \in Tabs, Logout(c, u, t) PROVE CallsShaped'
    <2>1. Begins(c, "logout", u) BY <1>0, <1>3, StartCall DEF Logout, Steps
    <2> QED BY <2>1 DEF CallsShaped, CallsTyped, Begins, Becomes, Fields, ShapeOf
  <1>4. CASE Verify(c)
    <2>1. call[c].step = "verify" /\ token[call[c].jti].status = "live"
      BY <1>4 DEF Verify, Accepts
    <2>2. call[c].jti \in Jtis /\ call[c].user \in Users
      BY <2>1 DEF CallsShaped, ShapeOf
    <2>3. token[call[c].jti].root \in Jtis
      BY <2>1, <2>2 DEF TokensShaped, TokenShape
    <2> QED BY <1>0, <1>4, <2>2, <2>3, VerifyCall
        DEF CallsShaped, CallsTyped, Becomes, Fields, ShapeOf
  <1>5. CASE RefuseToken(c)
    <2>1. Continues(c, "refused") /\ call[c].step = "verify"
      BY <1>0, <1>5, AdvanceCall DEF RefuseToken, Steps
    <2> QED BY <2>1 DEF CallsShaped, CallsTyped, Continues, Becomes, Fields, ShapeOf
  <1>6. CASE Rotate(c)
    <2>1. Continues(c, "issue") /\ call[c].step = "rotate"
      BY <1>0, <1>6, AdvanceCall DEF Rotate, Advance, Steps
    <2> QED BY <2>1 DEF CallsShaped, CallsTyped, Continues, Becomes, Fields, ShapeOf
  <1>7. CASE IssueTokens(c)
    <2>1. call[c].user \in Users BY <1>7 DEF IssueTokens, CallsShaped, ShapeOf
    <2>2. PICK j \in Jtis :
              Becomes(c, "answer", call[c].user, j, call[c].root, call[c].invite,
                      call[c].era, call[c].late, call[c].twin)
      BY <1>0, <1>7, IssueCall DEF Fresh
    <2> QED BY <2>1, <2>2 DEF CallsShaped, CallsTyped, Becomes, Fields, ShapeOf
  <1>8. CASE StoreSession(c) \/ ClearSession(c) \/ LoseAnswer(c) \/ Leave(c)
    BY <1>0, <1>8, EndingCall
       DEF CallsShaped, CallsTyped, Ends, Begins, Becomes, Fields, ShapeOf
  <1>9. CASE RevokeAllRefreshTokens(c)
    <2>1. call[c].step = "logout" BY <1>9 DEF RevokeAllRefreshTokens
    <2> QED BY <1>0, <1>9, <2>1, RevokeAllCall DEF CallsShaped, ShapeOf, Fields, Same
  <1> QED BY <1>1, <1>2, <1>3, <1>4, <1>5, <1>6, <1>7, <1>8, <1>9 DEF SessionNext

LEMMA InvitationShape ==
    ASSUME Typing, NEW c \in Calls, InvitationNext(c)
    PROVE  CallsShaped'
  <1> USE DEF Typing
  <1>0. CallsTyped BY DEF CallsShaped
  <1>1. ASSUME NEW u \in Guests, BeginInvite(c, u) PROVE CallsShaped'
    <2>1. Begins(c, "link", u) BY <1>0, <1>1, StartCall DEF BeginInvite, Steps
    <2> QED BY <2>1 DEF CallsShaped, CallsTyped, Begins, Becomes, Fields, ShapeOf
  <1>2. CASE LinkUser(c)
    <2>1. Continues(c, "clear") /\ call[c].step = "link"
      BY <1>0, <1>2, AdvanceCall DEF LinkUser, Advance, Steps
    <2> QED BY <2>1 DEF CallsShaped, CallsTyped, Continues, Becomes, Fields, ShapeOf
  <1>3. CASE ClearInvites(c)
    <2>1. Continues(c, "create") /\ call[c].step = "clear"
      BY <1>0, <1>3, AdvanceCall DEF ClearInvites, Advance, Steps
    <2> QED BY <2>1 DEF CallsShaped, CallsTyped, Continues, Becomes, Fields, ShapeOf
  <1>4. CASE CreateInvite(c)
    <2>1. call[c].step = "create" BY <1>4 DEF CreateInvite
    <2>2. PICK i \in Invites :
              Becomes(c, "notify", call[c].user, call[c].jti, call[c].root, i, call[c].era,
                      call[c].late, call[c].twin)
      BY <1>0, <1>4, CreateInviteCall DEF Unused
    <2> QED BY <2>1, <2>2 DEF CallsShaped, CallsTyped, Becomes, Fields, ShapeOf
  <1>5. CASE CreateNotification(c)
    <2>1. Continues(c, "enqueue") /\ call[c].step = "notify"
      BY <1>0, <1>5, AdvanceCall DEF CreateNotification, Advance, Steps
    <2> QED BY <2>1 DEF CallsShaped, CallsTyped, Continues, Becomes, Fields, ShapeOf
  <1>6. ASSUME NEW i \in Invites, BeginAccept(c, i) PROVE CallsShaped'
    <2>1. invite[i].user \in Guests BY <1>6 DEF BeginAccept, InvitationTypeOK
    <2>2. Becomes(c, "accept", invite[i].user, None, None, i, 0, FALSE, FALSE)
      BY <1>0, <1>6, <2>1, AcceptCall
    <2> QED BY <2>1, <2>2 DEF CallsShaped, CallsTyped, Becomes, Fields, ShapeOf
  <1>7. CASE EnqueueEmail(c) \/ CommitAccept(c) \/ AbandonInvite(c)
    <2>1. Ends(c) BY <1>0, <1>7, EndingCall
    <2> QED BY <2>1 DEF CallsShaped, CallsTyped, Ends, Begins, Becomes, Fields, ShapeOf
  <1> QED BY <1>1, <1>2, <1>3, <1>4, <1>5, <1>6, <1>7 DEF InvitationNext

LEMMA InvitationFrame ==
    ASSUME NEW c \in Calls, InvitationNext(c)
    PROVE  UNCHANGED <<token, store, page, revocations>>
  BY DEF InvitationNext, BeginInvite, LinkUser, ClearInvites, CreateInvite,
         CreateNotification, EnqueueEmail, BeginAccept, CommitAccept, AbandonInvite

LEMMA ShapeStep ==
    ASSUME Typing, Next
    PROVE  CallsShaped'
  <1> USE DEF Typing
  <1>1. ASSUME NEW u \in Users, RevokeSessions(u) PROVE CallsShaped'
    BY <1>1, RevokeSessionsCall DEF CallsShaped, ShapeOf, Same
  <1>2. CASE UNCHANGED call BY <1>2 DEF CallsShaped, CallsTyped, ShapeOf
  <1>3. ASSUME NEW j \in Jtis, Expire(j) PROVE UNCHANGED call BY <1>3 DEF Expire
  <1>4. ASSUME NEW i \in Invites, InviteExpires(i) PROVE UNCHANGED call
    BY <1>4 DEF InviteExpires
  <1> QED BY <1>1, <1>2, <1>3, <1>4, SessionShape, InvitationShape, MailFrame, NextShapes, OpenPageFrame

(* A token that was issued stays whose it is.                               *)
Keeps == \A j \in Jtis, u \in Users : Owned(j, u) => Owned(j, u)'

LEMMA RevokeTokens ==
    ASSUME TokensShaped, NEW u \in Users, RevokeRows(u)
    PROVE  TokensShaped' /\ Keeps
  <1>1. \A j \in Jtis : /\ token'[j] \in Tokens
                        /\ token'[j].user = token[j].user /\ token'[j].root = token[j].root
                        /\ token'[j].status # "none" <=> token[j].status # "none"
    <2> TAKE j \in Jtis
    <2>1. token[j] \in Tokens BY DEF TokensShaped, TokensTyped
    <2>2. token'[j] = IF token[j].user = u THEN [token[j] EXCEPT !.status = "revoked"]
                      ELSE token[j]
      BY DEF RevokeRows
    <2>3. token[j].user = u => token[j].status # "none" BY DEF TokensShaped, TokenShape
    <2> QED BY <2>1, <2>2, <2>3 DEF Tokens
  <1>2. token' = [j \in Jtis |-> token'[j]] BY DEF RevokeRows
  <1> QED BY <1>1, <1>2 DEF TokensShaped, TokensTyped, TokenShape, Keeps, Owned

LEMMA IssueToken ==
    ASSUME Typing, NEW c \in Calls, IssueTokens(c)
    PROVE  TokensShaped' /\ Keeps
  <1> DEFINE q == call[c]
             t(j) == [status |-> "live", user |-> q.user,
                      root |-> IF q.root # None THEN q.root ELSE j,
                      era |-> IF q.root # None THEN q.era ELSE revocations[q.user],
                      late |-> q.late, twin |-> q.twin]
  <1>1. PICK j \in Fresh : q.step = "issue" /\ token' = [token EXCEPT ![j] = t(j)]
    BY IssueCall DEF Typing, CallsShaped
  <1>2. j \in Jtis /\ token[j].status = "none" BY DEF Fresh, NoToken
  <1>3. q \in Requests /\ q.user \in Users
    BY <1>1 DEF Typing, CallsShaped, CallsTyped, ShapeOf
  <1>4. revocations[q.user] \in Nat BY <1>3 DEF Typing, CountersTyped
  <1>5. q.root \in Jtis \cup {None} /\ q.era \in Nat /\ q.late \in BOOLEAN
        /\ q.twin \in BOOLEAN
    BY <1>3 DEF Requests
  <1>6. t(j) \in Tokens /\ t(j).status # "none" /\ t(j).user \in Users /\ t(j).root \in Jtis
    BY <1>2, <1>3, <1>4, <1>5 DEF Tokens
  <1> HIDE DEF t
  <1> QED BY <1>1, <1>2, <1>6 DEF Typing, TokensShaped, TokensTyped, TokenShape, Keeps, Owned

LEMMA TokenStep ==
    ASSUME Typing, Next
    PROVE  TokensShaped' /\ Keeps
  <1>1. CASE UNCHANGED token
    BY <1>1 DEF Typing, TokensShaped, TokensTyped, TokenShape, Keeps, Owned
  <1>2. ASSUME NEW c \in Calls, Rotate(c) PROVE TokensShaped' /\ Keeps
    <2> DEFINE j == call[c].jti
    <2>1. call[c].step = "rotate" /\ token' = [token EXCEPT ![j] = [token[j] EXCEPT !.status = "revoked"]]
      BY <1>2 DEF Rotate, Advance
    <2>2. j \in Jtis /\ token[j].status # "none"
      BY <2>1 DEF Typing, CallsShaped, ShapeOf, Holding, CallHolds, Owned
    <2>3. token[j] \in Tokens BY <2>2 DEF Typing, TokensShaped, TokensTyped
    <2>4. /\ [token[j] EXCEPT !.status = "revoked"] \in Tokens
          /\ [token[j] EXCEPT !.status = "revoked"].user = token[j].user
          /\ [token[j] EXCEPT !.status = "revoked"].root = token[j].root
          /\ [token[j] EXCEPT !.status = "revoked"].status = "revoked"
      BY <2>3 DEF Tokens
    <2> QED BY <2>1, <2>2, <2>4
        DEF Typing, TokensShaped, TokensTyped, TokenShape, Keeps, Owned
  <1>3. ASSUME NEW c \in Calls, SessionNext(c) PROVE TokensShaped' /\ Keeps
    <2>1. CASE IssueTokens(c) BY <2>1, IssueToken
    <2>2. CASE RevokeAllRefreshTokens(c)
      <3>1. call[c].user \in Users
        BY <2>2 DEF RevokeAllRefreshTokens, Typing, CallsShaped, ShapeOf
      <3> QED BY <2>2, <3>1, RevokeTokens DEF RevokeAllRefreshTokens, Typing
    <2>3. CASE ~IssueTokens(c) /\ ~RevokeAllRefreshTokens(c) /\ ~Rotate(c)
      <3>1. UNCHANGED token
        BY <1>3, <2>3 DEF SessionNext, Login, OperatorLogin, SignIn, Refresh, Logout, Verify,
              RefuseToken, StoreSession, ClearSession, LoseAnswer, Drop, Leave
      <3> QED BY <1>1, <3>1
    <2> QED BY <1>2, <2>1, <2>2, <2>3
  <1>4. ASSUME NEW u \in Users, RevokeSessions(u) PROVE TokensShaped' /\ Keeps
    BY <1>4, RevokeTokens DEF RevokeSessions, Typing
  <1>5. ASSUME NEW j \in Jtis, Expire(j) PROVE TokensShaped' /\ Keeps
    <2>1. /\ token[j].status = "live"
          /\ token' = [token EXCEPT ![j] = [token[j] EXCEPT !.status = "expired"]]
      BY <1>5 DEF Expire
    <2>2. token[j] \in Tokens BY DEF Typing, TokensShaped, TokensTyped
    <2>3. /\ [token[j] EXCEPT !.status = "expired"] \in Tokens
          /\ [token[j] EXCEPT !.status = "expired"].user = token[j].user
          /\ [token[j] EXCEPT !.status = "expired"].root = token[j].root
          /\ [token[j] EXCEPT !.status = "expired"].status = "expired"
      BY <2>2 DEF Tokens
    <2> QED BY <2>1, <2>3
        DEF Typing, TokensShaped, TokensTyped, TokenShape, Keeps, Owned
  <1>6. ASSUME NEW i \in Invites, InviteExpires(i) PROVE UNCHANGED token
    BY <1>6 DEF InviteExpires
  <1> QED BY <1>1, <1>3, <1>4, <1>5, <1>6, InvitationFrame, MailFrame, NextShapes, OpenPageFrame

(* What a client or a request holds stays its own.                          *)
LEMMA HeldStays ==
    ASSUME StoreHolds, Keeps, StoreTyped',
           \A v \in Users, p \in Places : \E q \in Places : store'[v][p].jti = store[v][q].jti
    PROVE  StoreHolds'
  <1>1. ASSUME NEW v \in Users, NEW p \in Places, store'[v][p].jti # None
        PROVE  LET k == store'[v][p].jti IN token'[k].status # "none" /\ token'[k].user = v
    <2>0. PICK q \in Places : store'[v][p].jti = store[v][q].jti OBVIOUS
    <2>1. PICK k : k = store'[v][p].jti /\ k = store[v][q].jti BY <2>0
    <2>2. k # None /\ Owned(k, v) BY <1>1, <2>1 DEF StoreHolds
    <2>3. store'[v][p] \in Copies BY DEF StoreTyped
    <2>4. k \in Jtis BY <2>1, <2>2, <2>3 DEF Copies
    <2>5. Owned(k, v)' BY <2>2, <2>4 DEF Keeps
    <2> QED BY <2>1, <2>5 DEF Owned
  <1> QED BY <1>1 DEF StoreHolds, Owned

LEMMA WriteHolds ==
    ASSUME Typing, Keeps, NEW c \in Calls, call[c].user \in Users,
           NEW j \in Jtis \cup {None}, j # None => Owned(j, call[c].user), Write(c, j)
    PROVE  StoreTyped' /\ StoreHolds'
  <1> DEFINE u == call[c].user
             new == [p \in Places |-> IF p \in Written(c) THEN Copy(j) ELSE store[u][p]]
  <1>1. store' = [store EXCEPT ![u] = new] BY DEF Write
  <1>2. Copy(j) \in Copies /\ Copy(j).jti = j BY DEF Copy, Copies
  <1>3. StoreTyped /\ StoreHolds BY DEF Typing, Holding
  <1>4. new \in [Places -> Copies] BY <1>2, <1>3 DEF StoreTyped
  <1>5. \A p \in Places : new[p].jti # None => Owned(new[p].jti, u)
    BY <1>2, <1>3 DEF StoreHolds
  <1> HIDE DEF new
  <1>6. StoreTyped' BY <1>1, <1>3, <1>4 DEF StoreTyped
  <1>7. ASSUME NEW v \in Users, NEW p \in Places, store'[v][p].jti # None
        PROVE  LET k == store'[v][p].jti IN token'[k].status # "none" /\ token'[k].user = v
    <2>1. store'[v] = IF v = u THEN new ELSE store[v] BY <1>1, <1>3 DEF StoreTyped
    <2>2. PICK k : k = store'[v][p].jti OBVIOUS
    <2>3. k # None /\ Owned(k, v) BY <1>3, <1>5, <1>7, <2>1, <2>2 DEF StoreHolds
    <2>4. k \in Jtis
      <3>1. store'[v][p] \in Copies BY <1>6 DEF StoreTyped
      <3> QED BY <2>2, <2>3, <3>1 DEF Copies
    <2>5. Owned(k, v)' BY <2>3, <2>4 DEF Keeps
    <2> QED BY <2>2, <2>5 DEF Owned
  <1> QED BY <1>6, <1>7 DEF StoreHolds, Owned

LEMMA FallBehindHolds ==
    ASSUME Typing, Keeps, NEW c \in Calls, call[c].user \in Users, call[c].jti \in Jtis,
           FallBehind(c)
    PROVE  StoreTyped' /\ StoreHolds'
  <1> DEFINE u == call[c].user
             new == [p \in Places |->
                        IF store[u][p].jti = call[c].jti /\ p # page[c].tab
                        THEN [jti |-> call[c].jti, behind |-> TRUE] ELSE store[u][p]]
  <1>1. store' = [store EXCEPT ![u] = new] BY DEF FallBehind
  <1>2. StoreTyped /\ StoreHolds BY DEF Typing, Holding
  <1>3. new \in [Places -> Copies] BY <1>2 DEF StoreTyped, Copies
  <1>4. \A p \in Places : new[p].jti = store[u][p].jti OBVIOUS
  <1> HIDE DEF new
  <1>5. StoreTyped' BY <1>1, <1>2, <1>3 DEF StoreTyped
  <1>6. \A v \in Users, p \in Places : store'[v][p].jti = store[v][p].jti
    BY <1>1, <1>2, <1>4 DEF StoreTyped
  <1> QED BY <1>2, <1>5, <1>6, HeldStays

LEMMA OpenPageHolds ==
    ASSUME Typing, Keeps, NEW u \in Users, NEW t \in Tabs, OpenPage(u, t)
    PROVE  StoreTyped' /\ StoreHolds'
  <1> DEFINE new == [p \in Places |-> IF p = t THEN store[u][Saved] ELSE store[u][p]]
  <1>1. StoreTyped /\ StoreHolds BY DEF Typing, Holding
  <1>2. store' = store \/ store' = [store EXCEPT ![u] = new] BY DEF OpenPage
  <1>3. new \in [Places -> Copies] BY <1>1 DEF StoreTyped
  <1>4. \A p \in Places : \E q \in Places : new[p] = store[u][q] OBVIOUS
  <1> HIDE DEF new
  <1>5. StoreTyped' BY <1>1, <1>2, <1>3 DEF StoreTyped
  <1>6. \A v \in Users, p \in Places : \E q \in Places : store'[v][p].jti = store[v][q].jti
    BY <1>1, <1>2, <1>4 DEF StoreTyped
  <1> QED BY <1>1, <1>5, <1>6, HeldStays

LEMMA StoreStep ==
    ASSUME Typing, Next
    PROVE  StoreTyped' /\ StoreHolds'
  <1>0. Keeps /\ StoreTyped /\ StoreHolds BY TokenStep DEF Typing, Holding
  <1>1. CASE UNCHANGED store
    <2>1. StoreTyped' BY <1>0, <1>1 DEF StoreTyped
    <2>2. \A v \in Users, p \in Places : store'[v][p].jti = store[v][p].jti BY <1>1
    <2> QED BY <1>0, <2>1, <2>2, HeldStays
  <1>2. ASSUME NEW c \in Calls, StoreSession(c)
        PROVE  StoreTyped' /\ StoreHolds'
    <2>1. call[c].user \in Users /\ call[c].jti \in Jtis /\ Owned(call[c].jti, call[c].user)
      BY <1>2 DEF StoreSession, Typing, CallsShaped, ShapeOf, Holding, CallHolds
    <2> QED BY <1>0, <1>2, <2>1, WriteHolds DEF StoreSession
  <1>3. ASSUME NEW c \in Calls, ClearSession(c) \/ LoseAnswer(c) \/ Leave(c)
        PROVE  StoreTyped' /\ StoreHolds'
    <2>1. call[c].user \in Users
      BY <1>3 DEF ClearSession, LoseAnswer, Leave, Typing, CallsShaped, ShapeOf
    <2>2. UNCHANGED store \/ Write(c, None)
      BY <1>3 DEF ClearSession, LoseAnswer, Drop, Leave
    <2> QED BY <1>0, <1>1, <2>1, <2>2, WriteHolds
  <1>4. ASSUME NEW c \in Calls, Rotate(c)
        PROVE  StoreTyped' /\ StoreHolds'
    <2>1. call[c].user \in Users /\ call[c].jti \in Jtis
      BY <1>4 DEF Rotate, Advance, Typing, CallsShaped, ShapeOf
    <2> QED BY <1>0, <1>4, <2>1, FallBehindHolds DEF Rotate
  <1>5. ASSUME NEW c \in Calls, SessionNext(c), ~StoreSession(c), ~ClearSession(c),
               ~LoseAnswer(c), ~Leave(c), ~Rotate(c)
        PROVE  UNCHANGED store
    BY <1>5 DEF SessionNext, Login, OperatorLogin, SignIn, Refresh, Logout, Verify,
           RefuseToken, IssueTokens, RevokeAllRefreshTokens
  <1>6. ASSUME NEW u \in Users, RevokeSessions(u) PROVE UNCHANGED store
    BY <1>6 DEF RevokeSessions
  <1>7. ASSUME NEW j \in Jtis, Expire(j) PROVE UNCHANGED store BY <1>7 DEF Expire
  <1>8. ASSUME NEW i \in Invites, InviteExpires(i) PROVE UNCHANGED store
    BY <1>8 DEF InviteExpires
  <1> QED BY <1>0, <1>1, <1>2, <1>3, <1>4, <1>5, <1>6, <1>7, <1>8, OpenPageHolds,
             InvitationFrame, MailFrame, NextShapes

(* The page of a request.                                                   *)
LEMMA PagesStep ==
    ASSUME Typing, Next
    PROVE  PagesTyped'
  <1>0. PagesTyped BY DEF Typing
  <1>1. CASE UNCHANGED page BY <1>0, <1>1 DEF PagesTyped
  <1>2. ASSUME NEW c \in Calls, NEW r \in Pages, page' = [page EXCEPT ![c] = r]
        PROVE  PagesTyped'
    BY <1>0, <1>2 DEF PagesTyped
  <1>3. ASSUME NEW c \in Calls, SessionNext(c) PROVE PagesTyped'
    <2>1. ASSUME NEW u \in Users, NEW t \in Tabs,
                 Login(c, u, t) \/ OperatorLogin(c, u, t) \/ Logout(c, u, t)
          PROVE  PagesTyped'
      <3>1. [Away EXCEPT !.tab = t] \in Pages BY DEF Away, Pages
      <3>2. page' = [page EXCEPT ![c] = [Away EXCEPT !.tab = t]]
        BY <2>1 DEF Login, OperatorLogin, SignIn, Logout
      <3> QED BY <1>2, <3>1, <3>2
    <2>2. ASSUME NEW u \in Users, NEW t \in Tabs, Refresh(c, u, t) PROVE PagesTyped'
      <3>1. store[u][t] \in Copies BY DEF Typing, Holding, StoreTyped
      <3>2. [tab |-> t, behind |-> store[u][t].behind] \in Pages
        BY <3>1 DEF Copies, Pages
      <3> QED BY <1>2, <2>2, <3>2 DEF Refresh
    <2>3. CASE StoreSession(c) \/ ClearSession(c) \/ LoseAnswer(c) \/ Leave(c)
      <3>1. Away \in Pages BY DEF Away, Pages
      <3>2. page' = [page EXCEPT ![c] = Away]
        BY <2>3 DEF StoreSession, ClearSession, LoseAnswer, Drop, Leave, Close
      <3> QED BY <1>2, <3>1, <3>2
    <2>4. CASE Verify(c) \/ RefuseToken(c) \/ Rotate(c) \/ IssueTokens(c)
               \/ RevokeAllRefreshTokens(c)
      <3>1. UNCHANGED page
        BY <2>4 DEF Verify, RefuseToken, Rotate, IssueTokens, RevokeAllRefreshTokens
      <3> QED BY <1>1, <3>1
    <2> QED BY <1>3, <2>1, <2>2, <2>3, <2>4 DEF SessionNext
  <1>4. ASSUME NEW u \in Users, NEW t \in Tabs, OpenPage(u, t) PROVE PagesTyped'
    <2> DEFINE gone(c) == [page[c] EXCEPT !.tab = None]
    <2>1. \A c \in Calls : gone(c) \in Pages BY <1>0 DEF PagesTyped, Pages
    <2>2. page' = [c \in Calls |-> IF call[c].user = u /\ page[c].tab = t THEN gone(c)
                                   ELSE page[c]]
      BY <1>4 DEF OpenPage
    <2> HIDE DEF gone
    <2> QED BY <1>0, <2>1, <2>2 DEF PagesTyped
  <1>5. ASSUME NEW u \in Users, RevokeSessions(u) PROVE UNCHANGED page
    BY <1>5 DEF RevokeSessions
  <1>6. ASSUME NEW j \in Jtis, Expire(j) PROVE UNCHANGED page BY <1>6 DEF Expire
  <1>7. ASSUME NEW i \in Invites, InviteExpires(i) PROVE UNCHANGED page
    BY <1>7 DEF InviteExpires
  <1> QED BY <1>1, <1>3, <1>4, <1>5, <1>6, <1>7, InvitationFrame, MailFrame, NextShapes

(* A request that holds no token, the one it held, or one just as good.     *)
HoldsOn(d) ==
    \/ call'[d].step \notin {"verify", "rotate", "answer"}
    \/ /\ call[d].step \in {"verify", "rotate", "answer"}
       /\ call'[d].user = call[d].user /\ call'[d].jti = call[d].jti
    \/ token'[call'[d].jti].status # "none" /\ token'[call'[d].jti].user = call'[d].user

LEMMA HoldsOnIsEnough ==
    ASSUME Typing, Next, \A d \in Calls : HoldsOn(d)
    PROVE  CallHolds'
  <1>1. Keeps BY TokenStep
  <1> QED BY <1>1 DEF Typing, Holding, CallHolds, HoldsOn, Keeps, Owned, CallsShaped, ShapeOf

LEMMA SessionHolds ==
    ASSUME Typing, Next, NEW c \in Calls, SessionNext(c)
    PROVE  \A d \in Calls : HoldsOn(d)
  <1> USE DEF Typing
  <1>0. CallsTyped /\ TokensTyped /\ Keeps BY TokenStep DEF CallsShaped, TokensShaped
  <1>1. ASSUME NEW u \in Users, NEW t \in Tabs,
               Login(c, u, t) \/ OperatorLogin(c, u, t)
        PROVE  \A d \in Calls : HoldsOn(d)
    <2>1. Begins(c, "issue", u) BY <1>1, SignInShape DEF Login, OperatorLogin
    <2> QED BY <2>1 DEF Begins, Becomes, Fields, HoldsOn
  <1>2. ASSUME NEW u \in Users, NEW t \in Tabs, Refresh(c, u, t) PROVE \A d \in Calls : HoldsOn(d)
    <2>1. store[u][t].jti \in Jtis /\ Owned(store[u][t].jti, u)
      BY <1>2, HeldToken DEF Refresh
    <2>2. /\ Fields(call'[c], "verify", u, store[u][t].jti, None, None, 0, FALSE, Beside(u) # {})
          /\ \A d \in Calls \ {c} : Same(call'[d], call[d])
      BY <1>0, <1>2, <2>1, RefreshCall
    <2>3. HoldsOn(c) BY <1>0, <2>1, <2>2 DEF Fields, HoldsOn, Keeps, Owned
    <2>4. \A d \in Calls \ {c} : HoldsOn(d) BY <2>2 DEF Same, HoldsOn
    <2> QED BY <2>3, <2>4
  <1>3. ASSUME NEW u \in Users, NEW t \in Tabs, Logout(c, u, t) PROVE \A d \in Calls : HoldsOn(d)
    <2>1. Begins(c, "logout", u) BY <1>0, <1>3, StartCall DEF Logout, Steps
    <2> QED BY <2>1 DEF Begins, Becomes, Fields, HoldsOn
  <1>4. CASE Verify(c)
    <2>1. call[c].step = "verify" /\ call[c].jti \in Jtis
      BY <1>4 DEF Verify, CallsShaped, ShapeOf
    <2> QED BY <1>0, <1>4, <2>1, VerifyCall DEF Becomes, Fields, HoldsOn
  <1>5. CASE RefuseToken(c)
    <2>1. Continues(c, "refused") BY <1>0, <1>5, AdvanceCall DEF RefuseToken, Steps
    <2> QED BY <2>1 DEF Continues, Becomes, Fields, HoldsOn
  <1>6. CASE Rotate(c)
    <2>1. Continues(c, "issue") BY <1>0, <1>6, AdvanceCall DEF Rotate, Steps
    <2> QED BY <2>1 DEF Continues, Becomes, Fields, HoldsOn
  <1>7. CASE IssueTokens(c)
    <2> DEFINE q == call[c]
               t(j) == [status |-> "live", user |-> q.user,
                        root |-> IF q.root # None THEN q.root ELSE j,
                        era |-> IF q.root # None THEN q.era ELSE revocations[q.user],
                        late |-> q.late, twin |-> q.twin]
    <2>1. PICK j \in Fresh :
              /\ token' = [token EXCEPT ![j] = t(j)]
              /\ Becomes(c, "answer", q.user, j, q.root, q.invite, q.era, q.late, q.twin)
      BY <1>0, <1>7, IssueCall
    <2>2. token'[j] = t(j) BY <1>0, <2>1 DEF TokensTyped, Fresh
    <2>3. t(j).status # "none" /\ t(j).user = q.user OBVIOUS
    <2> HIDE DEF t
    <2>4. HoldsOn(c) BY <2>1, <2>2, <2>3 DEF Becomes, Fields, HoldsOn
    <2>5. \A d \in Calls \ {c} : HoldsOn(d) BY <2>1 DEF Becomes, HoldsOn
    <2> QED BY <2>4, <2>5
  <1>8. CASE StoreSession(c) \/ ClearSession(c) \/ LoseAnswer(c) \/ Leave(c)
    BY <1>0, <1>8, EndingCall DEF Ends, Begins, Becomes, Fields, HoldsOn
  <1>9. CASE RevokeAllRefreshTokens(c)
    BY <1>0, <1>9, RevokeAllCall DEF Same, Fields, HoldsOn
  <1> QED BY <1>1, <1>2, <1>3, <1>4, <1>5, <1>6, <1>7, <1>8, <1>9 DEF SessionNext

(* Requests about invitations hold no token.                                *)
Plain(q) == q.step \notin {"verify", "rotate", "issue", "answer", "refused"} /\ q.root = None

PlainChange(c) ==
    Plain(call[c]) /\ Plain(call'[c]) /\ \A d \in Calls \ {c} : call'[d] = call[d]

LEMMA InvitationPlain ==
    ASSUME Typing, NEW c \in Calls, InvitationNext(c)
    PROVE  PlainChange(c)
  <1> USE DEF Typing
  <1>0. CallsTyped /\ ShapeOf(call[c]) BY DEF CallsShaped
  <1>1. call[c].step \in Guesting \cup {"idle"} => Plain(call[c])
    BY <1>0 DEF Plain, ShapeOf, Guesting
  <1>2. ASSUME NEW u \in Guests, BeginInvite(c, u) PROVE PlainChange(c)
    <2>1. Begins(c, "link", u) /\ call[c].step = "idle"
      BY <1>0, <1>2, StartCall DEF BeginInvite, Steps
    <2>2. Plain(call'[c]) BY <2>1 DEF Begins, Becomes, Fields, Plain
    <2> QED BY <1>1, <2>1, <2>2 DEF Begins, Becomes, PlainChange
  <1>3. CASE LinkUser(c) \/ ClearInvites(c) \/ CreateNotification(c)
    <2>1. PICK s \in {"clear", "create", "enqueue"} : Continues(c, s)
      BY <1>0, <1>3, AdvanceCall DEF LinkUser, ClearInvites, CreateNotification, Steps
    <2>2. call[c].step \in Guesting
      BY <1>3 DEF LinkUser, ClearInvites, CreateNotification, Advance, Guesting
    <2>3. call[c].root = None BY <1>1, <2>2 DEF Plain
    <2>4. Plain(call'[c]) BY <2>1, <2>3 DEF Continues, Becomes, Fields, Plain
    <2> QED BY <1>1, <2>1, <2>2, <2>4 DEF Continues, Becomes, PlainChange
  <1>4. CASE CreateInvite(c)
    <2>1. call[c].step \in Guesting BY <1>4 DEF CreateInvite, Guesting
    <2>2. PICK i : Becomes(c, "notify", call[c].user, call[c].jti, call[c].root, i,
                           call[c].era, call[c].late, call[c].twin)
      BY <1>0, <1>4, CreateInviteCall
    <2>3. call[c].root = None BY <1>1, <2>1 DEF Plain
    <2>4. Plain(call'[c]) BY <2>2, <2>3 DEF Becomes, Fields, Plain
    <2> QED BY <1>1, <2>1, <2>2, <2>4 DEF Becomes, PlainChange
  <1>5. ASSUME NEW i \in Invites, BeginAccept(c, i) PROVE PlainChange(c)
    <2>1. invite[i].user \in Guests BY <1>5 DEF BeginAccept, InvitationTypeOK
    <2>2. Becomes(c, "accept", invite[i].user, None, None, i, 0, FALSE, FALSE)
          /\ call[c].step = "idle"
      BY <1>0, <1>5, <2>1, AcceptCall
    <2>3. Plain(call'[c]) BY <2>2 DEF Becomes, Fields, Plain
    <2> QED BY <1>1, <2>2, <2>3 DEF Becomes, PlainChange
  <1>6. CASE EnqueueEmail(c) \/ CommitAccept(c) \/ AbandonInvite(c)
    <2>1. call[c].step \in Guesting
      BY <1>6 DEF EnqueueEmail, CommitAccept, AbandonInvite, Guesting
    <2>2. Ends(c) BY <1>0, <1>6, EndingCall
    <2>3. Plain(call'[c]) BY <2>2 DEF Ends, Begins, Becomes, Fields, Plain
    <2> QED BY <1>1, <2>1, <2>2, <2>3 DEF Ends, Begins, Becomes, PlainChange
  <1> QED BY <1>2, <1>3, <1>4, <1>5, <1>6 DEF InvitationNext

LEMMA HoldingStep ==
    ASSUME Typing, Next
    PROVE  Holding'
  <1>1. CASE UNCHANGED call
    <2>1. \A d \in Calls : HoldsOn(d) BY <1>1 DEF HoldsOn
    <2> QED BY <2>1, HoldsOnIsEnough, StoreStep DEF Holding
  <1>2. ASSUME NEW c \in Calls, SessionNext(c) PROVE Holding'
    BY <1>2, SessionHolds, HoldsOnIsEnough, StoreStep DEF Holding
  <1>3. ASSUME NEW c \in Calls, InvitationNext(c) PROVE Holding'
    <2>1. \A d \in Calls : HoldsOn(d) BY <1>3, InvitationPlain DEF PlainChange, Plain, HoldsOn
    <2> QED BY <2>1, HoldsOnIsEnough, StoreStep DEF Holding
  <1>4. ASSUME NEW u \in Users, RevokeSessions(u) PROVE Holding'
    <2>1. \A d \in Calls : HoldsOn(d)
      BY <1>4, RevokeSessionsCall DEF Typing, CallsShaped, Same, HoldsOn
    <2> QED BY <2>1, HoldsOnIsEnough, StoreStep DEF Holding
  <1>5. ASSUME NEW j \in Jtis, Expire(j) PROVE UNCHANGED call BY <1>5 DEF Expire
  <1>6. ASSUME NEW i \in Invites, InviteExpires(i) PROVE UNCHANGED call
    BY <1>6 DEF InviteExpires
  <1> QED BY <1>1, <1>2, <1>3, <1>4, <1>5, <1>6, MailFrame, NextShapes, OpenPageFrame

-----------------------------------------------------------------------------
(* Rows of invitations and their mail.                                      *)

InviteRows ==
    [status: {"none", "pending", "expired", "accepted", "deleted"}, user: Guests \cup {None}]
MailRows ==
    [delivery: {"none", "QUEUED", "SENT", "FAILED"},
     job: {"none", "waiting", "sending", "sent", "failing", "over"},
     left: 0 .. Attempts, out: Nat, stalled: BOOLEAN,
     silent: {"no", "ignored", "thrown", "stalled"}]

InvitesTyped ==
    /\ invite \in [Invites -> InviteRows]
    /\ \A i \in Invites : (invite[i].status = "none") = (invite[i].user = None)
MailTyped == mail \in [Invites -> MailRows] /\ MailBounds

LEMMA InvitationTypes ==
    InvitationTypeOK /\ MailBounds
        <=> InvitesTyped /\ MailTyped /\ crashes \in 0 .. MaxCrashes /\ crossed \subseteq Guests
  BY DEF InvitationTypeOK, InvitesTyped, MailTyped, InviteRows, MailRows

LEMMA InvitesStep ==
    ASSUME Typing, Next
    PROVE  InvitesTyped'
  <1> USE DEF Typing
  <1>0. InvitesTyped BY InvitationTypes
  <1>1. CASE UNCHANGED invite BY <1>0, <1>1 DEF InvitesTyped
  <1>2. ASSUME NEW c \in Calls, ClearInvites(c) PROVE InvitesTyped'
    <2> DEFINE u == call[c].user
    <2>1. invite' = [i \in Invites |-> IF i \in Unaccepted(u)
                         THEN [invite[i] EXCEPT !.status = "deleted"] ELSE invite[i]]
      BY <1>2 DEF ClearInvites
    <2>2. \A i \in Invites : /\ invite'[i] \in InviteRows
                             /\ (invite'[i].status = "none") = (invite'[i].user = None)
      <3> TAKE i \in Invites
      <3>1. invite[i] \in InviteRows /\ (invite[i].status = "none") = (invite[i].user = None)
        BY <1>0 DEF InvitesTyped
      <3>2. i \in Unaccepted(u) => invite[i].status # "none" BY DEF Unaccepted
      <3> QED BY <2>1, <3>1, <3>2 DEF InviteRows
    <2>3. invite' = [i \in Invites |-> invite'[i]] BY <2>1
    <2> QED BY <2>2, <2>3 DEF InvitesTyped
  <1>3. ASSUME NEW c \in Calls, CreateInvite(c) PROVE InvitesTyped'
    <2>1. PICK i \in Unused :
              invite' = [invite EXCEPT ![i] = [status |-> "pending", user |-> call[c].user]]
      BY <1>3, CreateInviteCall DEF CallsShaped
    <2>2. call[c].user \in Guests BY <1>3 DEF CreateInvite, CallsShaped, ShapeOf
    <2>3. [status |-> "pending", user |-> call[c].user] \in InviteRows
      BY <2>2 DEF InviteRows
    <2>4. call[c].user # None BY <2>2
    <2> QED BY <1>0, <2>1, <2>3, <2>4 DEF InvitesTyped, Unused
  <1>4. ASSUME NEW i \in Invites, NEW s \in {"accepted", "expired"}, invite[i].user # None,
               invite' = [invite EXCEPT ![i] = [invite[i] EXCEPT !.status = s]]
        PROVE  InvitesTyped'
    <2>1. invite[i] \in InviteRows BY <1>0 DEF InvitesTyped
    <2>2. /\ [invite[i] EXCEPT !.status = s] \in InviteRows
          /\ [invite[i] EXCEPT !.status = s].status = s
          /\ [invite[i] EXCEPT !.status = s].user = invite[i].user
      BY <2>1 DEF InviteRows
    <2> QED BY <1>0, <1>4, <2>2 DEF InvitesTyped
  <1>5. ASSUME NEW c \in Calls, CommitAccept(c) PROVE InvitesTyped'
    <2>1. call[c].invite \in Invites BY <1>5 DEF CommitAccept, CallsShaped, ShapeOf
    <2>2. invite' = [invite EXCEPT ![call[c].invite] =
                        [invite[call[c].invite] EXCEPT !.status = "accepted"]]
      BY <1>5 DEF CommitAccept
    <2>3. invite[call[c].invite].user # None
      BY <1>5 DEF CommitAccept, CallInvites, CallsShaped, ShapeOf
    <2> QED BY <1>4, <2>1, <2>2, <2>3
  <1>6. ASSUME NEW i \in Invites, InviteExpires(i) PROVE InvitesTyped'
    <2>1. invite[i].status = "pending" BY <1>6 DEF InviteExpires
    <2>2. invite[i].user # None BY <1>0, <2>1 DEF InvitesTyped
    <2>3. invite' = [invite EXCEPT ![i] = [invite[i] EXCEPT !.status = "expired"]]
      BY <1>6 DEF InviteExpires
    <2> QED BY <1>4, <2>2, <2>3
  <1>7. ASSUME NEW c \in Calls, InvitationNext(c), ~ClearInvites(c), ~CreateInvite(c),
               ~CommitAccept(c)
        PROVE  UNCHANGED invite
    BY <1>7 DEF InvitationNext, BeginInvite, LinkUser, CreateNotification, EnqueueEmail,
           BeginAccept, AbandonInvite, invitationVars
  <1> QED BY <1>1, <1>2, <1>3, <1>5, <1>6, <1>7, NextShapes, OpenPageFrame, MailFrame DEF invitationVars

(* The user of an invitation is its user for good, and requests about       *)
(* invitations are left alone by the others.                                *)
InviteKeeps ==
    \A i \in Invites : invite[i].user # None => invite'[i].user = invite[i].user

GuestSame(d) ==
    \/ call'[d].step \notin Guesting /\ call[d].step \notin Guesting
    \/ /\ call'[d].step = call[d].step
       /\ call'[d].user = call[d].user /\ call'[d].invite = call[d].invite

LEMMA InviteKept ==
    ASSUME Typing, Next
    PROVE  InviteKeeps
  <1> USE DEF Typing
  <1>0. InvitesTyped BY InvitationTypes
  <1>1. CASE UNCHANGED invite BY <1>1 DEF InviteKeeps
  <1>2. ASSUME NEW c \in Calls, ClearInvites(c) PROVE InviteKeeps
    <2> SUFFICES ASSUME NEW i \in Invites PROVE invite'[i].user = invite[i].user
      BY DEF InviteKeeps
    <2>1. invite'[i] = IF i \in Unaccepted(call[c].user)
                       THEN [invite[i] EXCEPT !.status = "deleted"] ELSE invite[i]
      BY <1>2 DEF ClearInvites
    <2>2. invite[i] \in InviteRows BY <1>0 DEF InvitesTyped
    <2> QED BY <2>1, <2>2 DEF InviteRows
  <1>3. ASSUME NEW c \in Calls, CreateInvite(c) PROVE InviteKeeps
    <2>1. PICK k \in Unused :
              invite' = [invite EXCEPT ![k] = [status |-> "pending", user |-> call[c].user]]
      BY <1>3, CreateInviteCall DEF CallsShaped
    <2>2. k \in Invites /\ invite[k].user = None BY DEF Unused, NoInvite
    <2> QED BY <1>0, <2>1, <2>2 DEF InvitesTyped, InviteKeeps
  <1>4. ASSUME NEW k, NEW s,
               invite' = [invite EXCEPT ![k] = [invite[k] EXCEPT !.status = s]]
        PROVE  InviteKeeps
    <2> SUFFICES ASSUME NEW i \in Invites PROVE invite'[i].user = invite[i].user
      BY DEF InviteKeeps
    <2>1. invite[i] \in InviteRows BY <1>0 DEF InvitesTyped
    <2>2. invite'[i] = IF i = k THEN [invite[i] EXCEPT !.status = s] ELSE invite[i]
      BY <1>0, <1>4 DEF InvitesTyped
    <2> QED BY <2>1, <2>2 DEF InviteRows
  <1>5. ASSUME NEW c \in Calls, CommitAccept(c) PROVE InviteKeeps
    BY <1>4, <1>5 DEF CommitAccept
  <1>6. ASSUME NEW i \in Invites, InviteExpires(i) PROVE InviteKeeps
    BY <1>4, <1>6 DEF InviteExpires
  <1>7. ASSUME NEW c \in Calls, InvitationNext(c), ~ClearInvites(c), ~CreateInvite(c),
               ~CommitAccept(c)
        PROVE  UNCHANGED invite
    BY <1>7 DEF InvitationNext, BeginInvite, LinkUser, CreateNotification, EnqueueEmail,
           BeginAccept, AbandonInvite, invitationVars
  <1> QED BY <1>1, <1>2, <1>3, <1>5, <1>6, <1>7, NextShapes, OpenPageFrame, MailFrame DEF invitationVars

LEMMA SessionGuests ==
    ASSUME Typing, NEW c \in Calls, SessionNext(c)
    PROVE  \A d \in Calls : GuestSame(d)
  <1> USE DEF Typing
  <1>0. CallsTyped /\ TokensTyped /\ ShapeOf(call[c]) BY DEF CallsShaped, TokensShaped
  <1>1. ASSUME NEW s, NEW u, NEW j, NEW r, NEW i, NEW e, NEW l, NEW t,
               Becomes(c, s, u, j, r, i, e, l, t), s \notin Guesting,
               call[c].step \notin Guesting
        PROVE  \A d \in Calls : GuestSame(d)
    <2>1. GuestSame(c) BY <1>1 DEF Becomes, Fields, GuestSame
    <2>2. \A d \in Calls \ {c} : GuestSame(d) BY <1>1 DEF Becomes, GuestSame
    <2> QED BY <2>1, <2>2
  <1>2. ASSUME NEW u \in Users, NEW t \in Tabs,
               Login(c, u, t) \/ OperatorLogin(c, u, t)
        PROVE  \A d \in Calls : GuestSame(d)
    <2>1. Begins(c, "issue", u) /\ call[c].step = "idle"
      BY <1>2, SignInShape DEF Login, OperatorLogin
    <2> QED BY <1>1, <2>1 DEF Begins, Guesting
  <1>3. ASSUME NEW u \in Users, NEW t \in Tabs, Refresh(c, u, t) PROVE \A d \in Calls : GuestSame(d)
    <2>1. store[u][t].jti \in Jtis BY <1>3, HeldToken DEF Refresh
    <2>2. /\ call[c].step = "idle"
          /\ Fields(call'[c], "verify", u, store[u][t].jti, None, None, 0, FALSE, Beside(u) # {})
          /\ \A d \in Calls \ {c} : Same(call'[d], call[d])
      BY <1>0, <1>3, <2>1, RefreshCall
    <2>3. GuestSame(c) BY <2>2 DEF Fields, GuestSame, Guesting
    <2>4. \A d \in Calls \ {c} : GuestSame(d) BY <2>2 DEF Same, GuestSame
    <2> QED BY <2>3, <2>4
  <1>4. ASSUME NEW u \in Users, NEW t \in Tabs, Logout(c, u, t) PROVE \A d \in Calls : GuestSame(d)
    <2>1. Begins(c, "logout", u) /\ call[c].step = "idle"
      BY <1>0, <1>4, StartCall DEF Logout, Steps
    <2> QED BY <1>1, <2>1 DEF Begins, Guesting
  <1>5. CASE Verify(c)
    <2>1. call[c].step = "verify" /\ call[c].jti \in Jtis
      BY <1>0, <1>5 DEF Verify, ShapeOf
    <2> QED BY <1>0, <1>1, <1>5, <2>1, VerifyCall DEF Guesting
  <1>6. CASE RefuseToken(c) \/ Rotate(c)
    <2>1. PICK s \in {"refused", "issue"} : Continues(c, s)
      BY <1>0, <1>6, AdvanceCall DEF RefuseToken, Rotate, Steps
    <2>2. call[c].step \in {"verify", "rotate"}
      BY <1>6 DEF RefuseToken, Rotate, Advance
    <2> QED BY <1>1, <2>1, <2>2 DEF Continues, Guesting
  <1>7. CASE IssueTokens(c)
    <2>1. PICK j : Becomes(c, "answer", call[c].user, j, call[c].root, call[c].invite,
                           call[c].era, call[c].late, call[c].twin)
      BY <1>0, <1>7, IssueCall
    <2>2. call[c].step = "issue" BY <1>7 DEF IssueTokens
    <2> QED BY <1>1, <2>1, <2>2 DEF Guesting
  <1>8. CASE StoreSession(c) \/ ClearSession(c) \/ LoseAnswer(c) \/ Leave(c)
    <2>1. Ends(c) BY <1>0, <1>8, EndingCall
    <2>2. call[c].step \notin Guesting
      BY <1>8 DEF StoreSession, ClearSession, LoseAnswer, Leave, Guesting
    <2> QED BY <1>1, <2>1, <2>2 DEF Ends, Begins, Guesting
  <1>9. CASE RevokeAllRefreshTokens(c)
    <2>1. call[c].step = "logout" BY <1>9 DEF RevokeAllRefreshTokens
    <2>2. /\ Fields(call'[c], "leave", call[c].user, call[c].jti, call[c].root,
                    call[c].invite, call[c].era, call[c].late, call[c].twin)
          /\ \A d \in Calls \ {c} : Same(call'[d], call[d])
      BY <1>0, <1>9, RevokeAllCall
    <2>3. GuestSame(c) BY <2>1, <2>2 DEF Fields, GuestSame, Guesting
    <2>4. \A d \in Calls \ {c} : GuestSame(d) BY <2>2 DEF Same, GuestSame
    <2> QED BY <2>3, <2>4
  <1> QED BY <1>2, <1>3, <1>4, <1>5, <1>6, <1>7, <1>8, <1>9 DEF SessionNext

LEMMA GuestsSame ==
    ASSUME Typing, Next
    PROVE  \/ \E c \in Calls : InvitationNext(c)
           \/ \A d \in Calls : GuestSame(d)
  <1>1. ASSUME UNCHANGED call PROVE \A d \in Calls : GuestSame(d)
    BY <1>1 DEF GuestSame
  <1>2. ASSUME NEW u \in Users, RevokeSessions(u) PROVE \A d \in Calls : GuestSame(d)
    BY <1>2, RevokeSessionsCall DEF Typing, CallsShaped, Same, GuestSame
  <1>3. ASSUME NEW j \in Jtis, Expire(j) PROVE UNCHANGED call BY <1>3 DEF Expire
  <1>4. ASSUME NEW i \in Invites, InviteExpires(i) PROVE UNCHANGED call
    BY <1>4 DEF InviteExpires
  <1> QED BY <1>1, <1>2, <1>3, <1>4, SessionGuests, MailFrame, NextShapes, OpenPageFrame

(* The requests about invitations, move by move.                            *)
GuestMove(c, from, to, u, i) ==
    /\ call[c].step \in from
    /\ call'[c].step = to /\ call'[c].user = u /\ call'[c].invite = i
    /\ \A d \in Calls \ {c} : call'[d] = call[d]

LEMMA GuestMoves ==
    ASSUME Typing, NEW c \in Calls
    PROVE  /\ \A u \in Guests : BeginInvite(c, u) => GuestMove(c, {"idle"}, "link", u, None)
           /\ LinkUser(c) => GuestMove(c, {"link"}, "clear", call[c].user, call[c].invite)
           /\ ClearInvites(c) => GuestMove(c, {"clear"}, "create", call[c].user, call[c].invite)
           /\ CreateInvite(c) =>
                  \E i \in Unused :
                      /\ invite' = [invite EXCEPT
                                       ![i] = [status |-> "pending", user |-> call[c].user]]
                      /\ GuestMove(c, {"create"}, "notify", call[c].user, i)
           /\ CreateNotification(c) =>
                  GuestMove(c, {"notify"}, "enqueue", call[c].user, call[c].invite)
           /\ \A i \in Invites :
                  BeginAccept(c, i) => GuestMove(c, {"idle"}, "accept", invite[i].user, i)
           /\ EnqueueEmail(c) => GuestMove(c, {"enqueue"}, "idle", None, None)
           /\ CommitAccept(c) => GuestMove(c, {"accept"}, "idle", None, None)
           /\ AbandonInvite(c) => GuestMove(c, Guesting, "idle", None, None)
  <1> USE DEF Typing
  <1>0. CallsTyped BY DEF CallsShaped
  <1>1. ASSUME NEW u \in Guests, BeginInvite(c, u)
        PROVE  GuestMove(c, {"idle"}, "link", u, None)
    <2>1. Begins(c, "link", u) /\ call[c].step = "idle"
      BY <1>0, <1>1, StartCall DEF BeginInvite, Steps
    <2> QED BY <2>1 DEF Begins, Becomes, Fields, GuestMove
  <1>2. ASSUME LinkUser(c)
        PROVE  GuestMove(c, {"link"}, "clear", call[c].user, call[c].invite)
    <2>1. Continues(c, "clear") /\ call[c].step = "link"
      BY <1>0, <1>2, AdvanceCall DEF LinkUser, Advance, Steps
    <2> QED BY <2>1 DEF Continues, Becomes, Fields, GuestMove
  <1>3. ASSUME ClearInvites(c)
        PROVE  GuestMove(c, {"clear"}, "create", call[c].user, call[c].invite)
    <2>1. Continues(c, "create") /\ call[c].step = "clear"
      BY <1>0, <1>3, AdvanceCall DEF ClearInvites, Advance, Steps
    <2> QED BY <2>1 DEF Continues, Becomes, Fields, GuestMove
  <1>4. ASSUME CreateInvite(c)
        PROVE  \E i \in Unused :
                   /\ invite' = [invite EXCEPT
                                    ![i] = [status |-> "pending", user |-> call[c].user]]
                   /\ GuestMove(c, {"create"}, "notify", call[c].user, i)
    <2>1. PICK i \in Unused :
              /\ invite' = [invite EXCEPT ![i] = [status |-> "pending", user |-> call[c].user]]
              /\ Becomes(c, "notify", call[c].user, call[c].jti, call[c].root, i, call[c].era,
                         call[c].late, call[c].twin)
      BY <1>0, <1>4, CreateInviteCall
    <2>2. call[c].step = "create" BY <1>4 DEF CreateInvite
    <2>3. GuestMove(c, {"create"}, "notify", call[c].user, i)
      BY <2>1, <2>2 DEF Becomes, Fields, GuestMove
    <2> QED BY <2>1, <2>3
  <1>5. ASSUME CreateNotification(c)
        PROVE  GuestMove(c, {"notify"}, "enqueue", call[c].user, call[c].invite)
    <2>1. Continues(c, "enqueue") /\ call[c].step = "notify"
      BY <1>0, <1>5, AdvanceCall DEF CreateNotification, Advance, Steps
    <2> QED BY <2>1 DEF Continues, Becomes, Fields, GuestMove
  <1>6. ASSUME NEW i \in Invites, BeginAccept(c, i)
        PROVE  GuestMove(c, {"idle"}, "accept", invite[i].user, i)
    <2>1. invite[i].user \in Guests BY <1>6 DEF BeginAccept, InvitationTypeOK
    <2>2. Becomes(c, "accept", invite[i].user, None, None, i, 0, FALSE, FALSE)
          /\ call[c].step = "idle"
      BY <1>0, <1>6, <2>1, AcceptCall
    <2> QED BY <2>2 DEF Becomes, Fields, GuestMove
  <1>7. ASSUME NEW S, call[c].step \in S, EnqueueEmail(c) \/ CommitAccept(c) \/ AbandonInvite(c)
        PROVE  GuestMove(c, S, "idle", None, None)
    <2>1. Ends(c) BY <1>0, <1>7, EndingCall
    <2> QED BY <1>7, <2>1 DEF Ends, Begins, Becomes, Fields, GuestMove
  <1>8. EnqueueEmail(c) => GuestMove(c, {"enqueue"}, "idle", None, None)
    BY <1>7 DEF EnqueueEmail
  <1>9. CommitAccept(c) => GuestMove(c, {"accept"}, "idle", None, None)
    BY <1>7 DEF CommitAccept
  <1>10. AbandonInvite(c) => GuestMove(c, Guesting, "idle", None, None)
    BY <1>7 DEF AbandonInvite, Guesting
  <1> QED BY <1>1, <1>2, <1>3, <1>4, <1>5, <1>6, <1>8, <1>9, <1>10

LEMMA CallInvitesStep ==
    ASSUME Typing, Next
    PROVE  CallInvites'
  <1> USE DEF Typing
  <1>0. InviteKeeps BY InviteKept
  <1>1. ASSUME NEW d \in Calls, GuestSame(d)
        PROVE  call'[d].step \in {"notify", "enqueue", "accept"}
                   => invite'[call'[d].invite].user = call'[d].user
    BY <1>0, <1>1 DEF GuestSame, Guesting, InviteKeeps, CallInvites, CallsShaped, ShapeOf
  <1>2. CASE \A d \in Calls : GuestSame(d) BY <1>1, <1>2 DEF CallInvites
  <1>3. ASSUME NEW c \in Calls, InvitationNext(c) PROVE CallInvites'
    <2>1. ASSUME NEW from, NEW to, NEW u, NEW i, GuestMove(c, from, to, u, i),
                 to \in {"notify", "enqueue", "accept"} => invite'[i].user = u
          PROVE  CallInvites'
      <3>1. \A d \in Calls \ {c} : GuestSame(d) BY <2>1 DEF GuestMove, GuestSame
      <3>2. call'[c].step \in {"notify", "enqueue", "accept"}
                => invite'[call'[c].invite].user = call'[c].user
        BY <2>1 DEF GuestMove
      <3> QED BY <1>1, <3>1, <3>2 DEF CallInvites
    <2>2. CASE CreateInvite(c)
      <3>1. PICK i \in Unused :
                /\ invite' = [invite EXCEPT
                                 ![i] = [status |-> "pending", user |-> call[c].user]]
                /\ GuestMove(c, {"create"}, "notify", call[c].user, i)
        BY <2>2, GuestMoves
      <3>2. invite'[i].user = call[c].user
        BY <3>1 DEF Unused, InvitationTypeOK
      <3> QED BY <2>1, <3>1, <3>2
    <2>3. CASE CreateNotification(c)
      <3>1. call[c].step = "notify" /\ call[c].invite \in Invites /\ call[c].user # None
        BY <2>3 DEF CreateNotification, Advance, CallsShaped, ShapeOf
      <3>2. invite'[call[c].invite].user = call[c].user
        BY <1>0, <3>1 DEF InviteKeeps, CallInvites
      <3> QED BY <2>1, <2>3, <3>2, GuestMoves
    <2>4. ASSUME NEW i \in Invites, BeginAccept(c, i) PROVE CallInvites'
      <3>1. invite' = invite BY <2>4 DEF BeginAccept
      <3> QED BY <2>1, <2>4, <3>1, GuestMoves
    <2> QED BY <1>3, <2>1, <2>2, <2>3, <2>4, GuestMoves DEF InvitationNext
  <1> QED BY <1>2, <1>3, GuestsSame


LEMMA MailStep ==
    ASSUME Typing, Next
    PROVE  MailTyped' /\ crashes' \in 0 .. MaxCrashes
  <1> USE DEF Typing
  <1>0. MailTyped /\ crashes \in 0 .. MaxCrashes BY InvitationTypes
  <1>1. CASE UNCHANGED <<mail, crashes>> BY <1>0, <1>1 DEF MailTyped, MailBounds
  <1>2. ASSUME NEW i \in Invites, NEW r \in MailRows, mail' = [mail EXCEPT ![i] = r],
               r.job \in {"sending", "sent", "failing"} => r.left < Attempts
        PROVE  MailTyped'
    BY <1>0, <1>2 DEF MailTyped, MailBounds
  <1>3. ASSUME NEW c \in Calls, CreateNotification(c) PROVE MailTyped' /\ UNCHANGED crashes
    <2> DEFINE i == call[c].invite
               r == [mail[i] EXCEPT !.delivery = "QUEUED"]
    <2>1. i \in Invites BY <1>3 DEF CreateNotification, Advance, CallsShaped, ShapeOf
    <2>2. mail[i] \in MailRows BY <1>0, <2>1 DEF MailTyped
    <2>3. r \in MailRows /\ r.job = mail[i].job /\ r.left = mail[i].left
      BY <2>2 DEF MailRows
    <2>4. mail' = [mail EXCEPT ![i] = r] /\ UNCHANGED crashes BY <1>3 DEF CreateNotification
    <2> QED BY <1>0, <1>2, <2>1, <2>3, <2>4 DEF MailTyped, MailBounds
  <1>4. ASSUME NEW c \in Calls, EnqueueEmail(c) PROVE MailTyped' /\ UNCHANGED crashes
    <2> DEFINE i == call[c].invite
               r == [mail[i] EXCEPT !.job = "waiting"]
    <2>1. i \in Invites BY <1>4 DEF EnqueueEmail, CallsShaped, ShapeOf
    <2>2. mail[i] \in MailRows BY <1>0, <2>1 DEF MailTyped
    <2>3. r \in MailRows /\ r.job = "waiting" BY <2>2 DEF MailRows
    <2>4. (mail' = mail \/ mail' = [mail EXCEPT ![i] = r]) /\ UNCHANGED crashes
      BY <1>4 DEF EnqueueEmail
    <2>5. CASE mail' = [mail EXCEPT ![i] = r]
      <3> HIDE DEF r, i
      <3>1. MailTyped' BY <1>2, <2>1, <2>3, <2>5
      <3> QED BY <2>4, <3>1
    <2>6. CASE mail' = mail BY <1>0, <2>4, <2>6 DEF MailTyped, MailBounds
    <2> QED BY <2>4, <2>5, <2>6
  <1>5. ASSUME NEW i \in Invites, MailNext(i)
        PROVE  MailTyped' /\ crashes' \in 0 .. MaxCrashes
    <2>1. mail[i] \in MailRows BY <1>0 DEF MailTyped
    <2>2. mail[i].left \in 0 .. Attempts /\ mail[i].out \in Nat BY <2>1 DEF MailRows
    <2>3. CASE TakeMail(i)
      <3> DEFINE r == [mail[i] EXCEPT !.job = "sending", !.left = mail[i].left - 1]
      <3>1. mail[i].left > 0 /\ mail' = [mail EXCEPT ![i] = r] /\ UNCHANGED crashes
        BY <2>3 DEF TakeMail, Mailing
      <3>2. mail[i].left - 1 \in 0 .. Attempts /\ mail[i].left - 1 < Attempts
        BY <2>2, <3>1
      <3>3. r \in MailRows /\ r.left = mail[i].left - 1 BY <2>1, <3>2 DEF MailRows
      <3> QED BY <1>0, <1>2, <3>1, <3>2, <3>3
    <2>4. CASE SendMail(i)
      <3> DEFINE r == [mail[i] EXCEPT !.job = "sent", !.out = mail[i].out + 1]
      <3>1. mail[i].job = "sending" /\ mail' = [mail EXCEPT ![i] = r] /\ UNCHANGED crashes
        BY <2>4 DEF SendMail, Handling, Mailing
      <3>2. mail[i].out + 1 \in Nat BY <2>2
      <3>3. r \in MailRows /\ r.left = mail[i].left BY <2>1, <3>2 DEF MailRows
      <3> QED BY <1>0, <1>2, <3>1, <3>3 DEF MailTyped, MailBounds
    <2>5. CASE SendFails(i)
      <3> DEFINE r == [mail[i] EXCEPT !.job = "failing"]
      <3>1. mail[i].job = "sending" /\ mail' = [mail EXCEPT ![i] = r] /\ UNCHANGED crashes
        BY <2>5 DEF SendFails, Handling, Mailing
      <3>2. r \in MailRows /\ r.left = mail[i].left BY <2>1 DEF MailRows
      <3> QED BY <1>0, <1>2, <3>1, <3>2 DEF MailTyped, MailBounds
    <2>6. CASE RecordSent(i)
      <3> DEFINE s == IF mail[i].delivery = "QUEUED" THEN "SENT" ELSE mail[i].delivery
                 r == [mail[i] EXCEPT !.job = "over", !.delivery = s]
      <3>1. mail' = [mail EXCEPT ![i] = r] /\ UNCHANGED crashes
        BY <2>6 DEF RecordSent, Handling, Mailing
      <3>2. s \in {"none", "QUEUED", "SENT", "FAILED"} BY <2>1 DEF MailRows
      <3>3. r \in MailRows /\ r.job = "over" BY <2>1, <3>2 DEF MailRows
      <3> QED BY <1>0, <1>2, <3>1, <3>3
    <2>7. CASE RecordLost(i)
      <3> DEFINE r == [mail[i] EXCEPT !.job = "failing"]
      <3>1. /\ mail[i].job = "sent" /\ mail' = [mail EXCEPT ![i] = r]
            /\ crashes < MaxCrashes /\ crashes' = crashes + 1
        BY <2>7 DEF RecordLost, Handling, Mailing
      <3>2. r \in MailRows /\ r.left = mail[i].left BY <2>1 DEF MailRows
      <3> QED BY <1>0, <1>2, <3>1, <3>2 DEF MailTyped, MailBounds
    <2>8. CASE RecordFailed(i)
      <3> DEFINE r == [mail[i] EXCEPT !.job = Again(i), !.delivery = "FAILED"]
      <3>1. mail' = [mail EXCEPT ![i] = r] /\ UNCHANGED crashes
        BY <2>8 DEF RecordFailed, Handling, Mailing
      <3>2. Again(i) \in {"waiting", "over"} BY DEF Again
      <3>3. r \in MailRows /\ r.job = Again(i) BY <2>1, <3>2 DEF MailRows
      <3> QED BY <1>0, <1>2, <3>1, <3>2, <3>3
    <2>9. CASE WorkerDies(i)
      <3> DEFINE r == IF mail[i].stalled THEN [mail[i] EXCEPT !.job = "over", !.silent = "stalled"]
                      ELSE [mail[i] EXCEPT !.job = "waiting", !.left = mail[i].left + 1,
                                           !.stalled = TRUE]
      <3>1. /\ mail[i].job \in {"sending", "sent", "failing"}
            /\ mail' = [mail EXCEPT ![i] = r]
            /\ crashes < MaxCrashes /\ crashes' = crashes + 1
        BY <2>9 DEF WorkerDies, Handling, Mailing
      <3>2. mail[i].left < Attempts BY <3>1 DEF MailBounds
      <3>3. mail[i].left + 1 \in 0 .. Attempts BY <2>2, <3>2
      <3>4. r \in MailRows /\ r.job \in {"waiting", "over"} BY <2>1, <3>3 DEF MailRows
      <3>5. crashes' \in 0 .. MaxCrashes BY <1>0, <3>1
      <3> HIDE DEF r
      <3>6. MailTyped' BY <1>2, <3>1, <3>4
      <3> QED BY <3>5, <3>6
    <2>10. CASE IgnoreMail(i)
      <3> DEFINE r == [mail[i] EXCEPT !.job = "over", !.silent = "ignored"]
      <3>1. mail' = [mail EXCEPT ![i] = r] /\ UNCHANGED crashes
        BY <2>10 DEF IgnoreMail, Handling, Mailing
      <3>2. r \in MailRows /\ r.job = "over" BY <2>1 DEF MailRows
      <3> HIDE DEF r
      <3> QED BY <1>0, <1>2, <3>1, <3>2
    <2>11. CASE ReadFails(i) \/ FailureLost(i)
      <3> DEFINE s == IF mail[i].left > 0 THEN mail[i].silent ELSE "thrown"
                 r == [mail[i] EXCEPT !.job = Again(i), !.silent = s]
      <3>1. mail' = [mail EXCEPT ![i] = r] /\ UNCHANGED crashes
        BY <2>11 DEF ReadFails, FailureLost, ThrowSilently, Handling, Mailing
      <3>2. Again(i) \in {"waiting", "over"} BY DEF Again
      <3>3. s \in {"no", "ignored", "thrown", "stalled"} BY <2>1 DEF MailRows
      <3> HIDE DEF s
      <3>4. r \in MailRows /\ r.job = Again(i) BY <2>1, <3>2, <3>3 DEF MailRows
      <3> HIDE DEF r
      <3> QED BY <1>0, <1>2, <3>1, <3>2, <3>4
    <2> QED BY <1>5, <2>3, <2>4, <2>5, <2>6, <2>7, <2>8, <2>9, <2>10, <2>11 DEF MailNext
  <1>6. ASSUME NEW c \in Calls, InvitationNext(c), ~CreateNotification(c), ~EnqueueEmail(c)
        PROVE  UNCHANGED <<mail, crashes>>
    BY <1>6 DEF InvitationNext, BeginInvite, LinkUser, ClearInvites, CreateInvite,
           BeginAccept, CommitAccept, AbandonInvite, invitationVars
  <1>7. ASSUME NEW i \in Invites, InviteExpires(i) PROVE UNCHANGED <<mail, crashes>>
    BY <1>7 DEF InviteExpires
  <1> QED BY <1>0, <1>1, <1>3, <1>4, <1>5, <1>6, <1>7, NextShapes, OpenPageFrame DEF invitationVars

LEMMA CrossedStep ==
    ASSUME Typing, Next
    PROVE  crossed' \subseteq Guests
  <1>0. crossed \subseteq Guests BY DEF Typing, InvitationTypeOK
  <1>1. ASSUME NEW c \in Calls, InvitationNext(c) PROVE crossed' \subseteq Guests
    <2>1. ASSUME NEW u \in Guests, BeginInvite(c, u) PROVE crossed' \subseteq Guests
      BY <1>0, <2>1 DEF BeginInvite, Cross
    <2>2. ASSUME NEW i \in Invites, BeginAccept(c, i) PROVE crossed' \subseteq Guests
      <3>1. invite[i].user \in Guests BY <2>2 DEF BeginAccept, Typing, InvitationTypeOK
      <3> QED BY <1>0, <2>2, <3>1 DEF BeginAccept, Cross
    <2> QED BY <1>0, <1>1, <2>1, <2>2
        DEF InvitationNext, LinkUser, ClearInvites, CreateInvite, CreateNotification,
            EnqueueEmail, CommitAccept, AbandonInvite, invitationVars
  <1>2. ASSUME NEW i \in Invites, InviteExpires(i) PROVE UNCHANGED crossed
    BY <1>2 DEF InviteExpires
  <1> QED BY <1>0, <1>1, <1>2, NextShapes, OpenPageFrame, MailFrame DEF invitationVars

LEMMA CountersStep ==
    ASSUME Typing, Next
    PROVE  CountersTyped'
  <1> USE DEF Typing
  <1>1. started' \in 0 .. MaxStarts
    <2>1. started' = started \/ (started < MaxStarts /\ started' = started + 1)
      <3>1. ASSUME NEW c \in Calls, SessionNext(c)
            PROVE  started' = started \/ (started < MaxStarts /\ started' = started + 1)
        BY <3>1 DEF SessionNext, Login, OperatorLogin, SignIn, Refresh, Logout, Start, Verify,
           RefuseToken, Rotate, IssueTokens, StoreSession, ClearSession, LoseAnswer, Drop,
           RevokeAllRefreshTokens, Leave
      <3>2. ASSUME NEW c \in Calls, InvitationNext(c)
            PROVE  started' = started \/ (started < MaxStarts /\ started' = started + 1)
        BY <3>2 DEF InvitationNext, BeginInvite, LinkUser, ClearInvites, CreateInvite,
           CreateNotification, EnqueueEmail, BeginAccept, CommitAccept, AbandonInvite, Start
      <3> QED BY <3>1, <3>2, NextShapes, MailFrame
          DEF RevokeSessions, OpenPage, Expire, InviteExpires
    <2> QED BY <2>1 DEF CountersTyped
  <1>2. revocations' \in [Users -> Nat]
    <2>1. CASE UNCHANGED revocations BY <2>1 DEF CountersTyped
    <2>2. ASSUME NEW u, RevokeRows(u) PROVE revocations' \in [Users -> Nat]
      <3>1. revocations' = [revocations EXCEPT ![u] = revocations[u] + 1]
        BY <2>2 DEF RevokeRows
      <3>2. CASE u \in Users BY <3>1, <3>2 DEF CountersTyped
      <3>3. CASE u \notin Users BY <3>1, <3>3 DEF CountersTyped
      <3> QED BY <3>2, <3>3
    <2>3. ASSUME NEW c \in Calls, SessionNext(c)
          PROVE  revocations' \in [Users -> Nat]
      <3>1. UNCHANGED revocations \/ RevokeRows(call[c].user)
        BY <2>3 DEF SessionNext, Login, OperatorLogin, SignIn, Refresh, Logout, Verify,
           RefuseToken, Rotate, IssueTokens, StoreSession, ClearSession, LoseAnswer, Drop,
           RevokeAllRefreshTokens, Leave
      <3> QED BY <2>1, <2>2, <3>1
    <2>4. ASSUME NEW j, Expire(j) PROVE UNCHANGED revocations BY <2>4 DEF Expire
    <2>5. ASSUME NEW i, InviteExpires(i) PROVE UNCHANGED revocations
      BY <2>5 DEF InviteExpires
    <2>6. ASSUME NEW u, RevokeSessions(u) PROVE revocations' \in [Users -> Nat]
      BY <2>2, <2>6 DEF RevokeSessions
    <2> QED BY <2>1, <2>3, <2>4, <2>5, <2>6, NextShapes, OpenPageFrame, MailFrame, InvitationFrame
  <1>3. account' \in [Users -> [password: BOOLEAN, linked: BOOLEAN]]
    <2>1. CASE UNCHANGED account BY <2>1 DEF CountersTyped
    <2>2. ASSUME NEW c \in Calls, SessionNext(c) PROVE UNCHANGED account
      BY <2>2 DEF SessionNext, Login, OperatorLogin, SignIn, Refresh, Logout, Verify,
         RefuseToken, Rotate, IssueTokens, StoreSession, ClearSession, LoseAnswer, Drop,
         RevokeAllRefreshTokens, Leave
    <2>3. ASSUME NEW c \in Calls, InvitationNext(c)
          PROVE  account' \in [Users -> [password: BOOLEAN, linked: BOOLEAN]]
      <3>1. \/ UNCHANGED account
            \/ account' = [account EXCEPT ![call[c].user] =
                              [account[call[c].user] EXCEPT !.linked = TRUE]]
            \/ account' = [account EXCEPT ![call[c].user] =
                              [account[call[c].user] EXCEPT !.password = TRUE]]
        BY <2>3 DEF InvitationNext, BeginInvite, LinkUser, ClearInvites, CreateInvite,
           CreateNotification, EnqueueEmail, BeginAccept, CommitAccept, AbandonInvite
      <3> DEFINE u == call[c].user
      <3>2. ASSUME NEW r \in [password: BOOLEAN, linked: BOOLEAN],
                   account' = [account EXCEPT ![u] = r]
            PROVE  account' \in [Users -> [password: BOOLEAN, linked: BOOLEAN]]
        BY <3>2 DEF CountersTyped
      <3>3. CASE u \in Users
        <4>1. account[u] \in [password: BOOLEAN, linked: BOOLEAN]
          BY <3>3 DEF CountersTyped
        <4>2. /\ [account[u] EXCEPT !.linked = TRUE] \in [password: BOOLEAN, linked: BOOLEAN]
              /\ [account[u] EXCEPT !.password = TRUE] \in [password: BOOLEAN, linked: BOOLEAN]
          BY <4>1
        <4> QED BY <2>1, <3>1, <3>2, <4>2
      <3>4. CASE u \notin Users BY <3>1, <3>4 DEF CountersTyped
      <3> QED BY <3>3, <3>4
    <2> QED BY <2>1, <2>2, <2>3, NextShapes, OpenPageFrame, MailFrame
        DEF RevokeSessions, Expire, InviteExpires
  <1> QED BY <1>1, <1>2, <1>3 DEF CountersTyped

-----------------------------------------------------------------------------
LEMMA TypingInit == Init => Typing
  <1> SUFFICES ASSUME Init PROVE Typing OBVIOUS
  <1> USE DEF Init, SessionInit, InvitationInit
  <1>1. CallsShaped
    <2>1. Resting \in Requests /\ ShapeOf(Resting) BY DEF Resting, Requests, Steps, ShapeOf
    <2> QED BY <2>1 DEF CallsShaped, CallsTyped
  <1>2. TokensShaped
    <2>1. NoToken \in Tokens /\ NoToken.status = "none" /\ NoToken.user = None
      BY DEF NoToken, Tokens
    <2> QED BY <2>1 DEF TokensShaped, TokensTyped, TokenShape
  <1>3. Holding
    <2>1. \A c \in Calls : call[c].step = "idle" BY DEF Resting
    <2>2. Copy(None) \in Copies /\ Copy(None).jti = None BY DEF Copy, Copies
    <2> QED BY <2>1, <2>2 DEF Holding, StoreTyped, StoreHolds, CallHolds
  <1>8. PagesTyped
    <2>1. Away \in Pages BY DEF Away, Pages
    <2> QED BY <2>1 DEF PagesTyped
  <1>4. CountersTyped BY DEF CountersTyped
  <1>5. InvitesTyped
    <2>1. NoInvite \in InviteRows /\ NoInvite.status = "none" /\ NoInvite.user = None
      BY DEF NoInvite, InviteRows
    <2> QED BY <2>1 DEF InvitesTyped
  <1>6. MailTyped
    <2>1. NoMail \in MailRows /\ NoMail.job = "none" BY DEF NoMail, MailRows
    <2> QED BY <2>1 DEF MailTyped, MailBounds
  <1>7. CallInvites
    <2>1. \A c \in Calls : call[c].step = "idle" BY DEF Resting
    <2> QED BY <2>1 DEF CallInvites
  <1> QED BY <1>1, <1>2, <1>3, <1>4, <1>5, <1>6, <1>7, <1>8, InvitationTypes DEF Typing

LEMMA TypingStep == Typing /\ [Next]_vars => Typing'
  <1> SUFFICES ASSUME Typing, [Next]_vars PROVE Typing' OBVIOUS
  <1>1. CASE UNCHANGED vars
    <2> USE <1>1 DEF vars
    <2>1. CallsShaped' /\ TokensShaped'
      BY DEF Typing, CallsShaped, CallsTyped, ShapeOf, TokensShaped, TokensTyped, TokenShape
    <2>2. Holding' /\ PagesTyped'
      BY DEF Typing, Holding, StoreTyped, StoreHolds, CallHolds, Owned, PagesTyped
    <2>3. CountersTyped' /\ InvitationTypeOK' /\ MailBounds' /\ CallInvites'
      BY DEF Typing, CountersTyped, InvitationTypeOK, MailBounds, CallInvites
    <2> QED BY <2>1, <2>2, <2>3 DEF Typing
  <1>2. CASE Next
    <2>1. InvitationTypeOK' /\ MailBounds'
      BY <1>2, InvitesStep, MailStep, CrossedStep
         DEF InvitationTypeOK, InvitesTyped, MailTyped, InviteRows, MailRows
    <2> QED BY <1>2, <2>1, ShapeStep, TokenStep, HoldingStep, PagesStep, CountersStep,
               CallInvitesStep DEF Typing
  <1> QED BY <1>1, <1>2

LEMMA AlwaysTyped == Spec => []Typing
  BY TypingInit, TypingStep, PTL DEF Spec

(* Types hold for any users, tokens, requests and invitations.              *)
THEOREM TypeCorrect == Spec => []TypeOK
  <1>1. Typing => TypeOK
    BY DEF Typing, TypeOK, SessionTypeOK, CallsShaped, CallsTyped, ShapeOf, TokensShaped,
       TokensTyped, TokenShape, Holding, StoreTyped, StoreHolds, Owned, PagesTyped,
       CountersTyped
  <1> QED BY <1>1, AlwaysTyped, PTL


-----------------------------------------------------------------------------
(* Revocation.  What makes RevocationHolds inductive: a refresh past its    *)
(* look at the token carries the era of a good sign-in, or is late.         *)
EraCalls ==
    \A c \in Calls :
        call[c].step \in {"rotate", "issue"} /\ call[c].root # None /\ ~call[c].late
            => call[c].era = revocations[call[c].user]

Eras == RevocationHolds /\ EraCalls

NoBetter ==
    \A j \in Jtis : token'[j].status = "live" =>
        /\ token[j].status = "live" /\ token'[j].user = token[j].user
        /\ token'[j].era = token[j].era /\ token'[j].late = token[j].late

EraSame(d) ==
    \/ call'[d].step \notin {"rotate", "issue"} \/ call'[d].root = None
    \/ /\ call[d].step \in {"rotate", "issue"} /\ call'[d].root = call[d].root
       /\ call'[d].era = call[d].era /\ call'[d].late = call[d].late
       /\ call'[d].user = call[d].user

LEMMA EraKept ==
    ASSUME Typing, Eras, UNCHANGED revocations, NoBetter, \A d \in Calls : EraSame(d)
    PROVE  Eras'
  <1>1. RevocationHolds' BY DEF Eras, RevocationHolds, NoBetter
  <1>2. EraCalls' BY DEF Eras, EraCalls, EraSame
  <1> QED BY <1>1, <1>2 DEF Eras

(* All tokens of a user go at once, and the refreshes that are past their   *)
(* look at one are late.                                                    *)
LEMMA EraRevoked ==
    ASSUME Typing, Eras, NEW u \in Users, RevokeRows(u),
           \A d \in Calls :
               \/ call'[d].step \notin {"rotate", "issue"}
               \/ Same(call'[d], call[d]) /\ call'[d].late = (call[d].late \/ d \in Checked(u))
    PROVE  Eras'
  <1>0. revocations' = [revocations EXCEPT ![u] = revocations[u] + 1] BY DEF RevokeRows
  <1>1. RevocationHolds'
    <2> SUFFICES ASSUME NEW j \in Jtis, token'[j].status = "live", ~token'[j].late
                 PROVE  token'[j].era = revocations'[token'[j].user]
      BY DEF RevocationHolds
    <2>1. token'[j] = IF token[j].user = u THEN [token[j] EXCEPT !.status = "revoked"]
                      ELSE token[j]
      BY DEF RevokeRows
    <2>2. token[j] \in Tokens BY DEF Typing, TokensShaped, TokensTyped
    <2>3. token[j].user # u /\ token'[j] = token[j] BY <2>1, <2>2 DEF Tokens
    <2>4. token[j].user \in Users
      BY <2>3 DEF Typing, TokensShaped, TokenShape
    <2>5. revocations'[token[j].user] = revocations[token[j].user]
      BY <1>0, <2>3, <2>4 DEF Typing, CountersTyped
    <2> QED BY <2>3, <2>5 DEF Eras, RevocationHolds
  <1>2. EraCalls'
    <2> SUFFICES ASSUME NEW d \in Calls, call'[d].step \in {"rotate", "issue"},
                        call'[d].root # None, ~call'[d].late
                 PROVE  call'[d].era = revocations'[call'[d].user]
      BY DEF EraCalls
    <2>1. Same(call'[d], call[d]) /\ ~call[d].late /\ d \notin Checked(u) OBVIOUS
    <2>2. call[d].user # u BY <2>1 DEF Same, Checked, Refreshing
    <2>3. call[d].user \in Users BY <2>1 DEF Same, Typing, CallsShaped, ShapeOf
    <2>4. revocations'[call[d].user] = revocations[call[d].user]
      BY <1>0, <2>2, <2>3 DEF Typing, CountersTyped
    <2> QED BY <2>1, <2>4 DEF Same, Eras, EraCalls
  <1> QED BY <1>1, <1>2 DEF Eras

LEMMA EraSession ==
    ASSUME Typing, Eras, NEW c \in Calls, SessionNext(c)
    PROVE  Eras'
  <1> USE DEF Typing
  <1>0. CallsTyped /\ TokensTyped /\ ShapeOf(call[c]) BY DEF CallsShaped, TokensShaped
  <1>1. ASSUME UNCHANGED <<token, revocations>>, NEW s, NEW u, NEW j, NEW r, NEW i, NEW e,
               NEW l, NEW t, Becomes(c, s, u, j, r, i, e, l, t),
               s \notin {"rotate", "issue"} \/ r = None
        PROVE  Eras'
    <2>1. EraSame(c) BY <1>1 DEF Becomes, Fields, EraSame
    <2>2. \A d \in Calls \ {c} : EraSame(d) BY <1>1 DEF Becomes, EraSame
    <2>3. NoBetter BY <1>1 DEF NoBetter
    <2> QED BY <1>1, <2>1, <2>2, <2>3, EraKept
  <1>2. ASSUME NEW u \in Users, NEW t \in Tabs,
               Login(c, u, t) \/ OperatorLogin(c, u, t) PROVE Eras'
    <2>1. Begins(c, "issue", u) /\ UNCHANGED <<token, revocations>>
      BY <1>2, SignInShape DEF Login, OperatorLogin, SignIn
    <2> QED BY <1>1, <2>1 DEF Begins
  <1>3. ASSUME NEW u \in Users, NEW t \in Tabs, Refresh(c, u, t) PROVE Eras'
    <2>1. store[u][t].jti \in Jtis BY <1>3, HeldToken DEF Refresh
    <2>2. /\ Fields(call'[c], "verify", u, store[u][t].jti, None, None, 0, FALSE, Beside(u) # {})
          /\ \A d \in Calls \ {c} : Same(call'[d], call[d]) /\ call'[d].late = call[d].late
      BY <1>0, <1>3, <2>1, RefreshCall
    <2>3. EraSame(c) BY <2>2 DEF Fields, EraSame
    <2>4. \A d \in Calls \ {c} : EraSame(d) BY <2>2 DEF Same, EraSame
    <2>5. NoBetter /\ UNCHANGED revocations BY <1>3 DEF Refresh, NoBetter
    <2> QED BY <2>3, <2>4, <2>5, EraKept
  <1>4. ASSUME NEW u \in Users, NEW t \in Tabs, Logout(c, u, t) PROVE Eras'
    <2>1. Begins(c, "logout", u) /\ UNCHANGED <<token, revocations>>
      BY <1>0, <1>4, StartCall DEF Logout, Steps
    <2> QED BY <1>1, <2>1 DEF Begins
  <1>5. CASE Verify(c)
    <2> DEFINE t == token[call[c].jti]
    <2>1. call[c].step = "verify" /\ t.status = "live" BY <1>5 DEF Verify, Accepts
    <2>2. call[c].jti \in Jtis /\ t.user = call[c].user
      BY <1>0, <2>1 DEF ShapeOf, Holding, CallHolds, Owned
    <2>3. UNCHANGED <<token, revocations>> BY <1>5 DEF Verify
    <2>4. Becomes(c, "rotate", call[c].user, call[c].jti, t.root, call[c].invite, t.era,
                  t.late, call[c].twin \/ t.twin)
      BY <1>0, <1>5, <2>2, VerifyCall
    <2>5. ~t.late => t.era = revocations[call[c].user]
      BY <2>1, <2>2 DEF Eras, RevocationHolds
    <2>6. RevocationHolds' BY <2>3 DEF Eras, RevocationHolds
    <2>7. call'[c].user = call[c].user /\ call'[c].era = t.era /\ call'[c].late = t.late
      BY <2>4 DEF Becomes, Fields
    <2>8. \A d \in Calls \ {c} : call'[d] = call[d] BY <2>4 DEF Becomes
    <2> HIDE DEF t
    <2>9. EraCalls' BY <2>3, <2>5, <2>7, <2>8 DEF Eras, EraCalls
    <2> QED BY <2>6, <2>9 DEF Eras
  <1>6. CASE RefuseToken(c)
    <2>1. Continues(c, "refused") /\ UNCHANGED <<token, revocations>>
      BY <1>0, <1>6, AdvanceCall DEF RefuseToken, Steps
    <2> QED BY <1>1, <2>1 DEF Continues
  <1>7. CASE Rotate(c)
    <2>1. Continues(c, "issue") /\ call[c].step = "rotate" /\ UNCHANGED revocations
      BY <1>0, <1>7, AdvanceCall DEF Rotate, Advance, Steps
    <2>2. EraSame(c) BY <2>1 DEF Continues, Becomes, Fields, EraSame
    <2>3. \A d \in Calls \ {c} : EraSame(d) BY <2>1 DEF Continues, Becomes, EraSame
    <2>4. NoBetter
      <3> SUFFICES ASSUME NEW j \in Jtis, token'[j].status = "live" PROVE token'[j] = token[j]
        BY DEF NoBetter
      <3>1. token'[j] = IF j = call[c].jti THEN [token[j] EXCEPT !.status = "revoked"]
                        ELSE token[j]
        BY <1>0, <1>7 DEF Rotate, TokensTyped
      <3>2. token[j] \in Tokens BY <1>0 DEF TokensTyped
      <3> QED BY <3>1, <3>2 DEF Tokens
    <2> QED BY <2>1, <2>2, <2>3, <2>4, EraKept
  <1>8. CASE IssueTokens(c)
    <2> DEFINE q == call[c]
               t(j) == [status |-> "live", user |-> q.user,
                        root |-> IF q.root # None THEN q.root ELSE j,
                        era |-> IF q.root # None THEN q.era ELSE revocations[q.user],
                        late |-> q.late, twin |-> q.twin]
    <2>1. PICK j \in Fresh :
              /\ q.step = "issue" /\ token' = [token EXCEPT ![j] = t(j)]
              /\ Becomes(c, "answer", q.user, j, q.root, q.invite, q.era, q.late, q.twin)
      BY <1>0, <1>8, IssueCall
    <2>2. token'[j] = t(j) /\ \A k \in Jtis \ {j} : token'[k] = token[k]
      BY <1>0, <2>1 DEF TokensTyped, Fresh
    <2>3. /\ t(j).user = q.user /\ t(j).late = q.late
          /\ t(j).era = IF q.root # None THEN q.era ELSE revocations[q.user]
      OBVIOUS
    <2>4. ~q.late => t(j).era = revocations[q.user]
      BY <2>1, <2>3 DEF Eras, EraCalls
    <2>5. UNCHANGED revocations BY <1>8 DEF IssueTokens
    <2>6. \A d \in Calls : EraSame(d) BY <2>1 DEF Becomes, Fields, EraSame
    <2>7. EraCalls' BY <2>5, <2>6 DEF Eras, EraCalls, EraSame
    <2> HIDE DEF t
    <2>8. RevocationHolds' BY <2>2, <2>3, <2>4, <2>5 DEF Eras, RevocationHolds
    <2> QED BY <2>7, <2>8 DEF Eras
  <1>9. CASE StoreSession(c) \/ ClearSession(c) \/ LoseAnswer(c) \/ Leave(c)
    <2>1. UNCHANGED <<token, revocations>>
      BY <1>9 DEF StoreSession, ClearSession, LoseAnswer, Drop, Leave
    <2> QED BY <1>0, <1>1, <1>9, <2>1, EndingCall DEF Ends, Begins
  <1>10. CASE RevokeAllRefreshTokens(c)
    <2>1. call[c].user \in Users BY <1>0, <1>10 DEF RevokeAllRefreshTokens, ShapeOf
    <2>2. /\ call'[c].step = "leave"
          /\ \A d \in Calls \ {c} :
                 /\ Same(call'[d], call[d])
                 /\ call'[d].late = (call[d].late \/ d \in Checked(call[c].user))
      BY <1>0, <1>10, RevokeAllCall DEF Fields
    <2>3. RevokeRows(call[c].user) BY <1>10 DEF RevokeAllRefreshTokens
    <2>4. \A d \in Calls :
              \/ call'[d].step \notin {"rotate", "issue"}
              \/ /\ Same(call'[d], call[d])
                 /\ call'[d].late = (call[d].late \/ d \in Checked(call[c].user))
      BY <2>2
    <2> QED BY <1>0, <2>1, <2>3, <2>4, EraRevoked
  <1> QED BY <1>2, <1>3, <1>4, <1>5, <1>6, <1>7, <1>8, <1>9, <1>10 DEF SessionNext

LEMMA EraStep == Typing /\ Eras /\ [Next]_vars => Eras'
  <1> SUFFICES ASSUME Typing, Eras, [Next]_vars PROVE Eras' OBVIOUS
  <1>1. CASE UNCHANGED <<token, revocations, call>>
    BY <1>1 DEF Eras, RevocationHolds, EraCalls
  <1>2. ASSUME NEW c \in Calls, InvitationNext(c) PROVE Eras'
    <2>1. \A d \in Calls : EraSame(d)
      BY <1>2, InvitationPlain DEF PlainChange, Plain, EraSame
    <2>2. NoBetter /\ UNCHANGED revocations BY <1>2, InvitationFrame DEF NoBetter
    <2> QED BY <2>1, <2>2, EraKept
  <1>3. ASSUME NEW u \in Users, RevokeSessions(u) PROVE Eras'
    BY <1>3, RevokeSessionsCall, EraRevoked DEF RevokeSessions, Typing, CallsShaped
  <1>4. ASSUME NEW j \in Jtis, Expire(j) PROVE Eras'
    <2>1. UNCHANGED <<call, revocations>> BY <1>4 DEF Expire
    <2>2. \A d \in Calls : EraSame(d) BY <2>1 DEF EraSame
    <2>3. NoBetter
      <3> SUFFICES ASSUME NEW k \in Jtis, token'[k].status = "live" PROVE token'[k] = token[k]
        BY DEF NoBetter
      <3>1. token'[k] = IF j = k THEN [token[k] EXCEPT !.status = "expired"] ELSE token[k]
        BY <1>4 DEF Expire, Typing, TokensShaped, TokensTyped
      <3>2. token[k] \in Tokens BY DEF Typing, TokensShaped, TokensTyped
      <3> QED BY <3>1, <3>2 DEF Tokens
    <2> QED BY <2>1, <2>2, <2>3, EraKept
  <1>5. ASSUME NEW i \in Invites, InviteExpires(i) PROVE UNCHANGED <<token, revocations, call>>
    BY <1>5 DEF InviteExpires
  <1>6. CASE UNCHANGED vars BY <1>1, <1>6 DEF vars
  <1> QED BY <1>1, <1>2, <1>3, <1>4, <1>5, <1>6, EraSession, MailFrame, NextShapes, OpenPageFrame

(* Once all sessions of a user have been revoked, no refresh token of an    *)
(* earlier sign-in is good, unless it was being issued at that moment.      *)
THEOREM RevocationAlwaysHolds == Spec => []RevocationHolds
  <1>1. Init => Eras
    BY DEF Init, SessionInit, Eras, RevocationHolds, EraCalls, NoToken, Resting
  <1>2. Eras => RevocationHolds BY DEF Eras
  <1> QED BY <1>1, <1>2, EraStep, AlwaysTyped, PTL DEF Spec


-----------------------------------------------------------------------------
(* Invitations.  What makes InviteSpent inductive: a guest not crossed has  *)
(* one request at most at work on its invitation; while that request is     *)
(* inviting, the guest has no password; and once it has cleared, no         *)
(* invitation is left.                                                      *)
Working == {"link", "clear", "create", "accept"}
OpenStatus == {"pending", "expired", "accepted"}
IsOpen(i, u) == invite[i].user = u /\ invite[i].status \in OpenStatus
IsAccepted(i, u) == invite[i].user = u /\ invite[i].status = "accepted"
At(c, u, steps) == call[c].user = u /\ call[c].step \in steps

PasswordEarned ==
    \A u \in Guests : account[u].password <=> \E i \in Invites : IsAccepted(i, u)
Linked ==
    \A u \in Guests :
        /\ \A i \in Invites : invite[i].user = u => account[u].linked
        /\ \A c \in Calls : At(c, u, {"clear", "create"}) => account[u].linked
Sole ==
    \A u \in Guests \ crossed : \A c, d \in Calls :
        At(c, u, Working) /\ At(d, u, Working) => c = d
NotYet ==
    \A u \in Guests \ crossed : \A c \in Calls :
        At(c, u, {"link", "clear", "create"}) => ~account[u].password
Cleared ==
    \A u \in Guests \ crossed : \A c \in Calls :
        At(c, u, {"create"}) => \A i \in Invites : ~IsOpen(i, u)
OneOpen ==
    \A u \in Guests \ crossed : \A i, k \in Invites : IsOpen(i, u) /\ IsOpen(k, u) => i = k

Spent == PasswordEarned /\ Linked /\ Sole /\ NotYet /\ Cleared /\ OneOpen

LEMMA SpentHolds ==
    ASSUME Spent
    PROVE  InviteSpent
  <1> SUFFICES ASSUME NEW u \in Guests
               PROVE  /\ account[u].password <=> Of(u, {"accepted"}) # {}
                      /\ account[u].password => account[u].linked
                      /\ u \notin crossed =>
                             Cardinality(Of(u, {"pending", "expired", "accepted"})) <= 1
    BY DEF InviteSpent
  <1>1. account[u].password <=> Of(u, {"accepted"}) # {}
    <2>1. (\E i \in Invites : IsAccepted(i, u)) <=> Of(u, {"accepted"}) # {}
      BY DEF IsAccepted, Of
    <2> QED BY <2>1 DEF Spent, PasswordEarned
  <1>2. account[u].password => account[u].linked
    BY DEF Spent, PasswordEarned, Linked, IsAccepted
  <1>3. ASSUME u \notin crossed
        PROVE  Cardinality(Of(u, {"pending", "expired", "accepted"})) <= 1
    <2> DEFINE O == Of(u, {"pending", "expired", "accepted"})
    <2>1. \A i, k \in O : i = k BY <1>3 DEF Spent, OneOpen, IsOpen, Of, OpenStatus
    <2> HIDE DEF O
    <2>2. ASSUME O = {} PROVE Cardinality(O) <= 1
      <3>1. Cardinality({}) = 0 BY FS_EmptySet
      <3> QED BY <2>2, <3>1
    <2>3. ASSUME O # {} PROVE Cardinality(O) <= 1
      <3>1. PICK i \in O : TRUE BY <2>3
      <3>2. O = {i} BY <2>1, <3>1
      <3>3. Cardinality({i}) = 1 BY FS_Singleton
      <3> QED BY <3>2, <3>3
    <2>4. Cardinality(O) <= 1 BY <2>2, <2>3
    <2> QED BY <2>4 DEF O
  <1> QED BY <1>1, <1>2, <1>3

(* A step that leaves accounts and rows alone and in which no request       *)
(* starts to work.                                                          *)
Rests(d) ==
    call'[d].step \in {"link", "clear", "create", "accept"} =>
        call'[d].step = call[d].step /\ call'[d].user = call[d].user

LEMMA SpentRests ==
    ASSUME Spent, UNCHANGED <<account, invite, crossed>>, \A d \in Calls : Rests(d)
    PROVE  Spent'
  <1>1. PasswordEarned' BY DEF Spent, PasswordEarned, IsAccepted
  <1>2. Linked' BY DEF Spent, Linked, At, Rests
  <1>3. Sole' BY DEF Spent, Sole, At, Rests, Working
  <1>4. NotYet' BY DEF Spent, NotYet, At, Rests
  <1>5. Cleared' BY DEF Spent, Cleared, At, Rests, IsOpen
  <1>6. OneOpen' BY DEF Spent, OneOpen, IsOpen
  <1> QED BY <1>1, <1>2, <1>3, <1>4, <1>5, <1>6 DEF Spent

LEMMA SpentBegins ==
    ASSUME Typing, Spent, NEW c \in Calls, NEW u \in Guests, NEW s \in {"link", "accept"}, NEW i,
           GuestMove(c, {"idle"}, s, u, i), Cross(u), UNCHANGED <<account, invite>>,
           ~account[u].password
    PROVE  Spent'
  <1>0. /\ call'[c].step = s /\ call'[c].user = u /\ call[c].step = "idle"
        /\ \A d \in Calls \ {c} : call'[d] = call[d]
    BY DEF GuestMove
  <1>1. crossed \subseteq crossed' BY DEF Cross
  <1>2. PasswordEarned' BY DEF Spent, PasswordEarned, IsAccepted
  <1>3. Linked' BY <1>0 DEF Spent, Linked, At
  <1>4. Sole'
    <2> SUFFICES ASSUME NEW v \in Guests \ crossed', NEW d \in Calls, NEW e \in Calls,
                        At(d, v, Working)', At(e, v, Working)'
                 PROVE  d = e
      BY DEF Sole
    <2>1. v \in Guests \ crossed BY <1>1
    <2>2. CASE v = u
      <3>1. Inviting(u) = {} BY <2>2 DEF Cross
      <3>2. \A f \in Calls : ~At(f, u, Working) BY <3>1 DEF Inviting, At, Working
      <3> QED BY <1>0, <2>2, <3>2 DEF At
    <2>3. CASE v # u BY <1>0, <2>1, <2>3 DEF At, Spent, Sole
    <2> QED BY <2>2, <2>3
  <1>5. NotYet' BY <1>0, <1>1 DEF Spent, NotYet, At
  <1>6. Cleared' BY <1>0, <1>1 DEF Spent, Cleared, At, IsOpen
  <1>7. OneOpen' BY <1>1 DEF Spent, OneOpen, IsOpen
  <1> QED BY <1>2, <1>3, <1>4, <1>5, <1>6, <1>7 DEF Spent

LEMMA SpentLinks ==
    ASSUME Typing, Spent, NEW c \in Calls, LinkUser(c)
    PROVE  Spent'
  <1> DEFINE v == call[c].user
  <1>0. /\ call[c].step = "link" /\ call'[c].step = "clear" /\ call'[c].user = v
        /\ \A d \in Calls \ {c} : call'[d] = call[d]
    BY GuestMoves DEF GuestMove
  <1>1. UNCHANGED <<invite, crossed>> BY DEF LinkUser, invitationVars
  <1>2. \A u \in Users : /\ account'[u].password = account[u].password
                         /\ account[u].linked \/ u = v => account'[u].linked
    <2> SUFFICES ASSUME NEW u \in Users
                 PROVE  /\ account'[u].password = account[u].password
                        /\ account[u].linked \/ u = v => account'[u].linked
      OBVIOUS
    <2>1. account[u] \in [password: BOOLEAN, linked: BOOLEAN]
      BY DEF Typing, CountersTyped
    <2>2. account'[u] = IF u = v THEN [account[u] EXCEPT !.linked = TRUE] ELSE account[u]
      BY DEF LinkUser, Typing, CountersTyped
    <2> QED BY <2>1, <2>2
  <1>3. Guests \subseteq Users OBVIOUS
  <1>4. PasswordEarned' BY <1>1, <1>2, <1>3 DEF Spent, PasswordEarned, IsAccepted
  <1>5. Linked' BY <1>0, <1>1, <1>2, <1>3 DEF Spent, Linked, At
  <1>6. Sole' BY <1>0, <1>1 DEF Spent, Sole, At, Working
  <1>7. NotYet' BY <1>0, <1>1, <1>2, <1>3 DEF Spent, NotYet, At
  <1>8. Cleared' BY <1>0, <1>1 DEF Spent, Cleared, At, IsOpen
  <1>9. OneOpen' BY <1>1 DEF Spent, OneOpen, IsOpen
  <1> QED BY <1>4, <1>5, <1>6, <1>7, <1>8, <1>9 DEF Spent

LEMMA SpentClears ==
    ASSUME Typing, Spent, NEW c \in Calls, ClearInvites(c)
    PROVE  Spent'
  <1> DEFINE v == call[c].user
  <1>0. /\ call[c].step = "clear" /\ call'[c].step = "create" /\ call'[c].user = v
        /\ \A d \in Calls \ {c} : call'[d] = call[d]
    BY GuestMoves DEF GuestMove
  <1>1. UNCHANGED <<account, crossed>> BY DEF ClearInvites
  <1>2. \A i \in Invites :
            /\ invite'[i].user = invite[i].user
            /\ invite'[i].status = IF invite[i].user = v /\ invite[i].status \in {"pending", "expired"}
                                   THEN "deleted" ELSE invite[i].status
    <2> TAKE i \in Invites
    <2>1. invite[i] \in InviteRows
      BY InvitationTypes DEF Typing, InvitesTyped
    <2>2. invite'[i] = IF i \in Unaccepted(v) THEN [invite[i] EXCEPT !.status = "deleted"]
                       ELSE invite[i]
      BY DEF ClearInvites
    <2>3. i \in Unaccepted(v) <=> invite[i].user = v /\ invite[i].status \in {"pending", "expired"}
      BY DEF Unaccepted
    <2> QED BY <2>1, <2>2, <2>3 DEF InviteRows
  <1>3. \A i \in Invites, u \in Guests :
            /\ IsAccepted(i, u)' <=> IsAccepted(i, u)
            /\ IsOpen(i, u)' => IsOpen(i, u)
            /\ u = v => (IsOpen(i, u)' => IsAccepted(i, u))
    BY <1>2 DEF IsAccepted, IsOpen, OpenStatus
  <1>4. PasswordEarned' BY <1>1, <1>3 DEF Spent, PasswordEarned
  <1>5. Linked' BY <1>0, <1>1, <1>2 DEF Spent, Linked, At
  <1>6. Sole' BY <1>0, <1>1 DEF Spent, Sole, At, Working
  <1>7. NotYet' BY <1>0, <1>1 DEF Spent, NotYet, At
  <1>8. Cleared'
    <2> SUFFICES ASSUME NEW u \in Guests \ crossed, NEW d \in Calls, At(d, u, {"create"})',
                        NEW i \in Invites, IsOpen(i, u)'
                 PROVE  FALSE
      BY <1>1 DEF Cleared
    <2>1. CASE d = c
      <3>1. u = v /\ At(c, u, {"link", "clear", "create"}) BY <1>0, <2>1 DEF At
      <3>2. ~account[u].password BY <3>1 DEF Spent, NotYet
      <3>3. IsAccepted(i, u) BY <1>3, <3>1
      <3> QED BY <3>2, <3>3 DEF Spent, PasswordEarned
    <2>2. CASE d # c BY <1>0, <1>3, <2>2 DEF Spent, Cleared, At
    <2> QED BY <2>1, <2>2
  <1>9. OneOpen' BY <1>1, <1>3 DEF Spent, OneOpen
  <1> QED BY <1>4, <1>5, <1>6, <1>7, <1>8, <1>9 DEF Spent

LEMMA SpentCreates ==
    ASSUME Typing, Spent, NEW c \in Calls, CreateInvite(c)
    PROVE  Spent'
  <1> DEFINE v == call[c].user
  <1>1. PICK n \in Unused :
            /\ invite' = [invite EXCEPT ![n] = [status |-> "pending", user |-> v]]
            /\ GuestMove(c, {"create"}, "notify", v, n)
    BY GuestMoves
  <1>2. /\ call[c].step = "create" /\ call'[c].step = "notify" /\ call'[c].user = v
        /\ \A d \in Calls \ {c} : call'[d] = call[d]
    BY <1>1 DEF GuestMove
  <1>3. UNCHANGED <<account, crossed>> BY DEF CreateInvite
  <1>4. n \in Invites /\ invite[n].user = None /\ v \in Guests
    BY <1>2 DEF Unused, NoInvite, Typing, CallsShaped, ShapeOf
  <1>5. /\ invite'[n].user = v /\ invite'[n].status = "pending"
        /\ \A i \in Invites \ {n} : invite'[i] = invite[i]
    BY <1>1, <1>4, InvitationTypes DEF Typing, InvitesTyped
  <1>6. \A i \in Invites, u \in Guests :
            /\ IsAccepted(i, u)' <=> IsAccepted(i, u)
            /\ IsOpen(i, u)' => (IsOpen(i, u) \/ (i = n /\ u = v))
    BY <1>4, <1>5 DEF IsAccepted, IsOpen, OpenStatus
  <1>7. v \notin crossed => /\ \A d \in Calls : At(d, v, Working) => d = c
                            /\ \A i \in Invites : ~IsOpen(i, v)
    BY <1>2, <1>4 DEF Spent, Sole, Cleared, At, Working
  <1>8. PasswordEarned' BY <1>3, <1>6 DEF Spent, PasswordEarned
  <1>9. Linked'
    <2>1. At(c, v, {"clear", "create"}) BY <1>2 DEF At
    <2>2. account[v].linked BY <1>4, <2>1 DEF Spent, Linked
    <2> QED BY <1>2, <1>3, <1>5, <2>2 DEF Spent, Linked, At
  <1>10. Sole' BY <1>2, <1>3 DEF Spent, Sole, At, Working
  <1>11. NotYet' BY <1>2, <1>3 DEF Spent, NotYet, At
  <1>12. Cleared'
    <2> SUFFICES ASSUME NEW u \in Guests \ crossed, NEW d \in Calls, At(d, u, {"create"})',
                        NEW i \in Invites, IsOpen(i, u)'
                 PROVE  FALSE
      BY <1>3 DEF Cleared
    <2>1. d # c /\ At(d, u, {"create"}) BY <1>2 DEF At
    <2>2. u # v BY <1>7, <2>1 DEF At, Working
    <2> QED BY <1>6, <2>1, <2>2 DEF Spent, Cleared
  <1>13. OneOpen' BY <1>3, <1>6, <1>7 DEF Spent, OneOpen
  <1> QED BY <1>8, <1>9, <1>10, <1>11, <1>12, <1>13 DEF Spent

LEMMA SpentAccepts ==
    ASSUME Typing, Spent, NEW c \in Calls, CommitAccept(c)
    PROVE  Spent'
  <1> DEFINE v == call[c].user
             n == call[c].invite
  <1>1. /\ call[c].step = "accept" /\ call'[c].step = "idle" /\ call'[c].user = None
        /\ \A d \in Calls \ {c} : call'[d] = call[d]
    BY GuestMoves DEF GuestMove
  <1>2. v \in Guests /\ n \in Invites /\ invite[n].user = v /\ invite[n].status # "deleted"
    BY <1>1 DEF CommitAccept, Typing, CallsShaped, ShapeOf, CallInvites
  <1>3. UNCHANGED crossed BY DEF CommitAccept
  <1>4. /\ \A i \in Invites : invite'[i].user = invite[i].user
        /\ \A i \in Invites : invite'[i].status = IF i = n THEN "accepted" ELSE invite[i].status
    <2> SUFFICES ASSUME NEW i \in Invites
                 PROVE  /\ invite'[i].user = invite[i].user
                        /\ invite'[i].status = IF i = n THEN "accepted" ELSE invite[i].status
      OBVIOUS
    <2>1. invite[i] \in InviteRows BY InvitationTypes DEF Typing, InvitesTyped
    <2>2. invite'[i] = IF i = n THEN [invite[i] EXCEPT !.status = "accepted"] ELSE invite[i]
      BY InvitationTypes DEF CommitAccept, Typing, InvitesTyped
    <2> QED BY <2>1, <2>2 DEF InviteRows
  <1>5. \A u \in Users : /\ account'[u].password <=> account[u].password \/ u = v
                         /\ account'[u].linked = account[u].linked
    <2> SUFFICES ASSUME NEW u \in Users
                 PROVE  /\ account'[u].password <=> account[u].password \/ u = v
                        /\ account'[u].linked = account[u].linked
      OBVIOUS
    <2>1. account[u] \in [password: BOOLEAN, linked: BOOLEAN]
      BY DEF Typing, CountersTyped
    <2>2. account'[u] = IF u = v THEN [account[u] EXCEPT !.password = TRUE] ELSE account[u]
      BY DEF CommitAccept, Typing, CountersTyped
    <2> QED BY <2>1, <2>2
  <1>6. invite[n].status \in OpenStatus
    <2>1. invite[n] \in InviteRows /\ (invite[n].status = "none") = (invite[n].user = None)
      BY <1>2, InvitationTypes DEF Typing, InvitesTyped
    <2> QED BY <1>2, <2>1 DEF InviteRows, OpenStatus
  <1>7. \A i \in Invites, u \in Guests :
            /\ IsAccepted(i, u)' <=> IsAccepted(i, u) \/ (i = n /\ u = v)
            /\ IsOpen(i, u)' <=> IsOpen(i, u)
    BY <1>2, <1>4, <1>6 DEF IsAccepted, IsOpen, OpenStatus
  <1>8. Guests \subseteq Users OBVIOUS
  <1>9. PasswordEarned'
    <2> SUFFICES ASSUME NEW u \in Guests
                 PROVE  account'[u].password <=> \E i \in Invites : IsAccepted(i, u)'
      BY DEF PasswordEarned
    <2>1. account[u].password <=> \E i \in Invites : IsAccepted(i, u)
      BY DEF Spent, PasswordEarned
    <2>2. account'[u].password <=> account[u].password \/ u = v BY <1>5, <1>8
    <2> QED BY <1>2, <1>7, <2>1, <2>2
  <1>10. Linked' BY <1>1, <1>4, <1>5, <1>8 DEF Spent, Linked, At
  <1>11. Sole' BY <1>1, <1>3 DEF Spent, Sole, At, Working
  <1>12. NotYet'
    <2> SUFFICES ASSUME NEW u \in Guests \ crossed, NEW d \in Calls,
                        At(d, u, {"link", "clear", "create"})'
                 PROVE  ~account'[u].password
      BY <1>3 DEF NotYet
    <2>1. d # c /\ At(d, u, {"link", "clear", "create"}) BY <1>1 DEF At
    <2>2. u # v BY <1>1, <2>1 DEF Spent, Sole, At, Working
    <2> QED BY <1>5, <1>8, <2>1, <2>2 DEF Spent, NotYet
  <1>13. Cleared' BY <1>1, <1>3, <1>7 DEF Spent, Cleared, At
  <1>14. OneOpen' BY <1>3, <1>7 DEF Spent, OneOpen
  <1> QED BY <1>9, <1>10, <1>11, <1>12, <1>13, <1>14 DEF Spent

LEMMA SpentExpires ==
    ASSUME Typing, Spent, NEW n \in Invites, InviteExpires(n)
    PROVE  Spent'
  <1>1. UNCHANGED <<account, crossed, call>> BY DEF InviteExpires
  <1>2. \A i \in Invites :
            /\ invite'[i].user = invite[i].user
            /\ invite'[i].status = invite[i].status
               \/ (invite[i].status = "pending" /\ invite'[i].status = "expired")
    <2> TAKE i \in Invites
    <2>1. invite[i] \in InviteRows BY InvitationTypes DEF Typing, InvitesTyped
    <2>2. /\ invite[n].status = "pending"
          /\ invite'[i] = IF i = n THEN [invite[i] EXCEPT !.status = "expired"] ELSE invite[i]
      BY InvitationTypes DEF InviteExpires, Typing, InvitesTyped
    <2> QED BY <2>1, <2>2 DEF InviteRows
  <1>3. \A i \in Invites, u \in Guests : /\ IsAccepted(i, u)' <=> IsAccepted(i, u)
                                         /\ IsOpen(i, u)' <=> IsOpen(i, u)
    BY <1>2 DEF IsAccepted, IsOpen, OpenStatus
  <1>4. PasswordEarned' BY <1>1, <1>3 DEF Spent, PasswordEarned
  <1>5. Linked' BY <1>1, <1>2 DEF Spent, Linked, At
  <1>6. Sole' BY <1>1 DEF Spent, Sole, At
  <1>7. NotYet' BY <1>1 DEF Spent, NotYet, At
  <1>8. Cleared' BY <1>1, <1>3 DEF Spent, Cleared, At
  <1>9. OneOpen' BY <1>1, <1>3 DEF Spent, OneOpen
  <1> QED BY <1>4, <1>5, <1>6, <1>7, <1>8, <1>9 DEF Spent

LEMMA SpentStep == Typing /\ Spent /\ [Next]_vars => Spent'
  <1> SUFFICES ASSUME Typing, Spent, [Next]_vars PROVE Spent' OBVIOUS
  <1>1. ASSUME UNCHANGED <<account, invite, crossed, call>> PROVE Spent'
    BY <1>1, SpentRests DEF Rests
  <1>2. ASSUME NEW c \in Calls, InvitationNext(c) PROVE Spent'
    <2>1. ASSUME NEW u \in Guests, BeginInvite(c, u) PROVE Spent'
      BY <2>1, GuestMoves, SpentBegins DEF BeginInvite
    <2>2. ASSUME NEW i \in Invites, BeginAccept(c, i) PROVE Spent'
      <3>1. invite[i].user \in Guests BY <2>2 DEF BeginAccept, Typing, InvitationTypeOK
      <3> QED BY <2>2, <3>1, GuestMoves, SpentBegins DEF BeginAccept
    <2>3. CASE CreateNotification(c)
      <3>1. UNCHANGED <<account, invite, crossed>> BY <2>3 DEF CreateNotification
      <3>2. \A d \in Calls : Rests(d) BY <2>3, GuestMoves DEF GuestMove, Rests
      <3> QED BY <3>1, <3>2, SpentRests
    <2>4. CASE EnqueueEmail(c) \/ AbandonInvite(c)
      <3>1. UNCHANGED <<account, invite, crossed>>
        BY <2>4 DEF EnqueueEmail, AbandonInvite, invitationVars
      <3>2. \A d \in Calls : Rests(d) BY <2>4, GuestMoves DEF GuestMove, Rests
      <3> QED BY <3>1, <3>2, SpentRests
    <2> QED BY <1>2, <2>1, <2>2, <2>3, <2>4, SpentLinks, SpentClears, SpentCreates,
               SpentAccepts DEF InvitationNext
  <1>3. ASSUME NEW c \in Calls, SessionNext(c), UNCHANGED invitationVars PROVE Spent'
    <2>1. UNCHANGED account
      BY <1>3 DEF SessionNext, Login, OperatorLogin, SignIn, Refresh, Logout, Verify,
         RefuseToken, Rotate, IssueTokens, StoreSession, ClearSession, LoseAnswer, Drop,
         RevokeAllRefreshTokens, Leave
    <2>2. \A d \in Calls : Rests(d) BY <1>3, SessionGuests DEF GuestSame, Rests, Guesting
    <2> QED BY <1>3, <2>1, <2>2, SpentRests DEF invitationVars
  <1>4. ASSUME NEW u \in Users, RevokeSessions(u), UNCHANGED invitationVars PROVE Spent'
    <2>1. \A d \in Calls : Rests(d)
      BY <1>4, RevokeSessionsCall DEF Typing, CallsShaped, Same, Rests
    <2> QED BY <1>4, <2>1, SpentRests DEF RevokeSessions, invitationVars
  <1>5. ASSUME NEW j \in Jtis, Expire(j), UNCHANGED invitationVars PROVE Spent'
    BY <1>1, <1>5 DEF Expire, invitationVars
  <1>6. ASSUME NEW i \in Invites, MailNext(i) PROVE Spent' BY <1>1, <1>6, MailFrame
  <1>7. CASE UNCHANGED vars BY <1>1, <1>7 DEF vars
  <1> QED BY <1>1, <1>2, <1>3, <1>4, <1>5, <1>6, <1>7, SpentExpires, NextShapes,
             OpenPageFrame

(* A guest has a password exactly when it accepted an invitation, and of    *)
(* its invitations one at most is open unless requests about it overlapped. *)
THEOREM InviteAlwaysSpent == Spec => []InviteSpent
  <1>1. Init => Spent
    <2> SUFFICES ASSUME Init PROVE Spent OBVIOUS
    <2>1. \A u \in Guests : account[u].password = FALSE BY DEF Init
    <2>2. \A i \in Invites : invite[i].status = "none" /\ invite[i].user = None
      BY DEF Init, InvitationInit, NoInvite
    <2>3. \A c \in Calls : call[c].step = "idle" BY DEF Init, SessionInit, Resting
    <2> QED BY <2>1, <2>2, <2>3 DEF Spent, PasswordEarned, Linked, Sole, NotYet, Cleared,
               OneOpen, IsOpen, IsAccepted, OpenStatus, At, Working
  <1> QED BY <1>1, SpentStep, SpentHolds, AlwaysTyped, PTL DEF Spec



-----------------------------------------------------------------------------
(* Mail.  What makes MailAccounted inductive: a message that is not on      *)
(* record went out in an attempt that a crash cut short, and a job is made  *)
(* once, by the request that made the row.                                  *)
Queueing == {"notify", "enqueue"}

RowFine(r, n) ==
    /\ r.job = "none" => r.out = 0
    /\ r.job \in {"waiting", "sending", "failing"} => r.out <= n
    /\ r.out <= 1 + n
    /\ r.delivery = "SENT" \/ r.job = "sent" => r.out > 0
    /\ r.job # "none" => r.delivery # "none"
    /\ r.job = "over" =>
          /\ r.delivery \in {"SENT", "FAILED"} \/ r.silent # "no"
          /\ r.out > 0 \/ r.left = 0 \/ r.silent \in {"ignored", "stalled"}

MailRecorded == \A i \in Invites : RowFine(mail[i], crashes)
MailAwaited ==
    \A c \in Calls :
        /\ call[c].step \in Queueing => mail[call[c].invite].job = "none"
        /\ call[c].step = "enqueue" => mail[call[c].invite].delivery = "QUEUED"
MailOwned ==
    \A c, d \in Calls :
        /\ call[c].step \in Queueing /\ call[d].step \in Queueing
        /\ call[c].invite = call[d].invite
        => c = d
MailUsed == \A i \in Invites : mail[i].job # "none" => invite[i].user # None

Accounting == MailRecorded /\ MailAwaited /\ MailOwned /\ MailUsed

Quiet(d) ==
    call'[d].step \in Queueing => call'[d].step = call[d].step /\ call'[d].invite = call[d].invite

LEMMA QuietCalls ==
    ASSUME Typing, Accounting, Next, \A d \in Calls : Quiet(d)
    PROVE  MailOwned'
  BY DEF Accounting, MailOwned, Quiet

LEMMA UsedKept ==
    ASSUME Typing, Accounting, Next, NEW i \in Invites,
           mail[i].job # "none" \/ mail'[i].job = "none"
    PROVE  mail'[i].job # "none" => invite'[i].user # None
  <1>1. InviteKeeps BY InviteKept
  <1> QED BY <1>1 DEF Accounting, MailUsed, InviteKeeps

LEMMA AccountingRests ==
    ASSUME Typing, Accounting, Next, UNCHANGED <<mail, crashes>>, \A d \in Calls : Quiet(d)
    PROVE  Accounting'
  <1>1. MailRecorded' BY DEF Accounting, MailRecorded
  <1>2. MailAwaited' BY DEF Accounting, MailAwaited, Quiet, Queueing
  <1>3. MailUsed' BY UsedKept DEF MailUsed
  <1> QED BY <1>1, <1>2, <1>3, QuietCalls DEF Accounting

(* A row is created for the invitation that was, and then its job.          *)
LEMMA AccountingCreates ==
    ASSUME Typing, Accounting, Next, NEW c \in Calls, CreateInvite(c)
    PROVE  Accounting'
  <1>1. PICK i \in Unused :
            /\ invite' = [invite EXCEPT ![i] = [status |-> "pending", user |-> call[c].user]]
            /\ GuestMove(c, {"create"}, "notify", call[c].user, i)
    BY GuestMoves
  <1>2. UNCHANGED <<mail, crashes>> BY DEF CreateInvite
  <1>3. i \in Invites /\ invite[i].user = None BY <1>1 DEF Unused, NoInvite
  <1>4. mail[i].job = "none" BY <1>3 DEF Accounting, MailUsed
  <1>5. \A d \in Calls \ {c} : call'[d] = call[d] BY <1>1 DEF GuestMove
  <1>6. call'[c].step = "notify" /\ call'[c].invite = i BY <1>1 DEF GuestMove
  <1>7. \A d \in Calls : call[d].step \in Queueing => call[d].invite # i
    <2> SUFFICES ASSUME NEW d \in Calls, call[d].step \in Queueing, call[d].invite = i
                 PROVE  FALSE
      OBVIOUS
    <2>1. call[d].user \in Users BY DEF Typing, CallsShaped, ShapeOf, Queueing
    <2>2. invite[i].user = call[d].user BY DEF Typing, CallInvites, Queueing
    <2> QED BY <1>3, <2>1, <2>2
  <1>8. MailRecorded' BY <1>2 DEF Accounting, MailRecorded
  <1>9. MailAwaited' BY <1>2, <1>4, <1>5, <1>6 DEF Accounting, MailAwaited, Queueing
  <1>10. MailOwned' BY <1>5, <1>6, <1>7 DEF Accounting, MailOwned
  <1>11. MailUsed' BY <1>2, UsedKept DEF MailUsed
  <1> QED BY <1>8, <1>9, <1>10, <1>11 DEF Accounting

LEMMA AccountingNotifies ==
    ASSUME Typing, Accounting, Next, NEW c \in Calls, CreateNotification(c)
    PROVE  Accounting'
  <1> DEFINE i == call[c].invite
  <1>1. GuestMove(c, {"notify"}, "enqueue", call[c].user, i) BY GuestMoves
  <1>2. call[c].step = "notify" BY <1>1 DEF GuestMove
  <1>3. i \in Invites BY <1>2 DEF Typing, CallsShaped, ShapeOf
  <1>4. mail \in [Invites -> MailRows] BY InvitationTypes DEF Typing, MailTyped
  <1>5. mail' = [mail EXCEPT ![i] = [mail[i] EXCEPT !.delivery = "QUEUED"]]
    BY DEF CreateNotification
  <1>6. UNCHANGED crashes BY DEF CreateNotification
  <1>7. \A k \in Invites \ {i} : mail'[k] = mail[k] BY <1>4, <1>5
  <1>8. /\ mail'[i].delivery = "QUEUED" /\ mail'[i].job = mail[i].job
        /\ mail'[i].left = mail[i].left /\ mail'[i].out = mail[i].out
    BY <1>3, <1>4, <1>5 DEF MailRows
  <1>9. mail[i].job = "none" BY <1>2 DEF Accounting, MailAwaited, Queueing
  <1>10. /\ \A d \in Calls \ {c} : call'[d] = call[d]
         /\ call'[c].step = "enqueue" /\ call'[c].invite = i
    BY <1>1 DEF GuestMove
  <1> HIDE DEF i
  <1>11. MailRecorded'
    <2>1. RowFine(mail'[i], crashes)
      <3>1. RowFine(mail[i], crashes) BY <1>3 DEF Accounting, MailRecorded
      <3> QED BY <1>8, <1>9, <3>1 DEF RowFine
    <2> QED BY <1>6, <1>7, <2>1 DEF Accounting, MailRecorded
  <1>12. MailAwaited'
    <2> SUFFICES ASSUME NEW d \in Calls, call'[d].step \in Queueing
                 PROVE  /\ mail'[call'[d].invite].job = "none"
                        /\ call'[d].step = "enqueue" => mail'[call'[d].invite].delivery = "QUEUED"
      BY DEF MailAwaited, Queueing
    <2>1. CASE d = c BY <1>8, <1>9, <1>10, <2>1
    <2>2. CASE d # c
      <3>1. call'[d] = call[d] BY <1>10, <2>2
      <3>2. call[d].invite \in Invites BY <3>1 DEF Typing, CallsShaped, ShapeOf, Queueing
      <3>3. /\ mail[call[d].invite].job = "none"
            /\ call[d].step = "enqueue" => mail[call[d].invite].delivery = "QUEUED"
        BY <3>1 DEF Accounting, MailAwaited
      <3>4. CASE call[d].invite = i BY <1>8, <1>9, <3>1, <3>4
      <3>5. CASE call[d].invite # i
        <4>1. mail'[call[d].invite] = mail[call[d].invite] BY <1>7, <3>2, <3>5
        <4> QED BY <3>1, <3>3, <4>1
      <3> QED BY <3>4, <3>5
    <2> QED BY <2>1, <2>2
  <1>13. MailOwned' BY <1>2, <1>10 DEF Accounting, MailOwned, Queueing, i
  <1>14. \A k \in Invites : mail[k].job # "none" \/ mail'[k].job = "none"
    BY <1>7, <1>8
  <1>15. MailUsed' BY <1>14, UsedKept DEF MailUsed
  <1> QED BY <1>11, <1>12, <1>13, <1>15 DEF Accounting

LEMMA AccountingEnqueues ==
    ASSUME Typing, Accounting, Next, NEW c \in Calls, EnqueueEmail(c),
           mail' = [mail EXCEPT ![call[c].invite] = [mail[call[c].invite] EXCEPT !.job = "waiting"]]
    PROVE  Accounting'
  <1> DEFINE i == call[c].invite
  <1>1. GuestMove(c, {"enqueue"}, "idle", None, None) BY GuestMoves
  <1>2. call[c].step = "enqueue" BY <1>1 DEF GuestMove
  <1>3. i \in Invites /\ invite[i].user # None
    BY <1>2 DEF Typing, CallsShaped, ShapeOf, CallInvites
  <1>4. mail \in [Invites -> MailRows] BY InvitationTypes DEF Typing, MailTyped
  <1>5. UNCHANGED <<crashes, invite>> BY DEF EnqueueEmail
  <1>6. \A k \in Invites \ {i} : mail'[k] = mail[k] BY <1>4
  <1>7. /\ mail'[i].delivery = mail[i].delivery /\ mail'[i].job = "waiting"
        /\ mail'[i].left = mail[i].left /\ mail'[i].out = mail[i].out
    BY <1>3, <1>4 DEF MailRows
  <1>8. mail[i].job = "none" /\ mail[i].delivery = "QUEUED"
    BY <1>2 DEF Accounting, MailAwaited, Queueing
  <1>9. (\A d \in Calls \ {c} : call'[d] = call[d]) /\ call'[c].step = "idle"
    BY <1>1 DEF GuestMove
  <1>10. \A d \in Calls \ {c} : call[d].step \in Queueing => call[d].invite # i
    BY <1>2 DEF Accounting, MailOwned, Queueing
  <1>11. crashes \in Nat BY DEF Typing, InvitationTypeOK
  <1> HIDE DEF i
  <1>12. MailRecorded'
    <2>1. RowFine(mail'[i], crashes)
      <3>1. RowFine(mail[i], crashes) BY <1>3 DEF Accounting, MailRecorded
      <3> QED BY <1>7, <1>8, <1>11, <3>1 DEF RowFine
    <2> QED BY <1>5, <1>6, <2>1 DEF Accounting, MailRecorded
  <1>13. MailAwaited'
    <2> SUFFICES ASSUME NEW d \in Calls, call'[d].step \in Queueing
                 PROVE  /\ mail'[call'[d].invite].job = "none"
                        /\ call'[d].step = "enqueue" => mail'[call'[d].invite].delivery = "QUEUED"
      BY DEF MailAwaited, Queueing
    <2>1. d # c /\ call'[d] = call[d] BY <1>9 DEF Queueing
    <2>2. call[d].invite \in Invites /\ call[d].invite # i
      BY <1>10, <2>1 DEF Typing, CallsShaped, ShapeOf, Queueing
    <2>3. mail'[call[d].invite] = mail[call[d].invite] BY <1>6, <2>2
    <2>4. /\ mail[call[d].invite].job = "none"
          /\ call[d].step = "enqueue" => mail[call[d].invite].delivery = "QUEUED"
      BY <2>1 DEF Accounting, MailAwaited
    <2> QED BY <2>1, <2>3, <2>4
  <1>14. MailOwned' BY <1>9 DEF Accounting, MailOwned, Queueing
  <1>15. MailUsed' BY <1>3, <1>5, <1>6 DEF Accounting, MailUsed
  <1> QED BY <1>12, <1>13, <1>14, <1>15 DEF Accounting

(* The worker: what an attempt leaves in the row and in the queue.          *)
LEMMA AttemptFine ==
    ASSUME Typing, Accounting, NEW i \in Invites, MailNext(i)
    PROVE  /\ \A k \in Invites \ {i} : mail'[k] = mail[k]
           /\ RowFine(mail'[i], crashes')
           /\ mail[i].job # "none" /\ mail'[i].job # "none"
           /\ crashes' >= crashes
  <1>0. mail \in [Invites -> MailRows] BY InvitationTypes DEF Typing, MailTyped
  <1>1. mail[i] \in MailRows /\ RowFine(mail[i], crashes)
    BY <1>0 DEF Accounting, MailRecorded
  <1>2. mail[i].left \in Nat /\ mail[i].out \in Nat BY <1>1 DEF MailRows
  <1>3. crashes \in Nat BY DEF Typing, InvitationTypeOK
  <1>4. ASSUME NEW from, NEW r, Mailing(i, from, r)
        PROVE  mail[i].job = from /\ mail'[i] = r /\ \A k \in Invites \ {i} : mail'[k] = mail[k]
    BY <1>0, <1>4 DEF Mailing
  <1>5. CASE TakeMail(i)
    <2> DEFINE r == [mail[i] EXCEPT !.job = "sending", !.left = mail[i].left - 1]
    <2>1. Mailing(i, "waiting", r) /\ crashes' = crashes BY <1>5 DEF TakeMail
    <2>2. r.job = "sending" /\ r.out = mail[i].out /\ r.delivery = mail[i].delivery
      BY <1>1 DEF MailRows
    <2> HIDE DEF r
    <2> QED BY <1>1, <1>2, <1>3, <1>4, <2>1, <2>2 DEF RowFine
  <1>6. CASE SendMail(i)
    <2> DEFINE r == [mail[i] EXCEPT !.job = "sent", !.out = mail[i].out + 1]
    <2>1. Mailing(i, "sending", r) /\ crashes' = crashes BY <1>6 DEF SendMail, Handling
    <2>2. r.job = "sent" /\ r.out = mail[i].out + 1 /\ r.delivery = mail[i].delivery
      BY <1>1 DEF MailRows
    <2> HIDE DEF r
    <2> QED BY <1>1, <1>2, <1>3, <1>4, <2>1, <2>2 DEF RowFine
  <1>7. CASE SendFails(i)
    <2> DEFINE r == [mail[i] EXCEPT !.job = "failing"]
    <2>1. Mailing(i, "sending", r) /\ crashes' = crashes BY <1>7 DEF SendFails, Handling
    <2>2. r.job = "failing" /\ r.out = mail[i].out /\ r.delivery = mail[i].delivery
      BY <1>1 DEF MailRows
    <2> HIDE DEF r
    <2> QED BY <1>1, <1>2, <1>3, <1>4, <2>1, <2>2 DEF RowFine
  <1>8. CASE RecordSent(i)
    <2> DEFINE s == IF mail[i].delivery = "QUEUED" THEN "SENT" ELSE mail[i].delivery
               r == [mail[i] EXCEPT !.job = "over", !.delivery = s]
    <2>1. Mailing(i, "sent", r) /\ crashes' = crashes BY <1>8 DEF RecordSent, Handling
    <2>2. r.job = "over" /\ r.out = mail[i].out /\ r.delivery = s
      BY <1>1 DEF MailRows
    <2>3. mail[i].job = "sent" BY <1>4, <2>1
    <2>4. s \in {"SENT", "FAILED"} BY <1>1, <2>3 DEF RowFine, MailRows
    <2> HIDE DEF r, s
    <2> QED BY <1>1, <1>2, <1>3, <1>4, <2>1, <2>2, <2>3, <2>4 DEF RowFine
  <1>9. CASE RecordLost(i)
    <2> DEFINE r == [mail[i] EXCEPT !.job = "failing"]
    <2>1. Mailing(i, "sent", r) /\ crashes' = crashes + 1 BY <1>9 DEF RecordLost, Handling
    <2>2. r.job = "failing" /\ r.out = mail[i].out /\ r.delivery = mail[i].delivery
      BY <1>1 DEF MailRows
    <2> HIDE DEF r
    <2> QED BY <1>1, <1>2, <1>3, <1>4, <2>1, <2>2 DEF RowFine
  <1>10. CASE RecordFailed(i)
    <2> DEFINE a == Again(i)
               r == [mail[i] EXCEPT !.job = a, !.delivery = "FAILED"]
    <2>1. Mailing(i, "failing", r) /\ crashes' = crashes BY <1>10 DEF RecordFailed, Handling
    <2>2. r.job = a /\ r.out = mail[i].out /\ r.delivery = "FAILED" /\ r.left = mail[i].left
      BY <1>1 DEF MailRows
    <2>3. a \in {"waiting", "over"} /\ (a = "over" => mail[i].left = 0)
      BY <1>2 DEF Again
    <2> HIDE DEF r, a
    <2> QED BY <1>1, <1>2, <1>3, <1>4, <2>1, <2>2, <2>3 DEF RowFine
  <1>11. CASE WorkerDies(i)
    <2> DEFINE r == [mail[i] EXCEPT !.job = "waiting", !.left = mail[i].left + 1,
                                    !.stalled = TRUE]
               g == [mail[i] EXCEPT !.job = "over", !.silent = "stalled"]
               q == IF mail[i].stalled THEN g ELSE r
    <2>1. /\ Mailing(i, mail[i].job, q) /\ crashes' = crashes + 1
          /\ mail[i].job \in {"sending", "sent", "failing"}
      BY <1>11 DEF WorkerDies, Handling
    <2>2. r.job = "waiting" /\ r.out = mail[i].out /\ r.delivery = mail[i].delivery
      BY <1>1 DEF MailRows
    <2>3. /\ g.job = "over" /\ g.out = mail[i].out /\ g.delivery = mail[i].delivery
          /\ g.silent = "stalled"
      BY <1>1 DEF MailRows
    <2>4. q = g \/ q = r OBVIOUS
    <2> HIDE DEF q
    <2>5. mail'[i] = q /\ \A k \in Invites \ {i} : mail'[k] = mail[k] BY <1>4, <2>1
    <2> HIDE DEF r, g
    <2>6. RowFine(r, crashes + 1) BY <1>1, <1>2, <1>3, <2>1, <2>2 DEF RowFine
    <2>7. RowFine(g, crashes + 1) BY <1>1, <1>2, <1>3, <2>1, <2>3 DEF RowFine
    <2>8. q.job # "none" BY <2>2, <2>3, <2>4
    <2>9. RowFine(mail'[i], crashes') BY <2>1, <2>4, <2>5, <2>6, <2>7
    <2>10. crashes' >= crashes BY <1>3, <2>1
    <2> QED BY <2>1, <2>5, <2>8, <2>9, <2>10
  <1>12. CASE IgnoreMail(i)
    <2> DEFINE r == [mail[i] EXCEPT !.job = "over", !.silent = "ignored"]
    <2>1. Mailing(i, "sending", r) /\ crashes' = crashes BY <1>12 DEF IgnoreMail, Handling
    <2>2. /\ r.job = "over" /\ r.out = mail[i].out /\ r.delivery = mail[i].delivery
          /\ r.silent = "ignored"
      BY <1>1 DEF MailRows
    <2> HIDE DEF r
    <2> QED BY <1>1, <1>2, <1>3, <1>4, <2>1, <2>2 DEF RowFine
  <1>13. ASSUME NEW from \in {"sending", "failing"}, ThrowSilently(i, from)
         PROVE  /\ \A k \in Invites \ {i} : mail'[k] = mail[k]
                /\ RowFine(mail'[i], crashes')
                /\ mail[i].job # "none" /\ mail'[i].job # "none"
                /\ crashes' >= crashes
    <2> DEFINE a == Again(i)
               s == IF mail[i].left > 0 THEN mail[i].silent ELSE "thrown"
               r == [mail[i] EXCEPT !.job = a, !.silent = s]
    <2>1. Mailing(i, from, r) /\ crashes' = crashes BY <1>13 DEF ThrowSilently, Handling
    <2>2. /\ r.job = a /\ r.out = mail[i].out /\ r.delivery = mail[i].delivery
          /\ r.left = mail[i].left /\ r.silent = s
      BY <1>1 DEF MailRows
    <2>3. a \in {"waiting", "over"} /\ (a = "over" => mail[i].left = 0 /\ s = "thrown")
      BY <1>2 DEF Again
    <2> HIDE DEF r, a, s
    <2>4. RowFine(r, crashes) BY <1>1, <1>2, <1>3, <1>4, <2>1, <2>2, <2>3 DEF RowFine
    <2> QED BY <1>3, <1>4, <2>1, <2>2, <2>3, <2>4
  <1>14. CASE ReadFails(i) \/ FailureLost(i)
    BY <1>13, <1>14 DEF ReadFails, FailureLost
  <1> QED BY <1>5, <1>6, <1>7, <1>8, <1>9, <1>10, <1>11, <1>12, <1>14 DEF MailNext

LEMMA AccountingAttempts ==
    ASSUME Typing, Accounting, Next, NEW i \in Invites, MailNext(i)
    PROVE  Accounting'
  <1>1. /\ \A k \in Invites \ {i} : mail'[k] = mail[k]
        /\ RowFine(mail'[i], crashes')
        /\ mail[i].job # "none" /\ mail'[i].job # "none"
        /\ crashes' >= crashes
    BY AttemptFine
  <1>2. UNCHANGED <<call, invite>> BY MailFrame
  <1>3. crashes \in Nat /\ crashes' \in Nat BY MailStep DEF Typing, InvitationTypeOK
  <1>4. MailRecorded'
    <2> SUFFICES ASSUME NEW k \in Invites PROVE RowFine(mail'[k], crashes')
      BY DEF MailRecorded
    <2>1. CASE k = i BY <1>1, <2>1
    <2>2. CASE k # i
      <3>1. RowFine(mail[k], crashes) /\ mail'[k] = mail[k]
        BY <1>1, <2>2 DEF Accounting, MailRecorded
      <3>2. mail[k].out \in Nat BY InvitationTypes DEF Typing, MailTyped, MailRows
      <3> QED BY <1>1, <1>3, <3>1, <3>2 DEF RowFine
    <2> QED BY <2>1, <2>2
  <1>5. MailAwaited'
    <2> SUFFICES ASSUME NEW d \in Calls, call[d].step \in Queueing
                 PROVE  /\ mail'[call[d].invite].job = "none"
                        /\ call[d].step = "enqueue" => mail'[call[d].invite].delivery = "QUEUED"
      BY <1>2 DEF MailAwaited, Queueing
    <2>1. call[d].invite \in Invites BY DEF Typing, CallsShaped, ShapeOf, Queueing
    <2>2. /\ mail[call[d].invite].job = "none"
          /\ call[d].step = "enqueue" => mail[call[d].invite].delivery = "QUEUED"
      BY DEF Accounting, MailAwaited
    <2>3. call[d].invite # i BY <1>1, <2>2
    <2> QED BY <1>1, <2>1, <2>2, <2>3
  <1>6. MailOwned' BY <1>2 DEF Accounting, MailOwned
  <1>7. MailUsed'
    <2>1. \A k \in Invites : mail[k].job # "none" \/ mail'[k].job = "none" BY <1>1
    <2> QED BY <2>1, UsedKept DEF MailUsed
  <1> QED BY <1>4, <1>5, <1>6, <1>7 DEF Accounting

LEMMA AccountingStep == Typing /\ Accounting /\ [Next]_vars => Accounting'
  <1> SUFFICES ASSUME Typing, Accounting, [Next]_vars PROVE Accounting' OBVIOUS
  <1>1. CASE UNCHANGED vars
    BY <1>1 DEF vars, Accounting, MailRecorded, MailAwaited, MailOwned, MailUsed
  <1>2. CASE Next
    <2>1. ASSUME UNCHANGED <<mail, crashes>>, \A d \in Calls : GuestSame(d) PROVE Accounting'
      <3>1. \A d \in Calls : Quiet(d) BY <2>1 DEF GuestSame, Guesting, Quiet, Queueing
      <3> QED BY <1>2, <2>1, <3>1, AccountingRests
    <2>2. ASSUME UNCHANGED call PROVE \A d \in Calls : GuestSame(d) BY <2>2 DEF GuestSame
    <2>3. ASSUME NEW c \in Calls, InvitationNext(c) PROVE Accounting'
      <3>1. ASSUME NEW from, NEW to, NEW u, NEW i, GuestMove(c, from, to, u, i),
                   to \notin Queueing, UNCHANGED <<mail, crashes>>
            PROVE  Accounting'
        <4>1. \A d \in Calls : Quiet(d) BY <3>1 DEF GuestMove, Quiet
        <4> QED BY <1>2, <3>1, <4>1, AccountingRests
      <3>2. ASSUME NEW u \in Guests, BeginInvite(c, u) PROVE Accounting'
        <4>1. GuestMove(c, {"idle"}, "link", u, None) BY <3>2, GuestMoves
        <4>2. UNCHANGED <<mail, crashes>> BY <3>2 DEF BeginInvite
        <4> QED BY <3>1, <4>1, <4>2 DEF Queueing
      <3>3. CASE LinkUser(c)
        <4>1. GuestMove(c, {"link"}, "clear", call[c].user, call[c].invite)
          BY <3>3, GuestMoves
        <4>2. UNCHANGED <<mail, crashes>> BY <3>3 DEF LinkUser, invitationVars
        <4> QED BY <3>1, <4>1, <4>2 DEF Queueing
      <3>4. CASE ClearInvites(c)
        <4>1. GuestMove(c, {"clear"}, "create", call[c].user, call[c].invite)
          BY <3>4, GuestMoves
        <4>2. UNCHANGED <<mail, crashes>> BY <3>4 DEF ClearInvites
        <4> QED BY <3>1, <4>1, <4>2 DEF Queueing
      <3>5. ASSUME NEW i \in Invites, BeginAccept(c, i) PROVE Accounting'
        <4>1. GuestMove(c, {"idle"}, "accept", invite[i].user, i) BY <3>5, GuestMoves
        <4>2. UNCHANGED <<mail, crashes>> BY <3>5 DEF BeginAccept
        <4> QED BY <3>1, <4>1, <4>2 DEF Queueing
      <3>6. CASE EnqueueEmail(c)
        <4>1. GuestMove(c, {"enqueue"}, "idle", None, None) BY <3>6, GuestMoves
        <4>2. UNCHANGED crashes BY <3>6 DEF EnqueueEmail
        <4>3. CASE mail' = mail BY <3>1, <4>1, <4>2, <4>3 DEF Queueing
        <4>4. mail' = mail \/ mail' = [mail EXCEPT
                  ![call[c].invite] = [mail[call[c].invite] EXCEPT !.job = "waiting"]]
          BY <3>6 DEF EnqueueEmail
        <4> QED BY <1>2, <3>6, <4>3, <4>4, AccountingEnqueues
      <3>7. CASE CommitAccept(c) \/ AbandonInvite(c)
        <4>1. \E S : GuestMove(c, S, "idle", None, None) BY <3>7, GuestMoves
        <4>2. UNCHANGED <<mail, crashes>> BY <3>7 DEF CommitAccept, AbandonInvite, invitationVars
        <4> QED BY <3>1, <4>1, <4>2 DEF Queueing
      <3> QED BY <1>2, <2>3, <3>2, <3>3, <3>4, <3>5, <3>6, <3>7, AccountingCreates,
                 AccountingNotifies DEF InvitationNext
    <2>4. ASSUME NEW c \in Calls, SessionNext(c), UNCHANGED invitationVars PROVE Accounting'
      BY <2>1, <2>4, SessionGuests DEF invitationVars
    <2>5. ASSUME NEW u \in Users, RevokeSessions(u), UNCHANGED invitationVars
          PROVE  Accounting'
      <3>1. \A d \in Calls : GuestSame(d)
        BY <2>5, RevokeSessionsCall DEF Typing, CallsShaped, Same, GuestSame
      <3> QED BY <2>1, <2>5, <3>1 DEF invitationVars
    <2>6. ASSUME NEW j \in Jtis, Expire(j), UNCHANGED invitationVars PROVE Accounting'
      <3>1. UNCHANGED call BY <2>6 DEF Expire
      <3> QED BY <2>1, <2>2, <2>6, <3>1 DEF invitationVars
    <2>7. ASSUME NEW i \in Invites, InviteExpires(i) PROVE Accounting'
      <3>1. UNCHANGED <<call, mail, crashes>> BY <2>7 DEF InviteExpires
      <3> QED BY <2>1, <2>2, <3>1
    <2>8. ASSUME NEW u \in Users, NEW t \in Tabs, OpenPage(u, t), UNCHANGED invitationVars
          PROVE  Accounting'
      <3>1. UNCHANGED <<call, mail, crashes>> BY <2>8, OpenPageFrame
      <3> QED BY <2>1, <2>2, <3>1
    <2> QED BY <1>2, <2>3, <2>4, <2>5, <2>6, <2>7, <2>8, AccountingAttempts, NextShapes
  <1> QED BY <1>1, <1>2

(* A delivery marked SENT went out; a message goes out twice only when a    *)
(* record of it was lost; a job that is over sent it or used its attempts,  *)
(* unless it was ignored or stalled twice, and left a record of it unless   *)
(* its last attempt threw where none is made.                               *)
THEOREM MailAlwaysAccounted == Spec => []MailAccounted
  <1>1. Init => Accounting
    <2> SUFFICES ASSUME Init PROVE Accounting OBVIOUS
    <2>1. \A i \in Invites : mail[i].job = "none" /\ mail[i].out = 0 /\ mail[i].delivery = "none"
      BY DEF Init, InvitationInit, NoMail
    <2>2. \A c \in Calls : call[c].step = "idle" BY DEF Init, SessionInit, Resting
    <2>3. crashes = 0 BY DEF Init, InvitationInit
    <2> QED BY <2>1, <2>2, <2>3 DEF Accounting, MailRecorded, RowFine, MailAwaited, MailOwned,
               MailUsed, Queueing
  <1>2. Accounting => MailAccounted
    BY DEF Accounting, MailRecorded, RowFine, MailAccounted
  <1> QED BY <1>1, <1>2, AccountingStep, AlwaysTyped, PTL DEF Spec


-----------------------------------------------------------------------------
(* Rotation.  What makes OneTokenPerSignIn inductive: whatever descends     *)
(* from a sign-in is its user's, two refreshes of a user at one time are    *)
(* both twins, and a refresh that will issue a token beside a live one of   *)
(* the same sign-in is a twin of it.                                        *)
Live(j) == token[j].status = "live"
WillOwn(j, u) == token'[j].status # "none" /\ token'[j].user = u

Rooted ==
    /\ \A j \in Jtis : token[j].status # "none" => Owned(token[j].root, token[j].user)
    /\ \A c \in Calls : call[c].root # None => Owned(call[c].root, call[c].user)
Overlapping ==
    \A c, d \in Calls :
        /\ c # d /\ call[c].user = call[d].user /\ Refreshing(c) /\ Refreshing(d)
        => call[c].twin /\ call[d].twin
Replacing ==
    \A j \in Jtis, c \in Calls :
        /\ Live(j) /\ token[j].root = call[c].root
        /\ call[c].step = "issue" \/ (call[c].step = "rotate" /\ j # call[c].jti)
        => token[j].twin /\ call[c].twin

Rotating == Rooted /\ Overlapping /\ OneTokenPerSignIn /\ Replacing

SameToken(j) ==
    /\ token'[j].user = token[j].user /\ token'[j].root = token[j].root
    /\ token'[j].twin = token[j].twin
    /\ token'[j].status = "none" <=> token[j].status = "none"
    /\ token'[j].status = "live" => token[j].status = "live"

Rested(d) == call'[d].root = None /\ call'[d].step \notin {"verify", "rotate", "refused"}
Wanes(d) ==
    \/ Rested(d)
    \/ /\ Refreshing(d) /\ call'[d].user = call[d].user /\ call'[d].root = call[d].root
       /\ call[d].twin => call'[d].twin
       /\ call'[d].step \in {"issue", "rotate"} =>
              call'[d].step = call[d].step /\ call'[d].jti = call[d].jti

LEMMA WanesSame ==
    ASSUME NEW d \in Calls, Same(call'[d], call[d]), call[d].twin => call'[d].twin
    PROVE  Wanes(d)
  <1>1. CASE Refreshing(d) BY <1>1 DEF Same, Wanes
  <1>2. CASE ~Refreshing(d) BY <1>2 DEF Same, Wanes, Rested, Refreshing
  <1> QED BY <1>1, <1>2

LEMMA RootedKept ==
    ASSUME Typing, Rooted, Next, NEW d \in Calls, Wanes(d)
    PROVE  call'[d].root # None => WillOwn(call'[d].root, call'[d].user)
  <1>1. Keeps BY TokenStep
  <1> SUFFICES ASSUME call'[d].root # None PROVE WillOwn(call'[d].root, call'[d].user) OBVIOUS
  <1>2. call'[d].root = call[d].root /\ call'[d].user = call[d].user BY DEF Wanes, Rested
  <1>3. Owned(call[d].root, call[d].user) BY <1>2 DEF Rooted
  <1>4. call[d].root \in Jtis BY <1>2 DEF Typing, CallsShaped, CallsTyped, Requests
  <1>5. call[d].user \in Users
    BY <1>3, <1>4 DEF Owned, Typing, TokensShaped, TokenShape
  <1> QED BY <1>1, <1>2, <1>3, <1>4, <1>5 DEF Keeps, Owned, WillOwn

LEMMA TokensRooted ==
    ASSUME Typing, Rooted, \A j \in Jtis : SameToken(j), NEW j \in Jtis,
           token'[j].status # "none"
    PROVE  WillOwn(token'[j].root, token'[j].user)
  <1>1. token[j].status # "none" /\ token'[j].root = token[j].root
        /\ token'[j].user = token[j].user
    BY DEF SameToken
  <1>2. token[j].root \in Jtis BY <1>1 DEF Typing, TokensShaped, TokenShape
  <1>3. Owned(token[j].root, token[j].user) BY <1>1 DEF Rooted
  <1> QED BY <1>1, <1>2, <1>3 DEF Owned, WillOwn, SameToken

LEMMA OverlapKept ==
    ASSUME Overlapping, \A d \in Calls : Wanes(d)
    PROVE  Overlapping'
  <1> SUFFICES ASSUME NEW c \in Calls, NEW d \in Calls, c # d,
                      call'[c].user = call'[d].user, Refreshing(c)', Refreshing(d)'
               PROVE  call'[c].twin /\ call'[d].twin
    BY DEF Overlapping
  <1>1. ~Rested(c) /\ ~Rested(d) BY DEF Rested, Refreshing
  <1> QED BY <1>1 DEF Wanes, Overlapping

LEMMA RotatingWanes ==
    ASSUME Typing, Rotating, Next, \A j \in Jtis : SameToken(j), \A d \in Calls : Wanes(d)
    PROVE  Rotating'
  <1> USE DEF Rotating
  <1>1. Rooted' BY RootedKept, TokensRooted DEF Rooted, Owned, WillOwn
  <1>2. Overlapping' BY OverlapKept
  <1>3. OneTokenPerSignIn' BY DEF OneTokenPerSignIn, SameToken
  <1>4. Replacing'
    <2> SUFFICES ASSUME NEW j \in Jtis, NEW c \in Calls, Live(j)',
                        token'[j].root = call'[c].root,
                        call'[c].step = "issue"
                            \/ (call'[c].step = "rotate" /\ j # call'[c].jti)
                 PROVE  token'[j].twin /\ call'[c].twin
      BY DEF Replacing
    <2>1. Live(j) /\ token[j].root = token'[j].root /\ token'[j].twin = token[j].twin
      BY DEF Live, SameToken
    <2>2. token[j].root # None
      BY <2>1 DEF Live, Typing, TokensShaped, TokenShape
    <2>3. ~Rested(c) BY <2>1, <2>2 DEF Rested
    <2>4. /\ call[c].root = call'[c].root /\ call[c].step = call'[c].step
          /\ call[c].jti = call'[c].jti /\ (call[c].twin => call'[c].twin)
      BY <2>3 DEF Wanes
    <2> QED BY <2>1, <2>4 DEF Replacing
  <1> QED BY <1>1, <1>2, <1>3, <1>4

(* A refresh starts: it and the others of its user become twins.            *)
LEMMA RotatingRefresh ==
    ASSUME Typing, Rotating, Next, NEW c \in Calls, NEW u \in Users, NEW t \in Tabs,
           Refresh(c, u, t)
    PROVE  Rotating'
  <1> USE DEF Rotating
  <1>0. CallsTyped BY DEF Typing, CallsShaped
  <1>1. store[u][t].jti \in Jtis BY HeldToken DEF Refresh
  <1>2. /\ call[c].step = "idle"
        /\ Fields(call'[c], "verify", u, store[u][t].jti, None, None, 0, FALSE, Beside(u) # {})
        /\ \A d \in Calls \ {c} :
               /\ Same(call'[d], call[d])
               /\ call'[d].twin = (call[d].twin \/ d \in Beside(u))
    BY <1>0, <1>1, RefreshCall
  <1>3. UNCHANGED token BY DEF Refresh
  <1>4. \A d \in Calls \ {c} : Wanes(d) BY <1>2, WanesSame
  <1>5. call'[c].root = None /\ call'[c].step = "verify" /\ call'[c].user = u
        /\ (call'[c].twin <=> Beside(u) # {})
    BY <1>2 DEF Fields
  <1>6. \A j \in Jtis : SameToken(j) BY <1>3 DEF SameToken
  <1>7. Rooted' BY <1>4, <1>5, <1>6, RootedKept, TokensRooted DEF Rooted, Owned, WillOwn
  <1>8. Overlapping'
    <2>1. ASSUME NEW d \in Calls \ {c}, Refreshing(d)', call'[d].user = u
          PROVE  d \in Beside(u) /\ call'[d].twin /\ call'[c].twin
      <3>1. Refreshing(d) /\ call[d].user = u BY <1>2, <2>1 DEF Refreshing, Same
      <3>2. d \in Beside(u) BY <3>1 DEF Beside
      <3> QED BY <1>2, <1>5, <3>2
    <2>2. ASSUME NEW d \in Calls \ {c}, NEW e \in Calls \ {c}, d # e, Refreshing(d)',
                 Refreshing(e)', call'[d].user = call'[e].user
          PROVE  call'[d].twin /\ call'[e].twin
      <3>1. Refreshing(d) /\ Refreshing(e) /\ call[d].user = call[e].user
        BY <1>2, <2>2 DEF Refreshing, Same
      <3> QED BY <1>2, <2>2, <3>1 DEF Overlapping
    <2> QED BY <1>5, <2>1, <2>2 DEF Overlapping
  <1>9. OneTokenPerSignIn' BY <1>3 DEF OneTokenPerSignIn
  <1>10. Replacing'
    <2> SUFFICES ASSUME NEW j \in Jtis, NEW d \in Calls, Live(j),
                        token[j].root = call'[d].root,
                        call'[d].step = "issue"
                            \/ (call'[d].step = "rotate" /\ j # call'[d].jti)
                 PROVE  token[j].twin /\ call'[d].twin
      BY <1>3 DEF Replacing, Live
    <2>1. d # c BY <1>5
    <2>2. Same(call'[d], call[d]) /\ (call[d].twin => call'[d].twin) BY <1>2, <2>1
    <2> QED BY <2>2 DEF Same, Replacing
  <1> QED BY <1>7, <1>8, <1>9, <1>10

(* The refresh has found its token good and takes over what it says.        *)
LEMMA RotatingVerify ==
    ASSUME Typing, Rotating, Next, NEW c \in Calls, Verify(c)
    PROVE  Rotating'
  <1> USE DEF Rotating
  <1> DEFINE k == call[c].jti
             t == token[k]
  <1>0. CallsTyped /\ TokensTyped BY DEF Typing, CallsShaped, TokensShaped
  <1>1. call[c].step = "verify" /\ t.status = "live" /\ UNCHANGED token
    BY DEF Verify, Accepts
  <1>2. k \in Jtis /\ t.user = call[c].user
    BY <1>1 DEF Typing, CallsShaped, ShapeOf, Holding, CallHolds, Owned
  <1>3. Becomes(c, "rotate", call[c].user, k, t.root, call[c].invite, t.era, t.late,
                call[c].twin \/ t.twin)
    BY <1>0, <1>2, VerifyCall
  <1>4. /\ call'[c].step = "rotate" /\ call'[c].user = call[c].user /\ call'[c].jti = k
        /\ call'[c].root = t.root /\ call'[c].twin = (call[c].twin \/ t.twin)
        /\ \A d \in Calls \ {c} : call'[d] = call[d]
    BY <1>3 DEF Becomes, Fields
  <1>5. \A j \in Jtis : SameToken(j) BY <1>1 DEF SameToken
  <1>6. \A d \in Calls \ {c} : Wanes(d)
    <2> TAKE d \in Calls \ {c}
    <2> QED BY <1>4, WanesSame DEF Same
  <1>7. Owned(t.root, t.user) BY <1>1, <1>2 DEF Rooted
  <1>8. Refreshing(c) BY <1>1 DEF Refreshing
  <1> HIDE DEF t
  <1>9. Rooted'
    <2>1. WillOwn(call'[c].root, call'[c].user) BY <1>1, <1>2, <1>4, <1>7 DEF Owned, WillOwn
    <2> QED BY <1>5, <1>6, <2>1, RootedKept, TokensRooted DEF Rooted, Owned, WillOwn
  <1>10. Overlapping'
    <2>1. ASSUME NEW d \in Calls \ {c}, Refreshing(d)', call'[d].user = call'[c].user
          PROVE  call'[d].twin /\ call'[c].twin
      <3>1. Refreshing(d) /\ call[d].user = call[c].user BY <1>4, <2>1 DEF Refreshing
      <3> QED BY <1>4, <1>8, <3>1 DEF Overlapping
    <2>2. ASSUME NEW d \in Calls \ {c}, NEW e \in Calls \ {c}, d # e, Refreshing(d)',
                 Refreshing(e)', call'[d].user = call'[e].user
          PROVE  call'[d].twin /\ call'[e].twin
      <3>1. Refreshing(d) /\ Refreshing(e) BY <1>4, <2>2 DEF Refreshing
      <3> QED BY <1>4, <2>2, <3>1 DEF Overlapping
    <2> QED BY <2>1, <2>2 DEF Overlapping
  <1>11. OneTokenPerSignIn' BY <1>1 DEF OneTokenPerSignIn
  <1>12. Replacing'
    <2> SUFFICES ASSUME NEW j \in Jtis, NEW d \in Calls, Live(j),
                        token[j].root = call'[d].root,
                        call'[d].step = "issue"
                            \/ (call'[d].step = "rotate" /\ j # call'[d].jti)
                 PROVE  token[j].twin /\ call'[d].twin
      BY <1>1 DEF Replacing, Live
    <2>1. CASE d = c
      <3>1. j # k /\ token[j].root = token[k].root BY <1>4, <2>1 DEF t
      <3>2. token[j].twin /\ token[k].twin
        BY <1>1, <1>2, <3>1 DEF OneTokenPerSignIn, Live, t
      <3> QED BY <1>4, <2>1, <3>2 DEF t
    <2>2. CASE d # c BY <1>4, <2>2 DEF Replacing
    <2> QED BY <2>1, <2>2
  <1> QED BY <1>9, <1>10, <1>11, <1>12

(* The old token is revoked, a new one is about to be issued.               *)
LEMMA RotatingRotate ==
    ASSUME Typing, Rotating, Next, NEW c \in Calls, Rotate(c)
    PROVE  Rotating'
  <1> USE DEF Rotating
  <1> DEFINE k == call[c].jti
  <1>1. Continues(c, "issue") /\ call[c].step = "rotate"
    BY AdvanceCall DEF Rotate, Advance, Steps, Typing, CallsShaped
  <1>2. /\ call'[c].step = "issue" /\ call'[c].user = call[c].user
        /\ call'[c].root = call[c].root /\ call'[c].twin = call[c].twin
        /\ \A d \in Calls \ {c} : call'[d] = call[d]
    BY <1>1 DEF Continues, Becomes, Fields
  <1>3. k \in Jtis /\ token[k].status # "none"
    BY <1>1 DEF Typing, CallsShaped, ShapeOf, Holding, CallHolds, Owned
  <1>4. token' = [token EXCEPT ![k] = [token[k] EXCEPT !.status = "revoked"]]
    BY DEF Rotate
  <1>5. token \in [Jtis -> Tokens] BY DEF Typing, TokensShaped, TokensTyped
  <1> HIDE DEF k
  <1>6. token'[k].status = "revoked" /\ \A j \in Jtis \ {k} : token'[j] = token[j]
    BY <1>3, <1>4, <1>5 DEF Tokens
  <1>7. \A j \in Jtis : SameToken(j)
    <2>1. SameToken(k) BY <1>3, <1>4, <1>5 DEF Tokens, SameToken
    <2>2. \A j \in Jtis \ {k} : SameToken(j) BY <1>6 DEF SameToken
    <2> QED BY <2>1, <2>2
  <1>8. \A d \in Calls \ {c} : Wanes(d)
    <2> TAKE d \in Calls \ {c}
    <2> QED BY <1>2, WanesSame DEF Same
  <1>9. Refreshing(c) BY <1>1 DEF Refreshing
  <1>10. Rooted'
    <2>0. Keeps BY TokenStep
    <2>1. Owned(call[c].root, call[c].user) /\ call[c].root \in Jtis /\ call[c].user \in Users
      BY <1>1 DEF Rooted, Typing, CallsShaped, ShapeOf
    <2>2. WillOwn(call'[c].root, call'[c].user) BY <1>2, <2>0, <2>1 DEF Keeps, Owned, WillOwn
    <2> QED BY <1>7, <1>8, <2>2, RootedKept, TokensRooted DEF Rooted, Owned, WillOwn
  <1>11. Overlapping'
    <2>1. \A d \in Calls : Refreshing(d)' => Refreshing(d) BY <1>2, <1>9 DEF Refreshing
    <2>2. \A d \in Calls : call'[d].user = call[d].user /\ call'[d].twin = call[d].twin
      BY <1>2
    <2> QED BY <2>1, <2>2 DEF Overlapping
  <1>12. OneTokenPerSignIn' BY <1>7 DEF OneTokenPerSignIn, SameToken
  <1>13. Replacing'
    <2> SUFFICES ASSUME NEW j \in Jtis, NEW d \in Calls, Live(j)',
                        token'[j].root = call'[d].root,
                        call'[d].step = "issue"
                            \/ (call'[d].step = "rotate" /\ j # call'[d].jti)
                 PROVE  token'[j].twin /\ call'[d].twin
      BY DEF Replacing
    <2>1. j # k /\ Live(j) /\ token'[j] = token[j] BY <1>6 DEF Live
    <2>2. CASE d = c BY <1>1, <1>2, <2>1, <2>2 DEF Replacing, k
    <2>3. CASE d # c BY <1>2, <2>1, <2>3 DEF Replacing
    <2> QED BY <2>2, <2>3
  <1> QED BY <1>10, <1>11, <1>12, <1>13

(* The new token descends from what the old one descends from, or from      *)
(* itself.                                                                  *)
LEMMA RotatingIssue ==
    ASSUME Typing, Rotating, Next, NEW c \in Calls, IssueTokens(c)
    PROVE  Rotating'
  <1> USE DEF Rotating
  <1> DEFINE q == call[c]
             R(n) == IF q.root # None THEN q.root ELSE n
             t(n) == [status |-> "live", user |-> q.user, root |-> R(n),
                      era |-> IF q.root # None THEN q.era ELSE revocations[q.user],
                      late |-> q.late, twin |-> q.twin]
  <1>1. PICK n \in Fresh :
            /\ q.step = "issue" /\ token' = [token EXCEPT ![n] = t(n)]
            /\ Becomes(c, "answer", q.user, n, q.root, q.invite, q.era, q.late, q.twin)
    BY IssueCall DEF Typing, CallsShaped
  <1>2. n \in Jtis /\ token[n].status = "none" BY DEF Fresh, NoToken
  <1>3. t(n).status = "live" /\ t(n).user = q.user /\ t(n).root = R(n) /\ t(n).twin = q.twin
    OBVIOUS
  <1> HIDE DEF t
  <1>4. token'[n] = t(n) /\ \A j \in Jtis \ {n} : token'[j] = token[j]
    BY <1>1, <1>2 DEF Typing, TokensShaped, TokensTyped
  <1>5. /\ call'[c].step = "answer" /\ call'[c].user = q.user
        /\ call'[c].root = q.root /\ call'[c].twin = q.twin
        /\ \A d \in Calls \ {c} : call'[d] = call[d]
    BY <1>1 DEF Becomes, Fields
  <1>6. q.user \in Users /\ q.root \in Jtis \cup {None}
    BY <1>1 DEF Typing, CallsShaped, CallsTyped, ShapeOf, Requests
  <1>7. q.root # None => Owned(q.root, q.user) /\ q.root # n
    BY <1>2 DEF Rooted, Owned
  <1>8. Keeps BY TokenStep
  <1>9. \A j \in Jtis \ {n} : Live(j) => token[j].root # n
    BY <1>2 DEF Rooted, Owned, Live
  <1>10. \A d \in Calls : call[d].root # n BY <1>2 DEF Rooted, Owned
  <1>11. \A d \in Calls \ {c} :
             /\ call[d].step \in {"issue", "rotate"} /\ call[d].root = R(n)
             => q.twin /\ call[d].twin
    <2> SUFFICES ASSUME NEW d \in Calls \ {c}, call[d].step \in {"issue", "rotate"},
                        call[d].root = R(n)
                 PROVE  q.twin /\ call[d].twin
      OBVIOUS
    <2>1. q.root # None /\ call[d].root = q.root BY <1>10
    <2>2. Owned(q.root, q.user) /\ Owned(q.root, call[d].user) BY <2>1 DEF Rooted
    <2>3. call[d].user = q.user BY <2>2 DEF Owned, WillOwn
    <2>4. Refreshing(c) /\ Refreshing(d) BY <2>1 DEF Refreshing
    <2> QED BY <2>3, <2>4 DEF Overlapping
  <1>12. \A j \in Jtis \ {n} : Live(j) /\ token[j].root = R(n) => q.twin /\ token[j].twin
    BY <1>1, <1>9 DEF Replacing
  <1>13. Rooted'
    <2>1. ASSUME NEW j \in Jtis, NEW u, Owned(j, u), u \in Users PROVE WillOwn(j, u)
      BY <1>8, <2>1 DEF Keeps, Owned, WillOwn
    <2>2. WillOwn(R(n), q.user) BY <1>2, <1>3, <1>4, <1>6, <1>7, <2>1 DEF Owned, WillOwn
    <2>3. ASSUME NEW j \in Jtis \ {n}, token[j].status # "none"
          PROVE  WillOwn(token[j].root, token[j].user)
      <3>1. token[j].root \in Jtis /\ token[j].user \in Users
        BY <2>3 DEF Typing, TokensShaped, TokenShape
      <3> QED BY <2>1, <2>3, <3>1 DEF Rooted
    <2>4. ASSUME NEW d \in Calls, call[d].root # None
          PROVE  WillOwn(call[d].root, call[d].user)
      <3>1. Owned(call[d].root, call[d].user) /\ call[d].root \in Jtis
        BY <2>4 DEF Rooted, Typing, CallsShaped, CallsTyped, Requests
      <3>2. call[d].user \in Users BY <3>1 DEF Owned, Typing, TokensShaped, TokenShape
      <3> QED BY <2>1, <3>1, <3>2
    <2>5. \A j \in Jtis : token'[j].status # "none" => WillOwn(token'[j].root, token'[j].user)
      <3> SUFFICES ASSUME NEW j \in Jtis, token'[j].status # "none"
                   PROVE  WillOwn(token'[j].root, token'[j].user)
        OBVIOUS
      <3>1. CASE j = n BY <1>3, <1>4, <2>2, <3>1 DEF Owned, WillOwn
      <3>2. CASE j # n BY <1>4, <2>3, <3>2 DEF Owned, WillOwn
      <3> QED BY <3>1, <3>2
    <2>6. \A d \in Calls : call'[d].root # None => WillOwn(call'[d].root, call'[d].user)
      <3> SUFFICES ASSUME NEW d \in Calls, call'[d].root # None
                   PROVE  WillOwn(call'[d].root, call'[d].user)
        OBVIOUS
      <3>1. call'[d].root = call[d].root /\ call'[d].user = call[d].user BY <1>5
      <3> QED BY <2>4, <3>1 DEF Owned, WillOwn
    <2> QED BY <2>5, <2>6 DEF Rooted, Owned, WillOwn
  <1>14. Overlapping'
    <2>1. \A d \in Calls : Refreshing(d)' => Refreshing(d) BY <1>5 DEF Refreshing
    <2>2. \A d \in Calls : call'[d].user = call[d].user /\ call'[d].twin = call[d].twin
      BY <1>5
    <2> QED BY <2>1, <2>2 DEF Overlapping
  <1>15. OneTokenPerSignIn'
    <2> SUFFICES ASSUME NEW j \in Jtis, NEW k \in Jtis, Live(j)', Live(k)',
                        token'[j].root = token'[k].root, j # k
                 PROVE  token'[j].twin /\ token'[k].twin
      BY DEF OneTokenPerSignIn, Live
    <2>1. CASE j = n BY <1>3, <1>4, <1>12, <2>1 DEF Live
    <2>2. CASE k = n BY <1>3, <1>4, <1>12, <2>2 DEF Live
    <2>3. CASE j # n /\ k # n BY <1>4, <2>3 DEF OneTokenPerSignIn, Live
    <2> QED BY <2>1, <2>2, <2>3
  <1>16. Replacing'
    <2> SUFFICES ASSUME NEW j \in Jtis, NEW d \in Calls, Live(j)',
                        token'[j].root = call'[d].root,
                        call'[d].step = "issue"
                            \/ (call'[d].step = "rotate" /\ j # call'[d].jti)
                 PROVE  token'[j].twin /\ call'[d].twin
      BY DEF Replacing
    <2>1. d # c /\ call'[d] = call[d] BY <1>5
    <2>2. CASE j = n BY <1>3, <1>4, <1>11, <2>1, <2>2
    <2>3. CASE j # n
      <3>1. token'[j] = token[j] /\ Live(j) BY <1>4, <2>3 DEF Live
      <3> QED BY <2>1, <3>1 DEF Replacing
    <2> QED BY <2>2, <2>3
  <1> QED BY <1>13, <1>14, <1>15, <1>16


LEMMA RevokedSame ==
    ASSUME Typing, NEW u \in Users, RevokeRows(u)
    PROVE  \A j \in Jtis : SameToken(j)
  <1> TAKE j \in Jtis
  <1>1. token[j] \in Tokens BY DEF Typing, TokensShaped, TokensTyped
  <1>2. token'[j] = IF token[j].user = u THEN [token[j] EXCEPT !.status = "revoked"]
                    ELSE token[j]
    BY DEF RevokeRows
  <1>3. token[j].status = "none" => token[j].user = None
    BY DEF Typing, TokensShaped, TokenShape
  <1>4. token[j].user = u => token[j].status # "none" BY <1>3
  <1>5. CASE token[j].user = u BY <1>1, <1>2, <1>4, <1>5 DEF Tokens, SameToken
  <1>6. CASE token[j].user # u BY <1>2, <1>6 DEF SameToken
  <1> QED BY <1>5, <1>6

LEMMA RotatingSession ==
    ASSUME Typing, Rotating, Next, NEW c \in Calls, SessionNext(c)
    PROVE  Rotating'
  <1>0. CallsTyped /\ ShapeOf(call[c]) BY DEF Typing, CallsShaped
  <1>1. ASSUME UNCHANGED token, NEW s \in {"idle", "issue", "logout"}, NEW u, Begins(c, s, u)
        PROVE  Rotating'
    <2>1. Wanes(c) BY <1>1 DEF Begins, Becomes, Fields, Wanes, Rested
    <2>2. \A d \in Calls \ {c} : Wanes(d)
      <3> TAKE d \in Calls \ {c}
      <3>1. call'[d] = call[d] BY <1>1 DEF Begins, Becomes
      <3> QED BY <3>1, WanesSame DEF Same
    <2>3. \A k \in Jtis : SameToken(k) BY <1>1 DEF SameToken
    <2> QED BY <2>1, <2>2, <2>3, RotatingWanes
  <1>2. ASSUME NEW u \in Users, NEW t \in Tabs,
               Login(c, u, t) \/ OperatorLogin(c, u, t) PROVE Rotating'
    <2>1. Begins(c, "issue", u) /\ UNCHANGED token
      BY <1>2, SignInShape DEF Login, OperatorLogin, SignIn, Typing
    <2> QED BY <1>1, <2>1
  <1>3. ASSUME NEW u \in Users, NEW t \in Tabs, Logout(c, u, t) PROVE Rotating'
    <2>1. Begins(c, "logout", u) /\ UNCHANGED token
      BY <1>0, <1>3, StartCall DEF Logout, Steps
    <2> QED BY <1>1, <2>1
  <1>4. CASE RefuseToken(c)
    <2>1. Continues(c, "refused") /\ call[c].step = "verify" /\ UNCHANGED token
      BY <1>0, <1>4, AdvanceCall DEF RefuseToken, Steps
    <2>2. Wanes(c) BY <2>1 DEF Continues, Becomes, Fields, Wanes, Refreshing
    <2>3. \A d \in Calls \ {c} : Wanes(d)
      <3> TAKE d \in Calls \ {c}
      <3>1. call'[d] = call[d] BY <2>1 DEF Continues, Becomes
      <3> QED BY <3>1, WanesSame DEF Same
    <2>4. \A k \in Jtis : SameToken(k) BY <2>1 DEF SameToken
    <2> QED BY <2>2, <2>3, <2>4, RotatingWanes
  <1>5. CASE StoreSession(c) \/ ClearSession(c) \/ LoseAnswer(c) \/ Leave(c)
    <2>1. UNCHANGED token BY <1>5 DEF StoreSession, ClearSession, LoseAnswer, Drop, Leave
    <2> QED BY <1>0, <1>1, <1>5, <2>1, EndingCall DEF Ends
  <1>6. CASE RevokeAllRefreshTokens(c)
    <2>1. call[c].step = "logout" /\ RevokeRows(call[c].user)
      BY <1>6 DEF RevokeAllRefreshTokens
    <2>2. call[c].root = None /\ call[c].user \in Users BY <1>0, <2>1 DEF ShapeOf
    <2>3. /\ call'[c].step = "leave" /\ call'[c].root = call[c].root
          /\ \A d \in Calls \ {c} : Same(call'[d], call[d]) /\ call'[d].twin = call[d].twin
      BY <1>0, <1>6, RevokeAllCall DEF Fields
    <2>4. Wanes(c) BY <2>2, <2>3 DEF Wanes, Rested
    <2>5. \A d \in Calls \ {c} : Wanes(d) BY <2>3, WanesSame
    <2> QED BY <2>1, <2>2, <2>4, <2>5, RevokedSame, RotatingWanes
  <1> QED BY <1>2, <1>3, <1>4, <1>5, <1>6, RotatingRefresh, RotatingVerify, RotatingRotate,
             RotatingIssue DEF SessionNext

LEMMA RotatingStep == Typing /\ Rotating /\ [Next]_vars => Rotating'
  <1> SUFFICES ASSUME Typing, Rotating, [Next]_vars PROVE Rotating' OBVIOUS
  <1>1. CASE UNCHANGED <<token, call>>
    BY <1>1 DEF Rotating, Rooted, Owned, Overlapping, Refreshing, OneTokenPerSignIn,
                Replacing, Live
  <1>2. CASE Next
    <2>1. ASSUME NEW c \in Calls, InvitationNext(c) PROVE Rotating'
      <3>1. \A d \in Calls : Wanes(d)
        <4> TAKE d \in Calls
        <4>1. CASE d = c
          BY <2>1, <4>1, InvitationPlain DEF PlainChange, Plain, Wanes, Rested
        <4>2. CASE d # c
          <5>1. call'[d] = call[d] BY <2>1, <4>2, InvitationPlain DEF PlainChange
          <5> QED BY <5>1, WanesSame DEF Same
        <4> QED BY <4>1, <4>2
      <3>2. \A k \in Jtis : SameToken(k) BY <2>1, InvitationFrame DEF SameToken
      <3> QED BY <1>2, <3>1, <3>2, RotatingWanes
    <2>2. ASSUME NEW u \in Users, RevokeSessions(u) PROVE Rotating'
      <3>1. \A d \in Calls : Wanes(d)
        BY <2>2, RevokeSessionsCall, WanesSame DEF Typing, CallsShaped
      <3> QED BY <1>2, <2>2, <3>1, RevokedSame, RotatingWanes DEF RevokeSessions
    <2>3. ASSUME NEW j \in Jtis, Expire(j) PROVE Rotating'
      <3>1. UNCHANGED call BY <2>3 DEF Expire
      <3>2. \A d \in Calls : Wanes(d) BY <3>1, WanesSame DEF Same
      <3>3. \A k \in Jtis : SameToken(k)
        <4> TAKE k \in Jtis
        <4>1. token[k] \in Tokens BY DEF Typing, TokensShaped, TokensTyped
        <4>2. token[j].status = "live" BY <2>3 DEF Expire
        <4>3. token'[k] = IF j = k THEN [token[k] EXCEPT !.status = "expired"] ELSE token[k]
          BY <2>3 DEF Expire, Typing, TokensShaped, TokensTyped
        <4>4. CASE j = k BY <4>1, <4>2, <4>3, <4>4 DEF Tokens, SameToken
        <4>5. CASE j # k BY <4>3, <4>5 DEF SameToken
        <4> QED BY <4>4, <4>5
      <3> QED BY <1>2, <3>2, <3>3, RotatingWanes
    <2>4. ASSUME NEW i \in Invites, InviteExpires(i) PROVE Rotating'
      BY <1>1, <2>4 DEF InviteExpires
    <2>5. ASSUME NEW i \in Invites, MailNext(i) PROVE Rotating' BY <1>1, <2>5, MailFrame
    <2> QED BY <1>1, <1>2, <2>1, <2>2, <2>3, <2>4, <2>5, RotatingSession, NextShapes,
               OpenPageFrame
  <1>3. CASE UNCHANGED vars BY <1>1, <1>3 DEF vars
  <1> QED BY <1>2, <1>3

(* Of the tokens that descend from one sign-in at most one is good, unless  *)
(* two refreshes of the user overlapped.                                    *)
THEOREM OneTokenAlways == Spec => []OneTokenPerSignIn
  <1>1. Init => Rotating
    <2> SUFFICES ASSUME Init PROVE Rotating OBVIOUS
    <2>1. \A j \in Jtis : token[j].status = "none" BY DEF Init, SessionInit, NoToken
    <2>2. \A c \in Calls : call[c].step = "idle" /\ call[c].root = None
      BY DEF Init, SessionInit, Resting
    <2> QED BY <2>1, <2>2 DEF Rotating, Rooted, Overlapping, Refreshing, OneTokenPerSignIn,
               Replacing, Live
  <1>2. Rotating => OneTokenPerSignIn BY DEF Rotating
  <1> QED BY <1>1, <1>2, RotatingStep, AlwaysTyped, PTL DEF Spec

-----------------------------------------------------------------------------
(* Being signed out.  What makes SessionKept provable: a token that a web   *)
(* client keeps and that another page did not rotate, or that a refresh     *)
(* without a twin shows, was not revoked by another refresh while that one  *)
(* is over; and one that is being answered is in nobody else's hands.       *)
Warranted(j) ==
    token[j].status = "revoked"
        => token[j].late \/ token[j].era # revocations[token[j].user]

Replaces(d, u, p) ==
    /\ call[d].user = u /\ call[d].step \in {"issue", "answer"} /\ call[d].root # None
    /\ p \in Tabs /\ page[d].tab = p

Backed(u, p) ==
    LET copy == store[u][p]
    IN  copy.jti # None
            => Warranted(copy.jti) \/ copy.behind \/ \E d \in Calls : Replaces(d, u, p)

Aged ==
    /\ \A j \in Jtis : token[j].status # "none" => token[j].era <= revocations[token[j].user]
    /\ \A c \in Calls : call[c].step \in {"rotate", "issue"} /\ call[c].root # None
                            => call[c].era <= revocations[call[c].user]
Stored == \A u \in Users \ Operators, p \in Places : Backed(u, p)
Asked ==
    \A c \in Calls :
        /\ call[c].step \in {"verify", "refused"} /\ call[c].user \notin Operators
        /\ ~call[c].twin /\ ~page[c].behind
        => Warranted(call[c].jti)
Refused ==
    \A c \in Calls : call[c].step = "refused" =>
        /\ call[c].jti \in Jtis /\ token[call[c].jti].status \notin {"none", "live"}
        /\ token[call[c].jti].user = call[c].user
Answered == \A c \in Calls : call[c].step = "answer" => Warranted(call[c].jti)
Apart ==
    \A c \in Calls : call[c].step = "answer" =>
        /\ \A u \in Users, p \in Places : store[u][p].jti # call[c].jti
        /\ \A d \in Calls \ {c} :
               call[d].step \in {"verify", "rotate", "refused", "answer"}
                   => call[d].jti # call[c].jti

Warranting == Aged /\ Stored /\ Asked /\ Refused /\ Answered /\ Apart

(* What most steps do to a token, to a request, and to a copy: it is        *)
(* forgotten, or another of the same user, with what replaces that.         *)
Lasts(j) ==
    token[j].status # "none" =>
        /\ token'[j].status # "none" /\ token'[j].user = token[j].user
        /\ token'[j].era = token[j].era /\ token'[j].late = token[j].late
        /\ token'[j].status = "live" => token[j].status = "live"

Grows ==
    \A u \in Users : revocations[u] \in Nat /\ revocations'[u] \in Nat
                     /\ revocations[u] <= revocations'[u]

Holders == {"verify", "rotate", "refused", "answer"}

Calm(d) ==
    \/ /\ Same(call'[d], call[d]) /\ (call[d].twin => call'[d].twin)
       /\ page'[d].behind = page[d].behind
    \/ call'[d].step \notin Holders /\ call'[d].root = None
    \/ /\ call[d].step = "verify" /\ call'[d].step = "rotate"
       /\ call'[d].user = call[d].user /\ call'[d].jti = call[d].jti
       /\ call[d].jti \in Jtis /\ Owned(call[d].jti, call[d].user)
       /\ call'[d].era = token[call[d].jti].era
    \/ /\ call[d].step = "verify" /\ call'[d].step = "refused"
       /\ call'[d].user = call[d].user /\ call'[d].jti = call[d].jti
       /\ call'[d].twin = call[d].twin /\ page'[d].behind = page[d].behind
       /\ call[d].jti \in Jtis /\ Owned(call[d].jti, call[d].user)
       /\ ~Live(call[d].jti)

Inherits(u, p) ==
    store'[u][p].jti = None \/ \E q \in Places : store'[u][p].jti = store[u][q].jti

StillReplaces(d, u, q, p) ==
    Replaces(d, u, q) =>
        /\ call'[d].user = u /\ call'[d].step \in {"issue", "answer"} /\ call'[d].root # None
        /\ p \in Tabs /\ page'[d].tab = p

Succeeds(u, p) ==
    \/ store'[u][p].jti = None
    \/ \E q \in Places : /\ store'[u][p] = store[u][q]
                         /\ \A d \in Calls : StillReplaces(d, u, q, p)

LEMMA CallUsers ==
    ASSUME Typing, NEW d \in Calls, call[d].step # "idle"
    PROVE  call[d].user \in Users /\ call[d] \in Requests
  BY DEF Typing, CallsShaped, CallsTyped, ShapeOf

LEMMA HeldTokens ==
    ASSUME Typing, Refused, NEW d \in Calls, call[d].step \in Holders
    PROVE  call[d].jti \in Jtis /\ Owned(call[d].jti, call[d].user) /\ call[d].user \in Users
  BY DEF Typing, CallsShaped, ShapeOf, Holding, CallHolds, Refused, Owned, Holders

(* A copy stays backed where it goes.                                       *)
LEMMA BackedKept ==
    ASSUME Typing, Stored, NEW u \in Users \ Operators, NEW p \in Places, Succeeds(u, p),
           \A j \in Jtis : token[j].status # "none" /\ Warranted(j) => Warranted(j)'
    PROVE  Backed(u, p)'
  <1>1. CASE store'[u][p].jti = None BY <1>1 DEF Backed
  <1>2. CASE store'[u][p].jti # None
    <2>1. PICK q \in Places : /\ store'[u][p] = store[u][q]
                              /\ \A d \in Calls : StillReplaces(d, u, q, p)
      BY <1>2 DEF Succeeds
    <2>2. PICK copy : copy = store[u][q] /\ copy = store'[u][p] BY <2>1
    <2>3. copy.jti \in Jtis /\ Owned(copy.jti, u) BY <1>2, <2>2, HeldToken
    <2>4. Backed(u, q) BY DEF Stored
    <2>5. Warranted(copy.jti) \/ copy.behind \/ \E d \in Calls : Replaces(d, u, q)
      BY <1>2, <2>2, <2>4 DEF Backed
    <2>6. Warranted(copy.jti) => Warranted(copy.jti)' BY <2>3 DEF Owned
    <2>7. \A d \in Calls : Replaces(d, u, q) => Replaces(d, u, p)'
      BY <2>1 DEF StillReplaces, Replaces
    <2>8. Warranted(copy.jti)' \/ copy.behind \/ \E d \in Calls : Replaces(d, u, p)'
      BY <2>5, <2>6, <2>7
    <2> QED BY <2>2, <2>8 DEF Backed, Warranted
  <1> QED BY <1>1, <1>2

LEMMA KeptFrame ==
    ASSUME Typing, Warranting,
           \A u \in Users, p \in Places : Inherits(u, p),
           \A u \in Users \ Operators, p \in Places : Succeeds(u, p),
           \A j \in Jtis : Lasts(j), Grows,
           \A j \in Jtis : token[j].status = "none" => token'[j].status = "none",
           \A j \in Jtis : token[j].status # "none" /\ Warranted(j) => Warranted(j)',
           \A d \in Calls : Calm(d)
    PROVE  Warranting'
  <1> USE DEF Warranting
  <1>1. Aged'
    <2>1. ASSUME NEW j \in Jtis, token'[j].status # "none"
          PROVE  token'[j].era <= revocations'[token'[j].user]
      <3>1. token[j].status # "none" /\ token'[j].user = token[j].user
            /\ token'[j].era = token[j].era
        BY <2>1 DEF Lasts
      <3>2. token[j].user \in Users /\ token[j].era \in Nat
        BY <3>1 DEF Typing, TokensShaped, TokensTyped, TokenShape, Tokens
      <3>3. token[j].era <= revocations[token[j].user]
        BY <3>1 DEF Aged
      <3> QED BY <3>1, <3>2, <3>3 DEF Grows
    <2>2. ASSUME NEW d \in Calls, call'[d].step \in {"rotate", "issue"}, call'[d].root # None
          PROVE  call'[d].era <= revocations'[call'[d].user]
      <3>1. CASE Same(call'[d], call[d])
        <4>1. call[d].era <= revocations[call[d].user] BY <2>2, <3>1 DEF Same, Aged
        <4>2. call[d].user \in Users /\ call[d].era \in Nat
          BY <2>2, <3>1, CallUsers DEF Same, Requests
        <4> QED BY <3>1, <4>1, <4>2 DEF Same, Grows
      <3>2. CASE /\ call'[d].user = call[d].user /\ call[d].jti \in Jtis
                 /\ Owned(call[d].jti, call[d].user)
                 /\ call'[d].era = token[call[d].jti].era
        <4> DEFINE t == token[call[d].jti]
        <4>1. t.era <= revocations[call[d].user] BY <3>2 DEF Aged, Owned
        <4>2. call[d].user \in Users /\ t.era \in Nat
          BY <3>2 DEF Owned, Typing, TokensShaped, TokensTyped, TokenShape, Tokens
        <4> HIDE DEF t
        <4>3. call'[d].era = t.era BY <3>2 DEF t
        <4> QED BY <3>2, <4>1, <4>2, <4>3 DEF Grows
      <3> QED BY <2>2, <3>1, <3>2 DEF Calm
    <2> QED BY <2>1, <2>2 DEF Aged
  <1>2. Stored' BY BackedKept DEF Stored
  <1>3. ASSUME NEW d \in Calls, call'[d].step \in Holders
        PROVE  /\ call[d].step \in Holders /\ call'[d].jti = call[d].jti
               /\ call'[d].user = call[d].user
               /\ call'[d].step \in {"verify", "answer"} => call[d].step = call'[d].step
               /\ call'[d].step = "refused" => call[d].step \in {"verify", "refused"}
               /\ call'[d].step \in {"verify", "refused"} =>
                      (call[d].twin => call'[d].twin) /\ page'[d].behind = page[d].behind
               /\ call[d].jti \in Jtis /\ Owned(call[d].jti, call[d].user)
    <2>1. call[d].step \in Holders BY <1>3 DEF Calm, Same, Holders
    <2> QED BY <1>3, <2>1, HeldTokens DEF Calm, Same, Holders
  <1>4. Asked'
    <2> SUFFICES ASSUME NEW d \in Calls, call'[d].step \in {"verify", "refused"},
                        call'[d].user \notin Operators, ~call'[d].twin, ~page'[d].behind
                 PROVE  Warranted(call[d].jti)' /\ call'[d].jti = call[d].jti
      BY DEF Asked, Warranted
    <2>1. Warranted(call[d].jti) BY <1>3 DEF Asked, Holders
    <2> QED BY <1>3, <2>1 DEF Holders, Owned
  <1>5. Refused'
    <2> SUFFICES ASSUME NEW d \in Calls, call'[d].step = "refused"
                 PROVE  /\ call'[d].jti \in Jtis
                        /\ token'[call'[d].jti].status \notin {"none", "live"}
                        /\ token'[call'[d].jti].user = call'[d].user
      BY DEF Refused
    <2>1. /\ call'[d].jti = call[d].jti /\ call'[d].user = call[d].user
          /\ call[d].jti \in Jtis /\ Owned(call[d].jti, call[d].user)
      BY <1>3 DEF Holders
    <2>2. token[call[d].jti].status # "live"
      <3>1. CASE call[d].step = "refused" BY <3>1 DEF Refused
      <3>2. CASE call[d].step # "refused"
        <4>1. ~Same(call'[d], call[d]) BY <3>2 DEF Same
        <4> QED BY <4>1 DEF Calm, Live, Holders
      <3> QED BY <3>1, <3>2
    <2> QED BY <2>1, <2>2 DEF Lasts, Owned
  <1>6. Answered'
    <2> SUFFICES ASSUME NEW d \in Calls, call'[d].step = "answer"
                 PROVE  Warranted(call[d].jti)' /\ call'[d].jti = call[d].jti
      BY DEF Answered, Warranted
    <2>1. Warranted(call[d].jti) BY <1>3 DEF Answered, Holders
    <2> QED BY <1>3, <2>1 DEF Holders, Owned
  <1>7. Apart'
    <2> SUFFICES ASSUME NEW c \in Calls, call'[c].step = "answer"
                 PROVE  /\ \A u \in Users, p \in Places : store'[u][p].jti # call'[c].jti
                        /\ \A d \in Calls \ {c} :
                               call'[d].step \in Holders => call'[d].jti # call'[c].jti
      BY DEF Apart, Holders
    <2>1. call[c].step = "answer" /\ call'[c].jti = call[c].jti /\ call[c].jti \in Jtis
      BY <1>3 DEF Holders
    <2>2. ASSUME NEW u \in Users, NEW p \in Places PROVE store'[u][p].jti # call'[c].jti
      <3>1. \A q \in Places : store[u][q].jti # call[c].jti BY <2>1 DEF Apart
      <3> QED BY <2>1, <3>1 DEF Inherits
    <2>3. ASSUME NEW d \in Calls \ {c}, call'[d].step \in Holders
          PROVE  call'[d].jti # call'[c].jti
      <3>1. call[d].step \in Holders /\ call'[d].jti = call[d].jti BY <1>3, <2>3
      <3> QED BY <2>1, <3>1 DEF Apart, Holders
    <2> QED BY <2>2, <2>3
  <1> QED BY <1>1, <1>2, <1>4, <1>5, <1>6, <1>7

(* The steps of which this is true.                                         *)
LEMMA LastsSame ==
    ASSUME UNCHANGED token
    PROVE  \A j \in Jtis : Lasts(j) /\ (token[j].status = "none" => token'[j].status = "none")
  BY DEF Lasts

LEMMA GrowsSame ==
    ASSUME Typing, UNCHANGED revocations
    PROVE  Grows
  BY DEF Grows, Typing, CountersTyped

LEMMA StillSame ==
    ASSUME NEW d \in Calls, NEW u, NEW p, Same(call'[d], call[d]),
           page'[d].tab = page[d].tab \/ ~Replaces(d, u, p)
    PROVE  StillReplaces(d, u, p, p)
  BY DEF StillReplaces, Replaces, Same

LEMMA StoreSame ==
    ASSUME UNCHANGED store,
           \A d \in Calls, u \in Users, p \in Places : StillReplaces(d, u, p, p)
    PROVE  \A u \in Users, p \in Places : Inherits(u, p) /\ Succeeds(u, p)
  BY DEF Inherits, Succeeds

(* All tokens of a user are revoked: those that were not late are of an     *)
(* earlier era from now on.                                                 *)
LEMMA WarrantedRevoked ==
    ASSUME Typing, Aged, NEW u \in Users, RevokeRows(u)
    PROVE  /\ Grows
           /\ \A j \in Jtis :
                  /\ Lasts(j) /\ (token[j].status = "none" => token'[j].status = "none")
                  /\ token[j].status # "none" /\ Warranted(j) => Warranted(j)'
  <1>0. revocations' = [revocations EXCEPT ![u] = revocations[u] + 1] BY DEF RevokeRows
  <1>1. \A v \in Users : /\ revocations[v] \in Nat
                         /\ revocations'[v] = IF v = u THEN revocations[v] + 1
                                              ELSE revocations[v]
    BY <1>0 DEF Typing, CountersTyped
  <1>2. Grows
    <2> SUFFICES ASSUME NEW v \in Users
                 PROVE  /\ revocations[v] \in Nat /\ revocations'[v] \in Nat
                        /\ revocations[v] <= revocations'[v]
      BY DEF Grows
    <2> QED BY <1>1
  <1>3. ASSUME NEW j \in Jtis
        PROVE  /\ Lasts(j) /\ (token[j].status = "none" => token'[j].status = "none")
               /\ token[j].status # "none" /\ Warranted(j) => Warranted(j)'
    <2>1. /\ token[j] \in Tokens
          /\ token[j].status = "none" => token[j].user = None
          /\ token[j].status # "none" => token[j].user \in Users
      BY DEF Typing, TokensShaped, TokensTyped, TokenShape
    <2>2. token'[j] = IF token[j].user = u THEN [token[j] EXCEPT !.status = "revoked"]
                      ELSE token[j]
      BY DEF RevokeRows
    <2>3. CASE token[j].user = u
      <3>1. /\ token'[j].status = "revoked" /\ token'[j].user = u
            /\ token'[j].era = token[j].era /\ token'[j].late = token[j].late
        BY <2>1, <2>2, <2>3 DEF Tokens
      <3>2. token[j].status # "none" BY <2>1, <2>3
      <3>3. token[j].era \in Nat /\ token[j].era <= revocations[u]
        BY <2>1, <2>3, <3>2 DEF Tokens, Aged
      <3>4. token'[j].era # revocations'[u] BY <1>1, <3>1, <3>3
      <3> QED BY <2>3, <3>1, <3>2, <3>4 DEF Lasts, Warranted
    <2>4. CASE token[j].user # u
      <3>1. token'[j] = token[j] BY <2>2, <2>4
      <3>2. token[j].status # "none"
                => revocations'[token[j].user] = revocations[token[j].user]
        BY <1>1, <2>1, <2>4
      <3> QED BY <3>1, <3>2 DEF Lasts, Warranted
    <2> QED BY <2>3, <2>4
  <1> QED BY <1>2, <1>3

LEMMA CalmSame ==
    ASSUME NEW d \in Calls, Same(call'[d], call[d]), call[d].twin => call'[d].twin,
           page'[d].behind = page[d].behind
    PROVE  Calm(d)
  BY DEF Calm

(* A step that leaves tokens and copies alone.                              *)
LEMMA KeptCalm ==
    ASSUME Typing, Warranting, UNCHANGED <<token, revocations>>,
           \A u \in Users, p \in Places : Inherits(u, p),
           \A u \in Users \ Operators, p \in Places : Succeeds(u, p),
           \A d \in Calls : Calm(d)
    PROVE  Warranting'
  <1>1. Grows BY GrowsSame
  <1>2. \A j \in Jtis : Warranted(j) => Warranted(j)' BY DEF Warranted
  <1> QED BY <1>1, <1>2, LastsSame, KeptFrame

(* What the steps that write a copy write.                                  *)
LEMMA Wrote ==
    ASSUME Typing, NEW c \in Calls, NEW j, call[c].user \in Users, Write(c, j)
    PROVE  \A v \in Users, p \in Places :
               store'[v][p] = IF v = call[c].user /\ p \in Written(c) THEN Copy(j)
                              ELSE store[v][p]
  BY DEF Write, Typing, Holding, StoreTyped

LEMMA FellBehind ==
    ASSUME Typing, NEW c \in Calls, call[c].user \in Users, FallBehind(c)
    PROVE  \A v \in Users, p \in Places :
               IF v = call[c].user /\ store[v][p].jti = call[c].jti /\ p # page[c].tab
               THEN store'[v][p] = [jti |-> call[c].jti, behind |-> TRUE]
               ELSE store'[v][p] = store[v][p]
  BY DEF FallBehind, Typing, Holding, StoreTyped

LEMMA Opened ==
    ASSUME Typing, NEW u \in Users, NEW t \in Tabs, OpenPage(u, t)
    PROVE  /\ \A v \in Users, p \in Places :
                  store'[v][p] = IF v = u /\ u \notin Operators /\ p = t THEN store[u][Saved]
                                 ELSE store[v][p]
           /\ \A d \in Calls :
                  /\ page'[d].behind = page[d].behind
                  /\ page'[d].tab = IF call[d].user = u /\ page[d].tab = t THEN None
                                    ELSE page[d].tab
  <1>1. \A v \in Users, p \in Places :
            store'[v][p] = IF v = u /\ u \notin Operators /\ p = t THEN store[u][Saved]
                           ELSE store[v][p]
    BY DEF OpenPage, Typing, Holding, StoreTyped
  <1>2. ASSUME NEW d \in Calls
        PROVE  /\ page'[d].behind = page[d].behind
               /\ page'[d].tab = IF call[d].user = u /\ page[d].tab = t THEN None
                                 ELSE page[d].tab
    <2>1. page[d] \in Pages BY DEF Typing, PagesTyped
    <2>2. page'[d] = IF call[d].user = u /\ page[d].tab = t
                     THEN [page[d] EXCEPT !.tab = None] ELSE page[d]
      BY DEF OpenPage
    <2> QED BY <2>1, <2>2 DEF Pages
  <1> QED BY <1>1, <1>2

(* A request that ends forgets the copies of its page, or leaves them.      *)
LEMMA EndedPage ==
    ASSUME Typing, NEW c \in Calls, Close(c)
    PROVE  \A d \in Calls \ {c} : call'[d] = call[d] /\ page'[d] = page[d]
  BY DEF Close, End, Typing, PagesTyped, CallsShaped, CallsTyped

LEMMA KeptDropped ==
    ASSUME Typing, Warranting, NEW c \in Calls, Close(c), call[c].user \in Users,
           UNCHANGED <<token, revocations>>,
           \/ Write(c, None)
           \/ UNCHANGED store /\ (call[c].root = None \/ call[c].user \in Operators)
    PROVE  Warranting'
  <1>1. Ends(c) BY EndCall DEF Close, Typing, CallsShaped
  <1>2. \A d \in Calls \ {c} : call'[d] = call[d] /\ page'[d] = page[d] BY EndedPage
  <1>3. \A d \in Calls : Calm(d)
    <2>1. Calm(c) BY <1>1 DEF Ends, Begins, Becomes, Fields, Calm, Holders
    <2>2. \A d \in Calls \ {c} : Calm(d) BY <1>2, CalmSame DEF Same
    <2> QED BY <2>1, <2>2
  <1>4. CASE Write(c, None)
    <2>1. \A v \in Users, p \in Places :
              store'[v][p] = IF v = call[c].user /\ p \in Written(c) THEN Copy(None)
                             ELSE store[v][p]
      BY <1>4, Wrote
    <2>2. \A v \in Users, p \in Places : Inherits(v, p) BY <2>1 DEF Inherits, Copy
    <2>3. ASSUME NEW v \in Users \ Operators, NEW p \in Places PROVE Succeeds(v, p)
      <3>1. CASE v = call[c].user /\ p \in Written(c)
        BY <2>1, <3>1 DEF Succeeds, Copy
      <3>2. CASE ~(v = call[c].user /\ p \in Written(c))
        <4>1. ~Replaces(c, v, p) BY <3>2 DEF Replaces, Written
        <4>2. \A d \in Calls : StillReplaces(d, v, p, p)
          BY <1>2, <4>1 DEF StillReplaces, Replaces
        <4>3. store'[v][p] = store[v][p] BY <2>1, <3>2
        <4> QED BY <4>2, <4>3 DEF Succeeds
      <3> QED BY <3>1, <3>2
    <2> QED BY <1>3, <2>2, <2>3, KeptCalm
  <1>5. CASE UNCHANGED store /\ (call[c].root = None \/ call[c].user \in Operators)
    <2>1. \A v \in Users \ Operators, p \in Places, d \in Calls : StillReplaces(d, v, p, p)
      BY <1>2, <1>5 DEF StillReplaces, Replaces
    <2>2. \A v \in Users \ Operators, p \in Places : Succeeds(v, p)
      BY <1>5, <2>1 DEF Succeeds
    <2>3. \A v \in Users, p \in Places : Inherits(v, p) BY <1>5 DEF Inherits
    <2> QED BY <1>3, <2>2, <2>3, KeptCalm
  <1> QED BY <1>4, <1>5

(* A page is opened: what is saved is nobody's to replace, and only its own *)
(* tab loses the request that was to replace its copy.                      *)
LEMMA KeptOpened ==
    ASSUME Typing, Warranting, NEW u \in Users, NEW t \in Tabs, OpenPage(u, t)
    PROVE  Warranting'
  <1>1. UNCHANGED <<token, call, revocations>> BY DEF OpenPage
  <1>2. /\ \A v \in Users, p \in Places :
               store'[v][p] = IF v = u /\ u \notin Operators /\ p = t THEN store[u][Saved]
                              ELSE store[v][p]
        /\ \A d \in Calls :
               /\ page'[d].behind = page[d].behind
               /\ page'[d].tab = IF call[d].user = u /\ page[d].tab = t THEN None
                                 ELSE page[d].tab
    BY Opened
  <1>3. \A d \in Calls : Calm(d) BY <1>1, <1>2, CalmSame DEF Same
  <1>4. \A v \in Users, p \in Places : Inherits(v, p) BY <1>2 DEF Inherits
  <1>5. ASSUME NEW v \in Users \ Operators, NEW p \in Places PROVE Succeeds(v, p)
    <2>1. CASE v = u /\ p = t
      <3>1. store'[v][p] = store[v][Saved] BY <1>2, <2>1
      <3>2. \A d \in Calls : ~Replaces(d, v, Saved) BY DEF Replaces
      <3> QED BY <3>1, <3>2 DEF Succeeds, StillReplaces
    <2>2. CASE ~(v = u /\ p = t)
      <3>1. store'[v][p] = store[v][p] BY <1>2, <2>2
      <3>2. \A d \in Calls : StillReplaces(d, v, p, p)
        BY <1>1, <1>2, <2>2 DEF StillReplaces, Replaces
      <3> QED BY <3>1, <3>2 DEF Succeeds
    <2> QED BY <2>1, <2>2
  <1> QED BY <1>1, <1>3, <1>4, <1>5, KeptCalm

(* A refresh starts with the token its tab holds: nobody replaces it, or    *)
(* both are twins.                                                          *)
LEMMA KeptRefresh ==
    ASSUME Typing, Warranting, NEW c \in Calls, NEW u \in Users, NEW t \in Tabs, Refresh(c, u, t)
    PROVE  Warranting'
  <1> USE DEF Warranting
  <1>0. store[u][t].jti # None BY DEF Refresh
  <1>1. store[u][t].jti \in Jtis /\ Owned(store[u][t].jti, u) BY <1>0, HeldToken
  <1>2. /\ call[c].step = "idle"
        /\ Fields(call'[c], "verify", u, store[u][t].jti, None, None, 0, FALSE, Beside(u) # {})
        /\ \A d \in Calls \ {c} :
               /\ Same(call'[d], call[d])
               /\ call'[d].twin = (call[d].twin \/ d \in Beside(u))
    BY <1>1, RefreshCall DEF Typing, CallsShaped
  <1>3. UNCHANGED <<token, store, revocations>> BY DEF Refresh
  <1>4. /\ call'[c].step = "verify" /\ call'[c].user = u /\ call'[c].jti = store[u][t].jti
        /\ call'[c].root = None /\ call'[c].twin = (Beside(u) # {})
    BY <1>2 DEF Fields
  <1>5. ASSUME NEW d \in Calls, call'[d].step \in {"rotate", "issue", "refused", "answer"}
        PROVE  d # c /\ Same(call'[d], call[d])
    BY <1>2, <1>4, <1>5
  <1>12. /\ page'[c].behind = store[u][t].behind
         /\ \A d \in Calls \ {c} : page'[d] = page[d]
    BY DEF Refresh, Typing, PagesTyped
  <1>6. Aged'
    <2>1. \A j \in Jtis : token[j].status # "none"
              => token[j].era <= revocations[token[j].user]
      BY DEF Aged
    <2>2. \A d \in Calls : call'[d].step \in {"rotate", "issue"} /\ call'[d].root # None
              => call'[d].era <= revocations[call'[d].user]
      BY <1>5 DEF Aged, Same
    <2> QED BY <1>3, <2>1, <2>2 DEF Aged
  <1>7. Stored'
    <2>1. \A d \in Calls, v \in Users, p \in Places : StillReplaces(d, v, p, p)
      BY <1>2, <1>12 DEF StillReplaces, Replaces, Same
    <2>2. \A j \in Jtis : Warranted(j) => Warranted(j)' BY <1>3 DEF Warranted
    <2> QED BY <1>3, <2>1, <2>2, StoreSame, BackedKept DEF Stored
  <1>8. Asked'
    <2> SUFFICES ASSUME NEW d \in Calls, call'[d].step \in {"verify", "refused"},
                        call'[d].user \notin Operators, ~call'[d].twin, ~page'[d].behind
                 PROVE  Warranted(call'[d].jti)
      BY <1>3 DEF Asked, Warranted
    <2>1. CASE d = c
      <3>1. Beside(u) = {} /\ u \in Users \ Operators BY <1>4, <2>1
      <3>2. \A e \in Calls : ~Replaces(e, u, t) BY <3>1 DEF Replaces, Beside, Refreshing
      <3>3. ~store[u][t].behind BY <1>12, <2>1
      <3> QED BY <1>0, <1>4, <2>1, <3>1, <3>2, <3>3 DEF Stored, Backed
    <2>2. CASE d # c BY <1>2, <1>12, <2>2 DEF Asked, Same
    <2> QED BY <2>1, <2>2
  <1>9. Refused' BY <1>3, <1>5 DEF Refused, Same
  <1>10. Answered' BY <1>3, <1>5 DEF Answered, Same, Warranted
  <1>11. Apart'
    <2> SUFFICES ASSUME NEW d \in Calls, call'[d].step = "answer"
                 PROVE  /\ \A v \in Users, p \in Places : store[v][p].jti # call'[d].jti
                        /\ \A e \in Calls \ {d} :
                               call'[e].step \in Holders => call'[e].jti # call'[d].jti
      BY <1>3 DEF Apart, Holders
    <2>1. d # c /\ call[d].step = "answer" /\ call'[d].jti = call[d].jti
      BY <1>5 DEF Same
    <2>2. \A v \in Users, p \in Places : store[v][p].jti # call[d].jti BY <2>1 DEF Apart
    <2>3. ASSUME NEW e \in Calls \ {d}, call'[e].step \in Holders
          PROVE  call'[e].jti # call'[d].jti
      <3>1. CASE e = c BY <1>4, <2>1, <2>2, <3>1
      <3>2. CASE e # c BY <1>2, <2>1, <2>3, <3>2 DEF Apart, Same, Holders
      <3> QED BY <3>1, <3>2
    <2> QED BY <2>1, <2>2, <2>3
  <1> QED BY <1>6, <1>7, <1>8, <1>9, <1>10, <1>11

(* The old token is revoked: the tab the request came from is being given   *)
(* another, the other copies are behind, and whoever looks it up is a twin. *)
LEMMA KeptRotate ==
    ASSUME Typing, Rotating, Warranting, NEW c \in Calls, Rotate(c)
    PROVE  Warranting'
  <1> USE DEF Warranting
  <1> DEFINE k == call[c].jti
  <1>0. CallsTyped /\ TokensTyped BY DEF Typing, CallsShaped, TokensShaped
  <1>1. /\ call[c].step = "rotate" /\ Continues(c, "issue")
        /\ UNCHANGED <<page, revocations>>
    BY <1>0, AdvanceCall DEF Rotate, Advance, Steps
  <1>2. /\ call'[c].step = "issue" /\ call'[c].user = call[c].user
        /\ call'[c].root = call[c].root /\ call'[c].era = call[c].era
        /\ \A d \in Calls \ {c} : call'[d] = call[d]
    BY <1>1 DEF Continues, Becomes, Fields
  <1>3. call[c].root # None /\ call[c].user \in Users
    BY <1>1 DEF Typing, CallsShaped, ShapeOf
  <1>4. k \in Jtis /\ Owned(k, call[c].user) BY <1>1, HeldTokens DEF Holders
  <1>5. \A j \in Jtis : token'[j] = IF j = k THEN [token[j] EXCEPT !.status = "revoked"]
                                    ELSE token[j]
    BY <1>0 DEF Rotate, TokensTyped
  <1>6. \A j \in Jtis : /\ Lasts(j) /\ (token[j].status = "none" => token'[j].status = "none")
                        /\ j # k => token'[j] = token[j]
    <2> TAKE j \in Jtis
    <2>1. token[j] \in Tokens BY <1>0 DEF TokensTyped
    <2>2. CASE j = k
      <3>1. token[j].status # "none" BY <1>4, <2>2 DEF Owned
      <3>2. token'[j] = [token[j] EXCEPT !.status = "revoked"] BY <1>5, <2>2
      <3> QED BY <2>1, <2>2, <3>1, <3>2 DEF Tokens, Lasts
    <2>3. CASE j # k BY <1>5, <2>3 DEF Lasts
    <2> QED BY <2>2, <2>3
  <1>13. \A v \in Users, p \in Places :
             IF v = call[c].user /\ store[v][p].jti = k /\ p # page[c].tab
             THEN store'[v][p] = [jti |-> k, behind |-> TRUE]
             ELSE store'[v][p] = store[v][p]
    BY <1>3, FellBehind DEF Rotate
  <1> HIDE DEF k
  <1>14. \A v \in Users, p \in Places : store'[v][p].jti = store[v][p].jti BY <1>13
  <1>7. Aged'
    <2>1. ASSUME NEW j \in Jtis, token'[j].status # "none"
          PROVE  token'[j].era <= revocations[token'[j].user]
      BY <1>6, <2>1 DEF Lasts, Aged
    <2>2. ASSUME NEW d \in Calls, call'[d].step \in {"rotate", "issue"}, call'[d].root # None
          PROVE  call'[d].era <= revocations[call'[d].user]
      <3>1. CASE d = c BY <1>1, <1>2, <1>3, <3>1 DEF Aged
      <3>2. CASE d # c BY <1>2, <2>2, <3>2 DEF Aged
      <3> QED BY <3>1, <3>2
    <2> QED BY <1>1, <2>1, <2>2 DEF Aged
  <1>8. Stored'
    <2> SUFFICES ASSUME NEW u \in Users \ Operators, NEW p \in Places,
                        store'[u][p].jti # None
                 PROVE  Backed(u, p)'
      BY DEF Stored, Backed
    <2>0. store[u][p].jti = store'[u][p].jti BY <1>14
    <2>1. PICK j : j = store[u][p].jti /\ j = store'[u][p].jti BY <2>0
    <2>2. j \in Jtis /\ Owned(j, u)
      <3>1. u \in Users /\ store[u][p].jti # None BY <2>0
      <3>2. store[u][p].jti \in Jtis /\ Owned(store[u][p].jti, u) BY <3>1, HeldToken
      <3> QED BY <2>1, <3>2
    <2>3. CASE j = k
      <3>1. call[c].user = u BY <1>4, <2>2, <2>3 DEF Owned
      <3>2. CASE p = page[c].tab
        <4>1. p \in Tabs
          BY <3>2 DEF Typing, PagesTyped, Pages
        <4>2. Replaces(c, u, p)' BY <1>1, <1>2, <1>3, <3>1, <3>2, <4>1 DEF Replaces
        <4> QED BY <4>2 DEF Backed
      <3>3. CASE p # page[c].tab
        <4>1. u = call[c].user /\ store[u][p].jti = k /\ p # page[c].tab
          BY <2>1, <2>3, <3>1, <3>3
        <4>2. store'[u][p] = [jti |-> k, behind |-> TRUE] BY <1>13, <4>1
        <4>3. store'[u][p].behind BY <4>2
        <4> QED BY <4>3 DEF Backed
      <3> QED BY <3>2, <3>3
    <2>4. CASE j # k
      <3>1. token'[j] = token[j] BY <1>6, <2>2, <2>4
      <3>2. store'[u][p] = store[u][p] BY <1>13, <2>1, <2>4
      <3>3. Backed(u, p) BY DEF Stored
      <3>4. CASE Warranted(j)
        <4>1. Warranted(j)' BY <1>1, <3>1, <3>4 DEF Warranted
        <4> QED BY <2>1, <4>1 DEF Backed, Warranted
      <3>5. CASE store[u][p].behind BY <3>2, <3>5 DEF Backed
      <3>6. ASSUME NEW d \in Calls, Replaces(d, u, p) PROVE Backed(u, p)'
        <4>1. d # c BY <1>1, <3>6 DEF Replaces
        <4>2. Replaces(d, u, p)' BY <1>1, <1>2, <3>6, <4>1 DEF Replaces
        <4> QED BY <4>2 DEF Backed
      <3>7. Warranted(j) \/ store[u][p].behind \/ \E d \in Calls : Replaces(d, u, p)
        BY <2>1, <3>2, <3>3 DEF Backed
      <3> QED BY <3>4, <3>5, <3>6, <3>7
    <2> QED BY <2>3, <2>4
  <1>9. Asked'
    <2> SUFFICES ASSUME NEW d \in Calls, call'[d].step \in {"verify", "refused"},
                        call'[d].user \notin Operators, ~call'[d].twin, ~page[d].behind
                 PROVE  Warranted(call[d].jti)' /\ call'[d].jti = call[d].jti
      BY <1>1 DEF Asked, Warranted
    <2>1. d # c /\ call'[d] = call[d] BY <1>2
    <2>2. call[d].jti \in Jtis /\ Owned(call[d].jti, call[d].user)
      BY <2>1, HeldTokens DEF Holders
    <2>3. call[d].jti # k
      <3> SUFFICES ASSUME call[d].jti = k PROVE FALSE OBVIOUS
      <3>1. call[d].user = call[c].user BY <1>4, <2>2 DEF Owned
      <3>2. Refreshing(c) /\ Refreshing(d) BY <1>1, <2>1 DEF Refreshing
      <3> QED BY <2>1, <3>1, <3>2 DEF Rotating, Overlapping
    <2>4. Warranted(call[d].jti) BY <2>1 DEF Asked
    <2>5. token'[call[d].jti] = token[call[d].jti] BY <1>6, <2>2, <2>3
    <2> QED BY <1>1, <2>1, <2>4, <2>5 DEF Warranted
  <1>10. Refused'
    <2> SUFFICES ASSUME NEW d \in Calls, call'[d].step = "refused"
                 PROVE  /\ call'[d].jti \in Jtis
                        /\ token'[call'[d].jti].status \notin {"none", "live"}
                        /\ token'[call'[d].jti].user = call'[d].user
      BY DEF Refused
    <2>1. d # c /\ call'[d] = call[d] BY <1>2
    <2> QED BY <1>6, <2>1 DEF Refused, Lasts
  <1>11. Answered'
    <2> SUFFICES ASSUME NEW d \in Calls, call'[d].step = "answer"
                 PROVE  Warranted(call[d].jti)' /\ call'[d].jti = call[d].jti
      BY DEF Answered, Warranted
    <2>1. d # c /\ call'[d] = call[d] BY <1>2
    <2>2. call[d].jti \in Jtis BY <2>1, HeldTokens DEF Holders
    <2>3. call[d].jti # k BY <1>1, <2>1 DEF Apart, k
    <2>4. token'[call[d].jti] = token[call[d].jti] BY <1>6, <2>2, <2>3
    <2> QED BY <1>1, <2>1, <2>4 DEF Answered, Warranted
  <1>12. Apart'
    <2> SUFFICES ASSUME NEW d \in Calls, call'[d].step = "answer"
                 PROVE  /\ \A v \in Users, p \in Places : store'[v][p].jti # call'[d].jti
                        /\ \A e \in Calls \ {d} :
                               call'[e].step \in Holders => call'[e].jti # call'[d].jti
      BY DEF Apart, Holders
    <2>1. d # c /\ call'[d] = call[d] BY <1>2
    <2>2. ASSUME NEW e \in Calls \ {d}, call'[e].step \in Holders PROVE e # c /\ call'[e] = call[e]
      BY <1>2, <2>2 DEF Holders
    <2> QED BY <1>14, <2>1, <2>2 DEF Apart, Holders
  <1> QED BY <1>7, <1>8, <1>9, <1>10, <1>11, <1>12

(* A fresh token is issued: nobody has it but the answer.                   *)
LEMMA KeptIssue ==
    ASSUME Typing, Warranting, NEW c \in Calls, IssueTokens(c)
    PROVE  Warranting'
  <1> USE DEF Warranting
  <1> DEFINE q == call[c]
             t(j) == [status |-> "live", user |-> q.user,
                      root |-> IF q.root # None THEN q.root ELSE j,
                      era |-> IF q.root # None THEN q.era ELSE revocations[q.user],
                      late |-> q.late, twin |-> q.twin]
  <1>0. CallsTyped /\ TokensTyped BY DEF Typing, CallsShaped, TokensShaped
  <1>1. PICK j \in Fresh :
            /\ q.step = "issue" /\ token' = [token EXCEPT ![j] = t(j)]
            /\ Becomes(c, "answer", q.user, j, q.root, q.invite, q.era, q.late, q.twin)
    BY <1>0, IssueCall
  <1>2. j \in Jtis /\ token[j].status = "none" BY <1>1 DEF Fresh, NoToken
  <1>3. token'[j] = t(j) /\ \A i \in Jtis \ {j} : token'[i] = token[i]
    BY <1>0, <1>1, <1>2 DEF TokensTyped
  <1>4. /\ call'[c].step = "answer" /\ call'[c].user = q.user /\ call'[c].jti = j
        /\ call'[c].root = q.root /\ \A d \in Calls \ {c} : call'[d] = call[d]
    BY <1>1 DEF Becomes, Fields
  <1>5. UNCHANGED <<store, page, revocations>> BY DEF IssueTokens
  <1>6. q.user \in Users /\ q \in Requests BY <1>1, CallUsers
  <1>7. /\ t(j).status = "live" /\ t(j).user = q.user
        /\ t(j).era = IF q.root # None THEN q.era ELSE revocations[q.user]
    OBVIOUS
  <1>8. t(j).era <= revocations[q.user]
    <2>1. revocations[q.user] \in Nat BY <1>6 DEF Typing, CountersTyped
    <2>2. CASE q.root # None BY <1>1, <1>7, <2>2 DEF Aged
    <2>3. CASE q.root = None BY <1>7, <2>1, <2>3
    <2> QED BY <2>2, <2>3
  <1> HIDE DEF t
  <1>9. \A d \in Calls \ {c} : call[d].step \in Holders
            => call[d].jti \in Jtis \ {j} /\ token'[call[d].jti] = token[call[d].jti]
    BY <1>2, <1>3, HeldTokens DEF Owned
  <1>10. \A u \in Users, p \in Places : store[u][p].jti # j
    BY <1>2, HeldToken DEF Owned
  <1>11. Aged'
    <2>1. ASSUME NEW i \in Jtis, token'[i].status # "none"
          PROVE  token'[i].era <= revocations[token'[i].user]
      <3>1. CASE i = j BY <1>3, <1>7, <1>8, <3>1
      <3>2. CASE i # j BY <1>3, <2>1, <3>2 DEF Aged
      <3> QED BY <3>1, <3>2
    <2>2. ASSUME NEW d \in Calls, call'[d].step \in {"rotate", "issue"}, call'[d].root # None
          PROVE  call'[d].era <= revocations[call'[d].user]
      BY <1>4, <2>2 DEF Aged
    <2> QED BY <1>5, <2>1, <2>2 DEF Aged
  <1>12. Stored'
    <2>1. \A d \in Calls, u \in Users, p \in Places : StillReplaces(d, u, p, p)
      BY <1>4, <1>5 DEF StillReplaces, Replaces
    <2>2. \A i \in Jtis : token[i].status # "none" /\ Warranted(i) => Warranted(i)'
      BY <1>2, <1>3, <1>5 DEF Warranted
    <2> QED BY <1>5, <2>1, <2>2, StoreSame, BackedKept DEF Stored
  <1>13. Asked'
    <2> SUFFICES ASSUME NEW d \in Calls, call'[d].step \in {"verify", "refused"},
                        call'[d].user \notin Operators, ~call'[d].twin, ~page[d].behind
                 PROVE  Warranted(call[d].jti)' /\ call'[d].jti = call[d].jti
      BY <1>5 DEF Asked, Warranted
    <2>1. d # c /\ call'[d] = call[d] BY <1>4
    <2>2. Warranted(call[d].jti) BY <2>1 DEF Asked
    <2> QED BY <1>5, <1>9, <2>1, <2>2 DEF Warranted, Holders
  <1>14. Refused'
    <2> SUFFICES ASSUME NEW d \in Calls, call'[d].step = "refused"
                 PROVE  /\ call'[d].jti \in Jtis
                        /\ token'[call'[d].jti].status \notin {"none", "live"}
                        /\ token'[call'[d].jti].user = call'[d].user
      BY DEF Refused
    <2>1. d # c /\ call'[d] = call[d] BY <1>4
    <2> QED BY <1>9, <2>1 DEF Refused, Holders
  <1>15. Answered'
    <2> SUFFICES ASSUME NEW d \in Calls, call'[d].step = "answer"
                 PROVE  token'[call'[d].jti].status = "revoked" =>
                            \/ token'[call'[d].jti].late
                            \/ token'[call'[d].jti].era
                                   # revocations'[token'[call'[d].jti].user]
      BY DEF Answered, Warranted
    <2>1. CASE d = c BY <1>3, <1>4, <1>7, <2>1
    <2>2. CASE d # c
      <3>1. call'[d] = call[d] BY <1>4, <2>2
      <3> QED BY <1>5, <1>9, <2>2, <3>1 DEF Answered, Warranted, Holders
    <2> QED BY <2>1, <2>2
  <1>16. Apart'
    <2> SUFFICES ASSUME NEW d \in Calls, call'[d].step = "answer"
                 PROVE  /\ \A v \in Users, p \in Places : store[v][p].jti # call'[d].jti
                        /\ \A e \in Calls \ {d} :
                               call'[e].step \in Holders => call'[e].jti # call'[d].jti
      BY <1>5 DEF Apart, Holders
    <2>1. CASE d = c
      <3>1. \A e \in Calls \ {c} : call'[e].step \in Holders => call'[e].jti # j
        BY <1>4, <1>9
      <3> QED BY <1>4, <1>10, <2>1, <3>1
    <2>2. CASE d # c
      <3>1. call'[d] = call[d] /\ call[d].jti # j BY <1>4, <1>9, <2>2 DEF Holders
      <3>2. \A e \in Calls \ {d} : call'[e].step \in Holders => call'[e].jti # call[d].jti
        BY <1>4, <3>1 DEF Apart, Holders
      <3> QED BY <3>1, <3>2 DEF Apart
    <2> QED BY <2>1, <2>2
  <1> QED BY <1>11, <1>12, <1>13, <1>14, <1>15, <1>16

(* The tab, if it is there, keeps what was answered.                        *)
LEMMA KeptStore ==
    ASSUME Typing, Warranting, NEW c \in Calls, StoreSession(c)
    PROVE  Warranting'
  <1> USE DEF Warranting
  <1>1. call[c].step = "answer" /\ UNCHANGED <<token, revocations>> BY DEF StoreSession
  <1>2. Ends(c) BY EndingCall DEF Typing, CallsShaped
  <1>3. /\ call'[c].step = "idle" /\ call'[c].root = None
        /\ \A d \in Calls \ {c} : call'[d] = call[d] /\ page'[d] = page[d]
    BY <1>2, EndedPage DEF Ends, Begins, Becomes, Fields, StoreSession
  <1>4. \A u \in Users, p \in Places :
            store'[u][p] = IF u = call[c].user /\ p \in Written(c) THEN Copy(call[c].jti)
                           ELSE store[u][p]
    BY <1>1, CallUsers, Wrote DEF StoreSession
  <1>5. Aged' BY <1>1, <1>3 DEF Aged
  <1>6. Stored'
    <2> SUFFICES ASSUME NEW u \in Users \ Operators, NEW p \in Places
                 PROVE  Backed(u, p)'
      BY DEF Stored
    <2>1. CASE u = call[c].user /\ p \in Written(c)
      <3>1. store'[u][p].jti = call[c].jti BY <1>4, <2>1 DEF Copy
      <3>2. Warranted(call[c].jti) BY <1>1 DEF Answered
      <3> QED BY <1>1, <3>1, <3>2 DEF Backed, Warranted
    <2>2. CASE ~(u = call[c].user /\ p \in Written(c))
      <3>1. store'[u][p] = store[u][p] BY <1>4, <2>2
      <3>2. ~Replaces(c, u, p) BY <2>2 DEF Replaces, Written
      <3>3. \A d \in Calls : StillReplaces(d, u, p, p)
        BY <1>3, <3>2 DEF StillReplaces, Replaces
      <3>4. Succeeds(u, p) BY <3>1, <3>3 DEF Succeeds
      <3>5. \A j \in Jtis : Warranted(j) => Warranted(j)' BY <1>1 DEF Warranted
      <3> QED BY <3>4, <3>5, BackedKept
    <2> QED BY <2>1, <2>2
  <1>7. Asked' BY <1>1, <1>3 DEF Asked, Warranted
  <1>8. Refused' BY <1>1, <1>3 DEF Refused
  <1>9. Answered' BY <1>1, <1>3 DEF Answered, Warranted
  <1>10. Apart'
    <2> SUFFICES ASSUME NEW d \in Calls, call'[d].step = "answer"
                 PROVE  /\ \A v \in Users, p \in Places : store'[v][p].jti # call'[d].jti
                        /\ \A e \in Calls \ {d} :
                               call'[e].step \in Holders => call'[e].jti # call'[d].jti
      BY DEF Apart, Holders
    <2>1. d # c /\ call'[d] = call[d] /\ call[d].jti # call[c].jti BY <1>1, <1>3 DEF Apart
    <2>2. \A v \in Users, p \in Places : store'[v][p].jti # call'[d].jti
      BY <1>4, <2>1 DEF Apart, Copy
    <2>3. \A e \in Calls \ {d} : call'[e].step \in Holders => call'[e].jti # call'[d].jti
      BY <1>3, <2>1 DEF Apart, Holders
    <2> QED BY <2>2, <2>3
  <1> QED BY <1>5, <1>6, <1>7, <1>8, <1>9, <1>10

LEMMA KeptSession ==
    ASSUME Typing, Rotating, Warranting, NEW c \in Calls, SessionNext(c)
    PROVE  Warranting'
  <1>0. CallsTyped /\ ShapeOf(call[c]) BY DEF Typing, CallsShaped
  <1>1. ASSUME Calm(c), UNCHANGED <<token, store, revocations>>,
               \A d \in Calls \ {c} : call'[d] = call[d] /\ page'[d] = page[d],
               call[c].step \notin {"issue", "answer"}
        PROVE  Warranting'
    <2>1. \A d \in Calls \ {c} : Calm(d) BY <1>1, CalmSame DEF Same
    <2>2. \A d \in Calls, u \in Users, p \in Places : StillReplaces(d, u, p, p)
      BY <1>1 DEF StillReplaces, Replaces
    <2> QED BY <1>1, <2>1, <2>2, StoreSame, KeptCalm
  <1>2. ASSUME NEW s \in Steps \ Holders, NEW u \in Users, NEW t \in Tabs, Begins(c, s, u),
               call[c].step = "idle", UNCHANGED <<token, store, revocations>>,
               page' = [page EXCEPT ![c] = [Away EXCEPT !.tab = t]]
        PROVE  Warranting'
    <2>1. Calm(c) BY <1>2 DEF Begins, Becomes, Fields, Calm
    <2>2. \A d \in Calls \ {c} : call'[d] = call[d] /\ page'[d] = page[d]
      BY <1>2 DEF Begins, Becomes, Typing, PagesTyped
    <2> QED BY <1>1, <1>2, <2>1, <2>2
  <1>3. ASSUME NEW u \in Users, NEW t \in Tabs,
               Login(c, u, t) \/ OperatorLogin(c, u, t) PROVE Warranting'
    <2>1. Begins(c, "issue", u) /\ call[c].step = "idle"
      BY <1>3, SignInShape DEF Login, OperatorLogin, Typing
    <2>2. /\ UNCHANGED <<token, store, revocations>>
          /\ page' = [page EXCEPT ![c] = [Away EXCEPT !.tab = t]]
      BY <1>3 DEF Login, OperatorLogin, SignIn
    <2> QED BY <1>2, <2>1, <2>2 DEF Steps, Holders
  <1>4. ASSUME NEW u \in Users, NEW t \in Tabs, Logout(c, u, t) PROVE Warranting'
    <2>1. Begins(c, "logout", u) /\ call[c].step = "idle"
      BY <1>0, <1>4, StartCall DEF Logout, Steps
    <2>2. /\ UNCHANGED <<token, store, revocations>>
          /\ page' = [page EXCEPT ![c] = [Away EXCEPT !.tab = t]]
      BY <1>4 DEF Logout
    <2> QED BY <1>2, <2>1, <2>2 DEF Steps, Holders
  <1>5. CASE Verify(c)
    <2>1. call[c].step = "verify" /\ UNCHANGED <<token, store, page, revocations>>
      BY <1>5 DEF Verify
    <2>2. call[c].jti \in Jtis /\ Owned(call[c].jti, call[c].user)
      BY <2>1 DEF Typing, CallsShaped, ShapeOf, Holding, CallHolds
    <2>3. /\ call'[c].step = "rotate" /\ call'[c].user = call[c].user
          /\ call'[c].jti = call[c].jti /\ call'[c].era = token[call[c].jti].era
          /\ \A d \in Calls \ {c} : call'[d] = call[d]
      BY <1>0, <1>5, <2>2, VerifyCall DEF Becomes, Fields, Typing, TokensShaped
    <2>4. Calm(c) BY <2>1, <2>2, <2>3 DEF Calm
    <2> QED BY <1>1, <2>1, <2>3, <2>4
  <1>6. CASE RefuseToken(c)
    <2>1. /\ call[c].step = "verify" /\ ~Live(call[c].jti)
          /\ UNCHANGED <<token, store, page, revocations>>
      BY <1>6 DEF RefuseToken, Accepts, Live
    <2>2. call[c].jti \in Jtis /\ Owned(call[c].jti, call[c].user)
      BY <2>1 DEF Typing, CallsShaped, ShapeOf, Holding, CallHolds
    <2>3. Continues(c, "refused") BY <1>0, <1>6, AdvanceCall DEF RefuseToken, Steps
    <2>4. Calm(c) BY <2>1, <2>2, <2>3 DEF Continues, Becomes, Fields, Calm
    <2>5. \A d \in Calls \ {c} : call'[d] = call[d] BY <2>3 DEF Continues, Becomes
    <2> QED BY <1>1, <2>1, <2>4, <2>5
  <1>7. CASE ClearSession(c) \/ LoseAnswer(c)
    <2>1. /\ UNCHANGED <<token, revocations>> /\ Close(c) /\ call[c].step # "idle"
          /\ IF Refreshing(c) /\ call[c].user \notin Operators
             THEN Write(c, None) ELSE UNCHANGED store
      BY <1>7 DEF ClearSession, LoseAnswer, Drop
    <2>2. call[c].user \in Users BY <1>0, <2>1 DEF ShapeOf
    <2>3. \/ Write(c, None)
          \/ UNCHANGED store /\ (call[c].root = None \/ call[c].user \in Operators)
      BY <2>1 DEF Refreshing
    <2> QED BY <2>1, <2>2, <2>3, KeptDropped
  <1>8. CASE Leave(c)
    <2>1. /\ UNCHANGED <<token, revocations>> /\ Close(c) /\ call[c].step # "idle"
          /\ Write(c, None)
      BY <1>8 DEF Leave
    <2>2. call[c].user \in Users BY <1>0, <2>1 DEF ShapeOf
    <2> QED BY <2>1, <2>2, KeptDropped
  <1>9. CASE RevokeAllRefreshTokens(c)
    <2>1. call[c].step = "logout" /\ RevokeRows(call[c].user) /\ UNCHANGED <<store, page>>
      BY <1>9 DEF RevokeAllRefreshTokens
    <2>2. call[c].root = None /\ call[c].user \in Users BY <1>0, <2>1 DEF ShapeOf
    <2>3. /\ call'[c].step = "leave" /\ call'[c].root = call[c].root
          /\ \A d \in Calls \ {c} : Same(call'[d], call[d]) /\ call'[d].twin = call[d].twin
      BY <1>0, <1>9, RevokeAllCall DEF Fields
    <2>4. Calm(c) BY <2>2, <2>3 DEF Calm, Holders
    <2>5. \A d \in Calls : Calm(d) BY <2>1, <2>3, <2>4, CalmSame
    <2>6. \A d \in Calls, u \in Users, p \in Places : StillReplaces(d, u, p, p)
      BY <2>1, <2>3 DEF StillReplaces, Replaces, Same
    <2> QED BY <2>1, <2>2, <2>5, <2>6, StoreSame, WarrantedRevoked, KeptFrame DEF Warranting
  <1> QED BY <1>3, <1>4, <1>5, <1>6, <1>7, <1>8, <1>9, KeptRefresh, KeptRotate, KeptIssue, KeptStore
          DEF SessionNext

LEMMA KeptExpires ==
    ASSUME Typing, Warranting, NEW j \in Jtis, Expire(j)
    PROVE  Warranting'
  <1>1. /\ token[j].status = "live" /\ UNCHANGED <<call, store, page, revocations>>
        /\ token' = [token EXCEPT ![j] = [token[j] EXCEPT !.status = "expired"]]
    BY DEF Expire
  <1>2. ASSUME NEW k \in Jtis
        PROVE  /\ Lasts(k) /\ (token[k].status = "none" => token'[k].status = "none")
               /\ Warranted(k) => Warranted(k)'
    <2>1. token[k] \in Tokens BY DEF Typing, TokensShaped, TokensTyped
    <2>2. token'[k] = IF j = k THEN [token[k] EXCEPT !.status = "expired"] ELSE token[k]
      BY <1>1 DEF Typing, TokensShaped, TokensTyped
    <2>3. CASE j = k
      <3>1. /\ token'[k].status = "expired" /\ token'[k].user = token[k].user
            /\ token'[k].era = token[k].era /\ token'[k].late = token[k].late
        BY <2>1, <2>2, <2>3 DEF Tokens
      <3> QED BY <1>1, <2>3, <3>1 DEF Lasts, Warranted
    <2>4. CASE j # k
      <3>1. token'[k] = token[k] BY <2>2, <2>4
      <3> QED BY <1>1, <3>1 DEF Lasts, Warranted
    <2> QED BY <2>3, <2>4
  <1>3. Grows BY <1>1, GrowsSame
  <1>4. \A d \in Calls : Calm(d) BY <1>1, CalmSame DEF Same
  <1>5. \A d \in Calls, u \in Users, p \in Places : StillReplaces(d, u, p, p)
    BY <1>1 DEF StillReplaces, Replaces
  <1> QED BY <1>1, <1>2, <1>3, <1>4, <1>5, StoreSame, KeptFrame

LEMMA KeptStep == Typing /\ Rotating /\ Warranting /\ [Next]_vars => Warranting'
  <1> SUFFICES ASSUME Typing, Rotating, Warranting, [Next]_vars PROVE Warranting' OBVIOUS
  <1>1. CASE UNCHANGED <<token, store, page, call, revocations>>
    <2>1. \A d \in Calls : Calm(d) BY <1>1, CalmSame DEF Same
    <2>2. \A d \in Calls, u \in Users, p \in Places : StillReplaces(d, u, p, p)
      BY <1>1 DEF StillReplaces, Replaces
    <2> QED BY <1>1, <2>1, <2>2, StoreSame, KeptCalm
  <1>2. ASSUME NEW c \in Calls, InvitationNext(c) PROVE Warranting'
    <2>1. PlainChange(c) BY <1>2, InvitationPlain
    <2>2. UNCHANGED <<token, store, page, revocations>> BY <1>2, InvitationFrame
    <2>3. \A d \in Calls : Calm(d)
      <3> TAKE d \in Calls
      <3>1. CASE d = c BY <2>1, <3>1 DEF PlainChange, Plain, Holders, Calm
      <3>2. CASE d # c BY <2>1, <2>2, <3>2, CalmSame DEF PlainChange, Same
      <3> QED BY <3>1, <3>2
    <2>4. \A d \in Calls, u \in Users, p \in Places : StillReplaces(d, u, p, p)
      BY <2>1, <2>2 DEF PlainChange, Plain, StillReplaces, Replaces
    <2> QED BY <2>2, <2>3, <2>4, StoreSame, KeptCalm
  <1>3. ASSUME NEW u \in Users, RevokeSessions(u) PROVE Warranting'
    <2>1. RevokeRows(u) /\ UNCHANGED <<store, page>> BY <1>3 DEF RevokeSessions
    <2>2. \A d \in Calls : Same(call'[d], call[d]) /\ call'[d].twin = call[d].twin
      BY <1>3, RevokeSessionsCall DEF Typing, CallsShaped
    <2>3. \A d \in Calls : Calm(d) BY <2>1, <2>2, CalmSame
    <2>4. \A d \in Calls, v \in Users, p \in Places : StillReplaces(d, v, p, p)
      BY <2>1, <2>2, StillSame
    <2> QED BY <2>1, <2>3, <2>4, StoreSame, WarrantedRevoked, KeptFrame DEF Warranting
  <1>4. ASSUME NEW i \in Invites, InviteExpires(i)
        PROVE  UNCHANGED <<token, store, page, call, revocations>>
    BY <1>4 DEF InviteExpires
  <1>5. CASE UNCHANGED vars BY <1>1, <1>5 DEF vars
  <1> QED BY <1>1, <1>2, <1>3, <1>4, <1>5, KeptSession, KeptExpires, KeptOpened, MailFrame,
             NextShapes

(* Who forgets a copy, and whether it had to.                               *)
Excusable(u, p) ==
    \/ \E c \in Calls : /\ call[c].user = u /\ p \in Written(c)
                        /\ call'[c] = Resting /\ Excused(c)
    \/ p \in Tabs /\ store[u][Saved].jti = None /\ OpenPage(u, p)

LEMMA DropExcused ==
    ASSUME Typing, Warranting, Next, NEW u \in Users, NEW p \in Places,
           store[u][p].jti # None, store'[u][p].jti = None
    PROVE  Excusable(u, p)
  <1>0. CallsTyped BY DEF Typing, CallsShaped
  <1>1. ASSUME NEW c \in Calls, NEW j, call[c].user \in Users, Write(c, j), Close(c)
        PROVE  j = None /\ call[c].user = u /\ p \in Written(c) /\ call'[c] = Resting
    <2>1. store'[u][p] = IF u = call[c].user /\ p \in Written(c) THEN Copy(j) ELSE store[u][p]
      BY <1>1, Wrote
    <2> QED BY <1>0, <1>1, <2>1 DEF Copy, Close, End, CallsTyped
  <1>2. ASSUME NEW c \in Calls, StoreSession(c) PROVE FALSE
    <2>1. call[c].user \in Users /\ call[c].jti \in Jtis
      BY <1>2 DEF StoreSession, Typing, CallsShaped, ShapeOf
    <2> QED BY <1>1, <1>2, <2>1 DEF StoreSession
  <1>3. ASSUME NEW c \in Calls, ClearSession(c) \/ LoseAnswer(c) PROVE Excusable(u, p)
    <2>1. call[c].step # "idle" /\ Close(c)
          /\ IF Refreshing(c) /\ call[c].user \notin Operators
             THEN Write(c, None) ELSE UNCHANGED store
      BY <1>3 DEF ClearSession, LoseAnswer, Drop
    <2>2. call[c].user \in Users BY <2>1, CallUsers
    <2>3. call[c].user \notin Operators /\ Write(c, None) BY <2>1
    <2>4. call[c].user = u /\ p \in Written(c) /\ call'[c] = Resting BY <1>1, <2>1, <2>2, <2>3
    <2>5. ASSUME call[c].step = "refused", ~call[c].twin, ~page[c].behind
          PROVE  LET t == token[call[c].jti]
                 IN  t.late \/ t.status = "expired" \/ t.era # revocations[u]
      <3>1. Warranted(call[c].jti) BY <2>3, <2>5 DEF Warranting, Asked
      <3>2. /\ call[c].jti \in Jtis /\ token[call[c].jti].status \notin {"none", "live"}
            /\ token[call[c].jti].user = u
        BY <2>4, <2>5 DEF Warranting, Refused
      <3>3. token[call[c].jti].status \in {"revoked", "expired"}
        BY <3>2 DEF Typing, TokensShaped, TokensTyped, Tokens
      <3> QED BY <3>1, <3>2, <3>3 DEF Warranted
    <2>6. Excused(c) BY <2>4, <2>5 DEF Excused
    <2> QED BY <2>4, <2>6 DEF Excusable
  <1>4. ASSUME NEW c \in Calls, Leave(c) PROVE Excusable(u, p)
    <2>1. call[c].step \in {"logout", "leave"} /\ Close(c) /\ Write(c, None)
      BY <1>4 DEF Leave
    <2>2. call[c].user \in Users BY <2>1, CallUsers
    <2>3. call[c].user = u /\ p \in Written(c) /\ call'[c] = Resting BY <1>1, <2>1, <2>2
    <2> QED BY <2>1, <2>3 DEF Excused, Excusable
  <1>5. ASSUME NEW c \in Calls, Rotate(c) PROVE FALSE
    <2>1. call[c].user \in Users /\ FallBehind(c)
      BY <1>5, CallUsers DEF Rotate, Advance
    <2>2. IF u = call[c].user /\ store[u][p].jti = call[c].jti /\ p # page[c].tab
          THEN store'[u][p] = [jti |-> call[c].jti, behind |-> TRUE]
          ELSE store'[u][p] = store[u][p]
      BY <2>1, FellBehind
    <2> QED BY <2>2
  <1>6. ASSUME NEW v \in Users, NEW t \in Tabs, OpenPage(v, t) PROVE Excusable(u, p)
    <2>1. store'[u][p] = IF u = v /\ v \notin Operators /\ p = t THEN store[v][Saved]
                         ELSE store[u][p]
      BY <1>6, Opened
    <2> QED BY <1>6, <2>1 DEF Excusable
  <1>7. ASSUME NEW c \in Calls, SessionNext(c), ~StoreSession(c), ~ClearSession(c),
               ~LoseAnswer(c), ~Leave(c), ~Rotate(c)
        PROVE  UNCHANGED store
    BY <1>7 DEF SessionNext, Login, OperatorLogin, SignIn, Refresh, Logout, Verify,
           RefuseToken, IssueTokens, RevokeAllRefreshTokens
  <1>8. ASSUME NEW v \in Users, RevokeSessions(v) PROVE UNCHANGED store
    BY <1>8 DEF RevokeSessions
  <1>9. ASSUME NEW j \in Jtis, Expire(j) PROVE UNCHANGED store BY <1>9 DEF Expire
  <1>10. ASSUME NEW i \in Invites, InviteExpires(i) PROVE UNCHANGED store
    BY <1>10 DEF InviteExpires
  <1>11. store' # store OBVIOUS
  <1> QED BY <1>2, <1>3, <1>4, <1>5, <1>6, <1>7, <1>8, <1>9, <1>10, <1>11, InvitationFrame,
             MailFrame, NextShapes

(* A copy of a session in the web client is lost only by a logout, by an    *)
(* answer that does not come, by revocation or expiry, by two refreshes at  *)
(* one time, by a token another page had rotated, or by opening a page      *)
(* where none is saved (apps/web/src/shared/api/client.ts,                  *)
(* features/auth/auth-store.ts).                                            *)
THEOREM SessionAlwaysKept == Spec => SessionKept
  <1>1. Init => Rotating /\ Warranting
    <2> SUFFICES ASSUME Init PROVE Rotating /\ Warranting OBVIOUS
    <2>1. \A j \in Jtis : token[j].status = "none" BY DEF Init, SessionInit, NoToken
    <2>2. \A c \in Calls : call[c].step = "idle" /\ call[c].root = None
      BY DEF Init, SessionInit, Resting
    <2>3. \A u \in Users, p \in Places : store[u][p].jti = None
      BY DEF Init, SessionInit, Copy
    <2>4. Rotating BY <2>1, <2>2 DEF Rotating, Rooted, Overlapping, Refreshing,
          OneTokenPerSignIn, Replacing, Live
    <2>5. Warranting BY <2>1, <2>2, <2>3 DEF Warranting, Aged, Stored, Backed, Asked, Refused,
          Answered, Apart
    <2> QED BY <2>4, <2>5
  <1>2. Typing /\ Warranting /\ [Next]_vars
            => [\A u \in Users, p \in Places :
                   store[u][p].jti # None /\ store'[u][p].jti = None
                       => \/ \E c \in Calls : /\ call[c].user = u /\ p \in Written(c)
                                              /\ call'[c] = Resting /\ Excused(c)
                          \/ p \in Tabs /\ store[u][Saved].jti = None /\ OpenPage(u, p)]_vars
    BY DropExcused DEF Excusable
  <1> QED BY <1>1, <1>2, KeptStep, RotatingStep, AlwaysTyped, PTL DEF Spec, SessionKept
=============================================================================
