------------------------------ MODULE Sessions ------------------------------
(***************************************************************************)
(* Sign-in: apps/api/src/auth/auth.service.ts for the users of tenants and *)
(* apps/api/src/platform/auth/platform-auth.service.ts for operators, with *)
(* the clients that keep the refresh token (apps/web, apps/admin).         *)
(*                                                                         *)
(* No flow runs in a transaction: every statement that the others can come *)
(* between is an action.  An access token lives 15 minutes and is looked   *)
(* up nowhere, so a session is its refresh token.  Logs of access are left *)
(* out: nothing reads them.                                                *)
(*                                                                         *)
(* A user has one browser.  Each of its tabs holds a copy of the session   *)
(* in memory, and the browser saves one: what a tab stores it also saves,  *)
(* and only a page that is opened reads what is saved (apps/web            *)
(* auth-store.ts, zustand's persist).                                      *)
(***************************************************************************)
EXTENDS Naturals, FiniteSets

CONSTANTS
    Users,       \* accounts of tenants and of operators
    Operators,   \* those of operators of the platform
    Jtis,        \* identifiers of refresh tokens
    Calls,       \* requests in progress
    Tabs,        \* tabs of a user's browser
    Saved,       \* its localStorage
    Invites,     \* invitations, see module Accounts
    None,
    MaxStarts    \* bound: requests, pages and attempts of jobs ever started

ASSUME SessionsAssumption ==
    /\ Operators \subseteq Users
    /\ MaxStarts \in Nat
    /\ None \notin Users \cup Jtis \cup Invites \cup Tabs \cup {Saved}
    /\ Saved \notin Tabs

VARIABLES
    account,     \* password: one is set; linked: the user belongs to a tenant
    token,       \* rows of refresh tokens
    store,       \* the refresh token each tab of a user holds, and the saved one
    call,        \* requests: step and locals
    page,        \* the tab a request came from, unless that page is gone
    started,
    revocations  \* history: how often all sessions of a user were revoked

clients == <<store, page>>

Places == Tabs \cup {Saved}

(* A copy of a token.  History: behind, the token was rotated by another    *)
(* page than the one that holds the copy.                                   *)
Copy(j) == [jti |-> j, behind |-> FALSE]
Copies == [jti: Jtis \cup {None}, behind: BOOLEAN]

(* History: behind, the request shows a token from a copy that was behind.  *)
Away == [tab |-> None, behind |-> FALSE]
Pages == [tab: Tabs \cup {None}, behind: BOOLEAN]

(* A token: whose it is and the sign-in it descends from.  History: the     *)
(* revocations its holder had lived through at that sign-in, and whether it *)
(* was being issued while they were revoked (late), or while another refresh *)
(* of the user was at work (twin).                                          *)
NoToken == [status |-> "none", user |-> None, root |-> None, era |-> 0,
            late |-> FALSE, twin |-> FALSE]

Tokens == [status: {"none", "live", "revoked", "expired"}, user: Users \cup {None},
           root: Jtis \cup {None}, era: Nat, late: BOOLEAN, twin: BOOLEAN]

Resting == [step |-> "idle", user |-> None, jti |-> None, root |-> None, invite |-> None,
            era |-> 0, late |-> FALSE, twin |-> FALSE]

Steps == {"idle", "verify", "rotate", "issue", "answer", "refused", "logout", "leave",
          "link", "clear", "create", "notify", "enqueue", "accept"}

Requests == [step: Steps, user: Users \cup {None}, jti: Jtis \cup {None},
             root: Jtis \cup {None}, invite: Invites \cup {None}, era: Nat,
             late: BOOLEAN, twin: BOOLEAN]

SessionTypeOK ==
    /\ account \in [Users -> [password: BOOLEAN, linked: BOOLEAN]]
    /\ token \in [Jtis -> Tokens]
    /\ store \in [Users -> [Places -> Copies]]
    /\ page \in [Calls -> Pages]
    /\ call \in [Calls -> Requests]
    /\ \A c \in Calls : call[c].step # "idle" => call[c].user \in Users
    /\ \A c \in Calls : call[c].step \in {"verify", "rotate", "answer"} => call[c].jti \in Jtis
    /\ \A j \in Jtis : token[j].status # "none" => token[j].user \in Users
    /\ \A u \in Users, p \in Places :
          store[u][p].jti # None => token[store[u][p].jti].user = u
    /\ started \in 0 .. MaxStarts
    /\ revocations \in [Users -> Nat]

SessionInit ==
    /\ token = [j \in Jtis |-> NoToken]
    /\ store = [u \in Users |-> [p \in Places |-> Copy(None)]]
    /\ call = [c \in Calls |-> Resting]
    /\ page = [c \in Calls |-> Away]
    /\ started = 0
    /\ revocations = [u \in Users |-> 0]

Start(c, request) ==
    /\ call[c].step = "idle" /\ started < MaxStarts
    /\ started' = started + 1
    /\ call' = [call EXCEPT ![c] = request]

Advance(c, from, to) ==
    /\ call[c].step = from
    /\ call' = [call EXCEPT ![c] = [@ EXCEPT !.step = to]]

End(c) == call' = [call EXCEPT ![c] = Resting]

(* What came of a request reaches its page, if that is still there.         *)
Close(c) == End(c) /\ page' = [page EXCEPT ![c] = Away]

(* The page and, but in the admin client, the browser forget their copies   *)
(* for the one written; a page that is gone writes nothing.                 *)
Written(c) ==
    IF page[c].tab = None THEN {}
    ELSE IF call[c].user \in Operators THEN {page[c].tab} ELSE {page[c].tab, Saved}

Write(c, j) ==
    LET u == call[c].user
    IN  store' = [store EXCEPT ![u] = [p \in Places |->
                     IF p \in Written(c) THEN Copy(j) ELSE store[u][p]]]

-----------------------------------------------------------------------------
(* Sign-in.  Neither looks at User.blockedAt; an operator needs no tenant.  *)
SignIn(c, u, t) ==
    /\ account[u].password
    /\ Start(c, [Resting EXCEPT !.step = "issue", !.user = u])
    /\ page' = [page EXCEPT ![c] = [Away EXCEPT !.tab = t]]
    /\ UNCHANGED <<account, token, store, revocations>>

Login(c, u, t) == u \notin Operators /\ account[u].linked /\ SignIn(c, u, t)
OperatorLogin(c, u, t) == u \in Operators /\ SignIn(c, u, t)

(* The client's interceptor answers a 401 by a refresh with the token its   *)
(* tab holds: two requests that fail together refresh with the same one.    *)
Refreshing(c) == call[c].step \in {"verify", "rotate", "refused"} \/ call[c].root # None
Beside(u) == {d \in Calls : call[d].user = u /\ Refreshing(d)}

Refresh(c, u, t) ==
    LET j == store[u][t].jti
        request == [Resting EXCEPT !.step = "verify", !.user = u, !.jti = j,
                                   !.twin = Beside(u) # {}]
    IN  /\ j # None /\ call[c].step = "idle" /\ started < MaxStarts
        /\ started' = started + 1
        /\ call' = [d \in Calls |-> IF d = c THEN request
                                    ELSE [call[d] EXCEPT !.twin = @ \/ d \in Beside(u)]]
        /\ page' = [page EXCEPT ![c] = [tab |-> t, behind |-> store[u][t].behind]]
        /\ UNCHANGED <<account, token, store, revocations>>

(* The row is looked up: unknown, revoked or expired ones are refused.      *)
Accepts(j) == token[j].status = "live"

Inherit(c, j) ==
    call' = [call EXCEPT ![c] = [@ EXCEPT !.step = "rotate", !.root = token[j].root,
                                          !.era = token[j].era,
                                          !.late = token[j].late,
                                          !.twin = call[c].twin \/ token[j].twin]]

(* Mutant: revokedAt is not looked at. *)
VerifyAnyRow(c) ==
    /\ call[c].step = "verify" /\ token[call[c].jti].status # "expired"
    /\ Inherit(c, call[c].jti)
    /\ UNCHANGED <<account, token, clients, started, revocations>>

Verify(c) ==
    /\ call[c].step = "verify" /\ Accepts(call[c].jti)
    /\ Inherit(c, call[c].jti)
    /\ UNCHANGED <<account, token, clients, started, revocations>>

RefuseToken(c) ==
    /\ call[c].step = "verify" /\ ~Accepts(call[c].jti)
    /\ Advance(c, "verify", "refused")
    /\ UNCHANGED <<account, token, clients, started, revocations>>

(* History: the other copies of the token that is rotated fall behind.      *)
FallBehind(c) ==
    LET u == call[c].user
    IN  store' = [store EXCEPT ![u] = [p \in Places |->
                     IF store[u][p].jti = call[c].jti /\ p # page[c].tab
                     THEN [jti |-> call[c].jti, behind |-> TRUE] ELSE store[u][p]]]

(* Mutant: the old token stays good. *)
RotateNothing(c) ==
    /\ Advance(c, "rotate", "issue")
    /\ UNCHANGED <<account, token, clients, started, revocations>>

(* The old token is revoked whatever became of it since it was looked up.   *)
Rotate(c) ==
    /\ Advance(c, "rotate", "issue")
    /\ token' = [token EXCEPT ![call[c].jti] = [@ EXCEPT !.status = "revoked"]]
    /\ FallBehind(c)
    /\ UNCHANGED <<account, page, started, revocations>>

(* A jti is a fresh UUID: which one makes no difference. *)
Fresh == {j \in Jtis : token[j] = NoToken}

IssueTokens(c) ==
    LET j == CHOOSE j \in Fresh : TRUE
        rotated == call[c].root # None
        u == call[c].user
    IN  /\ call[c].step = "issue" /\ Fresh # {}
        /\ token' = [token EXCEPT ![j] =
               [status |-> "live", user |-> u, root |-> IF rotated THEN call[c].root ELSE j,
                era |-> IF rotated THEN call[c].era ELSE revocations[u],
                late |-> call[c].late, twin |-> call[c].twin]]
        /\ call' = [call EXCEPT ![c] = [@ EXCEPT !.step = "answer", !.jti = j]]
        /\ UNCHANGED <<account, clients, started, revocations>>

(* Mutant: the client keeps the refresh token it had. *)
StoreOld(c) ==
    /\ call[c].step = "answer"
    /\ IF call[c].root = None THEN Write(c, call[c].jti) ELSE UNCHANGED store
    /\ Close(c)
    /\ UNCHANGED <<account, token, started, revocations>>

StoreSession(c) ==
    /\ call[c].step = "answer"
    /\ Write(c, call[c].jti)
    /\ Close(c)
    /\ UNCHANGED <<account, token, started, revocations>>

(* A refresh that fails, whatever the reason, clears the session of its tab *)
(* and the saved one, whatever is in them by now.  The admin client never   *)
(* refreshes, and whoever calls the endpoint for an operator keeps what it  *)
(* had.                                                                     *)
Drop(c) ==
    /\ IF Refreshing(c) /\ call[c].user \notin Operators
       THEN Write(c, None) ELSE UNCHANGED store
    /\ Close(c)
    /\ UNCHANGED <<account, token, started, revocations>>

ClearSession(c) == call[c].step = "refused" /\ Drop(c)

(* The process of the API dies, or its answer is lost. *)
LoseAnswer(c) == call[c].step \in {"verify", "rotate", "issue", "answer", "refused"} /\ Drop(c)

-----------------------------------------------------------------------------
(* All tokens of a user are revoked by one statement.  History: a pair that *)
(* a refresh is about to issue for a token it found good is late.           *)
Checked(u) ==
    {c \in Calls : call[c].user = u /\ call[c].step \in {"rotate", "issue"} /\ Refreshing(c)}

(* Mutant: the rows are deleted. *)
RevokeRowsDeletes(u) ==
    /\ token' = [j \in Jtis |-> IF token[j].user = u THEN NoToken ELSE token[j]]
    /\ revocations' = [revocations EXCEPT ![u] = @ + 1]

RevokeRows(u) ==
    /\ token' = [j \in Jtis |-> IF token[j].user = u
                                THEN [token[j] EXCEPT !.status = "revoked"] ELSE token[j]]
    /\ revocations' = [revocations EXCEPT ![u] = @ + 1]

(* An administrator revokes the sessions of a user.                         *)
RevokeSessions(u) ==
    /\ started < MaxStarts /\ started' = started + 1
    /\ RevokeRows(u)
    /\ call' = [c \in Calls |-> [call[c] EXCEPT !.late = @ \/ c \in Checked(u)]]
    /\ UNCHANGED <<account, clients>>

(* Logout: the request may fail, and the client clears the session all the  *)
(* same when it is back.                                                    *)
Logout(c, u, t) ==
    /\ store[u][t].jti # None
    /\ Start(c, [Resting EXCEPT !.step = "logout", !.user = u])
    /\ page' = [page EXCEPT ![c] = [Away EXCEPT !.tab = t]]
    /\ UNCHANGED <<account, token, store, revocations>>

RevokeAllRefreshTokens(c) ==
    LET u == call[c].user
    IN  /\ call[c].step = "logout"
        /\ RevokeRows(u)
        /\ call' = [d \in Calls |->
               IF d = c THEN [call[c] EXCEPT !.step = "leave"]
               ELSE [call[d] EXCEPT !.late = @ \/ d \in Checked(u)]]
        /\ UNCHANGED <<account, clients, started>>

Leave(c) ==
    /\ call[c].step \in {"logout", "leave"}
    /\ Write(c, None)
    /\ Close(c)
    /\ UNCHANGED <<account, token, started, revocations>>

(* A tab is closed and opened again, or reloaded: the requests of its page  *)
(* go on without it, and the new one starts from what is saved, which each  *)
(* tab of the admin client does for itself.  Where that changes nothing, it *)
(* is left out.                                                             *)
OpenPage(u, t) ==
    /\ \/ u \notin Operators /\ store[u][t] # store[u][Saved]
       \/ \E c \in Calls : call[c].user = u /\ page[c].tab = t
    /\ started < MaxStarts /\ started' = started + 1
    /\ store' = IF u \in Operators THEN store
                ELSE [store EXCEPT ![u] = [p \in Places |->
                         IF p = t THEN store[u][Saved] ELSE store[u][p]]]
    /\ page' = [c \in Calls |-> IF call[c].user = u /\ page[c].tab = t
                                THEN [page[c] EXCEPT !.tab = None] ELSE page[c]]
    /\ UNCHANGED <<account, token, call, revocations>>

(* The seven days of a token pass. *)
Expire(j) ==
    /\ token[j].status = "live"
    /\ token' = [token EXCEPT ![j] = [@ EXCEPT !.status = "expired"]]
    /\ UNCHANGED <<account, clients, call, started, revocations>>

SessionNext(c) ==
    \/ \E u \in Users, t \in Tabs :
           Login(c, u, t) \/ OperatorLogin(c, u, t) \/ Refresh(c, u, t) \/ Logout(c, u, t)
    \/ Verify(c) \/ RefuseToken(c) \/ Rotate(c) \/ IssueTokens(c) \/ StoreSession(c)
    \/ ClearSession(c) \/ LoseAnswer(c)
    \/ RevokeAllRefreshTokens(c) \/ Leave(c)
=============================================================================
