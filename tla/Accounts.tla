------------------------------ MODULE Accounts ------------------------------
(***************************************************************************)
(* Invitations and sessions together: accepting an invitation gives a      *)
(* guest the password it signs in with.                                    *)
(***************************************************************************)
EXTENDS Invitations

Init ==
    /\ account = [u \in Users |-> [password |-> u \notin Guests, linked |-> u \notin Guests]]
    /\ SessionInit /\ InvitationInit

Next ==
    \/ \E c \in Calls : \/ SessionNext(c) /\ UNCHANGED invitationVars
                        \/ InvitationNext(c)
    \/ \E u \in Users :
          \/ RevokeSessions(u) /\ UNCHANGED invitationVars
          \/ \E t \in Tabs : OpenPage(u, t) /\ UNCHANGED invitationVars
    \/ \E j \in Jtis : Expire(j) /\ UNCHANGED invitationVars
    \/ \E i \in Invites : InviteExpires(i) \/ MailNext(i)

Spec == Init /\ [][Next]_vars

-----------------------------------------------------------------------------
TypeOK == SessionTypeOK /\ InvitationTypeOK

(* Once all sessions of a user have been revoked, no refresh token that     *)
(* descends from an earlier sign-in is good, however often it was rotated,  *)
(* unless it was being issued at that moment (auth.service.ts refresh,      *)
(* revokeAllRefreshTokens; platform-auth.service.ts).                       *)
RevocationHolds ==
    \A j \in Jtis : token[j].status = "live" /\ ~token[j].late
                        => token[j].era = revocations[token[j].user]

(* Rotation: of the tokens that descend from one sign-in at most one is     *)
(* good, unless two refreshes of the user overlapped: the second finds the  *)
(* token unrevoked and is given a pair of its own (auth.service.ts refresh).*)
OneTokenPerSignIn ==
    \A j, k \in Jtis :
        /\ token[j].status = "live" /\ token[k].status = "live"
        /\ token[j].root = token[k].root /\ j # k
        => token[j].twin /\ token[k].twin

(* A tab loses its session, and the browser the saved one, only by a logout *)
(* in that tab, by an answer that does not come, by revocation or expiry,   *)
(* by two refreshes at one time, of which the second is refused and clears  *)
(* what the first stored, or by a token that another tab, or a page left in *)
(* the middle of its refresh, had rotated before; and a page that is opened *)
(* has none where none is saved (apps/web/src/shared/api/client.ts,         *)
(* features/auth/auth-store.ts).                                            *)
Excused(c) ==
    LET t == token[call[c].jti]
    IN  \/ call[c].step # "refused"
        \/ call[c].twin \/ page[c].behind \/ t.late
        \/ t.status = "expired" \/ t.era # revocations[call[c].user]

SessionKept ==
    [][\A u \in Users, p \in Places :
          store[u][p].jti # None /\ store'[u][p].jti = None
              => \/ \E c \in Calls : /\ call[c].user = u /\ p \in Written(c)
                                     /\ call'[c] = Resting /\ Excused(c)
                 \/ p \in Tabs /\ store[u][Saved].jti = None /\ OpenPage(u, p)]_vars

(* A guest has a password exactly when it accepted an invitation, which had *)
(* made it a user of the tenant; unless requests about it overlapped, one   *)
(* invitation at most is open or accepted, whatever earlier ones were cut   *)
(* short (platform-users.service.ts invite, auth.service.ts acceptInvite).  *)
Of(u, statuses) == {i \in Invites : invite[i].user = u /\ invite[i].status \in statuses}

InviteSpent ==
    \A u \in Guests :
        /\ account[u].password <=> Of(u, {"accepted"}) # {}
        /\ account[u].password => account[u].linked
        /\ u \notin crossed => Cardinality(Of(u, {"pending", "expired", "accepted"})) <= 1

(* A delivery marked SENT went out; a message goes out again only when the  *)
(* record that it did was lost; a job that is over without a message used   *)
(* every attempt, unless the processor ignored it or its worker died twice; *)
(* and it leaves its delivery QUEUED only then, or when its last attempt    *)
(* threw where no record is made: at the first read, or in the catch clause *)
(* (email-notification.processor.ts process).                               *)
MailAccounted ==
    \A i \in Invites :
        /\ mail[i].delivery = "SENT" => mail[i].out > 0
        /\ mail[i].out <= 1 + crashes
        /\ mail[i].job = "over" =>
              /\ mail[i].delivery \in {"SENT", "FAILED"} \/ mail[i].silent # "no"
              /\ \/ mail[i].out > 0 \/ mail[i].left = 0
                 \/ mail[i].silent \in {"ignored", "stalled"}
=============================================================================
