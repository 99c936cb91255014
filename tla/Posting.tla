------------------------------ MODULE Posting -------------------------------
(***************************************************************************)
(* What confirming a match promises: each confirmation posts the bank      *)
(* transaction to the ledger at most once, skips the posting only if it    *)
(* has been made, and the match says POSTED only after a ledger entry.     *)
(* Reconciliation implements it; how often a match is confirmed is left    *)
(* to the user.                                                            *)
(***************************************************************************)
EXTENDS Integers

CONSTANTS
    Rows,       \* ids of matches
    Confirmers  \* confirmations in flight

VARIABLES
    status,     \* of each match
    owed,       \* the confirmations of it that have not posted yet
    entries,    \* the ledger entries made for it
    lost        \* matches with a confirmation that died

vars == <<status, owed, entries, lost>>

Init ==
    /\ status = [r \in Rows |-> "NONE"]
    /\ owed = [r \in Rows |-> {}]
    /\ entries = [r \in Rows |-> 0]
    /\ lost = {}

Suggest(r) ==
    /\ status[r] = "NONE"
    /\ status' = [status EXCEPT ![r] = "SUGGESTED"]
    /\ UNCHANGED <<owed, entries, lost>>

Confirm(r, c) ==
    /\ status[r] # "NONE"
    /\ \A q \in Rows : c \notin owed[q]
    /\ status' = [status EXCEPT ![r] = "CONFIRMED"]
    /\ owed' = [owed EXCEPT ![r] = @ \cup {c}]
    /\ UNCHANGED <<entries, lost>>

Post(r, c) ==
    /\ c \in owed[r]
    /\ owed' = [owed EXCEPT ![r] = @ \ {c}]
    /\ entries' = [entries EXCEPT ![r] = @ + 1]
    /\ UNCHANGED <<status, lost>>

Skip(r, c) ==
    /\ c \in owed[r] /\ entries[r] > 0
    /\ owed' = [owed EXCEPT ![r] = @ \ {c}]
    /\ UNCHANGED <<status, entries, lost>>

Mark(r) ==
    /\ entries[r] > 0
    /\ status' = [status EXCEPT ![r] = "POSTED"]
    /\ UNCHANGED <<owed, entries, lost>>

(* A confirmation dies, before its posting or after. *)
Lose(r, c) ==
    /\ lost' = lost \cup {r}
    /\ owed' = [owed EXCEPT ![r] = @ \ {c}]
    /\ UNCHANGED <<status, entries>>

Next ==
    \E r \in Rows :
        \/ Suggest(r)
        \/ Mark(r)
        \/ \E c \in Confirmers : Confirm(r, c) \/ Post(r, c) \/ Skip(r, c) \/ Lose(r, c)

Spec == Init /\ [][Next]_vars
=============================================================================
