------------------------------ MODULE QueryCache ------------------------------
(***************************************************************************)
(* What @tanstack/react-query (5.100 in the lock file) does with the query *)
(* of one key: a library, modelled from how the two applications use it,   *)
(* with staleTime 30 s, retry 1 and no refetch on focus.                   *)
(*                                                                         *)
(* The entry of a key knows of the data it holds only whether they were    *)
(* invalidated and whether they are older than staleTime.  What the page   *)
(* cannot know is kept beside it: which calls committed since the database *)
(* was read (missing, and brings for an answer on its way) and for whom.   *)
(***************************************************************************)

(* A key nobody asked for, or whose entry was collected.                    *)
NoEntry ==
    [held |-> FALSE, missing |-> {}, owner |-> 0, invalid |-> FALSE, old |-> FALSE,
     flight |-> "none", brings |-> {}, sender |-> 0, retried |-> FALSE]

Entries(callIds, accounts) ==
    [held : BOOLEAN, missing : SUBSET callIds, owner : accounts, invalid : BOOLEAN,
     old : BOOLEAN, flight : {"none", "sent", "answered"}, brings : SUBSET callIds,
     sender : accounts, retried : BOOLEAN]

Stale(e) == ~e.held \/ e.invalid \/ e.old

Send(e, who) ==
    [e EXCEPT !.flight = "sent", !.brings = {}, !.sender = who, !.retried = FALSE]

(* A fetch joins the request under way.                                     *)
Fetched(e, who) == IF e.flight = "none" THEN Send(e, who) ELSE e

(* An observer mounts, or is enabled.                                       *)
Mounted(e, who) == IF Stale(e) THEN Fetched(e, who) ELSE e

(* A refetch cancels the request under way and asks again, unless there are *)
(* no data yet: then it joins the request too.                              *)
Restarts(e) == e.held \/ e.flight = "none"

Refetched(e, who) == IF Restarts(e) THEN Send(e, who) ELSE e

Invalidated(e, refetch, who) ==
    LET marked == [e EXCEPT !.invalid = e.held] IN
    IF refetch THEN Refetched(marked, who) ELSE marked

(* The database is read for the request under way.                          *)
Answered(e) == [e EXCEPT !.flight = "answered", !.brings = {}]

Arrived(e) ==
    [NoEntry EXCEPT !.held = TRUE, !.missing = e.brings, !.owner = e.sender]

Retried(e) == [e EXCEPT !.flight = "sent", !.brings = {}, !.retried = TRUE]

(* An error marks the data, if there are any, as invalid.                   *)
Failed(e) ==
    [e EXCEPT !.flight = "none", !.brings = {}, !.sender = 0, !.retried = FALSE,
              !.invalid = e.held]

(* A call changed what the query reads: the data held lack it, and so does  *)
(* an answer that was read before.                                          *)
Overtaken(e, c) ==
    [e EXCEPT !.missing = IF e.held THEN @ \cup {c} ELSE @,
              !.brings = IF e.flight = "answered" THEN @ \cup {c} ELSE @]
=============================================================================
