----------------------------- MODULE MCWebClient -----------------------------
(***************************************************************************)
(* Every answer that an act refreshes, under one call; the answers of      *)
(* MCBusy under two.                                                       *)
(***************************************************************************)
EXTENDS WebClient, TLC

CONSTANTS c1, c2

MCCalls == {c1, c2}

MCBusy ==
    {<<"web", k>> : k \in {"sales-order", "fiscal-master-rows/items", "import-batch"}}
    \cup {<<"admin", k>> : k \in {"platform-plans/list", "platform-plans/one"}}
=============================================================================
