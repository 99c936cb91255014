------------------------------ MODULE Matcher -------------------------------
(***************************************************************************)
(* Which open receivable or payable a bank transaction settles:            *)
(* apps/api/src/modules/banking/reconciliation/reconciliation-matcher.ts.  *)
(*                                                                         *)
(* Amounts are in cents, confidences in ten-thousandths, instants in half  *)
(* days, so that two instants can be less than a day apart and still on    *)
(* different dates.  NoRef stands for a document number or end-to-end id   *)
(* that is absent.  A matcher gives at most one suggestion, the first of   *)
(* its hits: its loop returns at a hit, or keeps the best one so far.      *)
(***************************************************************************)
EXTENDS Integers, FiniteSetsExt

NoRef == "none"

Distance(a, b) == IF a < b THEN b - a ELSE a - b
SameCalendarDay(a, b) == a \div 2 = b \div 2
DaysBetween(a, b) == Distance(a, b) \div 2

Suggestion(c, confidence) == [target |-> c.target, confidence |-> confidence]

(* The first of the candidates that passed, with the confidence its matcher gives. *)
FirstMatch(candidates, hits, confidence) ==
    IF hits = {} THEN {} ELSE {Suggestion(candidates[Min(hits)], confidence)}

MatchExact(txn, candidates) ==
    FirstMatch(candidates,
               {k \in DOMAIN candidates : /\ candidates[k].amount = txn.amount
                                          /\ SameCalendarDay(candidates[k].at, txn.at)
                                          /\ candidates[k].doc # NoRef
                                          /\ candidates[k].doc = txn.doc},
               10000)

MatchPix(txn, candidates) ==
    IF txn.type # "PIX" \/ txn.endToEnd = NoRef THEN {}
    ELSE FirstMatch(candidates,
                    {k \in DOMAIN candidates : candidates[k].endToEnd = txn.endToEnd}, 9900)

Confidence(txn, c) ==
    LET score == 9500 - 100 * Distance(c.amount, txn.amount)
                      - 500 * DaysBetween(c.at, txn.at)
    IN IF score > 5000 THEN score ELSE 5000

Within(txn, c, amountTolerance, dayTolerance) ==
    /\ Distance(c.amount, txn.amount) <= amountTolerance
    /\ DaysBetween(c.at, txn.at) <= dayTolerance

(* A later candidate replaces the best one only if it scores higher. *)
MatchFuzzy(txn, candidates, amountTolerance, dayTolerance) ==
    LET score == [k \in DOMAIN candidates |-> Confidence(txn, candidates[k])]
        hits == {k \in DOMAIN candidates :
                    Within(txn, candidates[k], amountTolerance, dayTolerance)}
        best == {k \in hits : \A j \in hits : score[j] <= score[k]}
    IN FirstMatch(candidates, best, score[Min(best)])

(* Best first.  No two matchers give the same confidence. *)
Ranked(suggestions) ==
    CHOOSE r \in [1 .. Cardinality(suggestions) -> suggestions] :
        \A i, j \in DOMAIN r : i < j => r[i].confidence > r[j].confidence

(* The fuzzy suggestion counts only if it is of another target. *)
SuggestMatches(txn, candidates, amountTolerance, dayTolerance) ==
    LET sure == MatchExact(txn, candidates) \cup MatchPix(txn, candidates)
        fuzzy == {f \in MatchFuzzy(txn, candidates, amountTolerance, dayTolerance) :
                     \A s \in sure : s.target # f.target}
    IN Ranked(sure \cup fuzzy)
=============================================================================
