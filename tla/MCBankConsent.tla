---------------------------- MODULE MCBankConsent ----------------------------
(* Model checking BankConsent: a consent of a connection and two calls at a *)
(* time.                                                                    *)
EXTENDS BankConsent, TLC

CONSTANTS c1, c2, r1, r2, j1, j2

Symmetry == Permutations(Calls) \cup Permutations(Consents) \cup Permutations(Jobs)
=============================================================================
