----------------------------- MODULE MCAccounts -----------------------------
(***************************************************************************)
(* Instances of Accounts for TLC: two or three requests of one verifier.   *)
(***************************************************************************)
EXTENDS Accounts, TLC

CONSTANTS k1, k2, n1, n2, t1, t2, t3

TwoThreads == {t1, t2}
ThreeThreads == {t1, t2, t3}
OneKey == {k1}
TwoKeys == {k1, k2}
OneNonce == {n1}
TwoNonces == {n1, n2}

MCSymmetry == Permutations(Threads) \cup Permutations(Nonces)
=============================================================================
