---------------------------- MODULE MCAuditChain ----------------------------
(***************************************************************************)
(* Instances of AuditChain for TLC: three threads that record events, and  *)
(* one alone.                                                              *)
(***************************************************************************)
EXTENDS AuditChain, TLC

CONSTANTS w1, w2, w3

Three == {w1, w2, w3}
Alone == {w1}

WriterSymmetry == Permutations(Three)
=============================================================================
