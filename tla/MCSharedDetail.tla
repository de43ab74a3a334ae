--------------------------- MODULE MCSharedDetail ---------------------------
(***************************************************************************)
(* Instances of SharedDetail for TLC: one entry, one issuer, up to three   *)
(* versions, and readers that are dropped and added again.                 *)
(***************************************************************************)
EXTENDS SharedDetail

CONSTANTS e1, i1, v1, v2, h1, h2

MCEntries == {e1}
MCIssuers == {i1}
MCHashes == {h1, h2}
OneVerifier == {v1}
TwoVerifiers == {v1, v2}
=============================================================================
