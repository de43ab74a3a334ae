---------------------------- MODULE MCSharedList ----------------------------
(***************************************************************************)
(* Instances of SharedList for TLC: pages of one row over up to three      *)
(* entries, whose created_at are the hashes, so that ties, updates that    *)
(* move an entry up or down, and late arrivals all occur.                  *)
(***************************************************************************)
EXTENDS SharedList

CONSTANTS i1, v1

MCEntries == 1..3
MCIssuers == {i1}
MCVerifiers == {v1}
MCHashes == 1..2
MCCreatedAt(e) == e.hash
=============================================================================
