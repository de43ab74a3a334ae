---------------------------- MODULE MCEntryStore ----------------------------
(***************************************************************************)
(* Instances of EntryStore for TLC: one entry (entries do not interact),   *)
(* two issuers, two requests in flight and the purge job.                  *)
(***************************************************************************)
EXTENDS EntryStore, TLC

CONSTANTS e1, i1, i2, v1, v2, h1, h2, t1, t2

MCEntries == {e1}
MCIssuers == {i1, i2}
MCVerifiers == {v1, v2}
MCHashes == {h1, h2}
MCThreads == {t1, t2}

Env(i, h, vs) == [entry |-> e1, issuer |-> i, hash |-> h, recipients |-> vs]

\* One envelope creates the entry; posting it again is a retry.
FreshCreates == {Env(i1, h1, {v1})}

\* Two envelopes of one issuer and one of another share the entry id.
CollidingCreates == {Env(i1, h1, {v1}), Env(i1, h2, {v2}), Env(i2, h1, {v2})}

\* Updates that drop, add and keep recipients, and one by another issuer.
MCUpdates == {Env(i1, h2, {v2}), Env(i1, h1, {v1, v2}), Env(i2, h2, {v1})}

ThreadSymmetry == Permutations(MCThreads)

\* The environment of the fresh-id runs is the one the properties assume.
ASSUME FreshIdsHold == \A d, e \in FreshCreates : d.entry = e.entry => d = e
=============================================================================
