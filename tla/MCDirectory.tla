---------------------------- MODULE MCDirectory ----------------------------
(***************************************************************************)
(* An instance of Directory for TLC: a root A that B replaces, a root that *)
(* no trusted key has signed, one that init-dev-trust writes, and the      *)
(* records of an issuer's key and of a key that init-dev-trust generates.  *)
(***************************************************************************)
EXTENDS Directory, TLC

CONSTANTS a1, a2, p1, p2, c1, c2

One == {a1}
Two == {a1, a2}
OnePublisher == {p1}
TwoPublishers == {p1, p2}
OneResolver == {c1}
TwoResolvers == {c1, c2}

Always == [from |-> 0, until |-> 9]

Root(keys) == [valid |-> [k \in keys |-> Always], threshold |-> Cardinality(keys)]

A == Root({"k1", "k2"})
B == Root({"k2", "k3"})
Foreign == Root({"k8", "k9"})
Dev == Root({"d1"})

MCRoots == {A, B, Foreign, Dev}
MCDevRoots == {Dev}

Update(root, keys) == [newRoot |-> root, issuedAt |-> 1, signers |-> keys]

MCUpdates == {Update(B, {"k1", "k2"}), Update(Foreign, {"k8", "k9"})}

Rec(key, status, issuedAt, until, keys) ==
    [key |-> key, status |-> status, issuedAt |-> issuedAt, from |-> 0, until |-> until,
     signers |-> keys]

\* The key's record, its successor under the new root, and its revocation.
MCRecords == {Rec("s1", "active", 1, 9, {"k1", "k2"}),
              Rec("s1", "revoked", 2, 1, {"k1", "k2"}),
              Rec("s1", "active", 2, 9, {"k2", "k3"})}

MCDevRecords == {Rec("s1", "active", 1, 9, {"d1"})}

MCKeys == {"s1"}
MCTimes == {1}

\* The created_at of an envelope that is older than the revocation.
MCEarlier == {0}
=============================================================================
