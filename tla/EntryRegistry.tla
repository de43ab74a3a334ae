---------------------------- MODULE EntryRegistry ----------------------------
(***************************************************************************)
(* What the server promises of shared entries, with no threads, no         *)
(* transactions and no rows: every entry has one head, the version that    *)
(* verifiers read; its issuer replaces the head by a version with new      *)
(* ciphertext; a replaced version is kept for the retention period.        *)
(* EntryStore is the code that keeps this promise.                         *)
(***************************************************************************)
EXTENDS Integers

CONSTANTS
    Entries,     \* entry ids
    Issuers,     \* issuer ids
    Verifiers,   \* verifier ids
    Hashes,      \* ciphertext hashes
    Retention    \* how long a superseded version is kept (RETENTION_DAYS)

VARIABLES
    heads,       \* the current version of every existing entry
    past,        \* superseded versions not purged yet
    clock

vars == <<heads, past, clock>>

\* The part of a signed envelope the server acts on.
Envelope == [entry: Entries, issuer: Issuers, hash: Hashes, recipients: SUBSET Verifiers]

HeadVersion == [env: Envelope, version: Nat \ {0}]
PastVersion == [env: Envelope, version: Nat \ {0}, supersededAt: Nat]

RegistryTypeOK ==
    /\ heads \subseteq HeadVersion
    /\ past \subseteq PastVersion
    /\ clock \in Nat

-----------------------------------------------------------------------------

Init ==
    /\ heads = {}
    /\ past = {}
    /\ clock = 0

\* Slip: a creation that does not ask whether the entry exists.
CreateAgain(e) ==
    /\ heads' = heads \cup {[env |-> e, version |-> 1]}
    /\ UNCHANGED <<past, clock>>

\* The first version of an entry that has none.
Create(e) ==
    /\ \A h \in heads : h.env.entry # e.entry
    /\ heads' = heads \cup {[env |-> e, version |-> 1]}
    /\ UNCHANGED <<past, clock>>

\* The issuer of an entry replaces its head h; the instant recorded for h may
\* lie before the instant the replacement takes effect.
Publish(h, e, when) ==
    /\ e.entry = h.env.entry
    /\ e.issuer = h.env.issuer
    /\ e.hash # h.env.hash
    /\ when <= clock
    /\ heads' = (heads \ {h}) \cup {[env |-> e, version |-> h.version + 1]}
    /\ past' = past \cup {[env |-> h.env, version |-> h.version, supersededAt |-> when]}
    /\ UNCHANGED clock

\* Superseded versions leave only when they are older than the retention period.
Expire(S) ==
    /\ \A p \in S : p.supersededAt + Retention < clock
    /\ past' = past \ S
    /\ UNCHANGED <<heads, clock>>

Tick ==
    /\ clock' = clock + 1
    /\ UNCHANGED <<heads, past>>

Next ==
    \/ \E e \in Envelope : Create(e)
    \/ \E h \in heads, e \in Envelope : \E when \in 0..clock : Publish(h, e, when)
    \/ \E S \in SUBSET past : Expire(S)
    \/ Tick

Spec == Init /\ [][Next]_vars

-----------------------------------------------------------------------------

\* What a verifier can rely on: an entry has one head, and it is newer than every
\* superseded version of the entry that is still kept.
HeadIsNewest ==
    /\ \A g, h \in heads : g.env.entry = h.env.entry => g = h
    /\ \A p \in past : \E h \in heads : h.env.entry = p.env.entry /\ p.version < h.version

=============================================================================
