----------------------------- MODULE TrustRoot -----------------------------
(***************************************************************************)
(* The pinned root: the copy in memory (PinnedRootHolder), its rows in     *)
(* pinned_root_history, and what changes them: the root updates of         *)
(* administrators, the dev-mode command that writes a root straight into   *)
(* the table, the reload and the start of the server.                      *)
(*                                                                         *)
(* A root update is verified against the root in memory, inserted, put     *)
(* into memory and then committed; a row's id is drawn when it is          *)
(* inserted.  What a reload or the start has read it puts into memory in a *)
(* later step.  Directory composes this module with the records.           *)
(***************************************************************************)
EXTENDS Integers, FiniteSets

CONSTANTS
    Roots,      \* pinned roots
    Updates,    \* signed root updates that administrators send
    Initial,    \* the root in the configured file
    DevRoots,   \* roots init-dev-trust writes; none outside development
    Admins,     \* threads that publish root updates
    MaxBegun,   \* bound: updates, publications, marks, seedings and restarts begun
    None

ASSUME RootsAssumption ==
    /\ Initial \in Roots
    /\ DevRoots \subseteq Roots
    /\ \A u \in Updates : u.newRoot \in Roots
ASSUME NoneAssumption == None \notin Roots
ASSUME BoundAssumption == MaxBegun \in Nat

VARIABLES
    memory,     \* PinnedRootHolder.current
    history,    \* committed rows of pinned_root_history
    nextId,     \* the next value of the sequence behind id
    due,        \* whether the minimum interval since the last refresh has elapsed
    admin,      \* the transaction of each administrator's request
    boot,       \* how far the start of the server is, and the root it has read
    begun       \* how many of those have begun (bound)

rootVars == <<memory, history, nextId, due, admin, boot, begun>>

RootRow == [id : Nat \ {0}, root : Roots]
Admin == [pc : {"idle", "verified", "inserted", "applied", "seeded"},
          root : Roots \cup {None}, id : Nat]
Boot == [pc : {"file", "read", "done"}, root : Roots \cup {None}]

Idle == [pc |-> "idle", root |-> None, id |-> 0]

RootTypeOK ==
    /\ memory \in Roots
    /\ history \subseteq RootRow
    /\ nextId \in Nat \ {0}
    /\ due \in BOOLEAN
    /\ admin \in [Admins -> Admin]
    /\ boot \in Boot
    /\ begun \in Nat

-----------------------------------------------------------------------------

\* RootQuorum.verify: every signature is by a key of the root that was valid when the
\* document was issued, and the signers are enough.
Quorum(document, root) ==
    /\ document.signers \subseteq DOMAIN root.valid
    /\ \A k \in document.signers :
         root.valid[k].from <= document.issuedAt /\ document.issuedAt < root.valid[k].until
    /\ Cardinality(document.signers) >= root.threshold

\* The roots that descend from the configured one, or from one an operator has seeded.
ClosedUnderUpdates(trusted) ==
    \A u \in Updates, r \in trusted : Quorum(u, r) => u.newRoot \in trusted

Trusted ==
    {r \in Roots :
        \A trusted \in SUBSET Roots :
            {Initial} \cup DevRoots \subseteq trusted /\ ClosedUnderUpdates(trusted)
                => r \in trusted}

\* findTopByOrderByIdDesc, None when the table is empty.
IsNewest(root) ==
    \/ history = {} /\ root = None
    \/ \E row \in history :
         /\ row.root = root
         /\ \A other \in history : other.id <= row.id

\* A server that has started for the first time.
RootInit ==
    /\ memory = Initial
    /\ history = {}
    /\ nextId = 1
    /\ due = TRUE
    /\ admin = [a \in Admins |-> Idle]
    /\ boot = [pc |-> "done", root |-> None]
    /\ begun = 0

-----------------------------------------------------------------------------

\* Slip: the update is verified against the root it brings.
VerifyUpdateByNew(a) ==
    /\ admin[a].pc = "idle"
    /\ begun < MaxBegun
    /\ begun' = begun + 1
    /\ \E u \in Updates :
         /\ Quorum(u, u.newRoot)
         /\ admin' = [admin EXCEPT ![a] = [pc |-> "verified", root |-> u.newRoot, id |-> 0]]
    /\ UNCHANGED <<memory, history, nextId, due, boot>>

VerifyUpdate(a) ==
    /\ admin[a].pc = "idle"
    /\ begun < MaxBegun
    /\ begun' = begun + 1
    /\ \E u \in Updates :
         /\ Quorum(u, memory)
         /\ admin' = [admin EXCEPT ![a] = [pc |-> "verified", root |-> u.newRoot, id |-> 0]]
    /\ UNCHANGED <<memory, history, nextId, due, boot>>

\* historyRepository.save: an IDENTITY key makes Hibernate INSERT at once.
InsertRoot(a) ==
    /\ admin[a].pc = "verified"
    /\ admin' = [admin EXCEPT ![a] =
                    [pc |-> "inserted", root |-> admin[a].root, id |-> nextId]]
    /\ nextId' = nextId + 1
    /\ UNCHANGED <<memory, history, due, boot, begun>>

\* pinnedRootHolder.update, before the transaction commits.
ApplyRoot(a) ==
    /\ admin[a].pc = "inserted"
    /\ memory' = admin[a].root
    /\ admin' = [admin EXCEPT ![a].pc = "applied"]
    /\ UNCHANGED <<history, nextId, due, boot, begun>>

CommitRoot(a) ==
    /\ admin[a].pc = "applied"
    /\ history' = history \cup {[id |-> admin[a].id, root |-> admin[a].root]}
    /\ admin' = [admin EXCEPT ![a] = Idle]
    /\ UNCHANGED <<memory, nextId, due, boot, begun>>

\* A statement, the event or the commit fails: the row goes, the root in memory stays.
AbortRoot(a) ==
    /\ admin[a].pc # "idle"
    /\ admin' = [admin EXCEPT ![a] = Idle]
    /\ UNCHANGED <<memory, history, nextId, due, boot, begun>>

\* init-dev-trust inserts a root of its own; the server is not told.
SeedRoot(a) ==
    /\ admin[a].pc = "idle"
    /\ begun < MaxBegun
    /\ begun' = begun + 1
    /\ \E r \in DevRoots :
         admin' = [admin EXCEPT ![a] = [pc |-> "seeded", root |-> r, id |-> nextId]]
    /\ nextId' = nextId + 1
    /\ UNCHANGED <<memory, history, due, boot>>

\* What of its commit concerns the root.
CommitSeed(a) ==
    /\ admin[a].pc = "seeded"
    /\ history' = history \cup {[id |-> admin[a].id, root |-> admin[a].root]}
    /\ admin' = [admin EXCEPT ![a] = Idle]
    /\ UNCHANGED <<memory, nextId, due, boot, begun>>

-----------------------------------------------------------------------------

\* pinnedRootStartupLoader: requests are served already.
BootRead ==
    /\ boot.pc = "file"
    /\ \E r \in Roots \cup {None} :
         IsNewest(r) /\ boot' = [pc |-> "read", root |-> r]
    /\ UNCHANGED <<memory, history, nextId, due, admin, begun>>

BootSet ==
    /\ boot.pc = "read"
    /\ memory' = IF boot.root = None THEN memory ELSE boot.root
    /\ boot' = [pc |-> "done", root |-> None]
    /\ UNCHANGED <<history, nextId, due, admin, begun>>

\* The reload source is wired when the start begins to read.
CanRefresh == due /\ boot.pc # "file"

\* A second has passed since the last refresh.
IntervalElapses ==
    /\ ~due
    /\ due' = TRUE
    /\ UNCHANGED <<memory, history, nextId, admin, boot, begun>>

\* The server stops and starts: memory and transactions are lost, but not what
\* init-dev-trust does, which is a process of its own.
RootRestart ==
    /\ begun < MaxBegun
    /\ begun' = begun + 1
    /\ memory' = Initial
    /\ due' = TRUE
    /\ admin' = [a \in Admins |-> IF admin[a].pc = "seeded" THEN admin[a] ELSE Idle]
    /\ boot' = [pc |-> "file", root |-> None]
    /\ UNCHANGED <<history, nextId>>

=============================================================================
