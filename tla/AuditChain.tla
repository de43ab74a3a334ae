----------------------------- MODULE AuditChain -----------------------------
(***************************************************************************)
(* HashChainAuditService over the table audit_log: each event is written   *)
(* by a transaction of its own (REQUIRES_NEW) that reads the newest row    *)
(* with FOR UPDATE, hashes the event with seq + 1 and that row's hash, and *)
(* inserts; seq itself is drawn from a BIGSERIAL.                          *)
(*                                                                         *)
(* The database is READ COMMITTED.  The statement that reads the head      *)
(* chooses its row among those committed when it starts, then waits for    *)
(* that row's lock; a holder never changes the row, so the waiter goes on  *)
(* with the row it had chosen.  When there is no row nothing is locked.    *)
(*                                                                         *)
(* Hashes are collision free: a row's hash is named by the row's seq.      *)
(***************************************************************************)
EXTENDS Integers, FiniteSets

CONSTANTS
    Writers,    \* threads that call recordEvent
    MaxSeq      \* bound: no event is begun when the sequence is beyond it

ASSUME WritersAssumption == IsFiniteSet(Writers)
ASSUME MaxSeqAssumption == MaxSeq \in Nat

VARIABLES
    log,        \* committed rows of audit_log
    nextSeq,    \* the next value of the sequence behind seq
    writer      \* the transaction each thread is running

vars == <<log, nextSeq, writer>>

\* seq is the stored number, hashed the one the hash was computed over, prev names
\* the row whose hash is in prev_hash; Genesis stands for GENESIS_PREV_HASH.
Genesis == 0
Row == [seq : Nat \ {0}, hashed : Nat \ {0}, prev : Nat]

\* head is the seq of the row findHeadForUpdate chose, seq the one that was drawn.
Writer == [pc : {"idle", "waiting", "locked", "inserted"}, head : Nat, seq : Nat]

Idle == [pc |-> "idle", head |-> Genesis, seq |-> 0]

TypeOK ==
    /\ log \subseteq Row
    /\ nextSeq \in Nat \ {0}
    /\ writer \in [Writers -> Writer]

-----------------------------------------------------------------------------

\* Slip: READ UNCOMMITTED, rows that may still be rolled back count.
IsDirtyHead(h) ==
    LET seqs == {r.seq : r \in log} \cup
                {writer[w].seq : w \in {u \in Writers : writer[u].pc = "inserted"}}
    IN  IF seqs = {} THEN h = Genesis ELSE h \in seqs /\ \A s \in seqs : s <= h

\* The newest committed row, ORDER BY seq DESC LIMIT 1.
IsHead(h) ==
    \/ log = {} /\ h = Genesis
    \/ /\ \E r \in log : r.seq = h
       /\ \A r \in log : r.seq <= h

HeadLocked(w) ==
    \E u \in Writers \ {w} :
        writer[u].pc \in {"locked", "inserted"} /\ writer[u].head = writer[w].head

Init ==
    /\ log = {}
    /\ nextSeq = 1
    /\ writer = [w \in Writers |-> Idle]

\* recordEvent: findHeadForUpdate starts and chooses its row.
ReadHead(w) ==
    /\ writer[w].pc = "idle"
    /\ nextSeq <= MaxSeq
    /\ \E h \in 0..nextSeq :
         /\ IsHead(h)
         /\ writer' = [writer EXCEPT ![w] = [pc |-> "waiting", head |-> h, seq |-> 0]]
    /\ UNCHANGED <<log, nextSeq>>

\* The row's lock is granted, or there is no row to lock.
LockHead(w) ==
    /\ writer[w].pc = "waiting"
    /\ writer[w].head = Genesis \/ ~HeadLocked(w)
    /\ writer' = [writer EXCEPT ![w].pc = "locked"]
    /\ UNCHANGED <<log, nextSeq>>

\* save(): an IDENTITY key makes Hibernate INSERT at once; the sequence moves on.
Insert(w) ==
    /\ writer[w].pc = "locked"
    /\ writer' = [writer EXCEPT ![w] =
                     [pc |-> "inserted", head |-> writer[w].head, seq |-> nextSeq]]
    /\ nextSeq' = nextSeq + 1
    /\ UNCHANGED log

\* Slip: the number of the head itself is hashed, without + 1.
NewRowSameSeq(w) ==
    [seq |-> writer[w].seq, hashed |-> writer[w].head, prev |-> writer[w].head]

NewRow(w) ==
    [seq |-> writer[w].seq, hashed |-> writer[w].head + 1, prev |-> writer[w].head]

\* Slip: a thread that writes a second event keeps the head it has read before.
CommitKeepsHead(w) ==
    /\ writer[w].pc = "inserted"
    /\ log' = log \cup {NewRow(w)}
    /\ writer' = [writer EXCEPT ![w].pc = IF nextSeq <= MaxSeq THEN "locked" ELSE "idle"]
    /\ UNCHANGED nextSeq

Commit(w) ==
    /\ writer[w].pc = "inserted"
    /\ log' = log \cup {NewRow(w)}
    /\ writer' = [writer EXCEPT ![w] = Idle]
    /\ UNCHANGED nextSeq

\* The transaction fails or the server stops; a number that was drawn stays drawn.
Abort(w) ==
    /\ writer[w].pc # "idle"
    /\ writer' = [writer EXCEPT ![w] = Idle]
    /\ UNCHANGED <<log, nextSeq>>

Next ==
    \E w \in Writers :
        ReadHead(w) \/ LockHead(w) \/ Insert(w) \/ Commit(w) \/ Abort(w)

Spec == Init /\ [][Next]_vars

-----------------------------------------------------------------------------

Children(p) == {r \in log : r.prev = p}
Pending(p) == {w \in Writers : writer[w].pc # "idle" /\ writer[w].head = p}

\* Whatever overlaps, rolls back or stops, every row extends a row that was committed
\* before it and has a smaller number: following prev_hash from any row leads to the
\* genesis hash.  A committed row can never hang on one that was rolled back.
Rooted ==
    \A r \in log :
        \/ r.prev = Genesis
        \/ \E q \in log : q.seq = r.prev /\ q.seq < r.seq

\* How far the chain can fork: a row gets at most one successor from each thread that
\* had read it as the head, so with one writer the chain is a line.
ForksBounded ==
    \A p \in {Genesis} \cup {r.seq : r \in log} :
        Cardinality(Children(p)) <= Cardinality(Writers)

\* "The FOR UPDATE on the chain-head read serializes concurrent writers"
\* (HashChainAuditService.java:25): no two rows carry the same prev_hash.
WritersSerialized ==
    \A r, s \in log : r.prev = s.prev => r = s

\* The hash of a row is computed over the row's own seq (crypto-formats.md section 11),
\* so that a verifier of the log can recompute it.
HashedSeqIsStored ==
    \A r \in log : r.hashed = r.seq

=============================================================================
