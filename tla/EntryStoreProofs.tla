-------------------------- MODULE EntryStoreProofs --------------------------
(***************************************************************************)
(* Theorems about EntryStore, for any entries, issuers, verifiers, hashes, *)
(* threads, envelopes, retention and bounds: first its invariants, then    *)
(* the history it keeps, and last that it implements EntryRegistry.        *)
(***************************************************************************)
EXTENDS EntryStore, FiniteSetTheorems, TLAPS

\* PRIMARY KEY (entry_id, version).
KeyUnique ==
    \A r, s \in entries :
        r.env.entry = s.env.entry /\ r.version = s.version => r = s

\* The current row of an entry has its highest version, and there is only one.
CurrentIsLatest ==
    /\ \A r \in entries : \E c \in entries :
          c.env.entry = r.env.entry /\ c.current /\ r.version <= c.version
    /\ \A r, s \in entries :
          r.env.entry = s.env.entry /\ r.current /\ s.current => r = s

\* Which versions a transaction may have at each of its steps.
TxShape ==
    \A t \in Threads :
        /\ tx[t].pc \in {"read", "flipped"} => tx[t].base # 0
        /\ tx[t].pc = "checked" => tx[t].base = 0
        /\ tx[t].pc \in {"idle", "checked", "read", "flipped"} => tx[t].loaded = None
        /\ tx[t].base # 0 => tx[t].loaded = None

\* A transaction past its flip holds the current row of its entry, alone.
FlipHolds ==
    \A t \in Threads : HasFlipped(t, Entry(t)) =>
        /\ \E r \in entries : IsKey(r, Entry(t), tx[t].base) /\ r.current
        /\ \A u \in Threads : HasFlipped(u, Entry(t)) => u = t

\* The purge deletes superseded rows only.
DoomedSuperseded == \A r \in doomed : ~r.current

\* A superseded row has its instant, and only a superseded row has one.
SupersededStamped ==
    \A r \in entries : /\ r.current => r.supersededAt = None
                       /\ ~r.current => r.supersededAt \in Nat

IInv ==
    /\ TypeOK
    /\ IsFiniteSet(entries)
    /\ KeyUnique
    /\ CurrentIsLatest
    /\ TxShape
    /\ FlipHolds
    /\ DoomedSuperseded
    /\ SupersededStamped

-----------------------------------------------------------------------------
(***************************************************************************)
(* The three ways a commit can change the table.                           *)
(***************************************************************************)

\* The first version of an entry without rows.
Created(t) ==
    /\ tx[t].base = 0
    /\ \A r \in entries : r.env.entry # Entry(t)
    /\ entries' = entries \cup {NewRow(t)}

\* The current row r is superseded and the next version inserted.
Replaced(t, r) ==
    /\ tx[t].base # 0
    /\ IsKey(r, Entry(t), tx[t].base)
    /\ r.current
    /\ entries' = (entries \ {r}) \cup
         {[r EXCEPT !.current = FALSE, !.supersededAt = tx[t].stamp], NewRow(t)}

\* The only row of an entry is overwritten by a second creation.
Overwrote(t, r) ==
    /\ tx[t].base = 0
    /\ IsKey(r, Entry(t), 1)
    /\ r.current
    /\ \A s \in entries : s.env.entry = Entry(t) => s = r
    /\ entries' = (entries \ {r}) \cup {[NewRow(t) EXCEPT !.readers = @ \cup r.readers]}

Commit(t) == CommitInsert(t) \/ CommitOverwrite(t) \/ CommitUnchanged(t)

LEMMA TxTyped ==
  ASSUME TypeOK, NEW t \in Threads, tx[t].pc # "idle"
  PROVE  /\ tx[t].env \in Envelope
         /\ tx[t].base \in Nat
         /\ tx[t].stamp \in Nat
         /\ Entry(t) \in Entries
         /\ NewRow(t) \in Row
<1>1. tx[t] \in Tx /\ tx[t].env \in Envelope
  BY DEF TypeOK
<1>2. tx[t].base \in Nat /\ tx[t].stamp \in Nat
  BY <1>1 DEF Tx
<1>3. Target(t) \in Nat \ {0}
  BY <1>2 DEF Target
<1>4. Entry(t) \in Entries
  BY <1>1 DEF Entry, Envelope
<1>5. tx[t].env.recipients \in SUBSET Verifiers
  BY <1>1 DEF Envelope
<1>6. NewRow(t) \in Row
  BY <1>1, <1>3, <1>5 DEF NewRow, Row
<1> QED BY <1>1, <1>2, <1>4, <1>6

\* Before an update commits, its base is the entry's only current row and no row of
\* the entry has its target version: the flush can only insert.
LEMMA UpdateInserts ==
  ASSUME IInv, NEW t \in Threads, tx[t].pc = "audited", tx[t].base # 0
  PROVE  /\ CanInsert(t)
         /\ \E r \in entries : /\ IsKey(r, Entry(t), tx[t].base) 
                               /\ r.current 
                               /\ Flipped(t) = {r}
<1>1. HasFlipped(t, Entry(t))
  BY DEF HasFlipped
<1>2. PICK r \in entries : IsKey(r, Entry(t), tx[t].base) /\ r.current
  BY <1>1 DEF IInv, FlipHolds
<1>3. Flipped(t) = {r}
  BY <1>2 DEF Flipped, RowsAt, IsKey, IInv, KeyUnique
<1>4. tx[t].loaded = None
  BY DEF IInv, TxShape
<1>5. tx[t].base \in Nat /\ r.version = tx[t].base
  BY <1>2, TxTyped DEF IInv, IsKey
<1>6. ASSUME NEW q \in View(t), q.env.entry = Entry(t)
      PROVE  ~q.current /\ q.version # Target(t)
  <2>1. CASE q \in entries \ {r}
    <3>1. ~q.current
      BY <2>1, <1>6, <1>2 DEF IInv, CurrentIsLatest, IsKey
    <3>2. PICK c \in entries : c.env.entry = q.env.entry /\ c.current /\ q.version <= c.version
      BY <2>1 DEF IInv, CurrentIsLatest
    <3>3. c = r
      BY <3>2, <1>6, <1>2 DEF IInv, CurrentIsLatest, IsKey
    <3>4. q.version \in Nat
      BY <2>1 DEF IInv, TypeOK, Row
    <3> QED BY <3>1, <3>2, <3>3, <3>4, <1>5 DEF Target
  <2>2. CASE q = [r EXCEPT !.current = FALSE, !.supersededAt = tx[t].stamp]
    <3>1. r \in Row
      BY DEF IInv, TypeOK
    <3>2. ~q.current /\ q.version = r.version
      BY <2>2, <3>1 DEF Row
    <3> QED BY <3>2, <1>5 DEF Target
  <2> QED BY <2>1, <2>2, <1>3 DEF View
<1>7. CanInsert(t)
  BY <1>4, <1>6 DEF CanInsert
<1> QED BY <1>2, <1>3, <1>7

LEMMA CommitShape ==
  ASSUME IInv, NEW t \in Threads, Commit(t)
  PROVE  \/ entries' = entries /\ tx[t].base = 0
         \/ Created(t)
         \/ \E r \in entries : Replaced(t, r)
         \/ \E r \in entries : Overwrote(t, r)
<1>0. tx[t].pc = "audited"
  BY DEF Commit, CommitInsert, CommitOverwrite, CommitUnchanged
<1>1. CASE tx[t].base # 0
  <2>1. CanInsert(t)
    BY <1>0, <1>1, UpdateInserts
  <2>2. PICK r \in entries : IsKey(r, Entry(t), tx[t].base) /\ r.current /\ Flipped(t) = {r}
    BY <1>0, <1>1, UpdateInserts
  <2>3. CommitInsert(t)
    BY <2>1 DEF CanInsert, Commit, CommitOverwrite, CommitUnchanged, CanOverwrite, NothingToWrite
  <2>4. entries' = View(t) \cup {NewRow(t)}
    BY <2>3 DEF CommitInsert
  <2>5. View(t) = (entries \ {r}) \cup
           {[r EXCEPT !.current = FALSE, !.supersededAt = tx[t].stamp]}
    BY <2>2 DEF View
  <2> QED BY <1>1, <2>2, <2>4, <2>5 DEF Replaced
<1>2. CASE tx[t].base = 0
  <2>1. Flipped(t) = {}
    <3>1. \A r \in entries : r.version # 0
      BY DEF IInv, TypeOK, Row
    <3> QED BY <1>2, <3>1 DEF Flipped, RowsAt, IsKey
  <2>2. View(t) = entries
    BY <2>1 DEF View
  <2>3. Target(t) = 1
    BY <1>2 DEF Target
  <2>4. CASE CommitInsert(t)
    <3>1. \A r \in entries : r.env.entry = Entry(t) => ~r.current
      BY <2>2, <2>4 DEF CommitInsert, CanInsert
    <3>2. \A r \in entries : r.env.entry # Entry(t)
      BY <3>1 DEF IInv, CurrentIsLatest
    <3> QED BY <3>2, <1>2, <2>2, <2>4 DEF CommitInsert, Created
  <2>5. CASE CommitOverwrite(t)
    <3>1. \A r \in entries : r.env.entry = Entry(t) /\ r.current => r.version = 1
      BY <2>2, <2>3, <2>5 DEF CommitOverwrite, CanOverwrite
    <3>2. PICK r \in entries : IsKey(r, Entry(t), 1)
      BY <2>2, <2>3, <2>5 DEF CommitOverwrite, CanOverwrite
    <3>3. ASSUME NEW s \in entries, s.env.entry = Entry(t)
          PROVE  s.version = 1
      <4>1. PICK c \in entries : c.env.entry = s.env.entry /\ c.current /\ s.version <= c.version
        BY DEF IInv, CurrentIsLatest
      <4>2. c.version = 1
        BY <4>1, <3>1, <3>3
      <4> QED BY <4>1, <4>2 DEF IInv, TypeOK, Row
    <3>4. \A s \in entries : s.env.entry = Entry(t) => s = r
      BY <3>2, <3>3 DEF IInv, KeyUnique, IsKey
    <3>5. r.current
      BY <3>2, <3>4 DEF IInv, CurrentIsLatest, IsKey
    <3>6. {q \in View(t) : IsKey(q, Entry(t), Target(t))} = {r}
      BY <2>2, <2>3, <3>2, <3>4 DEF IsKey
    <3>7. entries' = (entries \ {r}) \cup {[NewRow(t) EXCEPT !.readers = @ \cup r.readers]}
      BY <2>2, <2>5, <3>6 DEF CommitOverwrite
    <3> QED BY <1>2, <3>2, <3>4, <3>5, <3>7 DEF Overwrote
  <2>6. CASE CommitUnchanged(t)
    BY <1>2, <2>2, <2>6 DEF CommitUnchanged
  <2> QED BY <2>4, <2>5, <2>6 DEF Commit
<1>3. tx[t].base \in Nat
  BY <1>0, TxTyped DEF IInv
<1> QED BY <1>1, <1>2

-----------------------------------------------------------------------------
(***************************************************************************)
(* Which steps touch the table, and which the transactions.                *)
(***************************************************************************)

\* A commit that changes the table, as the other transactions see it.
Publishes(t) ==
    /\ tx[t].pc = "audited"
    /\ tx' = [tx EXCEPT ![t] = Idle]
    /\ ~FlushWaits(t)
    /\ Created(t) \/ (\E r \in entries : Replaced(t, r) \/ Overwrote(t, r))
    /\ UNCHANGED <<audit, job, doomed, clock>>

LEMMA TableStep ==
  ASSUME IInv, [Next]_vars
  PROVE  \/ entries' = entries
         \/ \E t \in Threads : Publishes(t)
         \/ PurgeCommit
<1>1. ASSUME NEW t \in Threads, Request(t)
      PROVE  entries' = entries \/ Publishes(t)
  <2>1. CASE Commit(t)
    <3>1. tx[t].pc = "audited" /\ tx' = [tx EXCEPT ![t] = Idle]
          /\ UNCHANGED <<audit, job, doomed, clock>>
      BY <2>1 DEF Commit, CommitInsert, CommitOverwrite, CommitUnchanged
    <3>2. CASE CommitUnchanged(t)
      <4>1. tx[t].base = 0
        BY <3>2 DEF CommitUnchanged, NothingToWrite, IInv, TxShape
      <4>2. Flipped(t) = {}
        BY <4>1 DEF Flipped, RowsAt, IsKey, IInv, TypeOK, Row
      <4> QED BY <3>2, <4>2 DEF CommitUnchanged, View
    <3>3. CASE ~CommitUnchanged(t)
      BY <2>1, <3>1, <3>3, CommitShape DEF Publishes, Commit, CommitInsert, CommitOverwrite
    <3> QED BY <3>2, <3>3
  <2>2. CASE ~Commit(t)
    BY <1>1, <2>2 DEF Request, Flush, Commit, IngestNew, IngestUpdate, Flip, FlipConflict,
                      Save, RecordEvent, FlushFails, Abort
  <2> QED BY <2>1, <2>2
<1>2. ASSUME Purge \/ Tick \/ UNCHANGED vars
      PROVE  entries' = entries \/ PurgeCommit
  BY <1>2 DEF Purge, Tick, vars, PurgeDelete, PurgeRecordEvent, PurgeAbort
<1> QED BY <1>1, <1>2 DEF Next

LEMMA KeyUniqueStep ==
  ASSUME IInv, [Next]_vars
  PROVE  KeyUnique'
<1>1. CASE entries' = entries
  BY <1>1 DEF IInv, KeyUnique
<1>2. CASE PurgeCommit
  BY <1>2 DEF PurgeCommit, IInv, KeyUnique
<1>3. ASSUME NEW t \in Threads, Publishes(t)
      PROVE  KeyUnique'
  <2>0. tx[t].base \in Nat
    BY <1>3, TxTyped DEF Publishes, IInv
  <2>1. NewRow(t).env.entry = Entry(t) /\ NewRow(t).version = tx[t].base + 1
    BY DEF NewRow, Entry, Target
  <2>2. CASE Created(t)
    BY <2>1, <2>2 DEF Created, IInv, KeyUnique
  <2>3. ASSUME NEW r \in entries, Replaced(t, r)
        PROVE  KeyUnique'
    <3> DEFINE old == [r EXCEPT !.current = FALSE, !.supersededAt = tx[t].stamp]
    <3>1. old.env = r.env /\ old.version = r.version
      BY DEF IInv, TypeOK, Row
    <3>2. \A s \in entries : s.env.entry = Entry(t) => s.version # tx[t].base + 1
      <4> SUFFICES ASSUME NEW s \in entries, s.env.entry = Entry(t)
                   PROVE  s.version # tx[t].base + 1
        OBVIOUS
      <4>1. PICK c \in entries : c.env.entry = s.env.entry /\ c.current /\ s.version <= c.version
        BY DEF IInv, CurrentIsLatest
      <4>2. c = r
        BY <4>1, <2>3 DEF Replaced, IsKey, IInv, CurrentIsLatest
      <4> QED BY <4>1, <4>2, <2>3, <2>0 DEF Replaced, IsKey, IInv, TypeOK, Row
    <3>3. entries' = (entries \ {r}) \cup {old, NewRow(t)}
      BY <2>3 DEF Replaced
    <3>4. r.env.entry = Entry(t) /\ r.version = tx[t].base
      BY <2>3 DEF Replaced, IsKey
    <3> HIDE DEF old
    <3>5. \A s \in entries \ {r} : ~(s.env.entry = Entry(t) /\ s.version = tx[t].base)
      BY <3>4 DEF IInv, KeyUnique
    <3> QED BY <2>0, <2>1, <3>1, <3>2, <3>3, <3>4, <3>5 DEF IInv, KeyUnique
  <2>4. ASSUME NEW r \in entries, Overwrote(t, r)
        PROVE  KeyUnique'
    <3> DEFINE new == [NewRow(t) EXCEPT !.readers = @ \cup r.readers]
    <3>1. new.env.entry = Entry(t)
      BY DEF NewRow, Entry
    <3>2. entries' = (entries \ {r}) \cup {new}
      BY <2>4 DEF Overwrote
    <3> HIDE DEF new
    <3> QED BY <3>1, <3>2, <2>4 DEF Overwrote, IInv, KeyUnique
  <2> QED BY <1>3, <2>2, <2>3, <2>4 DEF Publishes
<1> QED BY <1>1, <1>2, <1>3, TableStep

LEMMA CurrentIsLatestStep ==
  ASSUME IInv, [Next]_vars
  PROVE  CurrentIsLatest'
<1>1. CASE entries' = entries
  BY <1>1 DEF IInv, CurrentIsLatest
<1>2. CASE PurgeCommit
  <2>1. \A r \in entries : r.current => r \in entries'
    BY <1>2 DEF PurgeCommit, IInv, DoomedSuperseded
  <2>2. entries' \subseteq entries
    BY <1>2 DEF PurgeCommit
  <2> QED BY <2>1, <2>2 DEF IInv, CurrentIsLatest
<1>3. ASSUME NEW t \in Threads, Publishes(t)
      PROVE  CurrentIsLatest'
  <2>0. tx[t].base \in Nat
    BY <1>3, TxTyped DEF Publishes, IInv
  <2>1. /\ NewRow(t).env.entry = Entry(t) 
        /\ NewRow(t).version = tx[t].base + 1 
        /\ NewRow(t).current
    BY DEF NewRow, Entry, Target
  <2>2. CASE Created(t)
    BY <2>0, <2>1, <2>2 DEF Created, IInv, CurrentIsLatest
  <2>3. ASSUME NEW r \in entries, Replaced(t, r)
        PROVE  CurrentIsLatest'
    <3> DEFINE old == [r EXCEPT !.current = FALSE, !.supersededAt = tx[t].stamp]
    <3>1. old.env = r.env /\ old.version = r.version /\ ~old.current
      BY DEF IInv, TypeOK, Row
    <3>2. entries' = (entries \ {r}) \cup {old, NewRow(t)}
      BY <2>3 DEF Replaced
    <3>3. r.env.entry = Entry(t) /\ r.version = tx[t].base /\ r.current
      BY <2>3 DEF Replaced, IsKey
    <3> HIDE DEF old
    <3>4. \A s \in entries \ {r} : s.env.entry = Entry(t) => ~s.current
      BY <3>3 DEF IInv, CurrentIsLatest
    <3>5. \A s \in entries : s.env.entry = Entry(t) => s.version <= tx[t].base
      BY <3>3 DEF IInv, CurrentIsLatest
    <3>6. ASSUME NEW s \in entries'
          PROVE  \E c \in entries' : c.env.entry = s.env.entry /\ c.current /\ s.version <= c.version
      <4>1. CASE s.env.entry = Entry(t)
        <5>1. s.version <= tx[t].base + 1
          <6>1. s \in entries => s.version \in Nat
            BY DEF IInv, TypeOK, Row
          <6>2. CASE s \in entries
            BY <4>1, <6>1, <6>2, <3>5, <2>0
          <6>3. CASE s \notin entries
            BY <6>3, <3>1, <3>2, <3>3, <2>0, <2>1
          <6> QED BY <6>2, <6>3
        <5> QED BY <4>1, <5>1, <3>2, <2>1
      <4>2. CASE s.env.entry # Entry(t)
        <5>1. s \in entries
          BY <4>2, <3>1, <3>2, <3>3, <2>1
        <5>2. PICK c \in entries : c.env.entry = s.env.entry /\ c.current /\ s.version <= c.version
          BY <5>1 DEF IInv, CurrentIsLatest
        <5> QED BY <4>2, <5>2, <3>2, <3>3
      <4> QED BY <4>1, <4>2
    <3>7. ASSUME NEW p \in entries', NEW s \in entries',
                 p.env.entry = s.env.entry, p.current, s.current
          PROVE  p = s
      <4>1. CASE p.env.entry = Entry(t)
        BY <3>7, <4>1, <3>1, <3>2, <3>4
      <4>2. CASE p.env.entry # Entry(t)
        BY <3>7, <4>2, <3>1, <3>2, <3>3, <2>1 DEF IInv, CurrentIsLatest
      <4> QED BY <4>1, <4>2
    <3> QED BY <3>6, <3>7 DEF CurrentIsLatest
  <2>4. ASSUME NEW r \in entries, Overwrote(t, r)
        PROVE  CurrentIsLatest'
    <3> DEFINE new == [NewRow(t) EXCEPT !.readers = @ \cup r.readers]
    <3>1. new.env.entry = Entry(t) /\ new.version = 1 /\ new.current
      BY <2>4, <2>1 DEF NewRow, Entry, Target, Overwrote
    <3>2. entries' = (entries \ {r}) \cup {new}
      BY <2>4 DEF Overwrote
    <3>3. r.env.entry = Entry(t) /\ \A s \in entries : s.env.entry = Entry(t) => s = r
      BY <2>4 DEF Overwrote, IsKey
    <3> HIDE DEF new
    <3> QED BY <3>1, <3>2, <3>3 DEF IInv, CurrentIsLatest
  <2> QED BY <1>3, <2>2, <2>3, <2>4 DEF Publishes
<1> QED BY <1>1, <1>2, <1>3, TableStep

LEMMA SupersededStampedStep ==
  ASSUME IInv, [Next]_vars
  PROVE  SupersededStamped'
<1>1. CASE entries' = entries
  BY <1>1 DEF IInv, SupersededStamped
<1>2. CASE PurgeCommit
  BY <1>2 DEF PurgeCommit, IInv, SupersededStamped
<1>3. ASSUME NEW t \in Threads, Publishes(t)
      PROVE  SupersededStamped'
  <2>1. tx[t].stamp \in Nat
    BY <1>3, TxTyped DEF Publishes, IInv
  <2>2. NewRow(t).current /\ NewRow(t).supersededAt = None
    BY DEF NewRow
  <2>3. \A r \in entries : LET old == [r EXCEPT !.current = FALSE, !.supersededAt = tx[t].stamp]
                           IN  ~old.current /\ old.supersededAt = tx[t].stamp
    BY DEF IInv, TypeOK, Row
  <2>4. \A r \in entries : LET new == [NewRow(t) EXCEPT !.readers = @ \cup r.readers]
                           IN  new.current /\ new.supersededAt = None
    BY DEF NewRow
  <2> QED BY <1>3, <2>1, <2>2, <2>3, <2>4 
          DEF Publishes, Created, Replaced, Overwrote, IInv, SupersededStamped
<1> QED BY <1>1, <1>2, <1>3, TableStep

LEMMA DoomedSupersededStep ==
  ASSUME IInv, [Next]_vars
  PROVE  DoomedSuperseded'
<1>1. doomed' \subseteq doomed \/ \A r \in doomed' : ~r.current
  BY DEF Next, Request, Flush, IngestNew, IngestUpdate, Flip, FlipConflict, Save, RecordEvent,
         CommitInsert, CommitOverwrite, CommitUnchanged, FlushFails, Abort, Purge, PurgeDelete,
         PurgeRecordEvent, PurgeCommit, PurgeAbort, Tick, vars
<1> QED BY <1>1 DEF IInv, DoomedSuperseded

\* Rows a purge is deleting stay until it commits.
LEMMA DoomedStored ==
  ASSUME IInv, [Next]_vars
  PROVE  doomed' \subseteq entries'
<1>1. doomed \subseteq entries
  BY DEF IInv, TypeOK
<1>2. ASSUME NEW t \in Threads, Publishes(t)
      PROVE  doomed' \subseteq entries'
  BY <1>1, <1>2 DEF Publishes, Created, Replaced, Overwrote, IInv, DoomedSuperseded
<1>3. CASE PurgeCommit
  BY <1>3 DEF PurgeCommit
<1>4. CASE entries' = entries
  <2>1. doomed' \subseteq doomed \/ doomed' \subseteq entries
    BY DEF Next, Request, Flush, IngestNew, IngestUpdate, Flip, FlipConflict, Save, RecordEvent,
           CommitInsert, CommitOverwrite, CommitUnchanged, FlushFails, Abort, Purge, PurgeDelete,
           PurgeRecordEvent, PurgeCommit, PurgeAbort, Tick, vars
  <2> QED BY <1>1, <1>4, <2>1
<1> QED BY <1>2, <1>3, <1>4, TableStep

LEMMA RowsTyped ==
  ASSUME IInv, [Next]_vars
  PROVE  entries' \subseteq Row
<1>1. entries \subseteq Row
  BY DEF IInv, TypeOK
<1>2. ASSUME NEW t \in Threads, Publishes(t)
      PROVE  entries' \subseteq Row
  <2>1. NewRow(t) \in Row /\ tx[t].stamp \in Nat
    BY <1>2, TxTyped DEF Publishes, IInv
  <2>2. \A r \in entries : [r EXCEPT !.current = FALSE, !.supersededAt = tx[t].stamp] \in Row
    BY <1>1, <2>1 DEF Row
  <2>3. \A r \in entries : [NewRow(t) EXCEPT !.readers = @ \cup r.readers] \in Row
    BY <1>1, <2>1 DEF Row
  <2> QED BY <1>1, <1>2, <2>1, <2>2, <2>3 DEF Publishes, Created, Replaced, Overwrote
<1>3. CASE PurgeCommit
  BY <1>1, <1>3 DEF PurgeCommit
<1> QED BY <1>1, <1>2, <1>3, TableStep

\* The transaction of thread t becomes new, and how the two relate.
TxMove(t, new) ==
    /\ tx' = [tx EXCEPT ![t] = new]
    /\ new \in Tx
    /\ new.pc # "idle" => new.env \in Envelope
    /\ \/ new = Idle
       \/ /\ new.pc = "checked" /\ new.env \in Creates
          /\ new.base = 0 /\ new.loaded = None
       \/ /\ new.pc = "read" /\ new.env \in Updates
          /\ new.loaded = None /\ new.stamp = clock
          /\ \E r \in entries :
                /\ r.current /\ r.env.entry = new.env.entry /\ r.version = new.base
                /\ r.env.issuer = new.env.issuer /\ r.env.hash # new.env.hash
       \/ /\ tx[t].pc = "read" /\ new.pc = "flipped"
          /\ new.env = tx[t].env /\ new.base = tx[t].base /\ new.loaded = tx[t].loaded
          /\ tx[t].stamp <= new.stamp /\ new.stamp <= clock
          /\ ~RowLocked(t, Entry(t), tx[t].base)
          /\ \E r \in RowsAt(Entry(t), tx[t].base) : r.current
       \/ /\ tx[t].pc \in {"checked", "flipped"} /\ new.pc = "saved"
          /\ new.env = tx[t].env /\ new.base = tx[t].base /\ new.stamp = tx[t].stamp
          /\ \/ RowsAt(Entry(t), Target(t)) = {} /\ new.loaded = tx[t].loaded
             \/ new.loaded \in RowsAt(Entry(t), Target(t))
       \/ /\ tx[t].pc = "saved" /\ new.pc = "audited"
          /\ new.env = tx[t].env /\ new.base = tx[t].base /\ new.stamp = tx[t].stamp
          /\ new.loaded = tx[t].loaded

LEMMA TxStep ==
  ASSUME IInv, [Next]_vars
  PROVE  tx' = tx \/ \E t \in Threads, new \in Tx : TxMove(t, new)
<1>1. tx \in [Threads -> Tx] /\ clock \in Nat /\ entries \subseteq Row
  BY DEF IInv, TypeOK
<1>2. Idle \in Tx /\ Idle.pc = "idle" /\ Idle.env = None /\ Idle.base = 0
      /\ Idle.stamp = 0 /\ Idle.loaded = None
  BY DEF Idle, Tx
<1>3. ASSUME NEW t \in Threads, Request(t)
      PROVE  \E new \in Tx : TxMove(t, new)
  <2>0. tx[t] \in Tx /\ (tx[t].pc # "idle" => tx[t].env \in Envelope)
    BY <1>1 DEF IInv, TypeOK
  <2>1. ASSUME NEW e \in Creates, IngestNew(t, e)
        PROVE  \E new \in Tx : TxMove(t, new)
    <3> DEFINE new == [Idle EXCEPT !.pc = "checked", !.env = e]
    <3>1. new \in Tx /\ new.env \in Creates /\ new.env \in Envelope
          /\ new.pc = "checked" /\ new.base = 0 /\ new.loaded = None
      BY EnvelopesAssumption DEF Idle, Tx
    <3>2. tx' = [tx EXCEPT ![t] = new]
      BY <2>1 DEF IngestNew
    <3> HIDE DEF new
    <3> QED BY <3>1, <3>2 DEF TxMove
  <2>2. ASSUME NEW e \in Updates, IngestUpdate(t, e)
        PROVE  \E new \in Tx : TxMove(t, new)
    <3>1. PICK r \in entries :
             /\ r.current /\ r.env.entry = e.entry 
             /\ r.env.issuer = e.issuer /\ r.env.hash # e.hash
             /\ tx' = [tx EXCEPT ![t] = [Idle EXCEPT !.pc = "read", !.env = e,
                                                     !.base = r.version, !.stamp = clock]]
      BY <2>2 DEF IngestUpdate, CurrentRows
    <3> DEFINE new == [Idle EXCEPT !.pc = "read", !.env = e, !.base = r.version, !.stamp = clock]
    <3>2. new \in Tx /\ new.env = e /\ new.env \in Envelope /\ new.pc = "read"
          /\ new.base = r.version /\ new.stamp = clock /\ new.loaded = None
      BY <1>1, EnvelopesAssumption DEF Idle, Tx, Row
    <3>3. tx' = [tx EXCEPT ![t] = new]
      BY <3>1
    <3> HIDE DEF new
    <3> QED BY <3>1, <3>2, <3>3 DEF TxMove
  <2>3. CASE Flip(t)
    <3>1. tx[t].stamp \in Nat
      BY <2>0 DEF Tx
    <3>2. PICK when \in tx[t].stamp..clock :
             tx' = [tx EXCEPT ![t] = [@ EXCEPT !.pc = "flipped", !.stamp = when]]
      BY <2>3 DEF Flip
    <3> DEFINE new == [tx[t] EXCEPT !.pc = "flipped", !.stamp = when]
    <3>3. new \in Tx /\ new.pc = "flipped" /\ new.stamp = when /\ new.env = tx[t].env
          /\ new.base = tx[t].base /\ new.loaded = tx[t].loaded
      <4>1. when \in Nat
        BY <1>1, <3>1
      <4> DEFINE mid == [tx[t] EXCEPT !.pc = "flipped"]
      <4>2. mid \in Tx /\ mid.pc = "flipped" /\ mid.env = tx[t].env
            /\ mid.base = tx[t].base /\ mid.loaded = tx[t].loaded
        BY <2>0 DEF Tx
      <4>3. new = [mid EXCEPT !.stamp = when]
        OBVIOUS
      <4> HIDE DEF mid, new
      <4> QED BY <4>1, <4>2, <4>3 DEF Tx
    <3>4. tx' = [tx EXCEPT ![t] = new]
      BY <3>2
    <3> HIDE DEF new
    <3>5. tx[t].stamp <= new.stamp /\ new.stamp <= clock
      BY <1>1, <3>1, <3>3
    <3> QED BY <2>0, <2>3, <3>3, <3>4, <3>5 DEF TxMove, Flip
  <2>4. CASE Save(t)
    <3>1. CASE RowsAt(Entry(t), Target(t)) = {} /\ tx' = [tx EXCEPT ![t].pc = "saved"]
      <4> DEFINE new == [tx[t] EXCEPT !.pc = "saved"]
      <4>1. new \in Tx /\ new.pc = "saved" /\ new.stamp = tx[t].stamp /\ new.env = tx[t].env
            /\ new.base = tx[t].base /\ new.loaded = tx[t].loaded
        BY <2>0 DEF Tx
      <4>2. tx' = [tx EXCEPT ![t] = new]
        BY <3>1
      <4> HIDE DEF new
      <4> QED BY <2>0, <2>4, <3>1, <4>1, <4>2 DEF TxMove, Save
    <3>2. ASSUME NEW r \in RowsAt(Entry(t), Target(t)),
                 tx' = [tx EXCEPT ![t] = [@ EXCEPT !.pc = "saved", !.loaded = r]]
          PROVE  \E new \in Tx : TxMove(t, new)
      <4> DEFINE new == [tx[t] EXCEPT !.pc = "saved", !.loaded = r]
      <4>1. new \in Tx /\ new.pc = "saved" /\ new.stamp = tx[t].stamp /\ new.env = tx[t].env
            /\ new.base = tx[t].base /\ new.loaded = r
        BY <1>1, <2>0 DEF Tx, RowsAt
      <4>2. tx' = [tx EXCEPT ![t] = new]
        BY <3>2
      <4> HIDE DEF new
      <4> QED BY <2>0, <2>4, <4>1, <4>2 DEF TxMove, Save
    <3> QED BY <2>4, <3>1, <3>2 DEF Save
  <2>5. CASE RecordEvent(t)
    <3> DEFINE new == [tx[t] EXCEPT !.pc = "audited"]
    <3>1. new \in Tx /\ new.pc = "audited" /\ new.stamp = tx[t].stamp /\ new.env = tx[t].env
          /\ new.base = tx[t].base /\ new.loaded = tx[t].loaded
      BY <2>0 DEF Tx
    <3>2. tx' = [tx EXCEPT ![t] = new] /\ tx[t].pc = "saved"
      BY <2>5 DEF RecordEvent
    <3> HIDE DEF new
    <3> QED BY <2>0, <3>1, <3>2 DEF TxMove
  <2>6. CASE FlipConflict(t) \/ Flush(t) \/ Abort(t)
    <3>1. tx' = [tx EXCEPT ![t] = Idle]
      BY <2>6 DEF FlipConflict, Flush, Abort, CommitInsert, CommitOverwrite, CommitUnchanged, 
                  FlushFails
    <3> QED BY <1>2, <3>1 DEF TxMove
  <2> QED BY <1>3, <2>1, <2>2, <2>3, <2>4, <2>5, <2>6 DEF Request
<1>4. CASE Purge \/ Tick \/ UNCHANGED vars
  BY <1>4 DEF Purge, Tick, vars, PurgeDelete, PurgeRecordEvent, PurgeCommit, PurgeAbort
<1> QED BY <1>3, <1>4 DEF Next

LEMMA TxTypedStep ==
  ASSUME IInv, [Next]_vars
  PROVE  /\ tx' \in [Threads -> Tx]
         /\ \A u \in Threads : tx'[u].pc # "idle" => tx'[u].env \in Envelope
BY TxStep DEF TxMove, IInv, TypeOK

LEMMA TypeOKStep ==
  ASSUME IInv, [Next]_vars
  PROVE  TypeOK'
<1>1. audit' \subseteq AuditEvent
  <2>1. audit \subseteq AuditEvent
    BY DEF IInv, TypeOK
  <2>2. ASSUME NEW t \in Threads, RecordEvent(t)
        PROVE  audit' \subseteq AuditEvent
    <3>1. tx[t].env \in Envelope /\ Entry(t) \in Entries /\ tx[t].base \in Nat
      BY <2>2, TxTyped DEF RecordEvent, IInv
    <3>2. tx[t].env.issuer \in Issuers /\ Target(t) \in Nat
      BY <3>1 DEF Envelope, Target
    <3> QED BY <2>1, <2>2, <3>1, <3>2 DEF RecordEvent, AuditEvent
  <2>3. CASE PurgeRecordEvent
    <3>1. Cardinality(doomed) \in Nat
      BY FS_Subset, FS_CardinalityType DEF IInv, TypeOK
    <3> QED BY <2>1, <2>3, <3>1 DEF PurgeRecordEvent, AuditEvent
  <2>4. CASE ~PurgeRecordEvent /\ \A t \in Threads : ~RecordEvent(t)
    BY <2>1, <2>4 DEF Next, Request, Flush, IngestNew, IngestUpdate, Flip, FlipConflict, Save,
         CommitInsert, CommitOverwrite, CommitUnchanged, FlushFails, Abort, Purge, PurgeDelete,
         PurgeCommit, PurgeAbort, Tick, vars
  <2> QED BY <2>2, <2>3, <2>4
<1>2. job' \in {"idle", "deleted", "audited"} /\ clock' \in Nat
  <2>1. job \in {"idle", "deleted", "audited"} /\ clock \in Nat
    BY DEF IInv, TypeOK
  <2>2. ASSUME NEW t \in Threads, Request(t)
        PROVE  job' = job /\ clock' = clock
    BY <2>2 DEF Request, Flush, IngestNew, IngestUpdate, Flip, FlipConflict, Save, RecordEvent,
                CommitInsert, CommitOverwrite, CommitUnchanged, FlushFails, Abort
  <2>3. CASE Purge \/ Tick \/ UNCHANGED vars
    BY <2>1, <2>3 DEF Purge, PurgeDelete, PurgeRecordEvent, PurgeCommit, PurgeAbort, Tick, vars
  <2> QED BY <2>1, <2>2, <2>3 DEF Next
<1> QED BY <1>1, <1>2, RowsTyped, TxTypedStep, DoomedStored DEF TypeOK

LEMMA FiniteStep ==
  ASSUME IInv, [Next]_vars
  PROVE  IsFiniteSet(entries')
<1>1. IsFiniteSet(entries)
  BY DEF IInv
<1>2. ASSUME NEW t \in Threads, Publishes(t)
      PROVE  IsFiniteSet(entries')
  <2>1. CASE Created(t)
    BY <1>1, <2>1, FS_AddElement DEF Created
  <2>2. ASSUME NEW r \in entries, Replaced(t, r)
        PROVE  IsFiniteSet(entries')
    <3> DEFINE old == [r EXCEPT !.current = FALSE, !.supersededAt = tx[t].stamp]
    <3>1. IsFiniteSet(entries \ {r})
      BY <1>1, FS_RemoveElement
    <3>2. IsFiniteSet((entries \ {r}) \cup {old})
      BY <3>1, FS_AddElement
    <3>3. IsFiniteSet(((entries \ {r}) \cup {old}) \cup {NewRow(t)})
      BY <3>2, FS_AddElement
    <3>4. entries' = ((entries \ {r}) \cup {old}) \cup {NewRow(t)}
      BY <2>2 DEF Replaced
    <3> QED BY <3>3, <3>4
  <2>3. ASSUME NEW r \in entries, Overwrote(t, r)
        PROVE  IsFiniteSet(entries')
    BY <1>1, <2>3, FS_RemoveElement, FS_AddElement DEF Overwrote
  <2> QED BY <1>2, <2>1, <2>2, <2>3 DEF Publishes
<1>3. CASE PurgeCommit
  BY <1>1, <1>3, FS_Difference DEF PurgeCommit
<1> QED BY <1>1, <1>2, <1>3, TableStep

LEMMA TxShapeStep ==
  ASSUME IInv, [Next]_vars
  PROVE  TxShape'
<1>1. CASE tx' = tx
  BY <1>1 DEF IInv, TxShape
<1>2. ASSUME NEW t \in Threads, NEW new \in Tx, TxMove(t, new)
      PROVE  TxShape'
  <2>1. \A u \in Threads : tx'[u] = IF u = t THEN new ELSE tx[u]
    BY <1>2 DEF TxMove, IInv, TypeOK
  <2>2. /\ new.pc \in {"read", "flipped"} => new.base # 0
        /\ new.pc = "checked" => new.base = 0
        /\ new.pc \in {"idle", "checked", "read", "flipped"} => new.loaded = None
        /\ new.base # 0 => new.loaded = None
    <3>1. CASE new = Idle
      BY <3>1 DEF Idle
    <3>2. CASE new.pc = "saved"
      <4>1. tx[t].pc \in {"checked", "flipped"}
        BY <1>2, <3>2 DEF TxMove, Idle
      <4>2. CASE tx[t].pc = "checked"
        BY <1>2, <3>2, <4>2 DEF TxMove, Idle, IInv, TxShape
      <4>3. CASE tx[t].pc = "flipped"
        <5>1. HasFlipped(t, Entry(t))
          BY <4>3 DEF HasFlipped, IInv, TxShape
        <5>2. PICK r \in entries : IsKey(r, Entry(t), tx[t].base) /\ r.current
          BY <5>1 DEF IInv, FlipHolds
        <5>3. RowsAt(Entry(t), Target(t)) = {}
          <6> SUFFICES ASSUME NEW s \in entries, IsKey(s, Entry(t), Target(t))
                       PROVE  FALSE
            BY DEF RowsAt
          <6>1. PICK c \in entries : c.env.entry = s.env.entry /\ c.current /\ s.version <= c.version
            BY DEF IInv, CurrentIsLatest
          <6>2. c = r
            BY <6>1, <5>2 DEF IInv, CurrentIsLatest, IsKey
          <6>3. tx[t].base \in Nat
            BY <4>3, TxTyped DEF IInv
          <6> QED BY <6>1, <6>2, <6>3, <5>2 DEF IsKey, Target
        <5> QED BY <1>2, <3>2, <4>3, <5>3 DEF TxMove, Idle, IInv, TxShape
      <4> QED BY <4>1, <4>2, <4>3
    <3>3. CASE new.pc = "read"
      <4>1. PICK r \in entries : r.version = new.base
        BY <1>2, <3>3 DEF TxMove, Idle
      <4>2. new.base # 0
        BY <4>1 DEF IInv, TypeOK, Row
      <4> QED BY <1>2, <3>3, <4>2 DEF TxMove, Idle
    <3>4. CASE new.pc \in {"checked", "flipped", "audited"}
      BY <1>2, <3>4 DEF TxMove, Idle, IInv, TxShape
    <3> QED BY <3>1, <3>2, <3>3, <3>4, <1>2 DEF TxMove
  <2> QED BY <2>1, <2>2 DEF IInv, TxShape
<1> QED BY <1>1, <1>2, TxStep

LEMMA FlipHoldsStep ==
  ASSUME IInv, [Next]_vars
  PROVE  FlipHolds'
<1> DEFINE Held(r, t) == r \in entries /\ IsKey(r, Entry(t), tx[t].base) /\ r.current
<1>1. \A t \in Threads : HasFlipped(t, Entry(t)) =>
         /\ \E r \in entries : Held(r, t)
         /\ \A u \in Threads : HasFlipped(u, Entry(t)) => u = t
  BY DEF IInv, FlipHolds
<1>2. ASSUME NEW t \in Threads, Publishes(t)
      PROVE  FlipHolds'
  <2>1. \A u \in Threads : tx'[u] = IF u = t THEN Idle ELSE tx[u]
    BY <1>2 DEF Publishes, IInv, TypeOK
  <2>2. Idle.pc = "idle"
    BY DEF Idle
  <2>3. tx[t].pc = "audited" /\ \A u \in Threads \ {t} : ~HasFlipped(u, Entry(t))
    BY <1>2 DEF Publishes, FlushWaits
  <2>4. ASSUME NEW u \in Threads, HasFlipped(u, Entry(u))'
        PROVE  /\ u # t 
               /\ HasFlipped(u, Entry(u)) 
               /\ tx'[u] = tx[u] 
               /\ Entry(u) # Entry(t)
    <3>1. u # t
      BY <2>1, <2>2, <2>4 DEF HasFlipped
    <3>2. tx'[u] = tx[u] /\ HasFlipped(u, Entry(u))
      BY <2>1, <2>4, <3>1 DEF HasFlipped, Entry
    <3> QED BY <2>3, <3>1, <3>2 DEF HasFlipped
  <2>5. \A r \in entries : r.env.entry # Entry(t) => r \in entries'
    BY <1>2 DEF Publishes, Created, Replaced, Overwrote, IsKey
  <2>6. ASSUME NEW u \in Threads, HasFlipped(u, Entry(u))'
        PROVE  \E r \in entries' : IsKey(r, Entry(u)', tx'[u].base) /\ r.current
    <3>1. PICK r \in entries : Held(r, u)
      BY <1>1, <2>4, <2>6
    <3>2. r.env.entry # Entry(t)
      BY <2>4, <2>6, <3>1 DEF IsKey
    <3> QED BY <2>4, <2>5, <2>6, <3>1, <3>2 DEF IsKey, Entry
  <2>7. ASSUME NEW u \in Threads, HasFlipped(u, Entry(u))', 
               NEW w \in Threads, HasFlipped(w, Entry(u))'
        PROVE  w = u
    <3>1. HasFlipped(w, Entry(w))'
      BY <2>7 DEF HasFlipped
    <3>2. HasFlipped(w, Entry(u))
      BY <2>4, <2>7, <3>1 DEF HasFlipped, Entry
    <3> QED BY <1>1, <2>4, <2>7, <3>2
  <2> QED BY <2>6, <2>7 DEF FlipHolds
<1>3. CASE PurgeCommit
  <2>1. tx' = tx /\ \A r \in entries : r.current => r \in entries'
    BY <1>3 DEF PurgeCommit, IInv, DoomedSuperseded
  <2> QED BY <1>1, <2>1 DEF FlipHolds, HasFlipped, Entry
<1>4. CASE entries' = entries /\ tx' = tx
  BY <1>4 DEF IInv, FlipHolds, HasFlipped, Entry
<1>5. ASSUME entries' = entries, NEW t \in Threads, NEW new \in Tx, TxMove(t, new)
      PROVE  FlipHolds'
  <2>1. \A u \in Threads : tx'[u] = IF u = t THEN new ELSE tx[u]
    BY <1>5 DEF TxMove, IInv, TypeOK
  <2>2. CASE ~HasFlipped(t, Entry(t))'
    <3>1. \A u \in Threads : \A e : HasFlipped(u, e)' => u # t /\ HasFlipped(u, e)
      BY <2>1, <2>2 DEF HasFlipped, Entry
    <3>2. \A u \in Threads : u # t => tx'[u] = tx[u] /\ Entry(u)' = Entry(u)
      BY <2>1 DEF Entry
    <3> QED BY <1>1, <1>5, <3>1, <3>2 DEF FlipHolds
  <2>3. CASE HasFlipped(t, Entry(t))' /\ HasFlipped(t, Entry(t))
    <3>1. new.env = tx[t].env /\ new.base = tx[t].base
      BY <1>5, <2>1, <2>3 DEF TxMove, HasFlipped, Idle
    <3>2. \A u \in Threads : Entry(u)' = Entry(u) /\ tx'[u].base = tx[u].base
      BY <2>1, <3>1 DEF Entry
    <3>3. \A u \in Threads : \A e : HasFlipped(u, e)' => HasFlipped(u, e)
      BY <2>1, <2>3, <3>1 DEF HasFlipped, Entry
    <3> QED BY <1>1, <1>5, <3>2, <3>3 DEF FlipHolds
  <2>4. CASE HasFlipped(t, Entry(t))' /\ ~HasFlipped(t, Entry(t))
    <3>1. new.pc = "flipped" /\ tx[t].pc = "read" /\ new.env = tx[t].env
          /\ new.base = tx[t].base /\ ~RowLocked(t, Entry(t), tx[t].base)
          /\ \E r \in RowsAt(Entry(t), tx[t].base) : r.current
      BY <1>5, <2>1, <2>4 DEF TxMove, HasFlipped, Idle, Entry, IInv, TxShape
    <3>2. PICK r \in entries : Held(r, t)
      BY <3>1 DEF RowsAt
    <3>3. \A u \in Threads : Entry(u)' = Entry(u) /\ tx'[u].base = tx[u].base
      BY <2>1, <3>1 DEF Entry
    <3>4. \A u \in Threads \ {t} : ~HasFlipped(u, Entry(t))
      <4> SUFFICES ASSUME NEW u \in Threads \ {t}, HasFlipped(u, Entry(t))
                   PROVE  FALSE
        OBVIOUS
      <4>1. Entry(u) = Entry(t) /\ HasFlipped(u, Entry(u))
        BY DEF HasFlipped
      <4>2. PICK q \in entries : Held(q, u)
        BY <1>1, <4>1
      <4>3. q = r
        BY <3>2, <4>1, <4>2 DEF IInv, CurrentIsLatest, IsKey
      <4>4. tx[u].base = tx[t].base
        BY <3>2, <4>2, <4>3 DEF IsKey
      <4> QED BY <3>1, <4>4 DEF RowLocked
    <3>5. \A u \in Threads \ {t} : \A e : HasFlipped(u, e)' <=> HasFlipped(u, e)
      BY <2>1 DEF HasFlipped, Entry
    <3>6. ASSUME NEW u \in Threads, HasFlipped(u, Entry(u))'
          PROVE  /\ \E q \in entries : Held(q, u)
                 /\ \A w \in Threads : HasFlipped(w, Entry(u))' => w = u
      <4>1. CASE u = t
        BY <3>2, <3>3, <3>4, <3>5, <4>1
      <4>2. CASE u # t
        <5>1. HasFlipped(u, Entry(u))
          BY <3>3, <3>5, <3>6, <4>2
        <5>2. Entry(u) # Entry(t)
          BY <3>4, <4>2, <5>1
        <5>3. ~HasFlipped(t, Entry(u))'
          BY <3>3, <5>2 DEF HasFlipped
        <5> QED BY <1>1, <3>3, <3>5, <5>1, <5>3
      <4> QED BY <4>1, <4>2
    <3> QED BY <1>5, <3>3, <3>6 DEF FlipHolds
  <2> QED BY <2>2, <2>3, <2>4
<1> QED BY <1>2, <1>3, <1>4, <1>5, TableStep, TxStep

-----------------------------------------------------------------------------

LEMMA InitIInv == Init => IInv
<1> SUFFICES ASSUME Init
             PROVE  IInv
  OBVIOUS
<1>1. Idle \in Tx /\ Idle.pc = "idle" /\ Idle.base = 0 /\ Idle.loaded = None
  BY DEF Idle, Tx
<1>2. \A t \in Threads : tx[t] = Idle
  BY DEF Init
<1>3. TypeOK
  BY <1>1, <1>2 DEF Init, TypeOK
<1>4. TxShape /\ FlipHolds
  BY <1>1, <1>2 DEF TxShape, FlipHolds, HasFlipped
<1>5. IsFiniteSet(entries) /\ KeyUnique /\ CurrentIsLatest /\ DoomedSuperseded 
      /\ SupersededStamped
  BY FS_EmptySet DEF Init, KeyUnique, CurrentIsLatest, DoomedSuperseded, SupersededStamped
<1> QED BY <1>3, <1>4, <1>5 DEF IInv

LEMMA StepIInv == IInv /\ [Next]_vars => IInv'
<1> SUFFICES ASSUME IInv, [Next]_vars
             PROVE  IInv'
  OBVIOUS
<1> QED BY TypeOKStep, FiniteStep, KeyUniqueStep, CurrentIsLatestStep, TxShapeStep, FlipHoldsStep,
           DoomedSupersededStep, SupersededStampedStep DEF IInv

LEMMA AlwaysIInv == Spec => []IInv
BY InitIInv, StepIInv, PTL DEF Spec

\* The variables always have their types: in particular every row a purge is about to
\* delete is still stored, whatever the requests committed since its DELETE.
THEOREM TypeCorrect == Spec => []TypeOK
<1>1. IInv => TypeOK
  BY DEF IInv
<1> QED BY <1>1, AlwaysIInv, PTL

\* ingestNew, ingestUpdate and SupersededPurgeJob together keep exactly one current
\* version of every entry that has versions.
THEOREM OneCurrent == Spec => []OneCurrentVersion
<1>1. IInv => OneCurrentVersion
  BY DEF IInv, CurrentIsLatest, OneCurrentVersion, CurrentRows
<1> QED BY <1>1, AlwaysIInv, PTL

\* The row count of flipCurrentToSuperseded decides between concurrent updates: after a
\* flip of one row, no constraint of the table can fail the insert of the new version.
THEOREM FlipAlwaysDecides == Spec => []FlipDecides
<1>1. IInv => FlipDecides
  BY UpdateInserts DEF FlipDecides
<1> QED BY <1>1, AlwaysIInv, PTL

\* A transaction that holds a flipped row never waits: nobody else can hold a row of the
\* entry, and the purge deletes no version above the one that was flipped.  So no two
\* requests, and no request and the purge, wait for each other.
THEOREM NoDeadlock == Spec => []HoldersDoNotWait
<1>1. IInv => HoldersDoNotWait
  <2> SUFFICES ASSUME IInv, NEW t \in Threads, HasFlipped(t, Entry(t)), FlushWaits(t)
               PROVE  FALSE
    BY DEF HoldersDoNotWait
  <2>1. PICK r \in entries : IsKey(r, Entry(t), tx[t].base) /\ r.current
    BY DEF IInv, FlipHolds
  <2>2. \A u \in Threads \ {t} : ~HasFlipped(u, Entry(t))
    BY DEF IInv, FlipHolds
  <2>3. PICK d \in doomed : IsKey(d, Entry(t), Target(t))
    BY <2>2 DEF FlushWaits, RowLocked
  <2>4. d \in entries /\ tx[t].base \in Nat /\ r.version = tx[t].base
    BY <2>1, TxTyped DEF IInv, TypeOK, HasFlipped, IsKey
  <2>5. PICK c \in entries : c.env.entry = d.env.entry /\ c.current /\ d.version <= c.version
    BY <2>4 DEF IInv, CurrentIsLatest
  <2>6. c = r
    BY <2>1, <2>3, <2>5 DEF IInv, CurrentIsLatest, IsKey
  <2> QED BY <2>3, <2>4, <2>5, <2>6 DEF IsKey, Target
<1> QED BY <1>1, AlwaysIInv, PTL

-----------------------------------------------------------------------------

(***************************************************************************)
(* The history EntryStore keeps, and the refinement.  The purge leaves no  *)
(* gap between the versions of an entry, every stored version is audited,  *)
(* and EntryStore implements EntryRegistry when entry ids are fresh, that  *)
(* is, when all creations of one id carry the same envelope (a client      *)
(* retries).                                                               *)
(***************************************************************************)


\* The stored versions of an entry have no gap below its current version.
NoGaps ==
    \A r, c \in entries :
        r.env.entry = c.env.entry /\ c.current =>
            \A v \in r.version..c.version : \E s \in entries : IsKey(s, c.env.entry, v)

\* Versions were superseded in their order, and not in the future.
StampsOrdered ==
    /\ \A r, s \in entries :
          r.env.entry = s.env.entry /\ ~r.current /\ ~s.current /\ r.version <= s.version
              => r.supersededAt <= s.supersededAt
    /\ \A r \in entries : ~r.current => r.supersededAt <= clock

\* The instant an update will store is no earlier than those of older versions, and
\* the version it read is not ahead of the current one.
PendingStamp ==
    \A t \in Threads : tx[t].base # 0 =>
        /\ tx[t].stamp <= clock
        /\ \A r \in entries :
              r.env.entry = Entry(t) /\ ~r.current /\ r.version < tx[t].base
                  => r.supersededAt <= tx[t].stamp
        /\ \E c \in entries :
              c.env.entry = Entry(t) /\ c.current /\ tx[t].base <= c.version

\* With a version, the purge deletes all older versions of the entry.
DoomedOldest ==
    \A r \in doomed, s \in entries :
        r.env.entry = s.env.entry /\ s.version <= r.version => s \in doomed

GapInv == IInv /\ NoGaps /\ StampsOrdered /\ PendingStamp /\ DoomedOldest

\* The event of a version is in the log once its transaction is past recordEvent.
Audited(e, v, issuer) ==
    \E a \in audit : /\ a.type \in {"ENTRY_INGESTED", "ENTRY_UPDATED"}
                     /\ a.entry = e /\ a.version = v /\ a.actor = issuer
PendingAudited ==
    \A t \in Threads :
        tx[t].pc = "audited" => Audited(Entry(t), Target(t), tx[t].env.issuer)
AuditInv == IInv /\ StoredVersionsAudited /\ PendingAudited

-----------------------------------------------------------------------------

LEMMA ClockStep ==
  ASSUME IInv, [Next]_vars
  PROVE  clock \in Nat /\ clock' \in Nat /\ clock <= clock'
<1>1. clock' = clock \/ clock' = clock + 1
  BY DEF Next, Request, Flush, IngestNew, IngestUpdate, Flip, FlipConflict, Save, RecordEvent,
         CommitInsert, CommitOverwrite, CommitUnchanged, FlushFails, Abort, Purge, PurgeDelete,
         PurgeRecordEvent, PurgeCommit, PurgeAbort, Tick, vars
<1> QED BY <1>1 DEF IInv, TypeOK

LEMMA DoomedStep ==
  ASSUME [Next]_vars
  PROVE  doomed' = doomed \/ doomed' = {} \/ (PurgeDelete /\ entries' = entries)
BY DEF Next, Request, Flush, IngestNew, IngestUpdate, Flip, FlipConflict, Save, RecordEvent,
       CommitInsert, CommitOverwrite, CommitUnchanged, FlushFails, Abort, Purge, PurgeDelete,
       PurgeRecordEvent, PurgeCommit, PurgeAbort, Tick, vars

\* The rows a commit puts in the place of r.
Old(t, r) == [r EXCEPT !.current = FALSE, !.supersededAt = tx[t].stamp]
Overwritten(t, r) == [NewRow(t) EXCEPT !.readers = @ \cup r.readers]

\* What publishing a version does to the rows, spelled out for the proofs below: the
\* rows of other entries stay, and those of this entry are known.
LEMMA ReplacedRows ==
  ASSUME IInv, NEW t \in Threads, tx[t].pc = "audited", NEW r \in entries, Replaced(t, r)
  PROVE  /\ entries' = (entries \ {r}) \cup {Old(t, r), NewRow(t)}
         /\ tx[t].base \in Nat /\ tx[t].stamp \in Nat
         /\ r.current /\ IsKey(r, Entry(t), tx[t].base)
         /\ Old(t, r).env = r.env /\ Old(t, r).version = r.version
         /\ ~Old(t, r).current /\ Old(t, r).supersededAt = tx[t].stamp
         /\ NewRow(t).env = tx[t].env /\ IsKey(NewRow(t), Entry(t), tx[t].base + 1)
         /\ NewRow(t).current
         /\ \A s \in entries \ {r} : s.env.entry = Entry(t) =>
                ~s.current /\ s.version \in Nat /\ s.version < tx[t].base
<1>1. r \in Row /\ tx[t].base \in Nat /\ tx[t].stamp \in Nat
  BY TxTyped DEF IInv, TypeOK
<1>2. /\ Old(t, r).env = r.env /\ Old(t, r).version = r.version
      /\ ~Old(t, r).current /\ Old(t, r).supersededAt = tx[t].stamp
  BY <1>1 DEF Row, Old
<1>3. r.current /\ IsKey(r, Entry(t), tx[t].base)
  BY DEF Replaced
<1>4. ASSUME NEW s \in entries \ {r}, s.env.entry = Entry(t)
      PROVE  ~s.current /\ s.version \in Nat /\ s.version < tx[t].base
  <2>1. ~s.current
    BY <1>3, <1>4 DEF IInv, CurrentIsLatest, IsKey
  <2>2. PICK c \in entries : c.env.entry = s.env.entry /\ c.current /\ s.version <= c.version
    BY DEF IInv, CurrentIsLatest
  <2>3. c = r
    BY <1>3, <1>4, <2>2 DEF IInv, CurrentIsLatest, IsKey
  <2>4. s.version # tx[t].base
    BY <1>3, <1>4 DEF IInv, KeyUnique, IsKey
  <2>5. s.version \in Nat
    BY DEF IInv, TypeOK, Row
  <2> QED BY <1>1, <1>3, <2>1, <2>2, <2>3, <2>4, <2>5 DEF IsKey
<1>5. NewRow(t).env = tx[t].env /\ IsKey(NewRow(t), Entry(t), tx[t].base + 1) /\ NewRow(t).current
  BY DEF NewRow, IsKey, Entry, Target
<1> QED BY <1>1, <1>2, <1>3, <1>4, <1>5 DEF Replaced, Old

LEMMA OverwroteRows ==
  ASSUME NEW t \in Threads, NEW r \in entries, Overwrote(t, r)
  PROVE  /\ entries' = (entries \ {r}) \cup {Overwritten(t, r)}
         /\ r.current /\ IsKey(r, Entry(t), 1)
         /\ Overwritten(t, r).env = tx[t].env /\ IsKey(Overwritten(t, r), Entry(t), 1) /\ Overwritten(t, r).current
         /\ \A s \in entries : s.env.entry = Entry(t) => s = r
BY DEF Overwrote, Overwritten, NewRow, IsKey, Entry, Target

LEMMA NoGapsStep ==
  ASSUME IInv, NoGaps, DoomedOldest, [Next]_vars
  PROVE  NoGaps'
<1>1. CASE entries' = entries
  BY <1>1 DEF NoGaps
<1>2. CASE PurgeCommit
  <2>1. entries' = entries \ doomed
    BY <1>2 DEF PurgeCommit
  <2> SUFFICES ASSUME NEW r \in entries', NEW c \in entries', r.env.entry = c.env.entry,
                      c.current, NEW v \in r.version..c.version
               PROVE  \E s \in entries' : IsKey(s, c.env.entry, v)
    BY DEF NoGaps
  <2>2. PICK s \in entries : IsKey(s, c.env.entry, v)
    BY <2>1 DEF NoGaps
  <2>3. r.version <= s.version
    BY <2>1, <2>2 DEF IsKey, IInv, TypeOK, Row
  <2>4. s \notin doomed
    BY <2>1, <2>2, <2>3 DEF DoomedOldest, IsKey
  <2> QED BY <2>1, <2>2, <2>4
<1>3. ASSUME NEW t \in Threads, Publishes(t)
      PROVE  NoGaps'
  <2>1. tx[t].pc = "audited"
    BY <1>3 DEF Publishes
  <2>2. CASE Created(t)
    <3>1. /\ entries' = entries \cup {NewRow(t)}
          /\ \A r \in entries : r.env.entry # Entry(t)
          /\ NewRow(t).env.entry = Entry(t) /\ NewRow(t).version = 1
      BY <2>2 DEF Created, NewRow, Entry, Target
    <3> QED BY <3>1 DEF NoGaps, IsKey
  <2>3. ASSUME NEW r \in entries, Replaced(t, r)
        PROVE  NoGaps'
    <3>1. /\ entries' = (entries \ {r}) \cup {Old(t, r), NewRow(t)}
          /\ tx[t].base \in Nat
          /\ r.current /\ IsKey(r, Entry(t), tx[t].base)
          /\ Old(t, r).env = r.env /\ Old(t, r).version = r.version /\ ~Old(t, r).current
          /\ IsKey(NewRow(t), Entry(t), tx[t].base + 1)
          /\ \A s \in entries \ {r} : s.env.entry = Entry(t) => ~s.current
      BY <2>1, <2>3, ReplacedRows
    <3>2. \A s \in entries : \A e, v : IsKey(s, e, v) => \E q \in entries' : IsKey(q, e, v)
      BY <3>1 DEF IsKey
    <3> SUFFICES ASSUME NEW p \in entries', NEW c \in entries', p.env.entry = c.env.entry,
                        c.current, NEW v \in p.version..c.version
                 PROVE  \E s \in entries' : IsKey(s, c.env.entry, v)
      BY DEF NoGaps
    <3>3. CASE c.env.entry # Entry(t)
      <4>1. p \in entries /\ c \in entries
        BY <3>1, <3>3 DEF IsKey
      <4> QED BY <3>2, <4>1 DEF NoGaps
    <3>4. CASE c.env.entry = Entry(t)
      <4>1. c = NewRow(t)
        BY <3>1, <3>4
      <4>2. CASE v = tx[t].base + 1
        BY <3>1, <3>4, <4>2
      <4>3. CASE v # tx[t].base + 1
        <5>1. PICK q \in entries : q.env.entry = Entry(t) /\ q.version = p.version
          <6>1. p # NewRow(t)
            BY <3>1, <4>1, <4>3 DEF IsKey
          <6> QED BY <3>1, <3>4, <6>1 DEF IsKey
        <5>2. v \in q.version..r.version
          BY <3>1, <4>1, <4>3, <5>1 DEF IsKey, IInv, TypeOK, Row
        <5>3. \E s \in entries : IsKey(s, r.env.entry, v)
          BY <3>1, <5>1, <5>2 DEF NoGaps, IsKey
        <5> QED BY <3>1, <3>2, <3>4, <5>3 DEF IsKey
      <4> QED BY <4>2, <4>3
    <3> QED BY <3>3, <3>4
  <2>4. ASSUME NEW r \in entries, Overwrote(t, r)
        PROVE  NoGaps'
    <3>1. /\ entries' = (entries \ {r}) \cup {Overwritten(t, r)}
          /\ IsKey(r, Entry(t), 1) /\ IsKey(Overwritten(t, r), Entry(t), 1)
          /\ \A s \in entries : s.env.entry = Entry(t) => s = r
      BY <2>4, OverwroteRows
    <3> QED BY <3>1 DEF NoGaps, IsKey
  <2> QED BY <1>3, <2>2, <2>3, <2>4 DEF Publishes
<1> QED BY <1>1, <1>2, <1>3, TableStep

LEMMA StampsOrderedStep ==
  ASSUME IInv, StampsOrdered, PendingStamp, [Next]_vars
  PROVE  StampsOrdered'
<1>0. clock \in Nat /\ clock' \in Nat /\ clock <= clock'
  BY ClockStep
<1>00. \A r \in entries : ~r.current => r.supersededAt \in Nat /\ r.supersededAt <= clock'
  BY <1>0 DEF StampsOrdered, IInv, SupersededStamped
<1>1. CASE entries' \subseteq entries
  BY <1>00, <1>1 DEF StampsOrdered
<1>2. ASSUME NEW t \in Threads, Publishes(t)
      PROVE  StampsOrdered'
  <2>1. tx[t].pc = "audited"
    BY <1>2 DEF Publishes
  <2>2. CASE Created(t)
    BY <1>00, <2>2 DEF Created, NewRow, StampsOrdered
  <2>3. ASSUME NEW r \in entries, Replaced(t, r)
        PROVE  StampsOrdered'
    <3>1. /\ entries' = (entries \ {r}) \cup {Old(t, r), NewRow(t)}
          /\ tx[t].base \in Nat /\ tx[t].stamp \in Nat
          /\ r.current /\ IsKey(r, Entry(t), tx[t].base)
          /\ Old(t, r).env = r.env /\ Old(t, r).version = r.version
          /\ ~Old(t, r).current /\ Old(t, r).supersededAt = tx[t].stamp
          /\ NewRow(t).current
          /\ \A s \in entries \ {r} : s.env.entry = Entry(t) =>
                ~s.current /\ s.version \in Nat /\ s.version < tx[t].base
      BY <2>1, <2>3, ReplacedRows
    <3>2. tx[t].base # 0
      BY <2>3 DEF Replaced
    <3>3. /\ tx[t].stamp <= clock
          /\ \A s \in entries : s.env.entry = Entry(t) /\ ~s.current /\ s.version < tx[t].base
                => s.supersededAt <= tx[t].stamp
      BY <3>2 DEF PendingStamp
    <3>4. tx[t].stamp <= clock'
      BY <1>0, <3>1, <3>3
    <3>5. ASSUME NEW p \in entries', NEW s \in entries', p.env.entry = s.env.entry,
                 ~p.current, ~s.current, p.version <= s.version
          PROVE  p.supersededAt <= s.supersededAt
      <4>1. CASE s = Old(t, r)
        <5>1. CASE p = Old(t, r)
          BY <3>1, <4>1, <5>1
        <5>2. CASE p # Old(t, r)
          BY <3>1, <3>3, <3>5, <4>1, <5>2 DEF IsKey
        <5> QED BY <5>1, <5>2
      <4>2. CASE s # Old(t, r)
        <5>1. p # Old(t, r)
          BY <3>1, <3>5, <4>2 DEF IsKey
        <5> QED BY <3>1, <3>5, <4>2, <5>1 DEF StampsOrdered
      <4> QED BY <4>1, <4>2
    <3> QED BY <1>00, <3>1, <3>4, <3>5 DEF StampsOrdered
  <2>4. ASSUME NEW r \in entries, Overwrote(t, r)
        PROVE  StampsOrdered'
    <3>1. entries' = (entries \ {r}) \cup {Overwritten(t, r)} /\ Overwritten(t, r).current
      BY <2>4, OverwroteRows
    <3> QED BY <1>00, <3>1 DEF StampsOrdered
  <2> QED BY <1>2, <2>2, <2>3, <2>4 DEF Publishes
<1>3. CASE PurgeCommit
  BY <1>1, <1>3 DEF PurgeCommit
<1> QED BY <1>1, <1>2, <1>3, TableStep

LEMMA PendingStampStep ==
  ASSUME IInv, StampsOrdered, PendingStamp, [Next]_vars
  PROVE  PendingStamp'
<1>0. clock \in Nat /\ clock' \in Nat /\ clock <= clock'
  BY ClockStep
<1> DEFINE Holds(w) ==
      /\ tx[w].stamp <= clock
      /\ \A r \in entries : r.env.entry = Entry(w) /\ ~r.current /\ r.version < tx[w].base
            => r.supersededAt <= tx[w].stamp
      /\ \E c \in entries : c.env.entry = Entry(w) /\ c.current /\ tx[w].base <= c.version
<1>1. \A w \in Threads : tx[w].base # 0 => Holds(w) /\ tx[w].stamp \in Nat
  BY DEF PendingStamp, IInv, TypeOK, Tx
<1>2. ASSUME NEW t \in Threads, Publishes(t)
      PROVE  PendingStamp'
  <2>1. tx[t].pc = "audited" /\ \A u \in Threads : tx'[u] = IF u = t THEN Idle ELSE tx[u]
    BY <1>2 DEF Publishes, IInv, TypeOK
  <2>2. SUFFICES ASSUME NEW u \in Threads \ {t}, tx[u].base # 0
                 PROVE  /\ \A r \in entries' : 
                             r.env.entry = Entry(u) /\ ~r.current /\ r.version < tx[u].base
                                => r.supersededAt <= tx[u].stamp
                        /\ \E c \in entries' : 
                             c.env.entry = Entry(u) /\ c.current /\ tx[u].base <= c.version
    BY <1>0, <1>1, <2>1 DEF PendingStamp, Entry, Idle
  <2>3. CASE Created(t)
    <3>1. entries' = entries \cup {NewRow(t)} /\ NewRow(t).current
      BY <2>3 DEF Created, NewRow
    <3> QED BY <1>1, <2>2, <3>1
  <2>4. ASSUME NEW r \in entries, Replaced(t, r)
        PROVE  /\ \A p \in entries' : 
                    p.env.entry = Entry(u) /\ ~p.current /\ p.version < tx[u].base
                       => p.supersededAt <= tx[u].stamp
               /\ \E c \in entries' : 
                    c.env.entry = Entry(u) /\ c.current /\ tx[u].base <= c.version
    <3>1. /\ entries' = (entries \ {r}) \cup {Old(t, r), NewRow(t)}
          /\ tx[t].base \in Nat
          /\ r.current /\ IsKey(r, Entry(t), tx[t].base)
          /\ Old(t, r).env = r.env /\ Old(t, r).version = r.version
          /\ NewRow(t).current /\ IsKey(NewRow(t), Entry(t), tx[t].base + 1)
      BY <2>1, <2>4, ReplacedRows
    <3>2. tx[u].base \in Nat
      BY DEF IInv, TypeOK, Tx
    <3>3. CASE Entry(u) # Entry(t)
      BY <1>1, <2>2, <3>1, <3>3 DEF IsKey
    <3>4. CASE Entry(u) = Entry(t)
      <4>1. tx[u].base <= tx[t].base
        <5>1. PICK c \in entries : c.env.entry = Entry(u) /\ c.current /\ tx[u].base <= c.version
          BY <1>1, <2>2
        <5>2. c = r
          BY <3>1, <3>4, <5>1 DEF IsKey, IInv, CurrentIsLatest
        <5> QED BY <3>1, <5>1, <5>2 DEF IsKey
      <4>2. \A p \in entries' : 
               p.env.entry = Entry(u) /\ ~p.current /\ p.version < tx[u].base => p \in entries
        BY <3>1, <3>2, <4>1 DEF IsKey
      <4>3. tx[u].base <= NewRow(t).version
        BY <3>1, <3>2, <4>1 DEF IsKey
      <4> QED BY <1>1, <2>2, <3>1, <3>4, <4>2, <4>3 DEF IsKey
    <3> QED BY <3>3, <3>4
  <2>5. ASSUME NEW r \in entries, Overwrote(t, r)
        PROVE  /\ \A p \in entries' : 
                    p.env.entry = Entry(u) /\ ~p.current /\ p.version < tx[u].base
                       => p.supersededAt <= tx[u].stamp
               /\ \E c \in entries' : 
                    c.env.entry = Entry(u) /\ c.current /\ tx[u].base <= c.version
    <3>1. /\ entries' = (entries \ {r}) \cup {Overwritten(t, r)}
          /\ IsKey(r, Entry(t), 1) /\ IsKey(Overwritten(t, r), Entry(t), 1)
          /\ Overwritten(t, r).current
      BY <2>5, OverwroteRows
    <3> QED BY <1>1, <2>2, <3>1 DEF IsKey
  <2> QED BY <1>2, <2>3, <2>4, <2>5 DEF Publishes
<1>3. ASSUME tx' = tx, entries' \subseteq entries, \A r \in entries : r.current => r \in entries'
      PROVE  PendingStamp'
  BY <1>0, <1>1, <1>3 DEF PendingStamp, Entry
<1>4. CASE PurgeCommit
  BY <1>3, <1>4 DEF PurgeCommit, IInv, DoomedSuperseded
<1>5. ASSUME entries' = entries, NEW t \in Threads, NEW new \in Tx, TxMove(t, new)
      PROVE  PendingStamp'
  <2>1. \A u \in Threads : tx'[u] = IF u = t THEN new ELSE tx[u]
    BY <1>5 DEF TxMove, IInv, TypeOK
  <2>2. new.stamp \in Nat
    BY DEF Tx
  <2>3. new.base # 0 =>
          /\ new.stamp <= clock
          /\ \A r \in entries : r.env.entry = new.env.entry /\ ~r.current /\ r.version < new.base
                => r.supersededAt <= new.stamp
          /\ \E c \in entries : c.env.entry = new.env.entry /\ c.current /\ new.base <= c.version
    <3>1. CASE new.pc = "read"
      <4>1. PICK r \in entries : r.current /\ r.env.entry = new.env.entry /\ r.version = new.base
        BY <1>5, <3>1 DEF TxMove, Idle
      <4>2. new.stamp = clock
        BY <1>5, <3>1 DEF TxMove, Idle
      <4>3. new.base <= r.version
        BY <4>1 DEF IInv, TypeOK, Row
      <4> QED BY <1>0, <4>1, <4>2, <4>3 DEF StampsOrdered
    <3>2. CASE new.pc = "flipped"
      <4>1. /\ new.env = tx[t].env /\ new.base = tx[t].base
            /\ tx[t].stamp <= new.stamp /\ new.stamp <= clock
        BY <1>5, <3>2 DEF TxMove, Idle
      <4> SUFFICES ASSUME new.base # 0
                   PROVE  \A r \in entries :
                             r.env.entry = new.env.entry /\ ~r.current /\ r.version < new.base
                                => r.supersededAt <= new.stamp
        BY <1>1, <4>1 DEF Entry
      <4>2. \A r \in entries : ~r.current => r.supersededAt \in Nat
        BY DEF IInv, SupersededStamped
      <4> QED BY <1>1, <2>2, <4>1, <4>2 DEF Entry
    <3>3. CASE new.pc \in {"saved", "audited"}
      <4>1. new.env = tx[t].env /\ new.base = tx[t].base /\ new.stamp = tx[t].stamp
        BY <1>5, <3>3 DEF TxMove, Idle
      <4> QED BY <1>1, <4>1 DEF Entry
    <3>4. CASE new = Idle \/ new.pc = "checked"
      BY <1>5, <3>4 DEF TxMove, Idle
    <3> QED BY <1>5, <3>1, <3>2, <3>3, <3>4 DEF TxMove
  <2>4. \A u \in Threads : Entry(u)' = IF u = t THEN new.env.entry ELSE Entry(u)
    BY <2>1 DEF Entry
  <2> HIDE DEF Holds
  <2>5. ASSUME NEW u \in Threads, tx'[u].base # 0
        PROVE  /\ tx'[u].stamp <= clock'
               /\ \A r \in entries : r.env.entry = Entry(u)' /\ ~r.current /\ r.version < tx'[u].base
                     => r.supersededAt <= tx'[u].stamp
               /\ \E c \in entries : c.env.entry = Entry(u)' /\ c.current /\ tx'[u].base <= c.version
    <3>1. CASE u = t
      BY <1>0, <2>1, <2>2, <2>3, <2>4, <2>5, <3>1
    <3>2. CASE u # t
      BY <1>0, <1>1, <2>1, <2>4, <2>5, <3>2 DEF Holds
    <3> QED BY <3>1, <3>2
  <2> QED BY <1>5, <2>5 DEF PendingStamp
<1> QED BY <1>2, <1>3, <1>4, <1>5, TableStep, TxStep

LEMMA DoomedOldestStep ==
  ASSUME IInv, StampsOrdered, DoomedOldest, [Next]_vars
  PROVE  DoomedOldest'
<1>1. CASE doomed' = {}
  BY <1>1 DEF DoomedOldest
<1>2. CASE PurgeDelete /\ entries' = entries
  <2> SUFFICES ASSUME NEW r \in doomed', NEW s \in entries,
                      r.env.entry = s.env.entry, s.version <= r.version
               PROVE  s \in doomed'
    BY <1>2 DEF DoomedOldest
  <2>1. r \in entries /\ ~r.current /\ r.supersededAt + Retention < clock
    BY <1>2 DEF PurgeDelete
  <2>2. ~s.current
    <3> SUFFICES ASSUME s.current PROVE FALSE
      OBVIOUS
    <3>1. PICK c \in entries : c.env.entry = r.env.entry /\ c.current /\ r.version <= c.version
      BY <2>1 DEF IInv, CurrentIsLatest
    <3>2. c = s
      BY <3>1 DEF IInv, CurrentIsLatest
    <3>3. s.version = r.version
      BY <2>1, <3>1, <3>2 DEF IInv, TypeOK, Row
    <3> QED BY <2>1, <3>3 DEF IInv, KeyUnique
  <2>3. s.supersededAt <= r.supersededAt
    BY <2>1, <2>2 DEF StampsOrdered
  <2>4. s.supersededAt \in Nat /\ r.supersededAt \in Nat /\ clock \in Nat
    BY <2>1, <2>2 DEF IInv, SupersededStamped, TypeOK
  <2>5. s.supersededAt + Retention < clock
    BY <2>1, <2>3, <2>4, BoundsAssumption
  <2> QED BY <1>2, <2>2, <2>5 DEF PurgeDelete
<1>3. CASE doomed' = doomed
  <2>0. doomed \subseteq entries
    BY DEF IInv, TypeOK
  <2>1. CASE entries' \subseteq entries
    BY <1>3, <2>1 DEF DoomedOldest
  <2>2. ASSUME NEW t \in Threads, Publishes(t)
        PROVE  DoomedOldest'
    <3>1. tx[t].pc = "audited"
      BY <2>2 DEF Publishes
    <3>2. CASE Created(t)
      <4>1. /\ entries' = entries \cup {NewRow(t)}
            /\ \A r \in entries : r.env.entry # Entry(t)
            /\ NewRow(t).env.entry = Entry(t)
        BY <3>2 DEF Created, NewRow, Entry
      <4> QED BY <1>3, <2>0, <4>1 DEF DoomedOldest
    <3>3. ASSUME NEW r \in entries, Replaced(t, r)
          PROVE  DoomedOldest'
      <4>1. /\ entries' = (entries \ {r}) \cup {Old(t, r), NewRow(t)}
            /\ tx[t].base \in Nat
            /\ r.current /\ IsKey(r, Entry(t), tx[t].base)
            /\ Old(t, r).env = r.env /\ Old(t, r).version = r.version
            /\ IsKey(NewRow(t), Entry(t), tx[t].base + 1)
            /\ \A s \in entries \ {r} : s.env.entry = Entry(t) =>
                  ~s.current /\ s.version \in Nat /\ s.version < tx[t].base
        BY <3>1, <3>3, ReplacedRows
      <4>2. \A p \in doomed : p.env.entry = Entry(t) =>
                p.version \in Nat /\ p.version < tx[t].base
        BY <2>0, <4>1 DEF IInv, DoomedSuperseded
      <4> QED BY <1>3, <4>1, <4>2 DEF DoomedOldest, IsKey
    <3>4. ASSUME NEW r \in entries, Overwrote(t, r)
          PROVE  DoomedOldest'
      <4>1. /\ entries' = (entries \ {r}) \cup {Overwritten(t, r)}
            /\ r.current /\ IsKey(Overwritten(t, r), Entry(t), 1)
            /\ \A s \in entries : s.env.entry = Entry(t) => s = r
        BY <3>4, OverwroteRows
      <4>2. \A p \in doomed : p.env.entry # Entry(t)
        BY <2>0, <4>1 DEF IInv, DoomedSuperseded
      <4> QED BY <1>3, <4>1, <4>2 DEF DoomedOldest, IsKey
    <3> QED BY <2>2, <3>2, <3>3, <3>4 DEF Publishes
  <2>3. CASE PurgeCommit
    BY <2>1, <2>3 DEF PurgeCommit
  <2> QED BY <2>1, <2>2, <2>3, TableStep
<1> QED BY <1>1, <1>2, <1>3, DoomedStep

LEMMA InitGapInv == Init => GapInv
<1> SUFFICES ASSUME Init PROVE GapInv
  OBVIOUS
<1>1. \A t \in Threads : tx[t].base = 0
  BY DEF Init, Idle
<1> QED BY <1>1, InitIInv
        DEF Init, GapInv, NoGaps, StampsOrdered, PendingStamp, DoomedOldest

LEMMA StepGapInv == GapInv /\ [Next]_vars => GapInv'
BY StepIInv, NoGapsStep, StampsOrderedStep, PendingStampStep, DoomedOldestStep DEF GapInv

\* The versions that are stored of an entry run without a gap up to the current one, for
\* any number of concurrent updates, purges and rollbacks: instants of supersession grow
\* with the version, so the purge removes the oldest versions first.
THEOREM VersionsStayContiguous == Spec => []VersionsContiguous
<1>1. GapInv => VersionsContiguous
  <2> SUFFICES ASSUME GapInv, NEW r \in entries
               PROVE  \E c \in CurrentRows(r.env.entry) :
                          \A v \in r.version..c.version : RowsAt(r.env.entry, v) # {}
    BY DEF VersionsContiguous
  <2>1. PICK c \in entries : c.env.entry = r.env.entry /\ c.current
    BY DEF GapInv, IInv, CurrentIsLatest
  <2>2. \A v \in r.version..c.version : \E s \in entries : IsKey(s, r.env.entry, v)
    BY <2>1 DEF GapInv, NoGaps
  <2> QED BY <2>1, <2>2 DEF CurrentRows, RowsAt
<1> QED BY <1>1, InitGapInv, StepGapInv, PTL DEF Spec

-----------------------------------------------------------------------------

LEMMA AuditGrows ==
  ASSUME [Next]_vars
  PROVE  audit \subseteq audit'
BY DEF Next, Request, Flush, IngestNew, IngestUpdate, Flip, FlipConflict, Save, RecordEvent,
       CommitInsert, CommitOverwrite, CommitUnchanged, FlushFails, Abort, Purge, PurgeDelete,
       PurgeRecordEvent, PurgeCommit, PurgeAbort, Tick, vars

LEMMA PendingAuditedStep ==
  ASSUME IInv, PendingAudited, [Next]_vars
  PROVE  PendingAudited'
<1>1. audit \subseteq audit'
  BY AuditGrows
<1>2. ASSUME NEW t \in Threads, RecordEvent(t)
      PROVE  PendingAudited'
  <2>1. /\ tx' = [tx EXCEPT ![t].pc = "audited"]
        /\ tx[t] \in Tx /\ tx \in [Threads -> Tx]
    BY <1>2 DEF RecordEvent, IInv, TypeOK
  <2>2. /\ tx'[t].env = tx[t].env /\ tx'[t].base = tx[t].base
        /\ \A u \in Threads \ {t} : tx'[u] = tx[u]
    BY <2>1 DEF Tx
  <2>3. Audited(Entry(t), Target(t), tx[t].env.issuer)'
    <3> DEFINE a == [type |-> IF tx[t].base = 0 THEN "ENTRY_INGESTED" ELSE "ENTRY_UPDATED",
                     actor |-> tx[t].env.issuer, entry |-> Entry(t), version |-> Target(t)]
    <3>1. a \in audit'
      BY <1>2 DEF RecordEvent
    <3>2. /\ a.type \in {"ENTRY_INGESTED", "ENTRY_UPDATED"} /\ a.actor = tx[t].env.issuer
          /\ a.entry = Entry(t) /\ a.version = Target(t)
      OBVIOUS
    <3>3. Entry(t)' = Entry(t) /\ Target(t)' = Target(t)
      BY <2>2 DEF Entry, Target
    <3> HIDE DEF a
    <3> QED BY <2>2, <3>1, <3>2, <3>3 DEF Audited
  <2> QED BY <1>1, <2>2, <2>3 DEF PendingAudited, Audited, Entry, Target
<1>3. ASSUME \A t \in Threads : tx'[t].pc = "audited" => tx'[t] = tx[t]
      PROVE  PendingAudited'
  BY <1>1, <1>3 DEF PendingAudited, Audited, Entry, Target
<1>4. CASE \A t \in Threads : ~RecordEvent(t)
  <2>1. \A t \in Threads : tx'[t].pc = "audited" => tx'[t] = tx[t]
    <3>1. tx \in [Threads -> Tx]
      BY DEF IInv, TypeOK
    <3>2. ASSUME NEW t \in Threads, Request(t), NEW u \in Threads, tx'[u].pc = "audited"
          PROVE  tx'[u] = tx[u]
      <4>1. CASE (\E e \in Creates : IngestNew(t, e)) \/ (\E e \in Updates : IngestUpdate(t, e))
        BY <3>1, <3>2, <4>1 DEF IngestNew, IngestUpdate, Idle
      <4>2. CASE Flip(t)
        BY <3>1, <3>2, <4>2 DEF Flip, Tx
      <4>3. CASE Save(t)
        BY <3>1, <3>2, <4>3 DEF Save, Tx
      <4>4. CASE FlipConflict(t) \/ Flush(t) \/ Abort(t)
        BY <3>1, <3>2, <4>4 DEF FlipConflict, Flush, CommitInsert, CommitOverwrite,
                                CommitUnchanged, FlushFails, Abort, Idle
      <4> QED BY <1>4, <3>2, <4>1, <4>2, <4>3, <4>4 DEF Request
    <3>3. CASE Purge \/ Tick \/ UNCHANGED vars
      BY <3>3 DEF Purge, PurgeDelete, PurgeRecordEvent, PurgeCommit, PurgeAbort, Tick, vars
    <3> QED BY <3>2, <3>3 DEF Next
  <2> QED BY <1>3, <2>1
<1> QED BY <1>2, <1>4

LEMMA StoredAuditedStep ==
  ASSUME AuditInv, [Next]_vars
  PROVE  StoredVersionsAudited'
<1>1. audit \subseteq audit'
  BY AuditGrows
<1> DEFINE Ok(r) == Audited(r.env.entry, r.version, r.env.issuer)
<1>2. \A r \in entries : Ok(r)
  BY DEF AuditInv, StoredVersionsAudited, Audited
<1>3. ASSUME \A r \in entries' : Ok(r)
      PROVE  StoredVersionsAudited'
  BY <1>1, <1>3 DEF StoredVersionsAudited, Audited
<1>4. CASE entries' = entries \/ PurgeCommit
  BY <1>2, <1>3, <1>4 DEF PurgeCommit
<1>5. ASSUME NEW t \in Threads, Publishes(t)
      PROVE  \A r \in entries' : Ok(r)
  <2>1. tx[t].pc = "audited" /\ Audited(Entry(t), Target(t), tx[t].env.issuer)
    BY <1>5 DEF Publishes, AuditInv, PendingAudited
  <2>2. Ok(NewRow(t))
    BY <2>1 DEF NewRow, Entry
  <2>3. CASE Created(t)
    BY <1>2, <2>2, <2>3 DEF Created
  <2>4. ASSUME NEW r \in entries, Replaced(t, r)
        PROVE  \A p \in entries' : Ok(p)
    <3>1. /\ entries' = (entries \ {r}) \cup {Old(t, r), NewRow(t)}
          /\ Old(t, r).env = r.env /\ Old(t, r).version = r.version
      BY <2>1, <2>4, ReplacedRows DEF AuditInv
    <3> QED BY <1>2, <2>2, <3>1
  <2>5. ASSUME NEW r \in entries, Overwrote(t, r)
        PROVE  \A p \in entries' : Ok(p)
    <3>1. /\ entries' = (entries \ {r}) \cup {Overwritten(t, r)}
          /\ Overwritten(t, r).env = tx[t].env /\ IsKey(Overwritten(t, r), Entry(t), 1)
      BY <2>5, OverwroteRows
    <3>2. Target(t) = 1
      BY <2>5 DEF Overwrote, Target
    <3>3. Ok(Overwritten(t, r))
      BY <2>1, <3>1, <3>2 DEF IsKey
    <3> QED BY <1>2, <3>1, <3>3
  <2> QED BY <1>5, <2>3, <2>4, <2>5 DEF Publishes
<1> QED BY <1>3, <1>4, <1>5, TableStep DEF AuditInv

\* No version becomes visible before its audit event is durable, because recordEvent
\* commits in a transaction of its own, before the one that stores the version.
THEOREM VersionsAreAudited == Spec => []StoredVersionsAudited
<1>1. Init => AuditInv
  BY InitIInv DEF Init, Idle, AuditInv, StoredVersionsAudited, PendingAudited
<1>2. AuditInv /\ [Next]_vars => AuditInv'
  BY StepIInv, PendingAuditedStep, StoredAuditedStep DEF AuditInv
<1>3. AuditInv => StoredVersionsAudited
  BY DEF AuditInv
<1> QED BY <1>1, <1>2, <1>3, PTL DEF Spec

-----------------------------------------------------------------------------


\* First versions carry the envelope of a creation, stored or in flight.
FirstsCreated ==
    /\ \A r \in entries : r.version = 1 => r.env \in Creates
    /\ \A t \in Threads : tx[t].pc # "idle" /\ tx[t].base = 0 => tx[t].env \in Creates

\* A row that merge() found is a first version of the same entry, and if it was
\* superseded then a later version is current.
LoadedFirst ==
    \A t \in Threads : tx[t].loaded # None =>
        /\ tx[t].pc # "idle"
        /\ tx[t].loaded.env \in Creates
        /\ tx[t].loaded.env.entry = Entry(t)
        /\ ~tx[t].loaded.current =>
             \E c \in entries : c.env.entry = Entry(t) /\ c.current /\ c.version > 1

\* The version an update read was its issuer's, with another ciphertext.
BaseChecked ==
    \A t \in Threads : tx[t].base # 0 =>
        \A r \in entries : IsKey(r, Entry(t), tx[t].base) /\ r.current =>
            r.env.issuer = tx[t].env.issuer /\ r.env.hash # tx[t].env.hash

\* The rows a purge has deleted are past their retention.
DoomedExpired == \A r \in doomed : r.supersededAt + Retention < clock

FreshInv ==
    /\ GapInv /\ FirstsCreated /\ LoadedFirst /\ BaseChecked /\ DoomedExpired
    /\ ReadersAreRecipients

-----------------------------------------------------------------------------

\* merge() never overwrites: what it found is the same envelope, or is superseded and
\* then the flush fails on the index.
LEMMA NoOverwrite ==
  ASSUME FreshIds, FreshInv, NEW t \in Threads
  PROVE  ~CommitOverwrite(t)
<1> SUFFICES ASSUME CommitOverwrite(t) PROVE FALSE
  OBVIOUS
<1>1. /\ tx[t].pc = "audited" /\ tx[t].loaded # None /\ ~NothingToWrite(t)
      /\ \A r \in View(t) : r.env.entry = Entry(t) /\ r.current => r.version = Target(t)
  BY DEF CommitOverwrite, CanOverwrite
<1>2. tx[t].base = 0
  BY <1>1 DEF FreshInv, GapInv, IInv, TxShape
<1>3. tx[t].env \in Creates /\ tx[t].loaded.env \in Creates /\ tx[t].loaded.env.entry = Entry(t)
  BY <1>1, <1>2 DEF FreshInv, FirstsCreated, LoadedFirst
<1>4. tx[t].loaded.env = tx[t].env
  BY <1>3 DEF FreshIds, Entry
<1>5. ~tx[t].loaded.current
  BY <1>1, <1>4 DEF NothingToWrite
<1>6. PICK c \in entries : c.env.entry = Entry(t) /\ c.current /\ c.version > 1
  BY <1>1, <1>5 DEF FreshInv, LoadedFirst
<1>7. View(t) = entries
  <2>1. Flipped(t) = {}
    BY <1>2 DEF Flipped, RowsAt, IsKey, FreshInv, GapInv, IInv, TypeOK, Row
  <2> QED BY <2>1 DEF View
<1> QED BY <1>1, <1>2, <1>6, <1>7 DEF Target

\* Under FreshIds a commit creates an entry or replaces its current version.
LEMMA FreshPublishes ==
  ASSUME FreshIds, FreshInv, [Next]_vars
  PROVE  \/ entries' = entries
         \/ \E t \in Threads : Publishes(t) /\ (Created(t) \/ \E r \in entries : Replaced(t, r))
         \/ PurgeCommit
<1> USE DEF FreshInv, GapInv
<1>1. ASSUME NEW t \in Threads, Request(t)
      PROVE  \/ entries' = entries
             \/ Publishes(t) /\ (Created(t) \/ \E r \in entries : Replaced(t, r))
  <2>1. CASE CommitInsert(t)
    <3>1. /\ tx[t].pc = "audited" /\ ~FlushWaits(t) /\ CanInsert(t)
          /\ entries' = View(t) \cup {NewRow(t)}
          /\ tx' = [tx EXCEPT ![t] = Idle]
          /\ UNCHANGED <<audit, job, doomed, clock>>
      BY <2>1 DEF CommitInsert
    <3>2. \/ entries' = entries /\ tx[t].base = 0
          \/ Created(t)
          \/ \E r \in entries : Replaced(t, r)
          \/ \E r \in entries : Overwrote(t, r)
      BY <2>1, CommitShape DEF Commit
    <3>3. \A r \in entries : ~Overwrote(t, r)
      <4> SUFFICES ASSUME NEW r \in entries, Overwrote(t, r) PROVE FALSE
        OBVIOUS
      <4>1. tx[t].base = 0 /\ r.current /\ r.env.entry = Entry(t)
        BY DEF Overwrote, IsKey
      <4>2. Flipped(t) = {}
        BY <4>1 DEF Flipped, RowsAt, IsKey, IInv, TypeOK, Row
      <4>3. r \in View(t)
        BY <4>2 DEF View
      <4> QED BY <3>1, <4>1, <4>3 DEF CanInsert
    <3> QED BY <3>1, <3>2, <3>3 DEF Publishes
  <2>2. CASE CommitUnchanged(t)
    <3>1. tx[t].base = 0
      BY <2>2 DEF CommitUnchanged, NothingToWrite, IInv, TxShape
    <3>2. Flipped(t) = {}
      BY <3>1 DEF Flipped, RowsAt, IsKey, IInv, TypeOK, Row
    <3> QED BY <2>2, <3>2 DEF CommitUnchanged, View
  <2>3. CASE ~CommitInsert(t) /\ ~CommitUnchanged(t)
    BY <1>1, <2>3, NoOverwrite DEF Request, Flush, IngestNew, IngestUpdate, Flip, FlipConflict,
                                   Save, RecordEvent, FlushFails, Abort
  <2> QED BY <2>1, <2>2, <2>3
<1>2. CASE Purge \/ Tick \/ UNCHANGED vars
  BY <1>2 DEF Purge, Tick, vars, PurgeDelete, PurgeRecordEvent, PurgeAbort
<1> QED BY <1>1, <1>2 DEF Next

LEMMA FirstsCreatedStep ==
  ASSUME FreshIds, FreshInv, [Next]_vars
  PROVE  FirstsCreated'
<1> USE DEF FreshInv, GapInv
<1>1. \A r \in entries' : r.version = 1 => r.env \in Creates
  <2>1. CASE entries' = entries \/ PurgeCommit
    BY <2>1 DEF PurgeCommit, FirstsCreated
  <2>2. ASSUME NEW t \in Threads, Publishes(t), Created(t)
        PROVE  \A r \in entries' : r.version = 1 => r.env \in Creates
    <3>1. tx[t].pc = "audited" /\ entries' = entries \cup {NewRow(t)} /\ tx[t].base = 0
      BY <2>2 DEF Publishes, Created
    <3>2. NewRow(t).env \in Creates
      BY <3>1 DEF NewRow, FirstsCreated
    <3> QED BY <3>1, <3>2 DEF FirstsCreated
  <2>3. ASSUME NEW t \in Threads, Publishes(t), NEW r \in entries, Replaced(t, r)
        PROVE  \A p \in entries' : p.version = 1 => p.env \in Creates
    <3>1. tx[t].pc = "audited" /\ tx[t].base # 0
      BY <2>3 DEF Publishes, Replaced
    <3>2. /\ entries' = (entries \ {r}) \cup {Old(t, r), NewRow(t)}
          /\ tx[t].base \in Nat
          /\ Old(t, r).env = r.env /\ Old(t, r).version = r.version
          /\ NewRow(t).version = tx[t].base + 1
      BY <2>3, <3>1, ReplacedRows DEF IsKey
    <3> QED BY <3>1, <3>2 DEF FirstsCreated
  <2> QED BY <2>1, <2>2, <2>3, FreshPublishes
<1>2. \A u \in Threads : tx'[u].pc # "idle" /\ tx'[u].base = 0 => tx'[u].env \in Creates
  <2>1. CASE tx' = tx
    BY <2>1 DEF FirstsCreated
  <2>2. ASSUME NEW t \in Threads, NEW new \in Tx, TxMove(t, new)
        PROVE  \A u \in Threads : tx'[u].pc # "idle" /\ tx'[u].base = 0 => tx'[u].env \in Creates
    <3>1. \A u \in Threads : tx'[u] = IF u = t THEN new ELSE tx[u]
      BY <2>2 DEF TxMove, IInv, TypeOK
    <3>2. new.pc # "idle" /\ new.base = 0 => new.env \in Creates
      <4> SUFFICES ASSUME new.pc # "idle", new.base = 0 PROVE new.env \in Creates
        OBVIOUS
      <4>1. CASE new.pc = "read"
        BY <2>2, <4>1 DEF TxMove, Idle, IInv, TypeOK, Row
      <4>2. CASE new.pc # "read"
        BY <2>2, <4>2 DEF TxMove, Idle, FirstsCreated
      <4> QED BY <4>1, <4>2
    <3> QED BY <3>1, <3>2 DEF FirstsCreated
  <2> QED BY <2>1, <2>2, TxStep
<1> QED BY <1>1, <1>2 DEF FirstsCreated

\* A current row stays, or the next version takes its place.
LEMMA CurrentGrows ==
  ASSUME FreshIds, FreshInv, [Next]_vars, NEW c \in entries, c.current
  PROVE  \E d \in entries' : d.env.entry = c.env.entry /\ d.current /\ c.version <= d.version
<1> USE DEF FreshInv, GapInv
<1>0. c.version \in Nat
  BY DEF IInv, TypeOK, Row
<1>1. CASE entries' = entries \/ PurgeCommit
  BY <1>0, <1>1 DEF PurgeCommit, IInv, DoomedSuperseded
<1>2. ASSUME NEW t \in Threads, Publishes(t), Created(t)
      PROVE  c \in entries'
  BY <1>2 DEF Created
<1>3. ASSUME NEW t \in Threads, Publishes(t), NEW r \in entries, Replaced(t, r)
      PROVE  \E d \in entries' : d.env.entry = c.env.entry /\ d.current /\ c.version <= d.version
  <2>1. tx[t].pc = "audited"
    BY <1>3 DEF Publishes
  <2>2. /\ entries' = (entries \ {r}) \cup {Old(t, r), NewRow(t)}
        /\ tx[t].base \in Nat /\ IsKey(r, Entry(t), tx[t].base)
        /\ NewRow(t).current /\ IsKey(NewRow(t), Entry(t), tx[t].base + 1)
    BY <1>3, <2>1, ReplacedRows
  <2> QED BY <1>0, <2>2 DEF IsKey
<1> QED BY <1>0, <1>1, <1>2, <1>3, FreshPublishes

LEMMA LoadedFirstStep ==
  ASSUME FreshIds, FreshInv, [Next]_vars
  PROVE  LoadedFirst'
<1> USE DEF FreshInv, GapInv
<1>1. ASSUME NEW e, \E c \in entries : c.env.entry = e /\ c.current /\ c.version > 1
      PROVE  \E c \in entries' : c.env.entry = e /\ c.current /\ c.version > 1
  <2>1. PICK c \in entries : c.env.entry = e /\ c.current /\ c.version > 1
    BY <1>1
  <2>2. PICK d \in entries' : d.env.entry = e /\ d.current /\ c.version <= d.version
    BY <2>1, CurrentGrows
  <2>3. c.version \in Nat /\ d.version \in Nat
    BY RowsTyped DEF IInv, TypeOK, Row
  <2> QED BY <2>1, <2>2, <2>3
<1>2. CASE tx' = tx
  BY <1>1, <1>2 DEF LoadedFirst, Entry
<1>3. ASSUME NEW t \in Threads, NEW new \in Tx, TxMove(t, new)
      PROVE  LoadedFirst'
  <2>1. \A u \in Threads : tx'[u] = IF u = t THEN new ELSE tx[u]
    BY <1>3 DEF TxMove, IInv, TypeOK
  <2>2. ASSUME new.loaded # None
        PROVE  /\ new.pc # "idle"
               /\ new.loaded.env \in Creates
               /\ new.loaded.env.entry = new.env.entry
               /\ ~new.loaded.current =>
                    \E c \in entries : c.env.entry = new.env.entry /\ c.current /\ c.version > 1
    <3>1. CASE new.loaded \in RowsAt(Entry(t), Target(t)) /\ tx[t].pc \in {"checked", "flipped"}
               /\ new.env = tx[t].env /\ new.base = tx[t].base /\ new.pc = "saved"
      <4>1. tx[t].base = 0
        BY <2>2, <3>1, <1>3, TxShapeStep, <2>1 DEF TxShape
      <4>2. new.loaded \in entries /\ IsKey(new.loaded, Entry(t), 1)
        BY <3>1, <4>1 DEF RowsAt, Target
      <4>3. new.loaded.env \in Creates
        BY <4>2 DEF IsKey, FirstsCreated
      <4>4. ASSUME ~new.loaded.current
            PROVE  \E c \in entries : c.env.entry = Entry(t) /\ c.current /\ c.version > 1
        <5>1. PICK c \in entries : /\ c.env.entry = new.loaded.env.entry /\ c.current
                                   /\ new.loaded.version <= c.version
          BY <4>2 DEF IInv, CurrentIsLatest
        <5>2. c.version # 1
          BY <4>2, <4>4, <5>1 DEF IInv, KeyUnique, IsKey
        <5> QED BY <4>2, <5>1, <5>2 DEF IsKey, IInv, TypeOK, Row
      <4> QED BY <3>1, <4>2, <4>3, <4>4 DEF IsKey, Entry
    <3>2. CASE new.loaded = tx[t].loaded /\ new.env = tx[t].env /\ new.pc # "idle"
      BY <2>2, <3>2 DEF LoadedFirst, Entry
    <3> QED BY <1>3, <2>2, <3>1, <3>2 DEF TxMove, Idle
  <2>3. \A u \in Threads : Entry(u)' = IF u = t THEN new.env.entry ELSE Entry(u)
    BY <2>1 DEF Entry
  <2>4. ASSUME NEW u \in Threads, tx'[u].loaded # None
        PROVE  /\ tx'[u].pc # "idle"
               /\ tx'[u].loaded.env \in Creates
               /\ tx'[u].loaded.env.entry = Entry(u)'
               /\ ~tx'[u].loaded.current =>
                    \E c \in entries : c.env.entry = Entry(u)' /\ c.current /\ c.version > 1
    <3>1. CASE u = t
      BY <2>1, <2>2, <2>3, <2>4, <3>1
    <3>2. CASE u # t
      BY <2>1, <2>3, <2>4, <3>2 DEF LoadedFirst
    <3> QED BY <3>1, <3>2
  <2> QED BY <1>1, <2>4 DEF LoadedFirst
<1> QED BY <1>2, <1>3, TxStep

LEMMA BaseCheckedStep ==
  ASSUME FreshIds, FreshInv, [Next]_vars
  PROVE  BaseChecked'
<1> USE DEF FreshInv, GapInv
<1>1. CASE tx' = tx /\ entries' \subseteq entries
  BY <1>1 DEF BaseChecked, Entry
<1>2. CASE PurgeCommit
  BY <1>1, <1>2 DEF PurgeCommit
<1>3. ASSUME entries' = entries, NEW t \in Threads, NEW new \in Tx, TxMove(t, new)
      PROVE  BaseChecked'
  <2>1. \A u \in Threads : tx'[u] = IF u = t THEN new ELSE tx[u]
    BY <1>3 DEF TxMove, IInv, TypeOK
  <2>2. ASSUME new.base # 0, NEW r \in entries, IsKey(r, new.env.entry, new.base), r.current
        PROVE  r.env.issuer = new.env.issuer /\ r.env.hash # new.env.hash
    <3>1. CASE new.pc = "read"
      <4>1. PICK q \in entries :
               /\ q.current /\ q.env.entry = new.env.entry /\ q.version = new.base
               /\ q.env.issuer = new.env.issuer /\ q.env.hash # new.env.hash
        BY <1>3, <3>1 DEF TxMove, Idle
      <4>2. q = r
        BY <2>2, <4>1 DEF IInv, KeyUnique, IsKey
      <4> QED BY <4>1, <4>2
    <3>2. CASE new.env = tx[t].env /\ new.base = tx[t].base
      BY <2>2, <3>2 DEF BaseChecked, Entry
    <3> QED BY <1>3, <2>2, <3>1, <3>2 DEF TxMove, Idle
  <2>3. \A u \in Threads : Entry(u)' = IF u = t THEN new.env.entry ELSE Entry(u)
    BY <2>1 DEF Entry
  <2>4. ASSUME NEW u \in Threads, tx'[u].base # 0,
               NEW r \in entries, IsKey(r, Entry(u)', tx'[u].base), r.current
        PROVE  r.env.issuer = tx'[u].env.issuer /\ r.env.hash # tx'[u].env.hash
    <3>1. CASE u = t
      BY <2>1, <2>2, <2>3, <2>4, <3>1
    <3>2. CASE u # t
      BY <2>1, <2>3, <2>4, <3>2 DEF BaseChecked
    <3> QED BY <3>1, <3>2
  <2>5. \A r, e, v : IsKey(r, e, v)' <=> IsKey(r, e, v)
    BY DEF IsKey
  <2> QED BY <1>3, <2>4 DEF BaseChecked, IsKey
<1>4. ASSUME NEW t \in Threads, Publishes(t), Created(t) \/ \E r \in entries : Replaced(t, r)
      PROVE  BaseChecked'
  <2>1. tx[t].pc = "audited" /\ \A u \in Threads : tx'[u] = IF u = t THEN Idle ELSE tx[u]
    BY <1>4 DEF Publishes, IInv, TypeOK
  <2>2. SUFFICES ASSUME NEW u \in Threads \ {t}, tx[u].base # 0, NEW p \in entries',
                        IsKey(p, Entry(u), tx[u].base), p.current
                 PROVE  p \in entries
    <3>1. tx'[t].base = 0 /\ \A u \in Threads \ {t} : tx'[u] = tx[u] /\ Entry(u)' = Entry(u)
      BY <2>1 DEF Idle, Entry
    <3>2. \A u \in Threads \ {t} : tx[u].base # 0 =>
             \A p \in entries' : IsKey(p, Entry(u), tx[u].base) /\ p.current =>
                p.env.issuer = tx[u].env.issuer /\ p.env.hash # tx[u].env.hash
      BY <2>2 DEF BaseChecked
    <3> QED BY <3>1, <3>2 DEF BaseChecked, IsKey
  <2>3. PICK c \in entries : c.env.entry = Entry(u) /\ c.current /\ tx[u].base <= c.version
    BY <2>2 DEF PendingStamp
  <2>4. CASE Created(t)
    BY <2>2, <2>3, <2>4 DEF Created, IsKey, NewRow, Entry
  <2>5. ASSUME NEW r \in entries, Replaced(t, r)
        PROVE  p \in entries
    <3>1. /\ entries' = (entries \ {r}) \cup {Old(t, r), NewRow(t)}
          /\ tx[t].base \in Nat /\ r.current /\ IsKey(r, Entry(t), tx[t].base)
          /\ ~Old(t, r).current
          /\ IsKey(NewRow(t), Entry(t), tx[t].base + 1)
      BY <2>1, <2>5, ReplacedRows
    <3>2. p # NewRow(t)
      <4> SUFFICES ASSUME p = NewRow(t) PROVE FALSE
        OBVIOUS
      <4>1. Entry(u) = Entry(t) /\ tx[u].base = tx[t].base + 1
        BY <2>2, <3>1 DEF IsKey
      <4>2. c = r
        BY <2>3, <3>1, <4>1 DEF IsKey, IInv, CurrentIsLatest
      <4> QED BY <2>3, <3>1, <4>1, <4>2 DEF IsKey
    <3> QED BY <2>2, <3>1, <3>2
  <2> QED BY <1>4, <2>4, <2>5
<1>5. entries' # entries => \/ PurgeCommit
                            \/ \E t \in Threads : Publishes(t) /\ (Created(t) \/ \E r \in entries : Replaced(t, r))
  BY FreshPublishes
<1> QED BY <1>1, <1>2, <1>3, <1>4, <1>5, TxStep

LEMMA DoomedExpiredStep ==
  ASSUME IInv, DoomedExpired, [Next]_vars
  PROVE  DoomedExpired'
<1>0. clock \in Nat /\ clock' \in Nat /\ clock <= clock'
  BY ClockStep
<1>1. CASE doomed' = doomed \/ doomed' = {}
  <2>1. \A r \in doomed : r.supersededAt \in Nat
    BY DEF IInv, TypeOK, DoomedSuperseded, SupersededStamped
  <2> QED BY <1>0, <1>1, <2>1, BoundsAssumption DEF DoomedExpired
<1>2. CASE PurgeDelete
  BY <1>2 DEF PurgeDelete, DoomedExpired
<1> QED BY <1>1, <1>2, DoomedStep

LEMMA ReadersStep ==
  ASSUME FreshIds, FreshInv, [Next]_vars
  PROVE  ReadersAreRecipients'
<1> USE DEF FreshInv, GapInv
<1>1. CASE entries' = entries \/ PurgeCommit
  BY <1>1 DEF PurgeCommit, ReadersAreRecipients
<1>2. ASSUME NEW t \in Threads, Publishes(t), Created(t)
      PROVE  ReadersAreRecipients'
  BY <1>2 DEF Created, NewRow, ReadersAreRecipients
<1>3. ASSUME NEW t \in Threads, Publishes(t), NEW r \in entries, Replaced(t, r)
      PROVE  ReadersAreRecipients'
  <2>1. Old(t, r).env = r.env /\ Old(t, r).readers = r.readers
    BY DEF Old, IInv, TypeOK, Row
  <2>2. entries' = (entries \ {r}) \cup {Old(t, r), NewRow(t)}
    BY <1>3 DEF Replaced, Old
  <2> QED BY <2>1, <2>2 DEF NewRow, ReadersAreRecipients
<1> QED BY <1>1, <1>2, <1>3, FreshPublishes

LEMMA InitFreshInv == Init => FreshInv
<1> SUFFICES ASSUME Init PROVE FreshInv
  OBVIOUS
<1>1. \A t \in Threads : tx[t].pc = "idle" /\ tx[t].base = 0 /\ tx[t].loaded = None
  BY DEF Init, Idle
<1> QED BY <1>1, InitGapInv DEF Init, FreshInv, FirstsCreated, LoadedFirst, BaseChecked,
                                DoomedExpired, ReadersAreRecipients

LEMMA StepFreshInv == ASSUME FreshIds PROVE FreshInv /\ [Next]_vars => FreshInv'
BY StepGapInv, FirstsCreatedStep, LoadedFirstStep, BaseCheckedStep, DoomedExpiredStep, ReadersStep
   DEF FreshInv, GapInv

\* With fresh entry ids, the verifiers that can read a version are exactly the recipients
\* its envelope names: no row of entry_recipients survives a version or a retry.
THEOREM ReadersStayRecipients == ASSUME FreshIds PROVE Spec => []ReadersAreRecipients
<1>1. FreshInv => ReadersAreRecipients
  BY DEF FreshInv
<1>2. FreshInv /\ [Next]_vars => FreshInv'
  BY StepFreshInv
<1> QED BY <1>1, <1>2, InitFreshInv, PTL DEF Spec

\* With fresh entry ids a stored envelope never changes: what merge() finds is the envelope
\* of the retried creation itself, or a version that a later one has replaced.
THEOREM FreshIdsReject == ASSUME FreshIds PROVE Spec => CollisionRejected
<1>1. ASSUME FreshInv, [Next]_vars, NEW r \in entries, NEW s \in entries',
             r.env.entry = s.env.entry, r.version = s.version
      PROVE  r.env = s.env
  <2> USE <1>1 DEF FreshInv, GapInv
  <2>1. CASE entries' = entries \/ PurgeCommit
    BY <2>1 DEF PurgeCommit, IInv, KeyUnique
  <2>2. ASSUME NEW t \in Threads, Publishes(t), Created(t) PROVE r.env = s.env
    <3>1. /\ entries' = entries \cup {NewRow(t)} /\ NewRow(t).env.entry = Entry(t)
          /\ \A q \in entries : q.env.entry # Entry(t)
      BY <2>2 DEF Created, NewRow, Entry
    <3> QED BY <3>1 DEF IInv, KeyUnique
  <2>3. ASSUME NEW t \in Threads, Publishes(t), NEW q \in entries, Replaced(t, q)
        PROVE  r.env = s.env
    <3>1. /\ entries' = (entries \ {q}) \cup {Old(t, q), NewRow(t)}
          /\ tx[t].base \in Nat
          /\ IsKey(q, Entry(t), tx[t].base)
          /\ Old(t, q).env = q.env /\ Old(t, q).version = q.version
          /\ IsKey(NewRow(t), Entry(t), tx[t].base + 1)
          /\ \A p \in entries \ {q} : p.env.entry = Entry(t) =>
                p.version \in Nat /\ p.version < tx[t].base
      BY <2>3, ReplacedRows DEF Publishes
    <3>2. s # NewRow(t)
      BY <3>1 DEF IsKey
    <3> QED BY <3>1, <3>2 DEF IInv, KeyUnique
  <2> QED BY <2>1, <2>2, <2>3, FreshPublishes
<1>2. FreshInv /\ [Next]_vars =>
        [\A r \in entries, s \in entries' :
            r.env.entry = s.env.entry /\ r.version = s.version => r.env = s.env]_vars
  BY <1>1
<1>3. FreshInv /\ [Next]_vars => FreshInv'
  BY StepFreshInv
<1> QED BY <1>2, <1>3, InitFreshInv, PTL DEF Spec, CollisionRejected

\* Also when creations collide: no envelope of a version changes and no superseded row is
\* touched before its retention is over, except for the first version of an entry, which a
\* second creation can overwrite as long as no update has been stored.
THEOREM HistoryIsKept == Spec => HistoryKept
<1> DEFINE Expired(r) == ~r.current /\ r.supersededAt + Retention < clock
           Alone(r) == /\ r.version = 1 /\ r.current
                       /\ \A s \in entries : s.env.entry = r.env.entry => s = r
<1>1. ASSUME IInv, DoomedExpired, [Next]_vars, NEW r \in entries
      PROVE  Kept(r) \/ Expired(r) \/ Alone(r)
  <2> USE <1>1
  <2>1. CASE entries' = entries
    BY <2>1 DEF Kept
  <2>2. CASE PurgeCommit
    <3>1. r \in doomed => ~r.current /\ r.supersededAt + Retention < clock
      BY DEF DoomedExpired, IInv, DoomedSuperseded
    <3>2. r \notin doomed => r \in entries'
      BY <2>2 DEF PurgeCommit
    <3> QED BY <3>1, <3>2 DEF Kept
  <2>3. ASSUME NEW t \in Threads, Publishes(t), Created(t) PROVE Kept(r) \/ Expired(r) \/ Alone(r)
    BY <2>3 DEF Created, Kept
  <2>4. ASSUME NEW t \in Threads, Publishes(t), NEW q \in entries, Replaced(t, q)
        PROVE  Kept(r) \/ Expired(r) \/ Alone(r)
    <3>1. /\ entries' = (entries \ {q}) \cup {Old(t, q), NewRow(t)}
          /\ q.current
          /\ Old(t, q).env = q.env /\ Old(t, q).version = q.version
      BY <2>4, ReplacedRows DEF Publishes
    <3> QED BY <3>1 DEF Kept
  <2>5. ASSUME NEW t \in Threads, Publishes(t), NEW q \in entries, Overwrote(t, q)
        PROVE  Kept(r) \/ Expired(r) \/ Alone(r)
    <3>1. /\ entries' = (entries \ {q}) \cup {Overwritten(t, q)}
          /\ q.current /\ IsKey(q, Entry(t), 1)
          /\ \A s \in entries : s.env.entry = Entry(t) => s = q
      BY <2>5, OverwroteRows
    <3> QED BY <3>1 DEF Kept, IsKey
  <2> QED BY <2>1, <2>2, <2>3, <2>4, <2>5, TableStep DEF Publishes
<1>2. IInv /\ DoomedExpired /\ [Next]_vars =>
        [\A r \in entries :
           \/ Kept(r)
           \/ ~r.current /\ r.supersededAt + Retention < clock
           \/ /\ r.version = 1 /\ r.current
              /\ \A s \in entries : s.env.entry = r.env.entry => s = r]_vars
  BY <1>1
<1>3. IInv /\ DoomedExpired /\ [Next]_vars => IInv' /\ DoomedExpired'
  BY StepIInv, DoomedExpiredStep
<1>4. Init => IInv /\ DoomedExpired
  BY InitIInv DEF Init, DoomedExpired
<1> QED BY <1>2, <1>3, <1>4, PTL DEF Spec, HistoryKept

-----------------------------------------------------------------------------
(***************************************************************************)
(* The refinement: every step is a step of EntryRegistry or stutters.      *)
(***************************************************************************)

\* A commit that creates an entry is Registry!Create.
LEMMA CreateRefines ==
  ASSUME FreshInv, NEW t \in Threads, Publishes(t), Created(t)
  PROVE  \E e \in Registry!Envelope : Registry!Create(e)
<1> USE DEF FreshInv, GapInv
<1>1. /\ tx[t].pc = "audited" /\ tx[t].base = 0 /\ clock' = clock
      /\ entries' = entries \cup {NewRow(t)}
      /\ \A r \in entries : r.env.entry # Entry(t)
  BY DEF Publishes, Created
<1>2. tx[t].env \in Envelope
  BY <1>1, TxTyped DEF IInv
<1>3. NewRow(t).current /\ HeadOf(NewRow(t)) = [env |-> tx[t].env, version |-> 1]
  BY <1>1 DEF NewRow, HeadOf, Target
<1>4. Heads' = Heads \cup {[env |-> tx[t].env, version |-> 1]}
  BY <1>1, <1>3 DEF Heads, HeadOf
<1>5. Superseded' = Superseded
  BY <1>1, <1>3 DEF Superseded, PastOf
<1>6. \A h \in Heads : h.env.entry # tx[t].env.entry
  BY <1>1 DEF Heads, HeadOf, Entry
<1> QED BY <1>1, <1>2, <1>4, <1>5, <1>6 DEF Registry!Create, Registry!Envelope, Envelope

\* A commit that replaces the current row r is Registry!Publish.
LEMMA ReplaceRefines ==
  ASSUME FreshInv, NEW t \in Threads, Publishes(t), NEW r \in entries, Replaced(t, r)
  PROVE  \E h \in Heads, e \in Registry!Envelope : \E when \in 0..clock :
             Registry!Publish(h, e, when)
<1> USE DEF FreshInv, GapInv
<1>1. tx[t].pc = "audited" /\ tx[t].base # 0 /\ clock' = clock
  BY DEF Publishes, Replaced
<1>2. /\ entries' = (entries \ {r}) \cup {Old(t, r), NewRow(t)}
      /\ tx[t].base \in Nat /\ tx[t].stamp \in Nat
      /\ r.current /\ IsKey(r, Entry(t), tx[t].base)
      /\ Old(t, r).env = r.env /\ Old(t, r).version = r.version
      /\ ~Old(t, r).current /\ Old(t, r).supersededAt = tx[t].stamp
      /\ NewRow(t).env = tx[t].env /\ NewRow(t).current
      /\ IsKey(NewRow(t), Entry(t), tx[t].base + 1)
  BY <1>1, ReplacedRows
<1>3. tx[t].env \in Envelope
  BY <1>1, TxTyped DEF IInv
<1>4. tx[t].stamp \in 0..clock
  BY <1>1, <1>2 DEF PendingStamp, IInv, TypeOK
<1>5. /\ tx[t].env.entry = HeadOf(r).env.entry
      /\ tx[t].env.issuer = HeadOf(r).env.issuer
      /\ tx[t].env.hash # HeadOf(r).env.hash
  BY <1>1, <1>2 DEF BaseChecked, HeadOf, IsKey, Entry
<1>6. HeadOf(r) \in Heads
  BY <1>2 DEF Heads
<1>7. HeadOf(NewRow(t)) = [env |-> tx[t].env, version |-> HeadOf(r).version + 1]
  BY <1>2 DEF HeadOf, IsKey
<1>8. \A q \in entries : HeadOf(q) = HeadOf(r) => q = r
  BY DEF HeadOf, IInv, KeyUnique
<1>9. Heads' = (Heads \ {HeadOf(r)}) \cup {HeadOf(NewRow(t))}
  <2>1. Heads' = {HeadOf(q) : q \in {p \in entries' : p.current}}
    BY DEF Heads, HeadOf
  <2>2. {p \in entries' : p.current} = {p \in entries : p.current /\ p # r} \cup {NewRow(t)}
    BY <1>2
  <2>3. {HeadOf(q) : q \in {p \in entries : p.current /\ p # r}} = Heads \ {HeadOf(r)}
    BY <1>8 DEF Heads
  <2> QED BY <2>1, <2>2, <2>3
<1>10. Superseded' = Superseded \cup 
          {[env |-> HeadOf(r).env, version |-> HeadOf(r).version, supersededAt |-> tx[t].stamp]}
  <2>1. Superseded' = {PastOf(q) : q \in {p \in entries' : ~p.current}}
    BY DEF Superseded, PastOf
  <2>2. {p \in entries' : ~p.current} = {p \in entries : ~p.current} \cup {Old(t, r)}
    BY <1>2
  <2>3. PastOf(Old(t, r)) = 
          [env |-> HeadOf(r).env, version |-> HeadOf(r).version, supersededAt |-> tx[t].stamp]
    BY <1>2 DEF PastOf, HeadOf
  <2> QED BY <2>1, <2>2, <2>3 DEF Superseded
<1>11. Registry!Publish(HeadOf(r), tx[t].env, tx[t].stamp)
  BY <1>1, <1>4, <1>5, <1>7, <1>9, <1>10 DEF Registry!Publish
<1> QED BY <1>3, <1>4, <1>6, <1>11 DEF Registry!Envelope, Envelope

\* A purge that commits is Registry!Expire.
LEMMA PurgeRefines ==
  ASSUME FreshInv, PurgeCommit
  PROVE  \E S \in SUBSET Superseded : Registry!Expire(S)
<1> USE DEF FreshInv, GapInv
<1> DEFINE S == {PastOf(r) : r \in doomed}
<1>1. entries' = entries \ doomed /\ clock' = clock
  BY DEF PurgeCommit
<1>2. doomed \subseteq entries /\ \A r \in doomed : ~r.current
  BY DEF IInv, TypeOK, DoomedSuperseded
<1>3. \A p, q \in entries : PastOf(p) = PastOf(q) => p = q
  BY DEF PastOf, IInv, KeyUnique
<1>4. Superseded' = Superseded \ S
  <2>1. Superseded' = {PastOf(q) : q \in {p \in entries : ~p.current /\ p \notin doomed}}
    BY <1>1 DEF Superseded, PastOf
  <2> QED BY <1>2, <1>3, <2>1 DEF Superseded
<1>5. Heads' = Heads
  BY <1>1, <1>2 DEF Heads, HeadOf
<1>6. \A p \in S : p.supersededAt + Retention < clock
  BY DEF DoomedExpired, PastOf
<1>7. S \in SUBSET Superseded
  BY <1>2 DEF Superseded
<1>8. Registry!Expire(S)
  BY <1>1, <1>4, <1>5, <1>6 DEF Registry!Expire
<1> QED BY <1>7, <1>8

LEMMA StepRefines ==
  ASSUME FreshIds, FreshInv, [Next]_vars
  PROVE  [Registry!Next]_(Registry!vars)
<1>1. ASSUME NEW t \in Threads, Publishes(t), Created(t) \/ \E r \in entries : Replaced(t, r)
      PROVE  Registry!Next
  BY <1>1, CreateRefines, ReplaceRefines DEF Registry!Next
<1>2. CASE PurgeCommit
  BY <1>2, PurgeRefines DEF Registry!Next
<1>3. CASE entries' = entries
  <2>1. Heads' = Heads /\ Superseded' = Superseded
    BY <1>3 DEF Heads, HeadOf, Superseded, PastOf
  <2>2. clock' = clock \/ clock' = clock + 1
    BY DEF Next, Request, Flush, IngestNew, IngestUpdate, Flip, FlipConflict, Save, RecordEvent,
           CommitInsert, CommitOverwrite, CommitUnchanged, FlushFails, Abort, Purge, PurgeDelete,
           PurgeRecordEvent, PurgeCommit, PurgeAbort, Tick, vars
  <2> QED BY <2>1, <2>2 DEF Registry!Next, Registry!Tick, Registry!vars
<1> QED BY <1>1, <1>2, <1>3, FreshPublishes

\* With fresh entry ids the store of rows, flips, merges, audit events and purges
\* implements the registry of heads and superseded versions.
THEOREM StoreImplementsRegistry == ASSUME FreshIds PROVE Spec => ImplementsRegistry
<1>1. Init => Registry!Init
  BY DEF Init, Registry!Init, Heads, Superseded
<1>2. FreshInv /\ [Next]_vars => [Registry!Next]_(Registry!vars)
  BY StepRefines
<1>3. FreshInv /\ [Next]_vars => FreshInv'
  BY StepFreshInv
<1> QED BY <1>1, <1>2, <1>3, InitFreshInv, PTL DEF Spec, ImplementsRegistry, Registry!Spec
=============================================================================
