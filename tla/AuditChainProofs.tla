-------------------------- MODULE AuditChainProofs --------------------------
(***************************************************************************)
(* Proofs about AuditChain: the chain is rooted, and its forks are bounded *)
(* by the number of threads; and about AuditPolling: a reader that polls   *)
(* passes a row only where the chain has forked.                           *)
(***************************************************************************)
EXTENDS AuditPolling, FiniteSetTheorems, TLAPS

\* Numbers in use lie below the sequence and are not shared: a stored row has one, a
\* writer that has inserted has one that is in no row.
SeqsFresh ==
    /\ \A r \in log : r.seq < nextSeq
    /\ \A w \in Writers : writer[w].pc = "inserted" =>
         /\ writer[w].seq < nextSeq
         /\ \A r \in log : r.seq # writer[w].seq
         /\ \A u \in Writers \ {w} :
              writer[u].pc = "inserted" => writer[u].seq # writer[w].seq

\* A busy writer's head is a stored row, older than the number it has drawn.
HeadsStored ==
    \A w \in Writers : writer[w].pc # "idle" =>
        /\ writer[w].head = Genesis \/ \E q \in log : q.seq = writer[w].head
        /\ writer[w].pc = "inserted" => writer[w].head < writer[w].seq

Inv == TypeOK /\ SeqsFresh /\ HeadsStored /\ Rooted

\* Successors a row has and may still get.
Width(p) == Cardinality(Children(p)) + Cardinality(Pending(p))

\* Every row, stored or not, has no more of them than there are writers.
WidthBounded ==
    /\ IsFiniteSet(log)
    /\ \A p \in Nat : Width(p) <= Cardinality(Writers)

-----------------------------------------------------------------------------

LEMMA InitInv == Init => Inv
BY DEF Init, Inv, TypeOK, SeqsFresh, HeadsStored, Rooted, Idle, Writer, Genesis

\* A writer's record keeps its type and the invariant is kept, action by action.
LEMMA StepInv == Inv /\ [Next]_vars => Inv'
<1> SUFFICES ASSUME Inv, [Next]_vars PROVE Inv'
  OBVIOUS
<1> USE DEF Inv, TypeOK, Writer, Row, Genesis
<1>1. ASSUME NEW w \in Writers, ReadHead(w) PROVE Inv'
  <2>1. PICK h \in 0..nextSeq :
            /\ IsHead(h)
            /\ writer' = [writer EXCEPT ![w] = [pc |-> "waiting", head |-> h, seq |-> 0]]
    BY <1>1 DEF ReadHead
  <2>2. log' = log /\ nextSeq' = nextSeq
    BY <1>1 DEF ReadHead
  <2>3. h = Genesis \/ \E q \in log : q.seq = h
    BY <2>1 DEF IsHead
  <2>4. TypeOK'
    BY <2>1, <2>2
  <2>5. SeqsFresh'
    BY <2>1, <2>2 DEF SeqsFresh
  <2>6. HeadsStored'
    BY <2>1, <2>2, <2>3 DEF HeadsStored
  <2>7. Rooted'
    BY <2>2 DEF Rooted
  <2> QED BY <2>4, <2>5, <2>6, <2>7
<1>2. ASSUME NEW w \in Writers, LockHead(w) PROVE Inv'
  BY <1>2 DEF LockHead, SeqsFresh, HeadsStored, Rooted
<1>3. ASSUME NEW w \in Writers, Insert(w) PROVE Inv'
  <2>1. /\ writer[w].pc = "locked"
        /\ writer' = [writer EXCEPT ![w] =
                     [pc |-> "inserted", head |-> writer[w].head, seq |-> nextSeq]]
        /\ nextSeq' = nextSeq + 1
        /\ log' = log
    BY <1>3 DEF Insert
  <2>2. /\ writer'[w].pc = "inserted"
        /\ writer'[w].head = writer[w].head
        /\ writer'[w].seq = nextSeq
        /\ \A u \in Writers \ {w} : writer'[u] = writer[u]
    BY <2>1
  <2>3. TypeOK'
    BY <2>1
  <2>4. SeqsFresh'
    BY <2>1, <2>2 DEF SeqsFresh
  <2>5. writer[w].head < nextSeq
    BY <2>1 DEF HeadsStored, SeqsFresh
  <2>6. HeadsStored'
    BY <2>1, <2>2, <2>5 DEF HeadsStored
  <2>7. Rooted'
    BY <2>1 DEF Rooted
  <2> QED BY <2>3, <2>4, <2>6, <2>7
<1>4. ASSUME NEW w \in Writers, Commit(w) PROVE Inv'
  <2>1. /\ writer[w].pc = "inserted"
        /\ log' = log \cup {NewRow(w)}
        /\ writer' = [writer EXCEPT ![w] = Idle]
        /\ nextSeq' = nextSeq
    BY <1>4 DEF Commit
  <2>2. /\ writer[w].head < writer[w].seq
        /\ writer[w].head = Genesis \/ \E q \in log : q.seq = writer[w].head
    BY <2>1 DEF HeadsStored
  <2>3. NewRow(w) \in Row /\ NewRow(w).seq = writer[w].seq /\ NewRow(w).prev = writer[w].head
    BY <2>1, <2>2 DEF NewRow
  <2>4. TypeOK'
    BY <2>1, <2>3 DEF Idle
  <2>5. SeqsFresh'
    BY <2>1, <2>3 DEF SeqsFresh, Idle
  <2>6. HeadsStored'
    BY <2>1 DEF HeadsStored, Idle
  <2>7. Rooted'
    BY <2>1, <2>2, <2>3 DEF Rooted
  <2> QED BY <2>4, <2>5, <2>6, <2>7
<1>5. ASSUME NEW w \in Writers, Abort(w) PROVE Inv'
  BY <1>5 DEF Abort, Idle, SeqsFresh, HeadsStored, Rooted
<1>6. CASE UNCHANGED vars
  BY <1>6 DEF vars, SeqsFresh, HeadsStored, Rooted
<1> QED BY <1>1, <1>2, <1>3, <1>4, <1>5, <1>6 DEF Next

\* Every row of the audit log, in every reachable state, extends an older row that is
\* in the log or the genesis hash: Rooted, and the type invariant with it.
THEOREM ChainRooted == Spec => [](TypeOK /\ Rooted)
<1>1. Spec => []Inv
  BY InitInv, StepInv, PTL DEF Spec
<1>2. Inv => TypeOK /\ Rooted
  BY DEF Inv
<1> QED BY <1>1, <1>2, PTL

\* Both sets are finite, so their sizes are numbers that can be added.
LEMMA Sizes ==
    ASSUME IsFiniteSet(log), NEW p
    PROVE  /\ IsFiniteSet(Children(p))
           /\ IsFiniteSet(Pending(p))
           /\ Cardinality(Children(p)) \in Nat
           /\ Cardinality(Pending(p)) \in Nat
           /\ Cardinality(Writers) \in Nat
           /\ Cardinality(Pending(p)) <= Cardinality(Writers)
<1>1. Children(p) \subseteq log /\ Pending(p) \subseteq Writers
  BY DEF Children, Pending
<1>2. /\ IsFiniteSet(Children(p))
      /\ IsFiniteSet(Pending(p))
      /\ Cardinality(Pending(p)) <= Cardinality(Writers)
  BY <1>1, FS_Subset, WritersAssumption
<1> QED BY <1>2, FS_CardinalityType, WritersAssumption

\* The committed head has no successor yet.
LEMMA HeadHasNoChild ==
    ASSUME TypeOK, Rooted, NEW h, IsHead(h)
    PROVE  Children(h) = {}
BY DEF TypeOK, Rooted, IsHead, Children, Genesis, Row

LEMMA InitWidth == Init => WidthBounded
<1> SUFFICES ASSUME Init PROVE WidthBounded
  OBVIOUS
<1>1. \A p : Children(p) = {} /\ Pending(p) = {}
  BY DEF Init, Children, Pending, Idle
<1>2. Cardinality({}) = 0 /\ IsFiniteSet({})
  BY FS_EmptySet
<1>3. Cardinality(Writers) \in Nat
  BY FS_CardinalityType, WritersAssumption
<1> QED BY <1>1, <1>2, <1>3 DEF WidthBounded, Width, Init

\* A successor that is written was pending: the sum only grows when a head is read,
\* and then there was no successor.
LEMMA StepWidth == Inv /\ WidthBounded /\ [Next]_vars => WidthBounded'
<1> SUFFICES ASSUME Inv, WidthBounded, [Next]_vars PROVE WidthBounded'
  OBVIOUS
<1> USE DEF Inv
<1>fin. IsFiniteSet(log)
  BY DEF WidthBounded
<1>1. ASSUME log' = log, \A p \in Nat : Pending(p)' \subseteq Pending(p) PROVE WidthBounded'
  <2>1. ASSUME NEW p \in Nat PROVE Width(p)' <= Cardinality(Writers)
    <3>1. Children(p)' = Children(p)
      BY <1>1 DEF Children
    <3>2. Cardinality(Pending(p)') <= Cardinality(Pending(p)) /\ IsFiniteSet(Pending(p)')
      BY <1>1, <1>fin, Sizes, FS_Subset
    <3>3. Cardinality(Pending(p)') \in Nat
      BY <3>2, FS_CardinalityType
    <3>4. Width(p) <= Cardinality(Writers)
      BY DEF WidthBounded
    <3> QED BY <3>1, <3>2, <3>3, <3>4, <1>fin, Sizes DEF Width
  <2> QED BY <1>1, <1>fin, <2>1 DEF WidthBounded
<1>2. ASSUME NEW w \in Writers, ReadHead(w) PROVE WidthBounded'
  <2>1. PICK h \in 0..nextSeq :
            /\ IsHead(h)
            /\ writer' = [writer EXCEPT ![w] = [pc |-> "waiting", head |-> h, seq |-> 0]]
    BY <1>2 DEF ReadHead
  <2>2. log' = log /\ writer[w].pc = "idle" /\ writer \in [Writers -> Writer]
    BY <1>2 DEF ReadHead, TypeOK
  <2>3. Children(h) = {}
    BY <2>1, HeadHasNoChild
  <2>4. ASSUME NEW p \in Nat PROVE Width(p)' <= Cardinality(Writers)
    <3>1. Children(p)' = Children(p)
      BY <2>2 DEF Children
    <3>2. CASE p = h
      <4>1. Pending(p)' \subseteq Writers
        BY DEF Pending
      <4>2. /\ Cardinality(Pending(p)') <= Cardinality(Writers)
            /\ Cardinality(Pending(p)') \in Nat
        BY <4>1, FS_Subset, FS_CardinalityType, WritersAssumption
      <4> QED BY <2>3, <3>1, <3>2, <4>2, FS_EmptySet DEF Width
    <3>3. CASE p # h
      <4>1. Pending(p)' = Pending(p)
        BY <2>1, <2>2, <3>3 DEF Pending
      <4> QED BY <3>1, <4>1 DEF Width, WidthBounded
    <3> QED BY <3>2, <3>3
  <2> QED BY <1>fin, <2>2, <2>4 DEF WidthBounded
<1>3. ASSUME NEW w \in Writers, LockHead(w) PROVE WidthBounded'
  <2>1. log' = log /\ \A p \in Nat : Pending(p)' \subseteq Pending(p)
    BY <1>3 DEF LockHead, Pending, TypeOK, Writer
  <2> QED BY <2>1, <1>1
<1>4. ASSUME NEW w \in Writers, Insert(w) PROVE WidthBounded'
  <2>1. log' = log /\ \A p \in Nat : Pending(p)' \subseteq Pending(p)
    BY <1>4 DEF Insert, Pending, TypeOK, Writer
  <2> QED BY <2>1, <1>1
<1>5. ASSUME NEW w \in Writers, Commit(w) PROVE WidthBounded'
  <2>1. /\ writer[w].pc = "inserted"
        /\ log' = log \cup {NewRow(w)}
        /\ writer' = [writer EXCEPT ![w] = Idle]
        /\ writer \in [Writers -> Writer]
    BY <1>5 DEF Commit, TypeOK
  <2>2. NewRow(w) \notin log /\ NewRow(w).prev = writer[w].head
    BY <2>1 DEF SeqsFresh, NewRow
  <2>3. IsFiniteSet(log')
    BY <1>fin, <2>1, FS_AddElement
  <2>4. ASSUME NEW p \in Nat PROVE Width(p)' <= Cardinality(Writers)
    <3>0. Width(p) <= Cardinality(Writers)
      BY DEF WidthBounded
    <3>1. CASE p = writer[w].head
      <4>1. Children(p)' = Children(p) \cup {NewRow(w)} /\ NewRow(w) \notin Children(p)
        BY <2>1, <2>2, <3>1 DEF Children
      <4>2. Pending(p)' = Pending(p) \ {w} /\ w \in Pending(p)
        BY <2>1, <3>1 DEF Pending, Idle
      <4>3. Cardinality(Children(p)') = Cardinality(Children(p)) + 1
        BY <4>1, <1>fin, Sizes, FS_AddElement
      <4>4. Cardinality(Pending(p)') = Cardinality(Pending(p)) - 1
        BY <4>2, <1>fin, Sizes, FS_RemoveElement
      <4> QED BY <3>0, <4>3, <4>4, <1>fin, Sizes DEF Width
    <3>2. CASE p # writer[w].head
      <4>1. Children(p)' = Children(p)
        BY <2>1, <2>2, <3>2 DEF Children
      <4>2. Pending(p)' = Pending(p)
        BY <2>1, <3>2 DEF Pending, Idle
      <4> QED BY <3>0, <4>1, <4>2 DEF Width
    <3> QED BY <3>1, <3>2
  <2> QED BY <2>3, <2>4 DEF WidthBounded
<1>6. ASSUME NEW w \in Writers, Abort(w) PROVE WidthBounded'
  <2>1. log' = log /\ \A p \in Nat : Pending(p)' \subseteq Pending(p)
    BY <1>6 DEF Abort, Pending, TypeOK, Idle
  <2> QED BY <2>1, <1>1
<1>7. CASE UNCHANGED vars
  <2>1. log' = log /\ \A p \in Nat : Pending(p)' \subseteq Pending(p)
    BY <1>7 DEF vars, Pending
  <2> QED BY <2>1, <1>1
<1> QED BY <1>2, <1>3, <1>4, <1>5, <1>6, <1>7 DEF Next

\* However many events overlap, a row of the audit log has at most as many successors as
\* there are threads that write it; in particular one thread alone keeps the chain a line.
THEOREM ForkWidth == Spec => []ForksBounded
<1>1. Spec => [](Inv /\ WidthBounded)
  BY InitInv, StepInv, InitWidth, StepWidth, PTL DEF Spec
<1>2. Inv /\ WidthBounded => ForksBounded
  <2> SUFFICES ASSUME Inv, WidthBounded, NEW p \in {Genesis} \cup {r.seq : r \in log}
               PROVE  Cardinality(Children(p)) <= Cardinality(Writers)
    BY DEF ForksBounded
  <2>1. p \in Nat
    BY DEF Inv, TypeOK, Row, Genesis
  <2>2. Width(p) <= Cardinality(Writers)
    BY <2>1 DEF WidthBounded
  <2> QED BY <2>2, Sizes DEF WidthBounded, Width
<1> QED BY <1>1, <1>2, PTL

\* What the comment on the FOR UPDATE claims of concurrent writers holds of one: if a single
\* thread writes the audit log, no two rows carry the same prev_hash, whatever rolls back
\* or stops in between.  The run that violates it needs two threads, no more.
THEOREM OneWriterSerialized ==
    ASSUME Cardinality(Writers) = 1
    PROVE  Spec => []WritersSerialized
<1>1. Spec => [](Inv /\ WidthBounded)
  BY InitInv, StepInv, InitWidth, StepWidth, PTL DEF Spec
<1>2. Inv /\ WidthBounded => WritersSerialized
  <2> SUFFICES ASSUME Inv, WidthBounded, NEW r \in log, NEW s \in log, r.prev = s.prev
               PROVE  r = s
    BY DEF WritersSerialized
  <2>1. r.prev \in Nat
    BY DEF Inv, TypeOK, Row
  <2>2. Width(r.prev) <= 1
    BY <2>1 DEF WidthBounded
  <2>3. IsFiniteSet(Children(r.prev)) /\ Cardinality(Children(r.prev)) <= 1
    BY <2>2, Sizes DEF WidthBounded, Width
  <2>4. {r, s} \subseteq Children(r.prev)
    BY DEF Children
  <2>5. Cardinality({r, s}) <= Cardinality(Children(r.prev)) /\ IsFiniteSet({r, s})
    BY <2>3, <2>4, FS_Subset
  <2>6. ASSUME r # s PROVE Cardinality({r, s}) = 2
    <3>1. IsFiniteSet({r}) /\ Cardinality({r}) = 1
      BY FS_Singleton
    <3>2. {r, s} = {r} \cup {s} /\ s \notin {r}
      BY <2>6
    <3> QED BY <3>1, <3>2, FS_AddElement
  <2>7. Cardinality(Children(r.prev)) \in Nat
    BY <2>3, FS_CardinalityType
  <2> QED BY <2>3, <2>5, <2>6, <2>7
<1> QED BY <1>1, <1>2, PTL

-----------------------------------------------------------------------------
(***************************************************************************)
(* When the hashed number is the stored one: one writer, and no number     *)
(* that was drawn is lost.                                                 *)
(***************************************************************************)

\* A step that rolls no INSERT back.
LosesNoSeq == \A w \in Writers : writer[w].pc = "inserted" => ~Abort(w)

\* The newest row, stored or inserted, has the last number that was drawn.
NoGap ==
    /\ HashedSeqIsStored
    /\ \A w \in Writers : writer[w].pc # "inserted" => IsHead(nextSeq - 1)
    /\ \A w \in Writers : writer[w].pc \in {"waiting", "locked"} => writer[w].head = nextSeq - 1
    /\ \A w \in Writers : writer[w].pc = "inserted" =>
         /\ writer[w].seq = nextSeq - 1
         /\ writer[w].head = nextSeq - 2
         /\ IsHead(nextSeq - 2)

LEMMA HeadIsUnique ==
    ASSUME TypeOK, NEW g \in Nat, NEW h \in Nat, IsHead(g), IsHead(h)
    PROVE  g = h
BY DEF TypeOK, Row, IsHead

LEMMA StepNoGap ==
    ASSUME \A u, v \in Writers : u = v, Inv, NoGap, [Next /\ LosesNoSeq]_vars
    PROVE  NoGap'
<1>0. /\ log \subseteq Row /\ nextSeq \in Nat \ {0} /\ writer \in [Writers -> Writer]
      /\ \A w \in Writers : writer[w] \in Writer
  BY DEF Inv, TypeOK
<1>1. ASSUME NEW w \in Writers, ReadHead(w) PROVE NoGap'
  <2>1. PICK h \in 0..nextSeq :
            /\ IsHead(h)
            /\ writer' = [writer EXCEPT ![w] = [pc |-> "waiting", head |-> h, seq |-> 0]]
    BY <1>1 DEF ReadHead
  <2>2. UNCHANGED <<log, nextSeq>> /\ IsHead(nextSeq - 1)
    BY <1>1 DEF ReadHead, NoGap
  <2>3. h = nextSeq - 1
    BY <1>0, <2>1, <2>2, HeadIsUnique DEF Inv
  <2>4. writer'[w].pc = "waiting" /\ writer'[w].head = nextSeq - 1
    BY <1>0, <2>1, <2>3
  <2> QED BY <2>2, <2>4 DEF NoGap, HashedSeqIsStored, IsHead
<1>2. ASSUME NEW w \in Writers, LockHead(w) PROVE NoGap'
  <2>1. /\ writer[w].pc = "waiting" /\ UNCHANGED <<log, nextSeq>>
        /\ writer'[w].pc = "locked" /\ writer'[w].head = writer[w].head
    BY <1>0, <1>2 DEF LockHead, Writer
  <2> QED BY <2>1 DEF NoGap, HashedSeqIsStored, IsHead
<1>3. ASSUME NEW w \in Writers, Insert(w) PROVE NoGap'
  <2>1. /\ writer[w].pc = "locked" /\ log' = log /\ nextSeq' = nextSeq + 1
        /\ writer'[w].pc = "inserted" /\ writer'[w].head = writer[w].head
        /\ writer'[w].seq = nextSeq
    BY <1>0, <1>3 DEF Insert
  <2>2. writer[w].head = nextSeq - 1 /\ IsHead(nextSeq - 1)
    BY <2>1 DEF NoGap
  <2>3. nextSeq' - 2 = nextSeq - 1 /\ nextSeq' - 1 = nextSeq
    BY <1>0, <2>1
  <2> QED BY <2>1, <2>2, <2>3 DEF NoGap, HashedSeqIsStored, IsHead
<1>4. ASSUME NEW w \in Writers, Commit(w) PROVE NoGap'
  <2>1. /\ writer[w].pc = "inserted" /\ nextSeq' = nextSeq
        /\ log' = log \cup {NewRow(w)} /\ writer'[w].pc = "idle"
    BY <1>0, <1>4 DEF Commit, Idle
  <2>2. writer[w].seq = nextSeq - 1 /\ writer[w].head = nextSeq - 2 /\ IsHead(nextSeq - 2)
    BY <2>1 DEF NoGap
  <2>3. NewRow(w).seq = nextSeq - 1 /\ NewRow(w).hashed = nextSeq - 1
    BY <1>0, <2>2 DEF NewRow
  <2>4. HashedSeqIsStored'
    BY <2>1, <2>3 DEF NoGap, HashedSeqIsStored
  <2>5. \A r \in log' : r.seq <= nextSeq - 1
    BY <1>0, <2>1, <2>2, <2>3 DEF IsHead, Row
  <2>6. IsHead(nextSeq - 1)'
    BY <2>1, <2>3, <2>5 DEF IsHead
  <2> QED BY <2>1, <2>4, <2>6 DEF NoGap
<1>5. ASSUME NEW w \in Writers, Abort(w), writer[w].pc # "inserted" PROVE NoGap'
  <2>1. UNCHANGED <<log, nextSeq>> /\ writer'[w].pc = "idle" /\ IsHead(nextSeq - 1)
    BY <1>0, <1>5 DEF Abort, Idle, NoGap
  <2> QED BY <2>1 DEF NoGap, HashedSeqIsStored, IsHead
<1>6. CASE UNCHANGED vars
  BY <1>6 DEF vars, NoGap, HashedSeqIsStored, IsHead
<1> QED BY <1>1, <1>2, <1>3, <1>4, <1>5, <1>6 DEF Next, LosesNoSeq

\* The number a hash is computed over is the row's own as long as one thread writes and
\* none of its INSERTs is rolled back: what breaks it is a number that was drawn and lost.
THEOREM NumbersAgreeWithoutLoss ==
    ASSUME Cardinality(Writers) = 1
    PROVE  Init /\ [][Next /\ LosesNoSeq]_vars => []HashedSeqIsStored
<1>1. \A u, v \in Writers : u = v
  <2>1. PICK w : Writers = {w}
    BY WritersAssumption, FS_Singleton
  <2> QED BY <2>1
<1>2. Init => NoGap
  BY DEF Init, NoGap, HashedSeqIsStored, IsHead, Idle, Genesis
<1>3. Inv /\ [Next /\ LosesNoSeq]_vars => Inv'
  BY StepInv
<1>4. Inv /\ NoGap /\ [Next /\ LosesNoSeq]_vars => NoGap'
  BY <1>1, StepNoGap
<1>5. NoGap => HashedSeqIsStored
  BY DEF NoGap
<1> QED BY <1>2, <1>3, <1>4, <1>5, InitInv, PTL

-----------------------------------------------------------------------------

\* The reader's place is a stored row or the beginning.
SinceStored == since = 0 \/ \E r \in log : r.seq = since

\* In a chain without forks every row but the newest has its successor.
LineGoesOn ==
    WritersSerialized =>
        \A p \in {Genesis} \cup {r.seq : r \in log} :
            (\E q \in log : q.seq > p) => \E c \in log : c.prev = p

PollInv ==
    /\ Inv
    /\ PollTypeOK
    /\ IsFiniteSet(log)
    /\ SinceStored
    /\ LineGoesOn
    /\ SkippedRowsForked

LEMMA InitPollInv == PollInit => PollInv
<1> SUFFICES ASSUME PollInit PROVE PollInv
  OBVIOUS
<1>1. Inv
  BY InitInv DEF PollInit
<1>2. log = {} /\ since = 0 /\ seen = {}
  BY DEF PollInit, Init
<1> QED
  BY <1>1, <1>2, FS_EmptySet
  DEF PollInv, Inv, PollTypeOK, SinceStored, LineGoesOn, SkippedRowsForked

\* A row that is committed in a chain that stays without forks is the newest one: its head
\* had no successor, so nothing newer than the head had been committed.
LEMMA CommitsInOrder ==
    ASSUME Inv, LineGoesOn, NEW w \in Writers, Commit(w), WritersSerialized'
    PROVE  /\ WritersSerialized
           /\ log' = log \cup {NewRow(w)}
           /\ NewRow(w).seq \in Nat /\ NewRow(w).prev \in Nat
           /\ NewRow(w).prev < NewRow(w).seq
           /\ NewRow(w).prev = Genesis \/ \E q \in log : q.seq = NewRow(w).prev
           /\ \A q \in log : q.seq <= NewRow(w).prev
<1>1. /\ writer[w].pc = "inserted"
      /\ log' = log \cup {NewRow(w)}
      /\ writer[w] \in Writer
  BY DEF Commit, Inv, TypeOK
<1>2. NewRow(w).seq = writer[w].seq /\ NewRow(w).prev = writer[w].head
  BY DEF NewRow
<1>3. /\ NewRow(w).seq \in Nat /\ NewRow(w).prev \in Nat
      /\ NewRow(w).prev < NewRow(w).seq
      /\ NewRow(w).prev = Genesis \/ \E q \in log : q.seq = NewRow(w).prev
  BY <1>1, <1>2 DEF Inv, HeadsStored, Writer
<1>4. NewRow(w) \notin log
  BY <1>1, <1>2 DEF Inv, SeqsFresh
<1>5. WritersSerialized
  BY <1>1 DEF WritersSerialized
<1>6. ~\E c \in log : c.prev = NewRow(w).prev
  BY <1>1, <1>4 DEF WritersSerialized
<1>7. ASSUME NEW q \in log PROVE q.seq <= NewRow(w).prev
  <2>1. ~(q.seq > NewRow(w).prev)
    BY <1>3, <1>5, <1>6 DEF LineGoesOn
  <2> QED BY <1>3, <2>1 DEF Inv, TypeOK, Row
<1> QED BY <1>1, <1>3, <1>5, <1>7

LEMMA CommitPollInv ==
    ASSUME PollInv, NEW w \in Writers, Commit(w), UNCHANGED <<since, seen>>, Inv'
    PROVE  PollInv'
<1> USE DEF PollInv
<1>1. log' = log \cup {NewRow(w)}
  BY DEF Commit
<1>2. IsFiniteSet(log')
  BY <1>1, FS_AddElement
<1>3. PollTypeOK'
  BY DEF PollTypeOK, Inv
<1>4. SinceStored'
  BY <1>1 DEF SinceStored
<1>5. ASSUME WritersSerialized'
      PROVE  /\ \A p \in {Genesis} \cup {r.seq : r \in log'} :
                    (\E q \in log' : q.seq > p) => \E c \in log' : c.prev = p
             /\ \A r \in log' : r.seq <= since => r.seq \in seen
  <2> DEFINE n == NewRow(w)
  <2>1. /\ WritersSerialized
        /\ n.seq \in Nat /\ n.prev \in Nat
        /\ n.prev < n.seq
        /\ n.prev = Genesis \/ \E q \in log : q.seq = n.prev
        /\ \A q \in log : q.seq <= n.prev
    BY <1>5, CommitsInOrder
  <2>2. \A r \in log : r.seq \in Nat
    BY DEF Inv, TypeOK, Row
  <2>3. ASSUME NEW p \in {Genesis} \cup {r.seq : r \in log'}, NEW q \in log', q.seq > p
        PROVE  \E c \in log' : c.prev = p
    <3>1. CASE p = n.prev
      BY <1>1, <3>1
    <3>2. CASE p # n.prev
      <4>1. p \in Nat /\ p # n.seq
        BY <1>1, <2>1, <2>2, <2>3 DEF Genesis
      <4>2. p \in {Genesis} \cup {r.seq : r \in log}
        BY <1>1, <4>1
      <4>3. p < n.prev
        BY <1>1, <2>1, <2>2, <3>2, <4>1, <4>2 DEF Genesis
      <4>4. \E r \in log : r.seq > p
        BY <2>1, <2>2, <4>1, <4>3 DEF Genesis
      <4> QED BY <1>1, <2>1, <4>2, <4>4 DEF LineGoesOn
    <3> QED BY <3>1, <3>2
  <2>4. ASSUME NEW r \in log', r.seq <= since PROVE r.seq \in seen
    <3>1. since <= n.prev
      BY <2>1, <2>2 DEF SinceStored
    <3>2. r \in log
      BY <1>1, <2>1, <2>4, <3>1 DEF PollTypeOK
    <3> QED BY <2>1, <2>4, <3>2 DEF SkippedRowsForked
  <2> QED BY <2>3, <2>4
<1>6. LineGoesOn'
  BY <1>5 DEF LineGoesOn
<1>7. SkippedRowsForked'
  BY <1>5 DEF SkippedRowsForked
<1> QED BY <1>2, <1>3, <1>4, <1>6, <1>7

\* Rows that no page separates from one that was read were read with it.
LEMMA PageIsPrefix ==
    ASSUME TypeOK, IsFiniteSet(log), since \in Nat,
           NEW r \in Page, NEW q \in log, q.seq > since, q.seq <= r.seq
    PROVE  q \in Page
<1> DEFINE Below(x) == {y \in Unread : y.seq < x.seq}
<1>1. r \in Unread /\ q \in Unread /\ Cardinality(Below(r)) < EffectiveLimit
  BY DEF Page, Unread
<1>2. Below(q) \subseteq Below(r)
  BY <1>1 DEF Unread, TypeOK, Row
<1>3. IsFiniteSet(Below(r))
  <2>1. Below(r) \subseteq log
    BY DEF Unread
  <2> QED BY <2>1, FS_Subset
<1>4. Cardinality(Below(q)) <= Cardinality(Below(r)) /\ IsFiniteSet(Below(q))
  BY <1>2, <1>3, FS_Subset
<1>5. Cardinality(Below(q)) \in Nat /\ Cardinality(Below(r)) \in Nat
  BY <1>3, <1>4, FS_CardinalityType
<1>6. EffectiveLimit \in Int
  BY LimitAssumption DEF EffectiveLimit
<1>7. Cardinality(Below(q)) < EffectiveLimit
  BY <1>1, <1>4, <1>5, <1>6
<1> QED BY <1>1, <1>7 DEF Page

LEMMA PollPollInv == ASSUME PollInv, Poll PROVE PollInv'
<1> USE DEF PollInv
<1>1. /\ log' = log /\ nextSeq' = nextSeq /\ writer' = writer
      /\ seen' = seen \cup {r.seq : r \in Page}
  BY DEF Poll, vars
<1>2. PICK last \in Page : (\A r \in Page : r.seq <= last.seq) /\ since' = last.seq
  BY DEF Poll
<1>3. Page \subseteq log /\ \A r \in log : r.seq \in Nat
  BY DEF Page, Unread, Inv, TypeOK, Row
<1>4. Inv'
  BY <1>1 DEF Inv, TypeOK, SeqsFresh, HeadsStored, Rooted
<1>5. PollTypeOK'
  BY <1>1, <1>2, <1>3, <1>4 DEF PollTypeOK, Inv
<1>6. SinceStored'
  BY <1>1, <1>2, <1>3 DEF SinceStored
<1>7. LineGoesOn'
  BY <1>1 DEF LineGoesOn, WritersSerialized
<1>8. SkippedRowsForked'
  <2> SUFFICES ASSUME WritersSerialized, NEW r \in log, r.seq <= last.seq
               PROVE  r.seq \in seen \cup {q.seq : q \in Page}
    BY <1>1, <1>2 DEF SkippedRowsForked, WritersSerialized
  <2>1. CASE r.seq <= since
    BY <2>1 DEF SkippedRowsForked
  <2>2. CASE ~(r.seq <= since)
    <3>1. r.seq > since /\ since \in Nat
      BY <1>3, <2>2 DEF PollTypeOK
    <3>2. r \in Page
      BY <3>1, PageIsPrefix DEF Inv
    <3> QED BY <3>2
  <2> QED BY <2>1, <2>2
<1> QED BY <1>1, <1>4, <1>5, <1>6, <1>7, <1>8

LEMMA StepPollInv == PollInv /\ [PollNext]_pollVars => PollInv'
<1> SUFFICES ASSUME PollInv, [PollNext]_pollVars PROVE PollInv'
  OBVIOUS
<1>1. ASSUME Next, UNCHANGED <<since, seen>> PROVE PollInv'
  <2>1. Inv'
    BY <1>1, StepInv DEF PollInv
  <2>2. CASE \E w \in Writers : Commit(w)
    BY <1>1, <2>1, <2>2, CommitPollInv
  <2>3. CASE ~\E w \in Writers : Commit(w)
    <3>1. log' = log
      BY <1>1, <2>3 DEF Next, ReadHead, LockHead, Insert, Abort
    <3> QED
      BY <1>1, <2>1, <3>1
      DEF PollInv, Inv, PollTypeOK, SinceStored, LineGoesOn, SkippedRowsForked, WritersSerialized
  <2> QED BY <2>2, <2>3
<1>2. CASE Poll
  BY <1>2, PollPollInv
<1>3. CASE UNCHANGED pollVars
  <2>1. Inv'
    BY <1>3, StepInv DEF PollInv, pollVars, vars
  <2> QED
    BY <1>3, <2>1
    DEF pollVars, PollInv, Inv, PollTypeOK, SinceStored, LineGoesOn, SkippedRowsForked, WritersSerialized
<1> QED BY <1>1, <1>2, <1>3 DEF PollNext

\* The reader's place and what it has been given are seqs, and the log it reads keeps its
\* type while it polls.
THEOREM PollTypeCorrect == PollSpec => []PollTypeOK
<1>1. PollSpec => []PollInv
  BY InitPollInv, StepPollInv, PTL DEF PollSpec
<1>2. PollInv => PollTypeOK
  BY DEF PollInv
<1> QED BY <1>1, <1>2, PTL

\* A reader that polls while events are recorded, in pages of any size: as long as no two
\* rows share a prev_hash, it has read everything up to the seq it goes on from.
THEOREM ReaderSkipsForksOnly == PollSpec => [](PollTypeOK /\ SkippedRowsForked)
<1>1. PollSpec => []PollInv
  BY InitPollInv, StepPollInv, PTL DEF PollSpec
<1>2. PollInv => PollTypeOK /\ SkippedRowsForked
  BY DEF PollInv
<1> QED BY <1>1, <1>2, PTL

=============================================================================
