-------------------------- MODULE SharedListProofs --------------------------
(***************************************************************************)
(* A walk through the pages of SharedList lists every entry that stays as  *)
(* it is exactly once.                                                     *)
(*                                                                         *)
(* The first part is about one page: what it holds and what its cursor     *)
(* divides.  It rests on the order of the rows being total and on a finite *)
(* set having a newest and an oldest row.                                  *)
(***************************************************************************)
EXTENDS SharedList, FiniteSetTheorems, WellFoundedInduction, TLAPS

\* A set of rows the query may find: finitely many, one for an entry.
Rows(S) ==
    /\ S \subseteq HeadVersion
    /\ IsFiniteSet(S)
    /\ \A g, h \in S : g.env.entry = h.env.entry => g = h

Newer(h, S) == {g \in S : Older(KeyOf(h), KeyOf(g))}
Elder(h, S) == {g \in S : Older(KeyOf(g), KeyOf(h))}

LEMMA KeysTyped ==
    ASSUME NEW h \in HeadVersion
    PROVE  /\ KeyOf(h) \in Cursor
           /\ KeyOf(h).createdAt \in Nat /\ KeyOf(h).entry \in Nat
           /\ KeyOf(h).createdAt = CreatedAt(h.env) /\ KeyOf(h).entry = h.env.entry
<1>1. h.env \in Envelope
  BY DEF HeadVersion
<1>2. h.env.entry \in Entries /\ CreatedAt(h.env) \in Nat
  BY <1>1, ListAssumption DEF Envelope
<1> QED BY <1>2, ListAssumption DEF KeyOf, Cursor

LEMMA OlderIsStrict ==
    ASSUME NEW j \in Cursor, NEW k \in Cursor, NEW l \in Cursor
    PROVE  /\ ~Older(j, j)
           /\ Older(j, k) /\ Older(k, l) => Older(j, l)
           /\ Older(j, k) => ~Older(k, j)
<1>1. /\ j.createdAt \in Nat /\ j.entry \in Nat
      /\ k.createdAt \in Nat /\ k.entry \in Nat
      /\ l.createdAt \in Nat /\ l.entry \in Nat
  BY ListAssumption DEF Cursor
<1> QED BY <1>1 DEF Older

LEMMA OlderIsTotal ==
    ASSUME NEW S, Rows(S), NEW g \in S, NEW h \in S, g # h
    PROVE  Older(KeyOf(g), KeyOf(h)) \/ Older(KeyOf(h), KeyOf(g))
<1>1. g.env.entry # h.env.entry
  BY DEF Rows
<1>2. /\ KeyOf(g).createdAt \in Nat /\ KeyOf(g).entry \in Nat /\ KeyOf(g).entry = g.env.entry
      /\ KeyOf(h).createdAt \in Nat /\ KeyOf(h).entry \in Nat /\ KeyOf(h).entry = h.env.entry
  BY KeysTyped DEF Rows
<1> QED BY <1>1, <1>2 DEF Older

LEMMA SubsetRows ==
    ASSUME NEW S, Rows(S), NEW T \in SUBSET S
    PROVE  Rows(T) /\ Cardinality(T) \in Nat /\ Cardinality(T) <= Cardinality(S)
BY FS_Subset, FS_CardinalityType DEF Rows

LEMMA NewerSets ==
    ASSUME NEW S, Rows(S), NEW h \in S
    PROVE  /\ Newer(h, S) \in SUBSET S /\ h \notin Newer(h, S)
           /\ Cardinality(Newer(h, S)) \in Nat
           /\ \A g \in Newer(h, S) :
                 /\ Newer(g, S) \in SUBSET Newer(h, S)
                 /\ Newer(g, S) # Newer(h, S)
                 /\ Cardinality(Newer(g, S)) < Cardinality(Newer(h, S))
<1>k. \A g \in S : KeyOf(g) \in Cursor
  BY KeysTyped DEF Rows
<1>1. Newer(h, S) \in SUBSET S
  BY DEF Newer
<1>2. \A g \in S : g \notin Newer(g, S)
  BY <1>k, OlderIsStrict DEF Newer
<1>3. IsFiniteSet(Newer(h, S)) /\ Cardinality(Newer(h, S)) \in Nat
  BY <1>1, SubsetRows DEF Rows
<1>4. ASSUME NEW g \in Newer(h, S)
      PROVE  /\ Newer(g, S) \in SUBSET Newer(h, S)
             /\ Newer(g, S) # Newer(h, S)
             /\ Cardinality(Newer(g, S)) < Cardinality(Newer(h, S))
  <2>1. g \in S /\ Older(KeyOf(h), KeyOf(g))
    BY DEF Newer
  <2>2. Newer(g, S) \in SUBSET Newer(h, S)
    BY <1>k, <2>1, OlderIsStrict DEF Newer
  <2>3. Newer(g, S) # Newer(h, S)
    BY <1>2, <1>4, <2>1
  <2>4. /\ Cardinality(Newer(g, S)) <= Cardinality(Newer(h, S))
        /\ Cardinality(Newer(g, S)) # Cardinality(Newer(h, S))
    BY <1>3, <2>2, <2>3, FS_Subset
  <2>5. Cardinality(Newer(g, S)) \in Nat
    BY <1>3, <2>2, FS_Subset, FS_CardinalityType
  <2> QED BY <1>3, <2>2, <2>3, <2>4, <2>5
<1> QED BY <1>1, <1>2, <1>3, <1>4

\* Of a finite number of rows one is the newest, and one the oldest.
LEMMA NewestExists ==
    ASSUME NEW S, Rows(S), NEW X \in SUBSET S, X # {}
    PROVE  \E m \in X : \A x \in X : ~Older(KeyOf(m), KeyOf(x))
<1> DEFINE T == {Newer(h, S) : h \in X}
           R == StrictSubsetOrdering(S)
<1>1. T \subseteq FiniteSubsetsOf(S)
  <2>1. \A h \in X : Newer(h, S) \in SUBSET S /\ IsFiniteSet(Newer(h, S))
    BY FS_Subset DEF Rows, Newer
  <2> QED BY <2>1 DEF FiniteSubsetsOf
<1>2. IsWellFoundedOn(R, FiniteSubsetsOf(S))
  BY FS_StrictSubsetOrderingWellFounded
<1>3. T # {}
  OBVIOUS
<1> HIDE DEF T
<1>4. PICK t \in T : \A u \in T : <<u, t>> \notin R
  BY <1>1, <1>2, <1>3, WFMin
<1>5. PICK m \in X : t = Newer(m, S)
  BY <1>4 DEF T
<1>6. ASSUME NEW x \in X, Older(KeyOf(m), KeyOf(x)) PROVE FALSE
  <2>1. x \in Newer(m, S)
    BY <1>6 DEF Newer
  <2>2. /\ Newer(x, S) \in SUBSET Newer(m, S) /\ Newer(x, S) # Newer(m, S)
        /\ Newer(m, S) \in SUBSET S
    BY <2>1, NewerSets
  <2>3. <<Newer(x, S), Newer(m, S)>> \in R
    BY <2>2 DEF StrictSubsetOrdering
  <2>4. Newer(x, S) \in T
    BY DEF T
  <2> QED BY <1>4, <1>5, <2>3, <2>4
<1> QED BY <1>6

LEMMA OldestExists ==
    ASSUME NEW S, Rows(S), NEW X \in SUBSET S, X # {}
    PROVE  \E m \in X : \A x \in X : ~Older(KeyOf(x), KeyOf(m))
<1> DEFINE T == {Elder(h, S) : h \in X}
           R == StrictSubsetOrdering(S)
<1>k. \A g \in S : KeyOf(g) \in Cursor
  BY KeysTyped DEF Rows
<1>1. T \subseteq FiniteSubsetsOf(S)
  <2>1. \A h \in X : Elder(h, S) \in SUBSET S /\ IsFiniteSet(Elder(h, S))
    BY FS_Subset DEF Rows, Elder
  <2> QED BY <2>1 DEF FiniteSubsetsOf
<1>2. IsWellFoundedOn(R, FiniteSubsetsOf(S))
  BY FS_StrictSubsetOrderingWellFounded
<1>3. T # {}
  OBVIOUS
<1> HIDE DEF T
<1>4. PICK t \in T : \A u \in T : <<u, t>> \notin R
  BY <1>1, <1>2, <1>3, WFMin
<1>5. PICK m \in X : t = Elder(m, S)
  BY <1>4 DEF T
<1>6. ASSUME NEW x \in X, Older(KeyOf(x), KeyOf(m)) PROVE FALSE
  <2>1. x \in Elder(m, S) /\ x \notin Elder(x, S)
    BY <1>k, <1>6, OlderIsStrict DEF Elder
  <2>2. Elder(x, S) \in SUBSET Elder(m, S)
    BY <1>k, <1>6, OlderIsStrict DEF Elder
  <2>3. <<Elder(x, S), Elder(m, S)>> \in R
    BY <2>1, <2>2 DEF StrictSubsetOrdering, Elder
  <2>4. Elder(x, S) \in T
    BY DEF T
  <2> QED BY <1>4, <1>5, <2>3, <2>4
<1> QED BY <1>6

-----------------------------------------------------------------------------

LEMMA FirstRows ==
    ASSUME NEW S, Rows(S), NEW n \in Nat
    PROVE  /\ FirstOf(n, S) = {h \in S : Cardinality(Newer(h, S)) < n}
           /\ FirstOf(n, S) \in SUBSET S /\ Rows(FirstOf(n, S))
           /\ \A h \in FirstOf(n, S) : Newer(h, S) \in SUBSET FirstOf(n, S)
<1>1. FirstOf(n, S) = {h \in S : Cardinality(Newer(h, S)) < n}
  BY DEF FirstOf, Newer
<1>2. FirstOf(n, S) \in SUBSET S /\ Rows(FirstOf(n, S))
  BY <1>1, SubsetRows
<1>3. ASSUME NEW h \in FirstOf(n, S), NEW g \in Newer(h, S) PROVE g \in FirstOf(n, S)
  <2>1. /\ h \in S /\ Cardinality(Newer(h, S)) < n /\ Cardinality(Newer(h, S)) \in Nat
        /\ g \in S /\ Cardinality(Newer(g, S)) < Cardinality(Newer(h, S))
    BY <1>1, NewerSets
  <2>2. Cardinality(Newer(g, S)) \in Nat
    BY <2>1, NewerSets
  <2> QED BY <1>1, <2>1, <2>2
<1> QED BY <1>1, <1>2, <1>3

\* The first n rows are n at most: the oldest of them has the others before it.
LEMMA FirstBounded ==
    ASSUME NEW S, Rows(S), NEW n \in Nat
    PROVE  Cardinality(FirstOf(n, S)) <= n
<1> DEFINE P == FirstOf(n, S)
<1>1. P \in SUBSET S /\ P = {h \in S : Cardinality(Newer(h, S)) < n}
  BY FirstRows
<1> HIDE DEF P
<1>2. CASE P = {}
  BY <1>2, FS_EmptySet DEF P
<1>3. CASE P # {}
  <2>1. PICK m \in P : \A x \in P : ~Older(KeyOf(x), KeyOf(m))
    BY <1>1, <1>3, OldestExists
  <2>2. m \in S /\ Cardinality(Newer(m, S)) < n /\ Cardinality(Newer(m, S)) \in Nat
    BY <1>1, <2>1, NewerSets
  <2>3. \A x \in P : x = m \/ x \in Newer(m, S)
    BY <1>1, <2>1, <2>2, OlderIsTotal DEF Newer
  <2>4. P \in SUBSET (Newer(m, S) \cup {m})
    BY <2>3
  <2>5. IsFiniteSet(Newer(m, S)) /\ m \notin Newer(m, S)
    BY <2>2, NewerSets, SubsetRows DEF Rows
  <2>6. /\ IsFiniteSet(Newer(m, S) \cup {m})
        /\ Cardinality(Newer(m, S) \cup {m}) = Cardinality(Newer(m, S)) + 1
    BY <2>5, FS_AddElement
  <2>7. Cardinality(P) <= Cardinality(Newer(m, S)) + 1 /\ Cardinality(P) \in Nat
    BY <2>4, <2>6, FS_Subset, FS_CardinalityType
  <2> QED BY <2>2, <2>7 DEF P
<1> QED BY <1>2, <1>3

\* The first n rows of the first n + 1 are the first n.
LEMMA FirstOfFirst ==
    ASSUME NEW S, Rows(S), NEW n \in Nat
    PROVE  FirstOf(n, FirstOf(n + 1, S)) = FirstOf(n, S)
<1> DEFINE T == FirstOf(n + 1, S)
<1>1. /\ T = {h \in S : Cardinality(Newer(h, S)) < n + 1}
      /\ T \in SUBSET S /\ Rows(T)
      /\ \A h \in T : Newer(h, S) \in SUBSET T
  BY FirstRows
<1>2. /\ FirstOf(n, S) = {h \in S : Cardinality(Newer(h, S)) < n}
      /\ FirstOf(n, T) = {h \in T : Cardinality(Newer(h, T)) < n}
  BY <1>1, FirstRows
<1>3. \A h \in T : Newer(h, T) = Newer(h, S)
  BY <1>1 DEF Newer
<1>4. \A h \in S : Cardinality(Newer(h, S)) \in Nat
  BY NewerSets
<1>5. \A h \in S : Cardinality(Newer(h, S)) < n => Cardinality(Newer(h, S)) < n + 1
  BY <1>4
<1> HIDE DEF T
<1>6. FirstOf(n, T) = FirstOf(n, S)
  BY <1>1, <1>2, <1>3, <1>5
<1> QED BY <1>6 DEF T

\* If there are rows beyond the first n, one of them is the next.
LEMMA NextIsThere ==
    ASSUME NEW S, Rows(S), NEW n \in Nat, FirstOf(n, S) # S
    PROVE  Cardinality(FirstOf(n + 1, S)) > n
<1> DEFINE P == FirstOf(n, S)
           T == FirstOf(n + 1, S)
<1>1. /\ P \in SUBSET S /\ P = {h \in S : Cardinality(Newer(h, S)) < n}
      /\ \A h \in P : Newer(h, S) \in SUBSET P
      /\ Cardinality(P) <= n
  BY FirstRows, FirstBounded
<1>2. /\ T \in SUBSET S /\ T = {h \in S : Cardinality(Newer(h, S)) < n + 1}
      /\ IsFiniteSet(T)
  BY FirstRows DEF Rows
<1>3. IsFiniteSet(P) /\ Cardinality(P) \in Nat
  BY <1>1, SubsetRows DEF Rows
<1> HIDE DEF P, T
<1>4. S \ P # {} /\ (S \ P) \in SUBSET S
  BY <1>1 DEF P
<1>5. PICK m \in S \ P : \A x \in S \ P : ~Older(KeyOf(m), KeyOf(x))
  BY <1>4, NewestExists
<1>6. Cardinality(Newer(m, S)) \in Nat /\ Newer(m, S) \in SUBSET S
  BY NewerSets
<1>7. Newer(m, S) = P
  <2>1. ASSUME NEW g \in Newer(m, S) PROVE g \in P
    BY <1>5 DEF Newer
  <2>2. ASSUME NEW g \in P PROVE g \in Newer(m, S)
    <3>1. g \in S /\ g # m /\ m \notin Newer(g, S)
      BY <1>1
    <3> QED BY <3>1, OlderIsTotal DEF Newer
  <2> QED BY <2>1, <2>2
<1>8. Cardinality(P) = n
  BY <1>1, <1>3, <1>7
<1>9. m \in T
  BY <1>2, <1>7, <1>8
<1>10. P \in SUBSET T
  BY <1>1, <1>2, NewerSets
<1>11. /\ IsFiniteSet(P \cup {m}) /\ Cardinality(P \cup {m}) = n + 1
       /\ P \cup {m} \in SUBSET T
  BY <1>3, <1>8, <1>9, <1>10, FS_AddElement
<1>12. n + 1 <= Cardinality(T) /\ Cardinality(T) \in Nat
  BY <1>2, <1>11, FS_Subset, FS_CardinalityType
<1> QED BY <1>12 DEF T

LEMMA FirstInhabited ==
    ASSUME NEW S, Rows(S), S # {}, NEW n \in Nat \ {0}
    PROVE  FirstOf(n, S) # {}
<1>1. PICK m \in S : \A x \in S : ~Older(KeyOf(m), KeyOf(x))
  BY NewestExists
<1>2. Newer(m, S) = {}
  BY <1>1 DEF Newer
<1>3. Cardinality(Newer(m, S)) = 0
  BY <1>2, FS_EmptySet
<1> QED BY <1>3, FirstRows

\* A page without a cursor holds all there is; the cursor of another one divides the rows
\* into those of the page and those that follow.
LEMMA PageDivides ==
    ASSUME NEW S, Rows(S)
    PROVE  /\ Page(S) \in SUBSET S /\ IsFiniteSet(Page(S)) /\ Cardinality(Page(S)) <= Limit
           /\ NextCursor(S) = None => Page(S) = S
           /\ NextCursor(S) # None =>
                /\ NextCursor(S) \in Cursor
                /\ \E h \in S : NextCursor(S) = KeyOf(h)
                /\ Page(S) = {h \in S : ~Older(KeyOf(h), NextCursor(S))}
<1> DEFINE T == FirstOf(Limit + 1, S)
<1>0. Limit \in Nat \ {0} /\ Limit \in Nat /\ Limit + 1 \in Nat
  BY ListAssumption
<1>k. \A h \in S : KeyOf(h) \in Cursor /\ KeyOf(h) # None
  BY KeysTyped, NoneAssumption DEF Rows, Cursor
<1>1. Page(S) = FirstOf(Limit, S)
  BY <1>0, FirstOfFirst DEF Page
<1>2. /\ Page(S) \in SUBSET S /\ Rows(Page(S))
      /\ \A h \in Page(S) : Newer(h, S) \in SUBSET Page(S)
      /\ Cardinality(Page(S)) <= Limit
  BY <1>0, <1>1, FirstRows, FirstBounded
<1>3. CASE Cardinality(T) > Limit
  <2>1. S # {}
    <3>1. SUFFICES ASSUME S = {} PROVE FALSE
      OBVIOUS
    <3>2. T = {}
      BY <1>0, <3>1, FirstRows
    <3> QED BY <1>0, <1>3, <3>2, FS_EmptySet
  <2>2. Page(S) # {}
    BY <1>0, <1>1, <2>1, FirstInhabited
  <2>3. \E h \in Page(S) : \A g \in Page(S) : ~Older(KeyOf(g), KeyOf(h))
    BY <1>2, <2>2, OldestExists
  <2> DEFINE last == LastOf(Page(S))
  <2>4. last \in Page(S) /\ \A g \in Page(S) : ~Older(KeyOf(g), KeyOf(last))
    BY <2>3 DEF LastOf
  <2>5. NextCursor(S) = KeyOf(last)
    BY <1>3 DEF NextCursor
  <2> HIDE DEF last
  <2>6. last \in S
    BY <1>2, <2>4
  <2>7. ASSUME NEW h \in S, ~Older(KeyOf(h), KeyOf(last)) PROVE h \in Page(S)
    <3>1. h = last \/ h \in Newer(last, S)
      BY <2>6, <2>7, OlderIsTotal DEF Newer
    <3> QED BY <1>2, <2>4, <3>1
  <2> QED BY <1>2, <1>k, <2>4, <2>5, <2>6, <2>7 DEF Rows
<1>4. CASE ~(Cardinality(T) > Limit)
  <2>1. FirstOf(Limit, S) = S
    BY <1>0, <1>4, NextIsThere
  <2>2. NextCursor(S) = None
    BY <1>4 DEF NextCursor
  <2> QED BY <1>1, <1>2, <2>1, <2>2 DEF Rows
<1> QED BY <1>3, <1>4

-----------------------------------------------------------------------------

Times(h, pages) == Cardinality({i \in 1..Len(pages) : h \in pages[i]})

\* since lets the version in.
LetIn(h) == walk.since = None \/ CreatedAt(h.env) >= walk.since

\* What was listed when the walk began was readable, and is current or was replaced.
StartKnown ==
    \A h \in walk.start :
        /\ Reader \in h.env.recipients
        /\ \E g \in heads : g.env.entry = h.env.entry /\ h.version <= g.version

\* Of the versions that stay, those up to the cursor have been listed once.
ListedSoFar ==
    walk.pc # "none" =>
        \A h \in walk.start \cap heads : LetIn(h) =>
            Times(h, walk.pages) =
                IF walk.pc = "paging" /\ Older(KeyOf(h), walk.cursor) THEN 0 ELSE 1

ListInv ==
    /\ Rows(heads)
    /\ TypeOK
    /\ walk.pc = "none" => walk.pages = <<>>
    /\ StartKnown
    /\ ListedSoFar

LEMMA InitList == ListInit => ListInv
<1> SUFFICES ASSUME ListInit PROVE ListInv
  OBVIOUS
<1>1. heads = {} /\ walk = [pc |-> "none", since |-> None, cursor |-> None, start |-> {}, pages |-> <<>>]
  BY DEF ListInit, Init
<1>2. Rows(heads)
  BY <1>1, FS_EmptySet DEF Rows
<1>3. walk \in Walk
  BY <1>1 DEF Walk
<1> QED BY <1>1, <1>2, <1>3 DEF ListInv, TypeOK, StartKnown, ListedSoFar

\* A version is on one page more if the page that was received holds it.
LEMMA OneMorePage ==
    ASSUME NEW pages \in Seq(SUBSET HeadVersion), NEW P \in SUBSET HeadVersion, NEW h
    PROVE  /\ Times(h, pages) \in Nat
           /\ Times(h, Append(pages, P)) = Times(h, pages) + (IF h \in P THEN 1 ELSE 0)
<1> DEFINE n == Len(pages)
           I == {i \in 1..n : h \in pages[i]}
           J == {i \in 1..Len(Append(pages, P)) : h \in Append(pages, P)[i]}
<1>1. n \in Nat /\ n + 1 \notin I
  OBVIOUS
<1>2. IsFiniteSet(1..n)
  BY <1>1, FS_Interval
<1>3. IsFiniteSet(I) /\ Cardinality(I) \in Nat
  BY <1>2, FS_Subset, FS_CardinalityType
<1>4. /\ Len(Append(pages, P)) = n + 1
      /\ \A i \in 1..n : Append(pages, P)[i] = pages[i]
      /\ Append(pages, P)[n + 1] = P
  OBVIOUS
<1>5. 1..(n + 1) = (1..n) \cup {n + 1}
  BY <1>1
<1>6. J = I \cup (IF h \in P THEN {n + 1} ELSE {})
  BY <1>4, <1>5
<1> HIDE DEF I, J, n
<1>7. Cardinality(J) = Cardinality(I) + (IF h \in P THEN 1 ELSE 0)
  <2>1. CASE h \in P
    BY <1>1, <1>3, <1>6, <2>1, FS_AddElement
  <2>2. CASE h \notin P
    BY <1>3, <1>6, <2>2
  <2> QED BY <2>1, <2>2
<1> QED BY <1>3, <1>7 DEF Times, I, J, n

\* What the walk becomes when it receives a page of the rows S.
LEMMA PageReceived ==
    ASSUME ListInv, NEW S \in SUBSET heads
    PROVE  /\ Rows(S)
           /\ Received(S) \in Walk
           /\ Received(S).pages = Append(walk.pages, Page(S))
           /\ \A i \in 1..Len(Received(S).pages) : Cardinality(Received(S).pages[i]) <= Limit
           /\ Received(S).cursor = NextCursor(S)
           /\ Received(S).pc = IF NextCursor(S) = None THEN "done" ELSE "paging"
           /\ Received(S).start = walk.start /\ Received(S).since = walk.since
<1>1. /\ walk \in Walk
      /\ \A i \in 1..Len(walk.pages) : Cardinality(walk.pages[i]) <= Limit
      /\ S \subseteq HeadVersion
  BY DEF ListInv, TypeOK, Rows
<1>2. Rows(S)
  BY SubsetRows DEF ListInv
<1>3. /\ Page(S) \in SUBSET HeadVersion /\ Cardinality(Page(S)) <= Limit
      /\ NextCursor(S) \in Cursor \cup {None}
  BY <1>1, <1>2, PageDivides
<1>4. walk.pages \in Seq(SUBSET HeadVersion)
  BY <1>1 DEF Walk
<1>5. /\ Received(S).pages = Append(walk.pages, Page(S))
      /\ Received(S).cursor = NextCursor(S)
      /\ Received(S).pc = IF NextCursor(S) = None THEN "done" ELSE "paging"
      /\ Received(S).start = walk.start /\ Received(S).since = walk.since
  BY <1>1 DEF Received, Walk
<1>6. Append(walk.pages, Page(S)) \in Seq(SUBSET HeadVersion)
  BY <1>3, <1>4
<1>7. Received(S) \in Walk
  BY <1>1, <1>3, <1>6 DEF Received, Walk
<1>8. \A i \in 1..Len(Append(walk.pages, Page(S))) :
         Cardinality(Append(walk.pages, Page(S))[i]) <= Limit
  <2> DEFINE P == Page(S)
             pages == walk.pages
  <2>1. /\ pages \in Seq(SUBSET HeadVersion) /\ P \in SUBSET HeadVersion
        /\ Cardinality(P) <= Limit
        /\ \A i \in 1..Len(pages) : Cardinality(pages[i]) <= Limit
    BY <1>1, <1>3, <1>4
  <2> HIDE DEF P, pages
  <2>2. \A i \in 1..Len(Append(pages, P)) :
           \/ i \in 1..Len(pages) /\ Append(pages, P)[i] = pages[i]
           \/ Append(pages, P)[i] = P
    BY <2>1
  <2>3. \A i \in 1..Len(Append(pages, P)) : Cardinality(Append(pages, P)[i]) <= Limit
    BY <2>1, <2>2
  <2> QED BY <2>3 DEF P, pages
<1> QED BY <1>2, <1>5, <1>7, <1>8

LEMMA FirstStep ==
    ASSUME ListInv, ListFirst
    PROVE  ListInv'
<1>1. PICK since \in {None} \cup {CreatedAt(h.env) : h \in Readable} :
        walk' = [Received({h \in Readable : since = None \/ CreatedAt(h.env) >= since})
                    EXCEPT !.since = since, !.start = Readable]
  BY DEF ListFirst
<1> DEFINE S == {h \in Readable : since = None \/ CreatedAt(h.env) >= since}
<1>2. S \in SUBSET heads /\ Readable \in SUBSET HeadVersion /\ heads' = heads
  BY DEF Readable, ListInv, Rows, ListFirst, vars
<1>3. since \in Nat \cup {None}
  <2>1. \A h \in Readable : CreatedAt(h.env) \in Nat
    BY <1>2, KeysTyped
  <2> QED BY <2>1
<1>4. \A h \in Readable : h \in S <=> (since = None \/ CreatedAt(h.env) >= since)
  OBVIOUS
<1>5. walk' = [Received(S) EXCEPT !.since = since, !.start = Readable]
  BY <1>1
<1> HIDE DEF S
<1>6. /\ Rows(S)
      /\ walk' \in Walk
      /\ walk'.pages = Append(walk.pages, Page(S))
      /\ \A i \in 1..Len(walk'.pages) : Cardinality(walk'.pages[i]) <= Limit
      /\ walk'.cursor = NextCursor(S)
      /\ walk'.pc = IF NextCursor(S) = None THEN "done" ELSE "paging"
      /\ walk'.start = Readable /\ walk'.since = since
  <2> DEFINE w == Received(S)
  <2>1. /\ w \in Walk /\ w.pages = Append(walk.pages, Page(S)) /\ w.cursor = NextCursor(S)
        /\ \A i \in 1..Len(w.pages) : Cardinality(w.pages[i]) <= Limit
        /\ w.pc = IF NextCursor(S) = None THEN "done" ELSE "paging"
        /\ Rows(S)
    BY <1>2, PageReceived
  <2>2. walk' = [w EXCEPT !.since = since, !.start = Readable]
    BY <1>5
  <2> HIDE DEF w
  <2>3. walk' \in Walk /\ walk'.start = Readable /\ walk'.since = since
    BY <1>2, <1>3, <2>1, <2>2 DEF Walk
  <2>4. walk'.pages = w.pages /\ walk'.cursor = w.cursor /\ walk'.pc = w.pc
    BY <2>1, <2>2 DEF Walk
  <2> QED BY <2>1, <2>3, <2>4
<1>7. TypeOK'
  BY <1>6 DEF TypeOK
<1>8. StartKnown'
  <2> SUFFICES ASSUME NEW h \in Readable
               PROVE  /\ Reader \in h.env.recipients
                      /\ \E g \in heads : g.env.entry = h.env.entry /\ h.version <= g.version
    BY <1>2, <1>6 DEF StartKnown
  <2>1. h \in heads /\ Reader \in h.env.recipients
    BY DEF Readable
  <2>2. h.version \in Nat
    BY <1>2 DEF HeadVersion
  <2> QED BY <2>1, <2>2
<1>9. ListedSoFar'
  <2> SUFFICES ASSUME NEW h \in Readable, since = None \/ CreatedAt(h.env) >= since
               PROVE  Times(h, walk'.pages) =
                        IF walk'.pc = "paging" /\ Older(KeyOf(h), walk'.cursor) THEN 0 ELSE 1
    BY <1>2, <1>6 DEF ListedSoFar, LetIn, KeyOf, Times
  <2>1. h \in S
    BY <1>4
  <2>2. /\ Page(S) \in SUBSET HeadVersion
        /\ NextCursor(S) = None => h \in Page(S)
        /\ NextCursor(S) # None => (h \in Page(S) <=> ~Older(KeyOf(h), NextCursor(S)))
    BY <1>2, <1>6, <2>1, PageDivides DEF ListInv, Rows
  <2>3. walk.pages = <<>>
    BY DEF ListInv, ListFirst
  <2>4. Times(h, walk.pages) = 0
    BY <2>3, FS_EmptySet DEF Times
  <2>5. walk.pages \in Seq(SUBSET HeadVersion)
    BY <2>3
  <2>6. Times(h, Append(walk.pages, Page(S))) = Times(h, walk.pages) + (IF h \in Page(S) THEN 1 ELSE 0)
    BY <2>2, <2>5, OneMorePage
  <2>7. Times(h, walk'.pages) = IF h \in Page(S) THEN 1 ELSE 0
    BY <1>6, <2>4, <2>6
  <2> QED BY <1>6, <2>2, <2>7
<1>10. walk'.pc # "none"
  BY <1>6
<1> QED BY <1>2, <1>7, <1>8, <1>9, <1>10 DEF ListInv, Rows

LEMMA NextStep ==
    ASSUME ListInv, ListNext
    PROVE  ListInv'
<1> DEFINE S == {h \in Readable : Older(KeyOf(h), walk.cursor)}
<1>1. /\ walk' = Received(S) /\ heads' = heads /\ walk.pc = "paging"
      /\ S \in SUBSET heads
  BY DEF ListNext, Readable, vars
<1>2. \A h \in Readable : h \in S <=> Older(KeyOf(h), walk.cursor)
  OBVIOUS
<1>3. /\ walk \in Walk /\ walk.cursor \in Cursor
      /\ walk.start \subseteq HeadVersion /\ walk.pages \in Seq(SUBSET HeadVersion)
  BY <1>1 DEF ListInv, TypeOK, Walk
<1> HIDE DEF S
<1>4. /\ Rows(S)
      /\ walk' \in Walk
      /\ walk'.pages = Append(walk.pages, Page(S))
      /\ \A i \in 1..Len(walk'.pages) : Cardinality(walk'.pages[i]) <= Limit
      /\ walk'.cursor = NextCursor(S)
      /\ walk'.pc = IF NextCursor(S) = None THEN "done" ELSE "paging"
      /\ walk'.start = walk.start /\ walk'.since = walk.since
  BY <1>1, PageReceived
<1>5. TypeOK'
  BY <1>4 DEF TypeOK
<1>6. StartKnown'
  BY <1>1, <1>4 DEF ListInv, StartKnown
<1>7. ListedSoFar'
  <2> SUFFICES ASSUME NEW h \in walk.start \cap heads, LetIn(h)
               PROVE  Times(h, walk'.pages) =
                        IF walk'.pc = "paging" /\ Older(KeyOf(h), walk'.cursor) THEN 0 ELSE 1
    BY <1>1, <1>4 DEF ListedSoFar, LetIn, KeyOf, Times
  <2>1. h \in Readable /\ h \in HeadVersion
    BY <1>3 DEF ListInv, StartKnown, Readable
  <2>2. Times(h, walk.pages) = IF Older(KeyOf(h), walk.cursor) THEN 0 ELSE 1
    BY <1>1 DEF ListInv, ListedSoFar
  <2>3. /\ Page(S) \in SUBSET S /\ Page(S) \in SUBSET HeadVersion
        /\ NextCursor(S) = None => Page(S) = S
        /\ NextCursor(S) # None =>
             /\ NextCursor(S) \in Cursor /\ Older(NextCursor(S), walk.cursor)
             /\ h \in S => (h \in Page(S) <=> ~Older(KeyOf(h), NextCursor(S)))
    <3>1. S \subseteq HeadVersion /\ \A g \in S : Older(KeyOf(g), walk.cursor)
      BY <1>4 DEF Rows, S
    <3> QED BY <1>4, <3>1, PageDivides
  <2>4. Times(h, walk'.pages) = Times(h, walk.pages) + (IF h \in Page(S) THEN 1 ELSE 0)
    <3>1. Times(h, Append(walk.pages, Page(S))) =
             Times(h, walk.pages) + (IF h \in Page(S) THEN 1 ELSE 0)
      <4>1. walk.pages \in Seq(SUBSET HeadVersion) /\ Page(S) \in SUBSET HeadVersion
        BY <1>3, <2>3
      <4> QED BY <4>1, OneMorePage
    <3> QED BY <1>4, <3>1
  <2>5. CASE Older(KeyOf(h), walk.cursor)
    <3>1. h \in S /\ Times(h, walk.pages) = 0
      BY <1>2, <2>1, <2>2, <2>5
    <3>2. h \in Page(S) <=> ~(NextCursor(S) # None /\ Older(KeyOf(h), NextCursor(S)))
      BY <2>3, <3>1
    <3> QED BY <1>4, <2>4, <3>1, <3>2
  <2>6. CASE ~Older(KeyOf(h), walk.cursor)
    <3>1. h \notin Page(S) /\ Times(h, walk.pages) = 1
      BY <1>2, <2>1, <2>2, <2>3, <2>6
    <3>2. KeyOf(h) \in Cursor
      BY <2>1, KeysTyped
    <3>3. NextCursor(S) # None => ~Older(KeyOf(h), NextCursor(S))
      BY <1>3, <2>3, <2>6, <3>2, OlderIsStrict
    <3> QED BY <1>4, <2>4, <3>1, <3>3
  <2> QED BY <2>5, <2>6
<1>8. walk'.pc # "none"
  BY <1>4
<1> QED BY <1>1, <1>5, <1>6, <1>7, <1>8 DEF ListInv, Rows

-----------------------------------------------------------------------------

\* A version that a registry step brings was not listed when the walk began.
LEMMA HeadsChange ==
    ASSUME ListInv, RegistryStep
    PROVE  /\ Rows(heads')
           /\ StartKnown'
           /\ walk.start \cap heads' \subseteq heads
<1>t. /\ heads \subseteq HeadVersion /\ IsFiniteSet(heads)
      /\ \A g, h \in heads : g.env.entry = h.env.entry => g = h
      /\ walk' = walk /\ walk.start \subseteq HeadVersion
  BY DEF ListInv, Rows, RegistryStep, TypeOK, Walk
<1>1. ASSUME NEW e \in Envelope, Create(e)
      PROVE  /\ Rows(heads') /\ StartKnown'
             /\ walk.start \cap heads' \subseteq heads
  <2> DEFINE new == [env |-> e, version |-> 1]
  <2>1. /\ heads' = heads \cup {new} /\ \A h \in heads : h.env.entry # e.entry
        /\ new \in HeadVersion /\ new.env.entry = e.entry
    BY <1>1 DEF Create, HeadVersion
  <2> HIDE DEF new
  <2>2. Rows(heads')
    BY <1>t, <2>1, FS_AddElement DEF Rows
  <2>3. StartKnown'
    BY <1>t, <2>1 DEF ListInv, StartKnown
  <2>4. new \notin walk.start
    BY <2>1 DEF ListInv, StartKnown
  <2> QED BY <2>1, <2>2, <2>3, <2>4
<1>2. ASSUME NEW f \in heads, NEW e \in Envelope, Publish(f, e, clock)
      PROVE  /\ Rows(heads') /\ StartKnown'
             /\ walk.start \cap heads' \subseteq heads
  <2> DEFINE new == [env |-> e, version |-> f.version + 1]
  <2>1. f.version \in Nat /\ f.env.entry = e.entry
    BY <1>t, <1>2 DEF Publish, HeadVersion
  <2>2. /\ heads' = (heads \ {f}) \cup {new}
        /\ new \in HeadVersion /\ new.env.entry = e.entry /\ new.version = f.version + 1
    BY <1>2, <2>1 DEF Publish, HeadVersion
  <2> HIDE DEF new
  <2>3. Rows(heads')
    <3>1. IsFiniteSet(heads \ {f})
      BY <1>t, FS_RemoveElement
    <3>2. IsFiniteSet(heads')
      BY <2>2, <3>1, FS_AddElement
    <3> QED BY <1>t, <2>1, <2>2, <3>2 DEF Rows
  <2>4. StartKnown'
    <3> SUFFICES ASSUME NEW h \in walk.start
                 PROVE  /\ Reader \in h.env.recipients
                        /\ \E g \in heads' : g.env.entry = h.env.entry /\ h.version <= g.version
      BY <1>t DEF StartKnown
    <3>1. PICK g \in heads : g.env.entry = h.env.entry /\ h.version <= g.version
      BY DEF ListInv, StartKnown
    <3>2. h.version \in Nat /\ Reader \in h.env.recipients
      BY <1>t DEF HeadVersion, ListInv, StartKnown
    <3>3. CASE g = f
      BY <2>1, <2>2, <3>1, <3>2, <3>3
    <3>4. CASE g # f
      BY <2>2, <3>1, <3>2, <3>4
    <3> QED BY <3>3, <3>4
  <2>5. new \notin walk.start
    <3>1. SUFFICES ASSUME new \in walk.start PROVE FALSE
      OBVIOUS
    <3>2. PICK g \in heads : g.env.entry = new.env.entry /\ new.version <= g.version
      BY <3>1 DEF ListInv, StartKnown
    <3>3. g = f
      BY <1>t, <2>1, <2>2, <3>2
    <3> QED BY <2>1, <2>2, <3>2, <3>3
  <2> QED BY <2>2, <2>3, <2>4, <2>5
<1> QED BY <1>1, <1>2 DEF RegistryStep

LEMMA StepList == ListInv /\ [ListStep]_listVars => ListInv'
<1> SUFFICES ASSUME ListInv, [ListStep]_listVars PROVE ListInv'
  OBVIOUS
<1>1. CASE ListFirst
  BY <1>1, FirstStep
<1>2. CASE ListNext
  BY <1>2, NextStep
<1>3. CASE RegistryStep
  <2>1. walk' = walk
    BY <1>3 DEF RegistryStep
  <2>2. Rows(heads') /\ StartKnown' /\ walk.start \cap heads' \subseteq heads
    BY <1>3, HeadsChange
  <2>3. ListedSoFar'
    BY <2>1, <2>2 DEF ListInv, ListedSoFar, LetIn, KeyOf, Times
  <2> QED BY <2>1, <2>2, <2>3 DEF ListInv, TypeOK, Rows
<1>4. CASE UNCHANGED listVars
  BY <1>4 DEF listVars, ListInv, TypeOK, Rows, StartKnown, ListedSoFar, LetIn, KeyOf, Times
<1> QED BY <1>1, <1>2, <1>3, <1>4 DEF ListStep

LEMMA AlwaysList == ListSpec => []ListInv
BY InitList, StepList, PTL DEF ListSpec

\* No page exceeds the limit, and a walk goes on only with a cursor.
THEOREM WalkTypeCorrect == ListSpec => []TypeOK
<1>1. ListInv => TypeOK
  BY DEF ListInv
<1> QED BY <1>1, AlwaysList, PTL

\* Whatever issuers add, replace or withdraw while a client walks through the pages, a
\* version that stays is listed exactly once.
THEOREM StableVersionsListed == ListSpec => []StableListedOnce
<1>1. ListInv => StableListedOnce
  BY DEF ListInv, ListedSoFar, StableListedOnce, LetIn, TimesListed, Times
<1> QED BY <1>1, AlwaysList, PTL

-----------------------------------------------------------------------------
(***************************************************************************)
(* What a walk may hold of the versions that do change: pages go down the  *)
(* list, whatever is updated between them, so no version is listed twice;  *)
(* every version listed names the reader; and the first page, the only one *)
(* that is asked for with since, keeps to it.                              *)
(***************************************************************************)

Descend(pages) ==
    \A i, j \in 1..Len(pages) :
        i < j => \A g \in pages[i], h \in pages[j] : Older(KeyOf(h), KeyOf(g))

\* Nothing listed comes after the cursor.
UpTo(pages, cursor) ==
    \A i \in 1..Len(pages) : \A g \in pages[i] : ~Older(KeyOf(g), cursor)

NamesReader(pages) ==
    \A i \in 1..Len(pages) : \A h \in pages[i] : Reader \in h.env.recipients

PagesDescend == Descend(walk.pages)
OwnEntriesListed == NamesReader(walk.pages)
FirstPageFiltered == walk.pages # <<>> => \A h \in walk.pages[1] : LetIn(h)

PagesInv ==
    /\ PagesDescend
    /\ OwnEntriesListed
    /\ FirstPageFiltered
    /\ walk.pc = "paging" => walk.pages # <<>> /\ UpTo(walk.pages, walk.cursor)

\* A page of rows that come after all that is listed.
LEMMA OnePageFurther ==
    ASSUME NEW pages \in Seq(SUBSET HeadVersion), NEW S, Rows(S), S \subseteq Readable,
           Descend(pages), NamesReader(pages),
           \A i \in 1..Len(pages) : \A g \in pages[i], h \in S : Older(KeyOf(h), KeyOf(g))
    PROVE  /\ Descend(Append(pages, Page(S)))
           /\ NamesReader(Append(pages, Page(S)))
           /\ NextCursor(S) # None => UpTo(Append(pages, Page(S)), NextCursor(S))
<1> DEFINE P == Page(S)
           c == NextCursor(S)
<1>1. /\ P \subseteq S /\ P \in SUBSET HeadVersion
      /\ \A h \in P : Reader \in h.env.recipients
  BY PageDivides DEF Rows, Readable
<1>2. c # None => /\ c \in Cursor /\ \E h \in S : c = KeyOf(h)
                  /\ \A h \in P : ~Older(KeyOf(h), c)
  BY PageDivides
<1> HIDE DEF P, c
<1>3. /\ Len(pages) \in Nat /\ Len(Append(pages, P)) = Len(pages) + 1
      /\ \A i \in 1..Len(pages) : Append(pages, P)[i] = pages[i]
      /\ Append(pages, P)[Len(pages) + 1] = P
  BY <1>1
<1>4. \A i \in 1..Len(pages) : pages[i] \subseteq HeadVersion
  OBVIOUS
<1>5. Descend(Append(pages, P))
  <2> SUFFICES ASSUME NEW i \in 1..(Len(pages) + 1), NEW j \in 1..(Len(pages) + 1), i < j,
                      NEW g \in Append(pages, P)[i], NEW h \in Append(pages, P)[j]
               PROVE  Older(KeyOf(h), KeyOf(g))
    BY <1>3 DEF Descend
  <2>1. i \in 1..Len(pages) /\ g \in pages[i]
    BY <1>3
  <2>2. CASE j \in 1..Len(pages)
    BY <1>3, <2>1, <2>2 DEF Descend
  <2>3. CASE j = Len(pages) + 1
    BY <1>1, <1>3, <2>1, <2>3
  <2> QED BY <1>3, <2>2, <2>3
<1>6. NamesReader(Append(pages, P))
  <2> SUFFICES ASSUME NEW i \in 1..(Len(pages) + 1), NEW h \in Append(pages, P)[i]
               PROVE  Reader \in h.env.recipients
    BY <1>3 DEF NamesReader
  <2>1. CASE i \in 1..Len(pages)
    BY <1>3, <2>1 DEF NamesReader
  <2>2. CASE i = Len(pages) + 1
    BY <1>1, <1>3, <2>2
  <2> QED BY <1>3, <2>1, <2>2
<1>7. ASSUME c # None PROVE UpTo(Append(pages, P), c)
  <2> SUFFICES ASSUME NEW i \in 1..(Len(pages) + 1), NEW g \in Append(pages, P)[i]
               PROVE  ~Older(KeyOf(g), c)
    BY <1>3 DEF UpTo
  <2>1. CASE i \in 1..Len(pages)
    <3>1. Older(c, KeyOf(g)) /\ g \in HeadVersion
      BY <1>2, <1>3, <1>4, <1>7, <2>1
    <3> QED BY <1>2, <1>7, <3>1, KeysTyped, OlderIsStrict
  <2>2. CASE i = Len(pages) + 1
    BY <1>2, <1>3, <1>7, <2>2
  <2> QED BY <1>3, <2>1, <2>2
<1> QED BY <1>5, <1>6, <1>7 DEF P, c

LEMMA FirstPages ==
    ASSUME ListInv, PagesInv, ListFirst
    PROVE  PagesInv'
<1>1. PICK since \in {None} \cup {CreatedAt(h.env) : h \in Readable} :
        walk' = [Received({h \in Readable : since = None \/ CreatedAt(h.env) >= since})
                    EXCEPT !.since = since, !.start = Readable]
  BY DEF ListFirst
<1> DEFINE S == {h \in Readable : since = None \/ CreatedAt(h.env) >= since}
           w == Received(S)
<1>2. S \in SUBSET heads /\ S \subseteq Readable /\ walk.pages = <<>>
  BY DEF Readable, ListInv, ListFirst
<1>3. \A h \in S : since = None \/ CreatedAt(h.env) >= since
  OBVIOUS
<1>4. walk' = [w EXCEPT !.since = since, !.start = Readable]
  BY <1>1
<1> HIDE DEF S
<1>5. /\ Rows(S) /\ w \in Walk /\ w.pages = Append(<<>>, Page(S)) /\ w.cursor = NextCursor(S)
      /\ w.pc = IF NextCursor(S) = None THEN "done" ELSE "paging"
  BY <1>2, PageReceived
<1> HIDE DEF w
<1>6. walk'.pages = w.pages /\ walk'.cursor = w.cursor /\ walk'.pc = w.pc /\ walk'.since = since
  BY <1>4, <1>5 DEF Walk
<1>7. Page(S) \in SUBSET HeadVersion /\ Page(S) \subseteq S
  BY <1>5, PageDivides DEF Rows
<1>8. /\ Descend(walk'.pages) /\ NamesReader(walk'.pages)
      /\ NextCursor(S) # None => UpTo(walk'.pages, NextCursor(S))
  <2>1. <<>> \in Seq(SUBSET HeadVersion) /\ Len(<<>>) = 0
    OBVIOUS
  <2>2. Descend(<<>>) /\ NamesReader(<<>>)
    BY DEF Descend, NamesReader
  <2>3. /\ Descend(Append(<<>>, Page(S))) /\ NamesReader(Append(<<>>, Page(S)))
        /\ NextCursor(S) # None => UpTo(Append(<<>>, Page(S)), NextCursor(S))
    <3> DEFINE none == <<>>
    <3>1. none \in Seq(SUBSET HeadVersion) /\ Descend(none) /\ NamesReader(none)
      BY <2>1, <2>2
    <3>2. \A i \in 1..Len(none) : \A g \in none[i], h \in S : Older(KeyOf(h), KeyOf(g))
      BY <2>1
    <3> HIDE DEF none
    <3>3. /\ Descend(Append(none, Page(S))) /\ NamesReader(Append(none, Page(S)))
          /\ NextCursor(S) # None => UpTo(Append(none, Page(S)), NextCursor(S))
      BY <1>2, <1>5, <3>1, <3>2, OnePageFurther
    <3> QED BY <3>3 DEF none
  <2> QED BY <1>5, <1>6, <2>3
<1>9. walk'.pages # <<>> /\ walk'.pages[1] = Page(S)
  BY <1>5, <1>6, <1>7
<1>10. FirstPageFiltered'
  BY <1>3, <1>6, <1>7, <1>9 DEF FirstPageFiltered, LetIn
<1> QED
  BY <1>5, <1>6, <1>8, <1>9, <1>10 DEF PagesInv, PagesDescend, OwnEntriesListed, Descend,
     NamesReader, UpTo, KeyOf

LEMMA NextPages ==
    ASSUME ListInv, PagesInv, ListNext
    PROVE  PagesInv'
<1> DEFINE S == {h \in Readable : Older(KeyOf(h), walk.cursor)}
<1>1. /\ walk' = Received(S) /\ walk.pc = "paging" /\ S \in SUBSET heads /\ S \subseteq Readable
      /\ \A h \in S : Older(KeyOf(h), walk.cursor)
  BY DEF ListNext, Readable
<1> HIDE DEF S
<1>2. /\ Rows(S) /\ walk'.pages = Append(walk.pages, Page(S)) /\ walk'.cursor = NextCursor(S)
      /\ walk'.pc = IF NextCursor(S) = None THEN "done" ELSE "paging"
      /\ walk'.since = walk.since
  BY <1>1, PageReceived
<1>3. /\ walk.pages \in Seq(SUBSET HeadVersion) /\ walk.cursor \in Cursor
      /\ walk.pages # <<>> /\ UpTo(walk.pages, walk.cursor)
  BY <1>1 DEF ListInv, TypeOK, Walk, PagesInv
<1>4. \A i \in 1..Len(walk.pages) : \A g \in walk.pages[i], h \in S : Older(KeyOf(h), KeyOf(g))
  <2> SUFFICES ASSUME NEW i \in 1..Len(walk.pages), NEW g \in walk.pages[i], NEW h \in S
               PROVE  Older(KeyOf(h), KeyOf(g))
    OBVIOUS
  <2>1. g \in HeadVersion /\ h \in HeadVersion
    BY <1>2, <1>3 DEF Rows
  <2>2. ~Older(KeyOf(g), walk.cursor) /\ Older(KeyOf(h), walk.cursor)
    BY <1>1, <1>3 DEF UpTo
  <2>3. /\ KeyOf(g).createdAt \in Nat /\ KeyOf(g).entry \in Nat
        /\ KeyOf(h).createdAt \in Nat /\ KeyOf(h).entry \in Nat
        /\ walk.cursor.createdAt \in Nat /\ walk.cursor.entry \in Nat
    BY <1>3, <2>1, KeysTyped, ListAssumption DEF Cursor
  <2> QED BY <2>2, <2>3 DEF Older
<1>5. /\ Descend(walk'.pages) /\ NamesReader(walk'.pages)
      /\ NextCursor(S) # None => UpTo(walk'.pages, NextCursor(S))
  BY <1>1, <1>2, <1>3, <1>4, OnePageFurther DEF PagesInv, PagesDescend, OwnEntriesListed
<1>6. walk'.pages # <<>> /\ walk'.pages[1] = walk.pages[1]
  <2> DEFINE pages == walk.pages
             P == Page(S)
  <2>1. pages \in Seq(SUBSET HeadVersion) /\ P \in SUBSET HeadVersion /\ pages # <<>>
    BY <1>2, <1>3, PageDivides DEF Rows
  <2> HIDE DEF pages, P
  <2>2. Append(pages, P) # <<>> /\ Append(pages, P)[1] = pages[1]
    BY <2>1
  <2> QED BY <1>2, <2>2 DEF pages, P
<1>7. FirstPageFiltered'
  BY <1>2, <1>3, <1>6 DEF PagesInv, FirstPageFiltered, LetIn
<1> QED
  BY <1>2, <1>5, <1>6, <1>7 DEF PagesInv, PagesDescend, OwnEntriesListed, Descend,
     NamesReader, UpTo, KeyOf

LEMMA StepPages == ListInv /\ PagesInv /\ [ListStep]_listVars => PagesInv'
<1> SUFFICES ASSUME ListInv, PagesInv, [ListStep]_listVars PROVE PagesInv'
  OBVIOUS
<1>1. CASE walk' = walk
  BY <1>1 DEF PagesInv, PagesDescend, OwnEntriesListed, FirstPageFiltered, LetIn, Descend,
     NamesReader, UpTo, KeyOf
<1>2. CASE ListFirst \/ ListNext
  BY <1>2, FirstPages, NextPages
<1> QED BY <1>1, <1>2 DEF ListStep, RegistryStep, listVars

\* Pages go down the list through every change between them, so a version that was listed
\* is not listed again; only entries shared with the reader are listed; and the page that
\* was asked for with since holds nothing older.
THEOREM WalksDescend == ListSpec => [](PagesDescend /\ OwnEntriesListed /\ FirstPageFiltered)
<1>1. ListInit => PagesInv
  BY DEF ListInit, PagesInv, PagesDescend, OwnEntriesListed, FirstPageFiltered, Descend,
     NamesReader
<1>2. PagesInv => PagesDescend /\ OwnEntriesListed /\ FirstPageFiltered
  BY DEF PagesInv
<1>3. ListInv /\ [ListStep]_listVars => ListInv'
  BY StepList
<1> QED BY <1>1, <1>2, <1>3, InitList, StepPages, PTL DEF ListSpec

=============================================================================
