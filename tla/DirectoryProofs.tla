------------------------- MODULE DirectoryProofs -------------------------
(***************************************************************************)
(* Proofs about Directory: every root and record in use descends from the  *)
(* configured or seeded roots, publications that have seen the row move it *)
(* forward, and replaced records are forgotten.                            *)
(*                                                                         *)
(* The invariant has three parts, after the variables they speak of: the   *)
(* pinned root, the table with its publications, and the resolver.         *)
(***************************************************************************)
EXTENDS Directory, TLAPS

RootInv ==
    /\ RootTypeOK
    /\ memory \in Trusted
    /\ \A row \in history : row.root \in Trusted
    /\ \A a \in Admins : admin[a].pc # "idle" => admin[a].root \in Trusted
    /\ \A a \in Admins : admin[a].pc \in {"inserted", "applied", "seeded"} => admin[a].id # 0
    /\ boot.root # None => boot.root \in Trusted

\* What a publication holds in each of its states.
Publication(pub) ==
    /\ pub.pc # "idle" => pub.key \in Keys
    /\ pub.pc \in {"compared", "absent", "merging", "inserting"} =>
         pub.record \in AllRecords /\ SignedByTrusted(pub.record)
    /\ pub.pc = "compared" =>
         pub.row # NoRow /\ pub.row.record.issuedAt < pub.record.issuedAt
    /\ pub.pc \in {"absent", "merging", "inserting"} => pub.row = NoRow

TableInv ==
    /\ table \in [Keys -> Row]
    /\ publisher \in [Publishers -> Publisher]
    /\ \A k \in Keys : table[k] # NoRow => SignedByTrusted(table[k].record)
    /\ \A p \in Publishers : Publication(publisher[p])
    /\ \A p \in Publishers : publisher[p].pc = "rotating" => table[publisher[p].key] # NoRow

\* A record read at time read is the one in the row, or the row was replaced since.
Overtaken(k, record, read) == record = table[k].record \/ read <= publishedAt[k]

CacheInv ==
    \A k \in Keys : cache[k].record # None =>
        /\ SignedByTrusted(cache[k].record)
        /\ cache[k].storedAt <= clock
        /\ Overtaken(k, cache[k].record, cache[k].storedAt - slowest)

LookupKept(lookup) ==
    /\ lookup.pc # "idle" => lookup.key \in Keys
    /\ lookup.readAt <= clock
    /\ lookup.record # None => SignedByTrusted(lookup.record)
    /\ lookup.root # None => lookup.root \in Trusted
    /\ lookup.pc \in {"read", "refresh", "refreshed", "found"} =>
         Overtaken(lookup.key, lookup.record, lookup.readAt)

ResolverInv ==
    /\ clock \in Nat
    /\ cache \in [Keys -> Cached]
    /\ resolver \in [Resolvers -> Resolver]
    /\ publishedAt \in [Keys -> Nat]
    /\ slowest \in Nat
    /\ \A k \in Keys : publishedAt[k] <= clock
    /\ CacheInv
    /\ \A c \in Resolvers : LookupKept(resolver[c])

Inv == RootInv /\ TableInv /\ ResolverInv

-----------------------------------------------------------------------------

\* Roots that are trusted from the start, and those that trusted roots sign.
LEMMA TrustedRoots ==
    /\ Initial \in Trusted
    /\ DevRoots \subseteq Trusted
    /\ Trusted \subseteq Roots
    /\ None \notin Trusted
    /\ \A u \in Updates, r \in Trusted : Quorum(u, r) => u.newRoot \in Trusted
<1>1. Initial \in Trusted /\ DevRoots \subseteq Trusted /\ Trusted \subseteq Roots
  BY RootsAssumption DEF Trusted
<1>2. ASSUME NEW u \in Updates, NEW r \in Trusted, Quorum(u, r) PROVE u.newRoot \in Trusted
  <2>1. u.newRoot \in Roots
    BY RootsAssumption
  <2>2. ASSUME NEW trusted \in SUBSET Roots,
               {Initial} \cup DevRoots \subseteq trusted, ClosedUnderUpdates(trusted)
        PROVE  u.newRoot \in trusted
    <3>1. r \in trusted
      BY <2>2 DEF Trusted
    <3> QED BY <1>2, <2>2, <3>1 DEF ClosedUnderUpdates
  <2> QED BY <2>1, <2>2 DEF Trusted
<1> QED BY <1>1, <1>2, NoneAssumption

LEMMA VerifiedIsSigned ==
    ASSUME RootInv, NEW d, Verifies(d, memory)
    PROVE  SignedByTrusted(d)
BY DEF RootInv, Verifies, SignedByTrusted

LEMMA NewestIsTrusted ==
    ASSUME RootInv, NEW r \in Roots \cup {None}, IsNewest(r), r # None
    PROVE  r \in Trusted
BY DEF RootInv, IsNewest

LEMMA RowFacts ==
    /\ NoRow \in Row
    /\ NoRow.record = None
    /\ \A row \in Row : /\ row.record \in AllRecords \cup {None}
                        /\ row.pending \in BOOLEAN
                        /\ row # NoRow => row.record \in AllRecords
    /\ \A d \in AllRecords, b \in BOOLEAN :
          [record |-> d, pending |-> b] \in Row /\ [record |-> d, pending |-> b] # NoRow
<1>1. NoRow \in Row /\ NoRow.record = None
  BY DEF NoRow, Row
<1>2. ASSUME NEW row \in Row
      PROVE  /\ row.record \in AllRecords \cup {None}
             /\ row.pending \in BOOLEAN
             /\ row # NoRow => row.record \in AllRecords
  <2>1. CASE row = NoRow
    BY <2>1 DEF NoRow
  <2>2. CASE row \in [record : AllRecords, pending : BOOLEAN]
    BY <2>2
  <2> QED BY <2>1, <2>2 DEF Row
<1>3. ASSUME NEW d \in AllRecords, NEW b \in BOOLEAN
      PROVE  [record |-> d, pending |-> b] \in Row /\ [record |-> d, pending |-> b] # NoRow
  <2>1. [record |-> d, pending |-> b].record = d
    OBVIOUS
  <2>2. [record |-> d, pending |-> b] \in [record : AllRecords, pending : BOOLEAN]
    OBVIOUS
  <2> QED BY <1>1, <2>1, <2>2, NoneIsNoRecord DEF Row
<1> QED BY <1>1, <1>2, <1>3

LEMMA InitInv == Init => Inv
<1> SUFFICES ASSUME Init PROVE Inv
  OBVIOUS
<1>1. RootInv
  BY TrustedRoots, RootsAssumption DEF Init, RootInit, RootInv, RootTypeOK, Admin, Boot, Idle
<1>2. TableInv
  BY RowFacts DEF Init, TableInv, Publication, Publisher, NoPublication
<1>3. ResolverInv
  BY DEF Init, ResolverInv, CacheInv, LookupKept, Cached, NotCached, Resolver, NoLookup
<1> QED BY <1>1, <1>2, <1>3 DEF Inv

-----------------------------------------------------------------------------

\* The parts are kept by what leaves their variables alone.
LEMMA RootFrame == RootInv /\ UNCHANGED rootVars => RootInv'
BY DEF RootInv, RootTypeOK, rootVars

LEMMA TableFrame == TableInv /\ UNCHANGED <<table, publisher>> => TableInv'
BY DEF TableInv, Publication

LEMMA ResolverFrame ==
    ResolverInv /\ UNCHANGED <<clock, table, cache, resolver, publishedAt, slowest>> => ResolverInv'
BY DEF ResolverInv, CacheInv, LookupKept, Overtaken

LEMMA RootSteps ==
    ASSUME RootInv,
           (\E a \in Admins : RootStep(a) \/ CommitSeed(a)) \/ BootRead \/ BootSet
           \/ IntervalElapses \/ RootRestart
    PROVE  RootInv'
<1> USE TrustedRoots, RootsAssumption
    DEF RootInv, RootTypeOK, Admin, Boot, Idle
<1>1. ASSUME NEW a \in Admins, VerifyUpdate(a) PROVE RootInv'
  BY <1>1 DEF VerifyUpdate
<1>2. ASSUME NEW a \in Admins, InsertRoot(a) PROVE RootInv'
  <2>1. /\ admin[a].pc = "verified"
        /\ admin' = [admin EXCEPT ![a] =
               [pc |-> "inserted", root |-> admin[a].root, id |-> nextId]]
    BY <1>2 DEF InsertRoot
  <2>2. nextId \in Nat \ {0} /\ admin[a].root \in Trusted
    BY <2>1
  <2>3. admin' \in [Admins -> Admin]
    BY <2>1, <2>2
  <2> QED BY <1>2, <2>1, <2>2, <2>3 DEF InsertRoot
<1>3. ASSUME NEW a \in Admins, ApplyRoot(a) PROVE RootInv'
  BY <1>3 DEF ApplyRoot
<1>4. ASSUME NEW a \in Admins, CommitRoot(a) PROVE RootInv'
  <2>1. admin[a].root \in Trusted /\ admin[a].id \in Nat \ {0}
    BY <1>4 DEF CommitRoot
  <2>2. [id |-> admin[a].id, root |-> admin[a].root] \in RootRow
    BY <2>1 DEF RootRow
  <2> QED BY <1>4, <2>1, <2>2 DEF CommitRoot
<1>5. ASSUME NEW a \in Admins, AbortRoot(a) PROVE RootInv'
  BY <1>5 DEF AbortRoot
<1>6. ASSUME NEW a \in Admins, SeedRoot(a) PROVE RootInv'
  BY <1>6 DEF SeedRoot
<1>7. ASSUME NEW a \in Admins, CommitSeed(a) PROVE RootInv'
  <2>1. admin[a].root \in Trusted /\ admin[a].id \in Nat \ {0}
    BY <1>7 DEF CommitSeed
  <2>2. [id |-> admin[a].id, root |-> admin[a].root] \in RootRow
    BY <2>1 DEF RootRow
  <2> QED BY <1>7, <2>1, <2>2 DEF CommitSeed
<1>8. CASE BootRead
  BY <1>8, NewestIsTrusted DEF BootRead
<1>9. CASE BootSet
  BY <1>9 DEF BootSet
<1>10. CASE IntervalElapses
  BY <1>10 DEF IntervalElapses
<1>11. CASE RootRestart
  BY <1>11 DEF RootRestart
<1> QED
  BY <1>1, <1>2, <1>3, <1>4, <1>5, <1>6, <1>7, <1>8, <1>9, <1>10, <1>11 DEF RootStep

-----------------------------------------------------------------------------

\* A publication moves on and leaves the table alone.
LEMMA PublisherMoves ==
    ASSUME TableInv, NEW p \in Publishers, NEW pub \in Publisher,
           publisher' = [publisher EXCEPT ![p] = pub], table' = table,
           Publication(pub), pub.pc = "rotating" => table[pub.key] # NoRow
    PROVE  TableInv'
<1>1. /\ publisher' \in [Publishers -> Publisher]
      /\ publisher'[p] = pub
      /\ \A q \in Publishers \ {p} : publisher'[q] = publisher[q]
  BY DEF TableInv
<1> QED BY <1>1 DEF TableInv

LEMMA Ends ==
    /\ NoPublication \in Publisher
    /\ NoPublication.pc = "idle"
    /\ Publication(NoPublication)
BY RowFacts DEF NoPublication, Publisher, Publication

\* A row is written, by a publication that ends or by init-dev-trust.
LEMMA Writes ==
    ASSUME TableInv, NEW k \in Keys, NEW row \in Row, row # NoRow,
           SignedByTrusted(row.record), Write(k, row),
           (\E p \in Publishers : EndPublication(p)) \/ publisher' = publisher
    PROVE  TableInv'
<1>1. /\ table' \in [Keys -> Row]
      /\ table'[k] = row
      /\ \A j \in Keys \ {k} : table'[j] = table[j]
  BY DEF TableInv, Write
<1>2. /\ publisher' \in [Publishers -> Publisher]
      /\ \A p \in Publishers : publisher'[p] = publisher[p] \/ publisher'[p] = NoPublication
  BY Ends DEF TableInv, EndPublication
<1>3. \A p \in Publishers : Publication(publisher'[p])
  BY <1>2, Ends DEF TableInv
<1>4. ASSUME NEW p \in Publishers, publisher'[p].pc = "rotating"
      PROVE  table'[publisher'[p].key] # NoRow
  <2>1. publisher'[p] = publisher[p] /\ publisher[p].pc = "rotating"
    BY <1>2, <1>4, Ends
  <2>2. publisher[p].key \in Keys /\ table[publisher[p].key] # NoRow
    BY <2>1 DEF TableInv, Publication
  <2> QED BY <1>1, <2>1, <2>2
<1> QED BY <1>1, <1>2, <1>3, <1>4 DEF TableInv

\* What commits is of its type and signed by a trusted root.
LEMMA Committed ==
    ASSUME TableInv, NEW p \in Publishers, NEW b \in BOOLEAN,
           publisher[p].pc \in {"compared", "merging", "inserting"}
    PROVE  /\ publisher[p].key \in Keys
           /\ Published(p, b) \in Row /\ Published(p, b) # NoRow
           /\ SignedByTrusted(Published(p, b).record)
<1>1. /\ publisher[p].key \in Keys
      /\ publisher[p].record \in AllRecords /\ SignedByTrusted(publisher[p].record)
  BY DEF TableInv, Publication
<1> QED BY <1>1, RowFacts DEF Published

\* The mark of a row that is there leaves its record.
LEMMA Marked ==
    ASSUME TableInv, NEW k \in Keys, table[k] # NoRow
    PROVE  /\ [table[k] EXCEPT !.pending = TRUE] \in Row
           /\ [table[k] EXCEPT !.pending = TRUE] # NoRow
           /\ [table[k] EXCEPT !.pending = TRUE].record = table[k].record
           /\ SignedByTrusted([table[k] EXCEPT !.pending = TRUE].record)
<1>1. table[k] \in [record : AllRecords, pending : BOOLEAN]
  BY DEF TableInv, Row
<1>2. /\ [table[k] EXCEPT !.pending = TRUE] \in [record : AllRecords, pending : BOOLEAN]
      /\ [table[k] EXCEPT !.pending = TRUE].record = table[k].record
  BY <1>1
<1>3. NoRow.record \notin AllRecords
  BY NoneIsNoRecord DEF NoRow
<1>4. table[k].record \in AllRecords
  BY <1>1
<1> QED BY <1>2, <1>3, <1>4 DEF TableInv, Row

LEMMA TableSteps ==
    ASSUME RootInv, TableInv, NEW p \in Publishers,
           Publish(p) \/ Merge(p) \/ Commit(p) \/ CheckActive(p) \/ AbortPublication(p)
    PROVE  TableInv'
<1>t. /\ table \in [Keys -> Row]
      /\ publisher[p] \in Publisher
      /\ Publication(publisher[p])
  BY DEF TableInv
<1>1. ASSUME Publish(p) PROVE TableInv'
  <2>1. PICK d \in Records :
          /\ Verifies(d, memory)
          /\ table[d.key] # NoRow => table[d.key].record.issuedAt < d.issuedAt
          /\ publisher' = [publisher EXCEPT ![p] =
                [pc |-> IF table[d.key] = NoRow THEN "absent" ELSE "compared",
                 record |-> d, key |-> d.key, row |-> table[d.key], loaded |-> NoRow]]
    BY <1>1 DEF Publish
  <2> DEFINE pub == [pc |-> IF table[d.key] = NoRow THEN "absent" ELSE "compared",
                     record |-> d, key |-> d.key, row |-> table[d.key], loaded |-> NoRow]
  <2>2. d \in AllRecords /\ d.key \in Keys /\ SignedByTrusted(d)
    BY <2>1, RecordsAssumption, VerifiedIsSigned DEF AllRecords
  <2>3. table[d.key] \in Row
    BY <1>t, <2>2
  <2>4. pub \in Publisher
    BY <2>2, <2>3, RowFacts DEF Publisher
  <2>5. Publication(pub) /\ pub.pc # "rotating"
    BY <2>1, <2>2 DEF Publication
  <2>6. publisher' = [publisher EXCEPT ![p] = pub] /\ table' = table
    BY <1>1, <2>1 DEF Publish
  <2> HIDE DEF pub
  <2> QED BY <2>4, <2>5, <2>6, PublisherMoves
<1>2. ASSUME Merge(p) PROVE TableInv'
  <2> DEFINE row == table[publisher[p].key]
             pub == [publisher[p] EXCEPT !.loaded = row,
                                         !.pc = IF row = NoRow THEN "inserting" ELSE "merging"]
  <2>1. /\ publisher[p].pc = "absent" /\ table' = table
        /\ publisher' = [publisher EXCEPT ![p].loaded = row,
                            ![p].pc = IF row = NoRow THEN "inserting" ELSE "merging"]
    BY <1>2 DEF Merge
  <2>2. publisher' = [publisher EXCEPT ![p] = pub]
    BY <2>1
  <2>3. row \in Row
    BY <1>t, <2>1 DEF Publication
  <2>4. pub \in Publisher
    BY <1>t, <2>3 DEF Publisher
  <2>5. Publication(pub) /\ pub.pc # "rotating"
    BY <1>t, <2>1, <2>3 DEF Publication, Publisher
  <2> HIDE DEF pub, row
  <2> QED BY <2>1, <2>2, <2>4, <2>5, PublisherMoves
<1>3. ASSUME CommitUpdate(p) PROVE TableInv'
  <2> DEFINE b == publisher[p].row.pending /\ publisher[p].record.status # "revoked"
  <2>1. /\ publisher[p].pc = "compared"
        /\ Write(publisher[p].key, Published(p, b)) /\ EndPublication(p)
    BY <1>3 DEF CommitUpdate
  <2>2. b \in BOOLEAN
    OBVIOUS
  <2> HIDE DEF b
  <2> QED BY <2>1, <2>2, Committed, Writes
<1>4. ASSUME CommitMerge(p) PROVE TableInv'
  <2>1. publisher[p].pc = "merging" /\ EndPublication(p)
    BY <1>4 DEF CommitMerge
  <2>2. CASE Write(publisher[p].key, Published(p, FALSE))
    BY <2>1, <2>2, Committed, Writes
  <2>3. CASE UNCHANGED <<table, publishedAt>>
    BY <2>1, <2>3, Ends, PublisherMoves DEF EndPublication
  <2> QED BY <1>4, <2>2, <2>3 DEF CommitMerge
<1>5. ASSUME CommitInsert(p) PROVE TableInv'
  <2>1. /\ publisher[p].pc = "inserting"
        /\ Write(publisher[p].key, Published(p, FALSE)) /\ EndPublication(p)
    BY <1>5 DEF CommitInsert
  <2> QED BY <2>1, Committed, Writes
<1>6. ASSUME CheckActive(p) PROVE TableInv'
  <2>1. PICK k \in Keys :
          /\ table[k] # NoRow
          /\ publisher' = [publisher EXCEPT ![p] =
                [pc |-> "rotating", record |-> None, key |-> k, row |-> NoRow, loaded |-> NoRow]]
    BY <1>6 DEF CheckActive
  <2> DEFINE pub == [pc |-> "rotating", record |-> None, key |-> k, row |-> NoRow, loaded |-> NoRow]
  <2>2. pub \in Publisher /\ Publication(pub)
    BY RowFacts DEF Publisher, Publication
  <2>3. publisher' = [publisher EXCEPT ![p] = pub] /\ table' = table /\ pub.key = k
    BY <1>6, <2>1 DEF CheckActive
  <2> HIDE DEF pub
  <2> QED BY <2>1, <2>2, <2>3, PublisherMoves
<1>7. ASSUME CommitMark(p) PROVE TableInv'
  <2> DEFINE k == publisher[p].key
  <2>1. /\ publisher[p].pc = "rotating" /\ EndPublication(p)
        /\ Write(k, [table[k] EXCEPT !.pending = TRUE])
    BY <1>7 DEF CommitMark
  <2>2. k \in Keys /\ table[k] # NoRow
    BY <1>t, <2>1 DEF TableInv, Publication
  <2> HIDE DEF k
  <2> QED BY <2>1, <2>2, Marked, Writes
<1>8. ASSUME AbortPublication(p) PROVE TableInv'
  BY <1>8, Ends, PublisherMoves DEF AbortPublication, EndPublication
<1> QED BY <1>1, <1>2, <1>3, <1>4, <1>5, <1>6, <1>7, <1>8 DEF Commit

-----------------------------------------------------------------------------

LEMMA NoLookupFacts ==
    /\ NoLookup \in Resolver
    /\ NoLookup.pc = "idle" /\ NoLookup.record = None /\ NoLookup.root = None
    /\ NoLookup.readAt = 0
BY DEF NoLookup, Resolver

\* A lookup moves on.
LEMMA LookupMoves ==
    ASSUME ResolverInv, NEW c \in Resolvers, NEW lookup \in Resolver,
           resolver' = [resolver EXCEPT ![c] = lookup],
           UNCHANGED <<clock, table, cache, publishedAt, slowest>>,
           LookupKept(lookup)
    PROVE  ResolverInv'
<1>1. /\ resolver' \in [Resolvers -> Resolver]
      /\ \A b \in Resolvers : resolver'[b] = resolver[b] \/ resolver'[b] = lookup
  BY DEF ResolverInv
<1>2. ASSUME NEW b \in Resolvers PROVE LookupKept(resolver[b])'
  <2>1. LookupKept(resolver'[b])
    BY <1>1 DEF ResolverInv
  <2> QED BY <2>1 DEF LookupKept, Overtaken
<1>3. CacheInv'
  BY DEF ResolverInv, CacheInv, Overtaken
<1> QED BY <1>1, <1>2, <1>3 DEF ResolverInv

\* What a lookup answers is signed, if the record it is given is.
LEMMA Answers ==
    ASSUME ResolverInv, NEW c \in Resolvers, NEW lookup, NEW record \in AllRecords \cup {None},
           lookup.key \in Keys, lookup.at \in Times \cup {0},
           record # None => SignedByTrusted(record),
           Answer(c, lookup, record)
    PROVE  \E answer \in Resolver :
              /\ resolver' = [resolver EXCEPT ![c] = answer]
              /\ answer.pc = "answered" /\ answer.key = lookup.key
              /\ answer.record \in {record, None}
              /\ LookupKept(answer)
<1> DEFINE view == IF record # None /\ InWindow(lookup.at, record) THEN record ELSE None
           answer == [NoLookup EXCEPT !.pc = "answered", !.key = lookup.key, !.at = lookup.at,
                                      !.record = view]
<1>1. resolver' = [resolver EXCEPT ![c] = answer]
  BY DEF Answer
<1>2. view \in {record, None}
  OBVIOUS
<1> HIDE DEF view
<1>3. answer \in Resolver
  BY <1>2, NoLookupFacts DEF Resolver
<1>4. /\ answer.pc = "answered" /\ answer.key = lookup.key /\ answer.record = view
      /\ answer.root = None /\ answer.readAt = 0
  BY NoLookupFacts DEF Resolver
<1> HIDE DEF answer
<1>5. LookupKept(answer)
  BY <1>2, <1>4 DEF LookupKept, ResolverInv
<1> QED BY <1>1, <1>2, <1>3, <1>4, <1>5

\* The table is read: what is read is the row's record, signed by a trusted root.
LEMMA Reads ==
    ASSUME TableInv, ResolverInv, NEW k \in Keys
    PROVE  /\ table[k].record \in AllRecords \cup {None}
           /\ table[k].record # None => SignedByTrusted(table[k].record)
           /\ Overtaken(k, table[k].record, clock)
<1>1. table[k] \in Row /\ (table[k] # NoRow => SignedByTrusted(table[k].record))
  BY DEF TableInv
<1> QED BY <1>1, RowFacts DEF Overtaken

\* The cache is written as the lookup answers.
LEMMA PutKeeps ==
    ASSUME RootInv, TableInv, ResolverInv, NEW c \in Resolvers, Put(c)
    PROVE  RootInv' /\ ResolverInv'
<1> DEFINE k == resolver[c].key
           record == resolver[c].record
<1>1. /\ resolver[c].pc = "found"
      /\ cache' = [cache EXCEPT ![k] = [record |-> record, storedAt |-> clock]]
      /\ slowest' = Longer(slowest, clock - resolver[c].readAt)
      /\ Answer(c, resolver[c], record)
      /\ UNCHANGED <<clock, rootVars, table, publishedAt>>
  BY DEF Put
<1>2. /\ resolver[c] \in Resolver
      /\ LookupKept(resolver[c])
      /\ clock \in Nat /\ slowest \in Nat /\ publishedAt \in [Keys -> Nat]
  BY DEF ResolverInv
<1>3. /\ k \in Keys /\ record \in AllRecords \cup {None}
      /\ resolver[c].readAt \in Nat /\ resolver[c].readAt <= clock
      /\ record # None => SignedByTrusted(record)
      /\ Overtaken(k, record, resolver[c].readAt)
      /\ resolver[c].at \in Times \cup {0}
  BY <1>1, <1>2 DEF LookupKept, Resolver
<1>4. PICK answer \in Resolver :
        resolver' = [resolver EXCEPT ![c] = answer] /\ LookupKept(answer)
  BY <1>1, <1>3, Answers
<1> HIDE DEF k, record
<1>5. slowest' \in Nat /\ slowest' >= slowest /\ slowest' >= clock - resolver[c].readAt
  BY <1>1, <1>2, <1>3 DEF Longer
<1>6. /\ cache' \in [Keys -> Cached]
      /\ cache'[k] = [record |-> record, storedAt |-> clock]
      /\ \A j \in Keys \ {k} : cache'[j] = cache[j]
  <2>1. [record |-> record, storedAt |-> clock] \in Cached
    BY <1>2, <1>3 DEF Cached
  <2> QED BY <1>1, <1>3, <2>1 DEF ResolverInv
<1>7. ASSUME NEW j \in Keys, cache'[j].record # None
      PROVE  /\ SignedByTrusted(cache'[j].record)
             /\ cache'[j].storedAt <= clock
             /\ Overtaken(j, cache'[j].record, cache'[j].storedAt - slowest')
  <2>1. CASE j = k
    <3>1. cache'[j].record = record /\ cache'[j].storedAt = clock
      BY <1>6, <2>1
    <3>2. publishedAt[j] \in Nat
      BY <1>2
    <3> QED BY <1>2, <1>3, <1>5, <1>7, <2>1, <3>1, <3>2 DEF Overtaken
  <2>2. CASE j # k
    <3>1. cache'[j] = cache[j]
      BY <1>6, <2>2
    <3>2. cache[j].storedAt \in Nat /\ publishedAt[j] \in Nat
      BY <1>2 DEF ResolverInv, Cached
    <3>3. /\ SignedByTrusted(cache[j].record)
          /\ cache[j].storedAt <= clock
          /\ Overtaken(j, cache[j].record, cache[j].storedAt - slowest)
      BY <1>7, <3>1 DEF ResolverInv, CacheInv
    <3> QED BY <1>2, <1>5, <3>1, <3>2, <3>3 DEF Overtaken
  <2> QED BY <2>1, <2>2
<1>8. CacheInv'
  BY <1>1, <1>7 DEF CacheInv, Overtaken
<1>9. /\ resolver' \in [Resolvers -> Resolver]
      /\ \A b \in Resolvers : LookupKept(resolver'[b])
  BY <1>4 DEF ResolverInv
<1>10. \A b \in Resolvers : LookupKept(resolver[b])'
  BY <1>1, <1>9 DEF LookupKept, Overtaken
<1>11. \A j \in Keys : publishedAt'[j] <= clock'
  BY <1>1 DEF ResolverInv
<1>12. RootInv'
  BY <1>1, RootFrame
<1> QED BY <1>1, <1>2, <1>5, <1>6, <1>8, <1>9, <1>10, <1>11, <1>12 DEF ResolverInv

LEMMA LookupSteps ==
    ASSUME Inv, NEW c \in Resolvers,
           Lookup(c) \/ \E k \in Keys, at \in Times : Resolve(c, k, at)
    PROVE  RootInv' /\ ResolverInv'
<1>t. /\ RootInv /\ TableInv /\ ResolverInv
      /\ clock \in Nat /\ slowest \in Nat
      /\ resolver[c] \in Resolver /\ LookupKept(resolver[c])
      /\ resolver[c].readAt \in Nat
  BY DEF Inv, ResolverInv, Resolver
<1>1. ASSUME VerifyRecord(c) PROVE RootInv' /\ ResolverInv'
  <2> DEFINE lookup == [resolver[c] EXCEPT !.pc = "found"]
  <2>1. /\ resolver' = [resolver EXCEPT ![c] = lookup]
        /\ resolver[c].pc = "read"
        /\ UNCHANGED <<clock, rootVars, table, cache, publishedAt, slowest>>
    BY <1>1 DEF VerifyRecord
  <2>2. lookup \in Resolver /\ LookupKept(lookup)
    BY <1>t, <2>1 DEF Resolver, LookupKept
  <2> HIDE DEF lookup
  <2> QED BY <1>t, <2>1, <2>2, LookupMoves, RootFrame
<1>2. ASSUME Refresh(c) PROVE RootInv' /\ ResolverInv'
  <2> DEFINE lookup == [resolver[c] EXCEPT !.pc = "refresh"]
  <2>1. /\ resolver' = [resolver EXCEPT ![c] = lookup]
        /\ resolver[c].pc = "read"
        /\ due' = FALSE
        /\ UNCHANGED <<clock, memory, history, nextId, admin, boot, begun>>
        /\ UNCHANGED <<clock, table, cache, publishedAt, slowest>>
    BY <1>2 DEF Refresh
  <2>2. lookup \in Resolver /\ LookupKept(lookup)
    BY <1>t, <2>1 DEF Resolver, LookupKept
  <2>3. RootInv'
    BY <1>t, <2>1 DEF RootInv, RootTypeOK
  <2> HIDE DEF lookup
  <2> QED BY <1>t, <2>1, <2>2, <2>3, LookupMoves
<1>3. ASSUME GiveUp(c) PROVE RootInv' /\ ResolverInv'
  <2>1. /\ Answer(c, resolver[c], None) /\ resolver[c].pc = "read"
        /\ UNCHANGED <<clock, rootVars, table, cache, publishedAt, slowest>>
    BY <1>3 DEF GiveUp
  <2>2. resolver[c].key \in Keys /\ resolver[c].at \in Times \cup {0}
    BY <1>t, <2>1 DEF LookupKept, Resolver
  <2>3. \E answer \in Resolver :
           resolver' = [resolver EXCEPT ![c] = answer] /\ LookupKept(answer)
    BY <1>t, <2>1, <2>2, Answers
  <2> QED BY <1>t, <2>1, <2>3, LookupMoves, RootFrame
<1>4. ASSUME ReadRoot(c) PROVE RootInv' /\ ResolverInv'
  <2>1. PICK r \in Roots \cup {None} :
          /\ IsNewest(r)
          /\ resolver' = [resolver EXCEPT ![c].pc = "refreshed", ![c].root = r]
    BY <1>4 DEF ReadRoot
  <2> DEFINE lookup == [resolver[c] EXCEPT !.pc = "refreshed", !.root = r]
  <2>2. /\ resolver' = [resolver EXCEPT ![c] = lookup]
        /\ resolver[c].pc = "refresh"
        /\ UNCHANGED <<clock, rootVars, table, cache, publishedAt, slowest>>
    BY <1>4, <2>1 DEF ReadRoot
  <2>3. r # None => r \in Trusted
    BY <1>t, <2>1, NewestIsTrusted
  <2>4. lookup \in Resolver /\ LookupKept(lookup)
    BY <1>t, <2>2, <2>3 DEF Resolver, LookupKept
  <2> HIDE DEF lookup
  <2> QED BY <1>t, <2>2, <2>4, LookupMoves, RootFrame
<1>5. ASSUME SetRoot(c) PROVE RootInv' /\ ResolverInv'
  <2> DEFINE next == IF resolver[c].record = None THEN "retry" ELSE "read"
             lookup == [resolver[c] EXCEPT !.pc = next, !.again = TRUE, !.root = None]
  <2>1. /\ resolver' = [resolver EXCEPT ![c] = lookup]
        /\ resolver[c].pc = "refreshed"
        /\ memory' = IF resolver[c].root = None THEN memory ELSE resolver[c].root
        /\ UNCHANGED <<history, nextId, due, admin, boot, begun>>
        /\ UNCHANGED <<clock, table, cache, publishedAt, slowest>>
    BY <1>5 DEF SetRoot, Retry
  <2>2. memory' \in Trusted
    BY <1>t, <2>1 DEF RootInv, LookupKept
  <2>3. RootInv'
    BY <1>t, <2>1, <2>2, TrustedRoots DEF RootInv, RootTypeOK
  <2>4. next \in {"retry", "read"}
    OBVIOUS
  <2> HIDE DEF next
  <2>5. lookup \in Resolver /\ LookupKept(lookup)
    BY <1>t, <2>1, <2>4 DEF Resolver, LookupKept
  <2> HIDE DEF lookup
  <2> QED BY <1>t, <2>1, <2>3, <2>5, LookupMoves
<1>6. ASSUME ReadAgain(c) PROVE RootInv' /\ ResolverInv'
  <2> DEFINE read == table[resolver[c].key].record
             lookup == [resolver[c] EXCEPT !.pc = "read", !.readAt = clock, !.record = read]
  <2>1. /\ resolver' = [resolver EXCEPT ![c] = lookup]
        /\ resolver[c].pc = "retry"
        /\ UNCHANGED <<clock, rootVars, table, cache, publishedAt, slowest>>
    BY <1>6 DEF ReadAgain
  <2>2. resolver[c].key \in Keys /\ (resolver[c].root # None => resolver[c].root \in Trusted)
    BY <1>t, <2>1 DEF LookupKept
  <2>3. /\ read \in AllRecords \cup {None}
        /\ read # None => SignedByTrusted(read)
        /\ Overtaken(resolver[c].key, read, clock)
    BY <1>t, <2>2, Reads
  <2> HIDE DEF read
  <2>4. lookup \in Resolver
    BY <1>t, <2>3 DEF Resolver
  <2>5. /\ lookup.pc = "read" /\ lookup.key = resolver[c].key
        /\ lookup.root = resolver[c].root
        /\ lookup.record = read /\ lookup.readAt = clock
    BY <1>t DEF Resolver
  <2> HIDE DEF lookup
  <2>6. LookupKept(lookup)
    BY <1>t, <2>2, <2>3, <2>5 DEF LookupKept
  <2> QED BY <1>t, <2>1, <2>4, <2>6, LookupMoves, RootFrame
<1>7. ASSUME Put(c) PROVE RootInv' /\ ResolverInv'
  BY <1>t, <1>7, PutKeeps
<1>8. ASSUME Finish(c) PROVE RootInv' /\ ResolverInv'
  <2>1. LookupKept(NoLookup)
    BY <1>t, NoLookupFacts DEF LookupKept
  <2> QED BY <1>t, <1>8, <2>1, NoLookupFacts, LookupMoves, RootFrame DEF Finish
<1>9. ASSUME NEW k \in Keys, NEW at \in Times, Resolve(c, k, at) PROVE RootInv' /\ ResolverInv'
  <2> DEFINE asked == [NoLookup EXCEPT !.key = k, !.at = at]
             lookup == [asked EXCEPT !.pc = "read", !.record = table[k].record, !.readAt = clock]
  <2>0. asked.key = k /\ asked.at = at
    BY DEF NoLookup
  <2>1. /\ IF CacheHits(k)
           THEN Answer(c, asked, cache[k].record)
           ELSE resolver' = [resolver EXCEPT ![c] = lookup]
        /\ UNCHANGED <<clock, rootVars, table, cache, publishedAt, slowest>>
    BY <1>9 DEF Resolve
  <2>2. CASE CacheHits(k)
    <3>1. /\ cache[k].record \in AllRecords \cup {None}
          /\ cache[k].record # None => SignedByTrusted(cache[k].record)
      BY <1>t DEF ResolverInv, CacheInv, Cached
    <3> HIDE DEF asked
    <3>2. \E answer \in Resolver :
             resolver' = [resolver EXCEPT ![c] = answer] /\ LookupKept(answer)
      BY <1>t, <2>0, <2>1, <2>2, <3>1, Answers
    <3> QED BY <1>t, <2>1, <3>2, LookupMoves, RootFrame
  <2>3. CASE ~CacheHits(k)
    <3>1. /\ table[k].record \in AllRecords \cup {None}
          /\ table[k].record # None => SignedByTrusted(table[k].record)
          /\ Overtaken(k, table[k].record, clock)
      BY <1>t, Reads
    <3> DEFINE read == table[k].record
    <3> HIDE DEF read
    <3>2. lookup \in Resolver
      BY <1>t, <3>1, NoLookupFacts DEF Resolver
    <3>3. /\ lookup.pc = "read" /\ lookup.key = k /\ lookup.root = None
          /\ lookup.record = table[k].record /\ lookup.readAt = clock
      BY DEF NoLookup
    <3>4. resolver' = [resolver EXCEPT ![c] = lookup]
      BY <2>1, <2>3
    <3> HIDE DEF lookup
    <3>5. LookupKept(lookup)
      BY <1>t, <3>1, <3>3 DEF LookupKept
    <3> QED BY <1>t, <2>1, <3>2, <3>4, <3>5, LookupMoves, RootFrame
  <2> QED BY <2>2, <2>3
<1> QED BY <1>1, <1>2, <1>3, <1>4, <1>5, <1>6, <1>7, <1>8, <1>9 DEF Lookup

-----------------------------------------------------------------------------

\* A row that is written with another record is written now.
LEMMA WriteKeepsResolver ==
    ASSUME TableInv, ResolverInv, NEW k \in Keys, NEW row, Write(k, row),
           UNCHANGED <<clock, cache, resolver, slowest>>
    PROVE  ResolverInv'
<1>1. /\ clock \in Nat /\ slowest \in Nat
      /\ publishedAt \in [Keys -> Nat] /\ table \in [Keys -> Row]
      /\ \A j \in Keys : publishedAt[j] <= clock
  BY DEF ResolverInv, TableInv
<1>2. /\ publishedAt' \in [Keys -> Nat]
      /\ \A j \in Keys : \/ /\ table'[j].record = table[j].record
                            /\ publishedAt'[j] = publishedAt[j]
                         \/ publishedAt'[j] = clock
  BY <1>1 DEF Write
<1>3. CacheInv'
  <2> SUFFICES ASSUME NEW j \in Keys, cache[j].record # None
               PROVE  /\ SignedByTrusted(cache[j].record)
                      /\ cache[j].storedAt <= clock
                      /\ Overtaken(j, cache[j].record, cache[j].storedAt - slowest)'
    BY DEF CacheInv, Overtaken
  <2>1. /\ SignedByTrusted(cache[j].record)
        /\ cache[j].storedAt <= clock
        /\ Overtaken(j, cache[j].record, cache[j].storedAt - slowest)
    BY DEF ResolverInv, CacheInv
  <2>2. cache[j].storedAt \in Nat
    BY DEF ResolverInv, Cached
  <2>3. cache[j].storedAt - slowest \in Int /\ cache[j].storedAt - slowest <= clock
    BY <1>1, <2>1, <2>2
  <2> QED BY <1>1, <1>2, <2>1, <2>3 DEF Overtaken
<1>4. ASSUME NEW c \in Resolvers PROVE LookupKept(resolver[c])'
  <2>1. LookupKept(resolver[c]) /\ resolver[c].readAt \in Nat
    BY DEF ResolverInv, Resolver
  <2> QED BY <1>1, <1>2, <2>1 DEF LookupKept, Overtaken
<1> QED BY <1>1, <1>2, <1>3, <1>4 DEF ResolverInv

LEMMA PublishersKeepResolver ==
    ASSUME TableInv, ResolverInv, NEW p \in Publishers,
           Publish(p) \/ Merge(p) \/ Commit(p) \/ CheckActive(p) \/ AbortPublication(p)
    PROVE  ResolverInv'
<1>1. Publication(publisher[p])
  BY DEF TableInv
<1>2. CASE Publish(p) \/ Merge(p) \/ CheckActive(p) \/ AbortPublication(p)
  BY <1>2, ResolverFrame DEF Publish, Merge, CheckActive, AbortPublication
<1>3. CASE Commit(p)
  <2>1. publisher[p].key \in Keys /\ UNCHANGED <<clock, cache, resolver, slowest>>
    BY <1>1, <1>3
    DEF Commit, CommitUpdate, CommitMerge, CommitInsert, CommitMark, Publication
  <2>2. (\E row : Write(publisher[p].key, row)) \/ UNCHANGED <<table, publishedAt>>
    BY <1>3 DEF Commit, CommitUpdate, CommitMerge, CommitInsert, CommitMark
  <2>3. CASE \E row : Write(publisher[p].key, row)
    BY <2>1, <2>3, WriteKeepsResolver
  <2>4. CASE UNCHANGED <<table, publishedAt>>
    BY <2>1, <2>4, ResolverFrame
  <2> QED BY <2>2, <2>3, <2>4
<1> QED BY <1>2, <1>3

LEMMA PublishersKeepRoot ==
    ASSUME RootInv, NEW p \in Publishers,
           Publish(p) \/ Merge(p) \/ Commit(p) \/ CheckActive(p) \/ AbortPublication(p)
    PROVE  RootInv'
<1>1. UNCHANGED <<memory, history, nextId, due, admin, boot>> /\ begun' \in {begun, begun + 1}
  BY DEF Publish, Merge, Commit, CommitUpdate, CommitMerge, CommitInsert, CommitMark,
         CheckActive, AbortPublication, rootVars
<1> QED BY <1>1 DEF RootInv, RootTypeOK

\* init-dev-trust commits a record that is signed by the root it commits.
LEMMA DevTrustSteps ==
    ASSUME Inv, NEW a \in Admins, CommitDevTrust(a)
    PROVE  Inv'
<1>1. PICK d \in DevRecords :
        /\ Quorum(d, admin[a].root)
        /\ Write(d.key, [record |-> d, pending |-> FALSE])
  BY DEF CommitDevTrust
<1>2. /\ CommitSeed(a)
      /\ UNCHANGED <<clock, publisher, cache, resolver, slowest>>
      /\ admin[a].root \in Trusted
  BY DEF CommitDevTrust, CommitSeed, Inv, RootInv
<1>3. d \in AllRecords /\ d.key \in Keys /\ SignedByTrusted(d)
  BY <1>1, <1>2, RecordsAssumption DEF AllRecords, SignedByTrusted
<1> DEFINE row == [record |-> d, pending |-> FALSE]
<1>4. row \in Row /\ row # NoRow /\ row.record = d
  BY <1>3, RowFacts
<1>5. Write(d.key, row)
  BY <1>1
<1> HIDE DEF row
<1>6. RootInv'
  BY <1>2, RootSteps DEF Inv
<1>7. TableInv'
  BY <1>2, <1>3, <1>4, <1>5, Writes DEF Inv
<1>8. ResolverInv'
  BY <1>2, <1>3, <1>5, WriteKeepsResolver DEF Inv
<1> QED BY <1>6, <1>7, <1>8 DEF Inv

LEMMA TickSteps ==
    ASSUME Inv, Tick
    PROVE  Inv'
<1>1. /\ clock' = clock + 1 /\ clock \in Nat
      /\ UNCHANGED <<rootVars, table, publisher, cache, resolver, publishedAt, slowest>>
  BY DEF Tick, dirVars, Inv, ResolverInv
<1>2. RootInv' /\ TableInv'
  BY <1>1, RootFrame, TableFrame DEF Inv
<1>3. CacheInv'
  <2> SUFFICES ASSUME NEW k \in Keys, cache[k].record # None
               PROVE  /\ SignedByTrusted(cache[k].record)
                      /\ cache[k].storedAt <= clock'
                      /\ Overtaken(k, cache[k].record, cache[k].storedAt - slowest)
    BY <1>1 DEF CacheInv, Overtaken
  <2>1. cache[k].storedAt \in Nat
    BY DEF Inv, ResolverInv, Cached
  <2> QED BY <1>1, <2>1 DEF Inv, ResolverInv, CacheInv
<1>4. ASSUME NEW c \in Resolvers PROVE LookupKept(resolver[c])'
  <2>1. LookupKept(resolver[c]) /\ resolver[c].readAt \in Nat
    BY DEF Inv, ResolverInv, Resolver
  <2> QED BY <1>1, <2>1 DEF LookupKept, Overtaken
<1>5. \A k \in Keys : publishedAt'[k] \in Nat /\ publishedAt'[k] <= clock'
  <2>1. \A k \in Keys : publishedAt[k] \in Nat /\ publishedAt[k] <= clock
    BY DEF Inv, ResolverInv
  <2> QED BY <1>1, <2>1
<1> QED BY <1>1, <1>2, <1>3, <1>4, <1>5 DEF Inv, ResolverInv

LEMMA RestartSteps ==
    ASSUME Inv, Restart
    PROVE  Inv'
<1>1. RootInv'
  BY RootSteps DEF Inv, Restart
<1>2. TableInv'
  BY Ends DEF Inv, TableInv, Restart
<1>3. LookupKept(NoLookup)'
  BY NoLookupFacts DEF Inv, ResolverInv, Restart, LookupKept
<1>4. /\ cache' \in [Keys -> Cached] /\ resolver' \in [Resolvers -> Resolver]
      /\ \A k \in Keys : cache'[k].record = None
      /\ \A c \in Resolvers : resolver'[c] = NoLookup
  BY NoLookupFacts DEF Restart, Cached, NotCached
<1>5. CacheInv' /\ \A c \in Resolvers : LookupKept(resolver[c])'
  BY <1>3, <1>4 DEF CacheInv, LookupKept
<1> QED BY <1>1, <1>2, <1>4, <1>5 DEF Inv, ResolverInv, Restart

LEMMA StepInv == Inv /\ [Next]_vars => Inv'
<1> SUFFICES ASSUME Inv, [Next]_vars PROVE Inv'
  OBVIOUS
<1>1. ASSUME NEW a \in Admins, RootStep(a), UNCHANGED <<clock, dirVars>> PROVE Inv'
  BY <1>1, RootSteps, TableFrame, ResolverFrame DEF Inv, dirVars
<1>2. ASSUME NEW a \in Admins, CommitDevTrust(a) PROVE Inv'
  BY <1>2, DevTrustSteps
<1>3. CASE (BootRead \/ BootSet \/ IntervalElapses) /\ UNCHANGED <<clock, dirVars>>
  BY <1>3, RootSteps, TableFrame, ResolverFrame DEF Inv, dirVars
<1>4. ASSUME NEW p \in Publishers,
             Publish(p) \/ Merge(p) \/ Commit(p) \/ CheckActive(p) \/ AbortPublication(p)
      PROVE  Inv'
  BY <1>4, PublishersKeepRoot, TableSteps, PublishersKeepResolver DEF Inv
<1>5. ASSUME NEW c \in Resolvers,
             Lookup(c) \/ \E k \in Keys, at \in Times : Resolve(c, k, at)
      PROVE  Inv'
  <2>1. UNCHANGED <<table, publisher>>
    BY <1>5 DEF Lookup, VerifyRecord, Refresh, GiveUp, ReadRoot, SetRoot, ReadAgain, Put, Finish,
        Resolve
  <2> QED BY <1>5, <2>1, LookupSteps, TableFrame DEF Inv
<1>6. CASE Tick
  BY <1>6, TickSteps
<1>7. CASE Restart
  BY <1>7, RestartSteps
<1>8. CASE UNCHANGED vars
  BY <1>8, RootFrame, TableFrame, ResolverFrame DEF Inv, vars, dirVars
<1> QED BY <1>1, <1>2, <1>3, <1>4, <1>5, <1>6, <1>7, <1>8 DEF Next

LEMMA AlwaysInv == Spec => []Inv
BY InitInv, StepInv, PTL DEF Spec

\* Every variable has its type, whatever the instance.
THEOREM TypeCorrect == Spec => []TypeOK
<1>1. Inv => TypeOK
  BY DEF Inv, RootInv, TableInv, ResolverInv, TypeOK
<1> QED BY <1>1, AlwaysInv, PTL

\* No overlap, rollback, reload or restart puts a root or a record into use that does not
\* descend from the configured root or from one the operator has seeded.
THEOREM TrustIsRooted == Spec => []TrustDescends
<1>1. Inv => TrustDescends
  BY DEF Inv, RootInv, TableInv, ResolverInv, CacheInv, LookupKept, TrustDescends
<1> QED BY <1>1, AlwaysInv, PTL

-----------------------------------------------------------------------------

\* What a step that changes the row of a key is.
LEMMA RowChanges ==
    ASSUME Next, NEW k \in Keys, table'[k] # table[k]
    PROVE  (\E p \in Publishers : Commit(p)) \/ (\E a \in Admins : CommitDevTrust(a))
BY DEF Next, dirVars, Publish, Merge, CheckActive, AbortPublication, Lookup, VerifyRecord,
       Refresh, GiveUp, ReadRoot, SetRoot, ReadAgain, Put, Finish, Resolve, Tick, Restart

LEMMA RowsMoveForward ==
    ASSUME Inv, Next, NEW k \in Keys, table[k] # NoRow, table'[k] # table[k]
    PROVE  \/ table'[k] = [table[k] EXCEPT !.pending = TRUE]
           \/ /\ table'[k].record.issuedAt > table[k].record.issuedAt
              /\ table[k].pending => table'[k].pending \/ table'[k].record.status = "revoked"
           \/ \E p \in Publishers : Publishes(p, k) /\ publisher[p].row # table[k]
<1>t. table \in [Keys -> Row] /\ publisher \in [Publishers -> Publisher]
  BY DEF Inv, TableInv
<1>1. ASSUME NEW p \in Publishers, NEW row,
             Write(publisher[p].key, row), publisher[p].key \in Keys
      PROVE  publisher[p].key = k /\ table'[k] = row
  BY <1>t, <1>1 DEF Write
<1>2. ASSUME NEW p \in Publishers, EndPublication(p), publisher[p].key = k,
             publisher[p].record \in AllRecords
      PROVE  Publishes(p, k)
  <2>1. publisher'[p].pc = "idle"
    BY <1>t, <1>2, Ends DEF EndPublication
  <2> QED BY <1>2, <2>1, NoneIsNoRecord DEF Publishes
<1>3. ASSUME NEW p \in Publishers PROVE Publication(publisher[p])
  BY DEF Inv, TableInv
<1>4. ASSUME NEW p \in Publishers, CommitUpdate(p)
      PROVE  \/ /\ table'[k].record.issuedAt > table[k].record.issuedAt
                /\ table[k].pending => table'[k].pending \/ table'[k].record.status = "revoked"
             \/ Publishes(p, k) /\ publisher[p].row # table[k]
  <2> DEFINE b == publisher[p].row.pending /\ publisher[p].record.status # "revoked"
  <2>1. /\ publisher[p].pc = "compared" /\ EndPublication(p)
        /\ Write(publisher[p].key, Published(p, b))
    BY <1>4 DEF CommitUpdate
  <2>2. /\ publisher[p].key \in Keys /\ publisher[p].record \in AllRecords
        /\ publisher[p].row # NoRow
        /\ publisher[p].row.record.issuedAt < publisher[p].record.issuedAt
    BY <1>3, <2>1 DEF Publication
  <2> HIDE DEF b
  <2>3. publisher[p].key = k /\ table'[k] = Published(p, b)
    BY <1>1, <2>1, <2>2
  <2>4. table'[k].record = publisher[p].record /\ table'[k].pending = b
    BY <2>3 DEF Published
  <2>5. CASE publisher[p].row = table[k]
    <3>1. table[k].record \in AllRecords
      BY <1>t, <2>2, <2>5, RowFacts
    <3>2. table'[k].record.issuedAt > table[k].record.issuedAt
      BY <2>2, <2>4, <2>5, <3>1, RecordsAssumption
    <3>3. table[k].pending => table'[k].pending \/ table'[k].record.status = "revoked"
      BY <2>4, <2>5 DEF b
    <3> QED BY <3>2, <3>3
  <2>6. CASE publisher[p].row # table[k]
    BY <1>2, <2>1, <2>2, <2>3, <2>6
  <2> QED BY <2>5, <2>6
<1>5. ASSUME NEW p \in Publishers, CommitMerge(p)
      PROVE  Publishes(p, k) /\ publisher[p].row # table[k]
  <2>1. /\ publisher[p].pc = "merging" /\ EndPublication(p)
        /\ Write(publisher[p].key, Published(p, FALSE))
    BY <1>5 DEF CommitMerge
  <2>2. /\ publisher[p].key \in Keys /\ publisher[p].record \in AllRecords
        /\ publisher[p].row = NoRow
    BY <1>3, <2>1 DEF Publication
  <2> QED BY <1>1, <1>2, <2>1, <2>2
<1>6. ASSUME NEW p \in Publishers, CommitInsert(p) PROVE FALSE
  <2>1. /\ publisher[p].pc = "inserting" /\ table[publisher[p].key] = NoRow
        /\ Write(publisher[p].key, Published(p, FALSE))
    BY <1>6 DEF CommitInsert
  <2>2. publisher[p].key \in Keys
    BY <1>3, <2>1 DEF Publication
  <2> QED BY <1>1, <2>1, <2>2
<1>7. ASSUME NEW p \in Publishers, CommitMark(p)
      PROVE  table'[k] = [table[k] EXCEPT !.pending = TRUE]
  <2>1. /\ publisher[p].pc = "rotating"
        /\ Write(publisher[p].key, [table[publisher[p].key] EXCEPT !.pending = TRUE])
    BY <1>7 DEF CommitMark
  <2>2. publisher[p].key \in Keys
    BY <1>3, <2>1 DEF Publication
  <2> QED BY <1>1, <2>1, <2>2
<1>8. ASSUME NEW a \in Admins, CommitDevTrust(a) PROVE FALSE
  <2>1. PICK d \in DevRecords :
          table[d.key] = NoRow /\ Write(d.key, [record |-> d, pending |-> FALSE])
    BY <1>8 DEF CommitDevTrust
  <2> QED BY <1>t, <2>1 DEF Write
<1> QED BY <1>4, <1>5, <1>6, <1>7, <1>8, RowChanges DEF Commit

\* A publication that has seen the row it replaces brings a newer record, and keeps the
\* mark of a key unless it revokes the key.
THEOREM RecordsMoveForward == Spec => PublicationsForward
<1>1. Inv /\ [Next]_vars =>
        [\A k \in Keys :
           table[k] # NoRow /\ table'[k] # table[k] =>
             \/ table'[k] = [table[k] EXCEPT !.pending = TRUE]
             \/ /\ table'[k].record.issuedAt > table[k].record.issuedAt
                /\ table[k].pending => table'[k].pending \/ table'[k].record.status = "revoked"
             \/ \E p \in Publishers : Publishes(p, k) /\ publisher[p].row # table[k]]_vars
  BY RowsMoveForward
<1> QED BY <1>1, AlwaysInv, PTL DEF Spec, PublicationsForward

-----------------------------------------------------------------------------

\* What a step in which a lookup comes to its answer is.
LEMMA AnswerSteps ==
    ASSUME Inv, Next, NEW c \in Resolvers,
           resolver[c].pc # "answered", resolver'[c].pc = "answered"
    PROVE  Put(c) \/ GiveUp(c) \/ \E k \in Keys, at \in Times : Resolve(c, k, at)
<1>1. /\ resolver \in [Resolvers -> Resolver]
      /\ resolver[c] \in Resolver
  BY DEF Inv, ResolverInv
<1>2. ASSUME NEW b \in Resolvers, Lookup(b), b # c PROVE resolver'[c] = resolver[c]
  BY <1>1, <1>2 DEF Lookup, VerifyRecord, Refresh, GiveUp, ReadRoot, SetRoot, Retry, ReadAgain,
                    Put, Finish, Answer
<1>3. ASSUME NEW b \in Resolvers, NEW k \in Keys, NEW at \in Times, Resolve(b, k, at), b # c
      PROVE  resolver'[c] = resolver[c]
  BY <1>1, <1>3 DEF Resolve, Answer
<1>4. ASSUME Lookup(c) PROVE Put(c) \/ GiveUp(c)
  <2>1. ~VerifyRecord(c)
    BY <1>1 DEF VerifyRecord, Resolver
  <2>2. ~Refresh(c)
    BY <1>1 DEF Refresh, Resolver
  <2>3. ~ReadRoot(c)
    BY <1>1 DEF ReadRoot, Resolver
  <2>4. ~SetRoot(c)
    BY <1>1 DEF SetRoot, Retry, Resolver
  <2>5. ~ReadAgain(c)
    BY <1>1 DEF ReadAgain, Resolver
  <2>6. ~Finish(c)
    BY <1>1, NoLookupFacts DEF Finish
  <2> QED BY <1>4, <2>1, <2>2, <2>3, <2>4, <2>5, <2>6 DEF Lookup
<1>5. ~Restart
  BY NoLookupFacts DEF Restart
<1>6. UNCHANGED resolver => FALSE
  OBVIOUS
<1>7. ASSUME NEW p \in Publishers,
             Publish(p) \/ Merge(p) \/ Commit(p) \/ CheckActive(p) \/ AbortPublication(p)
      PROVE  FALSE
  BY <1>6, <1>7 DEF Publish, Merge, Commit, CommitUpdate, CommitMerge, CommitInsert, CommitMark,
                    CheckActive, AbortPublication
<1>8. ASSUME NEW a \in Admins, CommitDevTrust(a) PROVE FALSE
  BY <1>6, <1>8 DEF CommitDevTrust
<1>9. ~Tick /\ ~UNCHANGED <<clock, dirVars>>
  BY <1>6 DEF Tick, dirVars
<1> QED BY <1>2, <1>3, <1>4, <1>5, <1>7, <1>8, <1>9 DEF Next

LEMMA AnswersAreCurrent ==
    ASSUME Inv, Next, NEW c \in Resolvers,
           resolver[c].pc # "answered", resolver'[c].pc = "answered",
           resolver'[c].record # None,
           clock >= publishedAt[resolver'[c].key] + CacheTtl + slowest'
    PROVE  resolver'[c].record = table[resolver'[c].key].record
<1>t. /\ clock \in Nat /\ slowest \in Nat
      /\ publishedAt \in [Keys -> Nat] /\ cache \in [Keys -> Cached]
      /\ resolver[c] \in Resolver /\ LookupKept(resolver[c])
      /\ CacheInv /\ ResolverInv
  BY DEF Inv, ResolverInv
<1>c. CacheTtl \in Nat \ {0}
  BY TimesAssumption
<1>1. CASE GiveUp(c)
  <2>1. Answer(c, resolver[c], None) /\ resolver[c].pc = "read"
    BY <1>1 DEF GiveUp
  <2>2. resolver[c].key \in Keys /\ resolver[c].at \in Times \cup {0}
    BY <1>t, <2>1 DEF LookupKept, Resolver
  <2>3. PICK answer \in Resolver :
           resolver' = [resolver EXCEPT ![c] = answer] /\ answer.record = None
    BY <1>t, <2>1, <2>2, Answers
  <2> QED BY <1>t, <2>3 DEF ResolverInv
<1>2. CASE Put(c)
  <2>1. /\ Answer(c, resolver[c], resolver[c].record) /\ resolver[c].pc = "found"
        /\ slowest' = Longer(slowest, clock - resolver[c].readAt)
    BY <1>2 DEF Put
  <2>2. /\ resolver[c].key \in Keys /\ resolver[c].at \in Times \cup {0}
        /\ resolver[c].record \in AllRecords \cup {None} /\ resolver[c].readAt \in Nat
        /\ resolver[c].readAt <= clock
        /\ resolver[c].record # None => SignedByTrusted(resolver[c].record)
        /\ Overtaken(resolver[c].key, resolver[c].record, resolver[c].readAt)
    BY <1>t, <2>1 DEF LookupKept, Resolver
  <2>3. PICK answer \in Resolver :
           /\ resolver' = [resolver EXCEPT ![c] = answer]
           /\ answer.key = resolver[c].key
           /\ answer.record \in {resolver[c].record, None}
    BY <1>t, <2>1, <2>2, Answers
  <2>4. resolver'[c] = answer
    BY <2>3 DEF Inv, ResolverInv
  <2>5. slowest' \in Int /\ slowest' >= clock - resolver[c].readAt
    BY <1>t, <2>1, <2>2 DEF Longer
  <2>6. publishedAt[resolver[c].key] \in Nat
    BY <1>t, <2>2
  <2> QED BY <1>t, <1>c, <2>2, <2>3, <2>4, <2>5, <2>6 DEF Overtaken
<1>3. ASSUME NEW k \in Keys, NEW at \in Times, Resolve(c, k, at)
      PROVE  resolver'[c].record = table[resolver'[c].key].record
  <2> DEFINE asked == [NoLookup EXCEPT !.key = k, !.at = at]
  <2>0. asked.key = k /\ asked.at = at
    BY DEF NoLookup
  <2>1. slowest' = slowest
    BY <1>3 DEF Resolve
  <2>2. CacheHits(k)
    <3>1. SUFFICES ASSUME ~CacheHits(k) PROVE FALSE
      OBVIOUS
    <3>2. resolver' = [resolver EXCEPT ![c] =
             [asked EXCEPT !.pc = "read", !.record = table[k].record, !.readAt = clock]]
      BY <1>3, <3>1 DEF Resolve
    <3>3. resolver'[c].pc = "read"
      BY <3>2 DEF NoLookup, Inv, ResolverInv
    <3> QED BY <3>3
  <2>3. Answer(c, asked, cache[k].record)
    BY <1>3, <2>2 DEF Resolve
  <2> HIDE DEF asked
  <2>4. /\ cache[k].record \in AllRecords \cup {None} /\ cache[k].storedAt \in Nat
        /\ SignedByTrusted(cache[k].record)
        /\ Overtaken(k, cache[k].record, cache[k].storedAt - slowest)
        /\ clock - cache[k].storedAt < CacheTtl
    BY <1>t, <2>2 DEF CacheInv, Cached, CacheHits
  <2>5. PICK answer \in Resolver :
           /\ resolver' = [resolver EXCEPT ![c] = answer]
           /\ answer.key = k /\ answer.record \in {cache[k].record, None}
    BY <1>t, <2>0, <2>3, <2>4, Answers
  <2>6. resolver'[c] = answer
    BY <2>5 DEF Inv, ResolverInv
  <2>7. publishedAt[k] \in Nat
    BY <1>t
  <2> QED BY <1>t, <1>c, <2>1, <2>4, <2>5, <2>6, <2>7 DEF Overtaken
<1> QED BY <1>1, <1>2, <1>3, AnswerSteps

\* Once the new record has been stored for the time a key is cached and the longest lookup
\* has taken, from the read it answers with, no lookup answers with a record it replaced.
THEOREM ReplacedRecordsAreForgotten == Spec => ReplacedRecordsExpire
<1>1. Inv /\ [Next]_vars =>
        [\A c \in Resolvers :
           LET k == resolver'[c].key
           IN  /\ resolver[c].pc # "answered"
               /\ resolver'[c].pc = "answered"
               /\ resolver'[c].record # None
               /\ clock >= publishedAt[k] + CacheTtl + slowest'
               => resolver'[c].record = table[k].record]_vars
  BY AnswersAreCurrent
<1> QED BY <1>1, AlwaysInv, PTL DEF Spec, ReplacedRecordsExpire

=============================================================================
