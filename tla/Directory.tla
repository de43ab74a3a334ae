----------------------------- MODULE Directory -----------------------------
(***************************************************************************)
(* The directory of signed key records: their publication by               *)
(* administrators (AdminDirectoryController), the rotation mark an issuer  *)
(* sets (IssuerKeyController), and IssuerKeyResolverImpl, through which    *)
(* the ingest of an envelope finds the record of the key that signed it.   *)
(* The resolver keeps what it has found for CacheTtl; when nothing         *)
(* verifies it reloads the pinned root of TrustRoot and tries once more.   *)
(*                                                                         *)
(* A publication reads the row, compares issued_at, and writes every       *)
(* column when its transaction commits; READ COMMITTED lets another one    *)
(* commit in between.                                                      *)
(***************************************************************************)
EXTENDS TrustRoot

CONSTANTS
    Keys,       \* (subject_id, key_id) of issuers' signing keys
    Records,    \* signed records that administrators publish
    DevRecords, \* records that init-dev-trust writes, for keys it has generated
    Times,      \* created_at of the envelopes that arrive
    Publishers, \* threads that publish records or mark keys
    Resolvers,  \* threads that ingest envelopes
    MaxAge,     \* how long a record is fresh
    CacheTtl,
    MaxClock    \* bound: the clock stops here

AllRecords == Records \cup DevRecords

ASSUME RecordsAssumption == \A d \in AllRecords : d.key \in Keys /\ d.issuedAt \in Nat
ASSUME NoneIsNoRecord == None \notin AllRecords
ASSUME TimesAssumption ==
    Times \subseteq Nat /\ MaxAge \in Nat /\ CacheTtl \in Nat \ {0} /\ MaxClock \in Nat

VARIABLES
    clock,
    table,          \* directory_records: the row of each key
    publisher,      \* the transaction of each publication or rotation
    cache,          \* IssuerKeyResolverImpl.cache
    resolver,       \* the call of resolve() each thread is in
    publishedAt,    \* when the record in each row was committed (history)
    slowest         \* the longest a lookup has taken from its read to its put (history)

dirVars == <<table, publisher, cache, resolver, publishedAt, slowest>>
vars == <<clock, rootVars, dirVars>>

NoRow == [record |-> None, pending |-> FALSE]
Row == [record : AllRecords, pending : BOOLEAN] \cup {NoRow}

\* row is what findById has returned, loaded what the SELECT of merge() has.
Publisher == [pc : {"idle", "compared", "absent", "merging", "inserting", "rotating"},
              record : AllRecords \cup {None}, key : Keys \cup {None},
              row : Row, loaded : Row]
NoPublication ==
    [pc |-> "idle", record |-> None, key |-> None, row |-> NoRow, loaded |-> NoRow]

Cached == [record : AllRecords \cup {None}, storedAt : Nat]
NotCached == [record |-> None, storedAt |-> 0]

\* record is what the lookup has read, or the view it has returned.
Resolver == [pc : {"idle", "read", "refresh", "refreshed", "retry", "found", "answered"},
             key : Keys \cup {None}, at : Times \cup {0},
             record : AllRecords \cup {None}, readAt : Nat,
             again : BOOLEAN, root : Roots \cup {None}]
NoLookup == [pc |-> "idle", key |-> None, at |-> 0, record |-> None, readAt |-> 0,
             again |-> FALSE, root |-> None]

TypeOK ==
    /\ RootTypeOK
    /\ clock \in Nat
    /\ table \in [Keys -> Row]
    /\ publisher \in [Publishers -> Publisher]
    /\ cache \in [Keys -> Cached]
    /\ resolver \in [Resolvers -> Resolver]
    /\ publishedAt \in [Keys -> Nat]
    /\ slowest \in Nat

-----------------------------------------------------------------------------

Init ==
    /\ RootInit
    /\ clock = 0
    /\ table = [k \in Keys |-> NoRow]
    /\ publisher = [p \in Publishers |-> NoPublication]
    /\ cache = [k \in Keys |-> NotCached]
    /\ resolver = [c \in Resolvers |-> NoLookup]
    /\ publishedAt = [k \in Keys |-> 0]
    /\ slowest = 0

\* DirectoryRecordVerifier.verify.
Verifies(record, root) == clock - record.issuedAt <= MaxAge /\ Quorum(record, root)

Write(k, row) ==
    /\ table' = [table EXCEPT ![k] = row]
    /\ publishedAt' = [publishedAt EXCEPT ![k] = IF row.record = table[k].record THEN @ ELSE clock]

-----------------------------------------------------------------------------

\* Slip: a record as old as the one that is there is not refused.
PublishAnyAge(p) ==
    /\ publisher[p].pc = "idle"
    /\ begun < MaxBegun
    /\ begun' = begun + 1
    /\ \E d \in Records :
         /\ Verifies(d, memory)
         /\ publisher' = [publisher EXCEPT ![p] =
                [pc |-> IF table[d.key] = NoRow THEN "absent" ELSE "compared",
                 record |-> d, key |-> d.key, row |-> table[d.key], loaded |-> NoRow]]
    /\ UNCHANGED <<clock, memory, history, nextId, due, admin, boot,
                   table, cache, resolver, publishedAt, slowest>>

\* publish: the record verifies against the root in memory, and findById has returned no
\* row or an older one (not RecordStale).
Publish(p) ==
    /\ publisher[p].pc = "idle"
    /\ begun < MaxBegun
    /\ begun' = begun + 1
    /\ \E d \in Records :
         /\ Verifies(d, memory)
         /\ table[d.key] # NoRow => table[d.key].record.issuedAt < d.issuedAt
         /\ publisher' = [publisher EXCEPT ![p] =
                [pc |-> IF table[d.key] = NoRow THEN "absent" ELSE "compared",
                 record |-> d, key |-> d.key, row |-> table[d.key], loaded |-> NoRow]]
    /\ UNCHANGED <<clock, memory, history, nextId, due, admin, boot,
                   table, cache, resolver, publishedAt, slowest>>

\* save() of an entity with an assigned identifier is merge(), which selects again.
Merge(p) ==
    /\ publisher[p].pc = "absent"
    /\ LET row == table[publisher[p].key]
       IN  publisher' = [publisher EXCEPT ![p].loaded = row,
                                          ![p].pc = IF row = NoRow THEN "inserting" ELSE "merging"]
    /\ UNCHANGED <<clock, rootVars, table, cache, resolver, publishedAt, slowest>>

EndPublication(p) == publisher' = [publisher EXCEPT ![p] = NoPublication]

Published(p, pending) == [record |-> publisher[p].record, pending |-> pending]

\* The flush writes every column: the mark as it was read, unless the key is revoked.
CommitUpdate(p) ==
    /\ publisher[p].pc = "compared"
    /\ Write(publisher[p].key,
             Published(p, publisher[p].row.pending /\ publisher[p].record.status # "revoked"))
    /\ EndPublication(p)
    /\ UNCHANGED <<clock, rootVars, cache, resolver, slowest>>

\* The flush of a new entity that was merged into the row it met: nothing is written if
\* that row is the same.
CommitMerge(p) ==
    /\ publisher[p].pc = "merging"
    /\ IF publisher[p].loaded = Published(p, FALSE)
       THEN UNCHANGED <<table, publishedAt>>
       ELSE Write(publisher[p].key, Published(p, FALSE))
    /\ EndPublication(p)
    /\ UNCHANGED <<clock, rootVars, cache, resolver, slowest>>

CommitInsert(p) ==
    /\ publisher[p].pc = "inserting"
    /\ table[publisher[p].key] = NoRow
    /\ Write(publisher[p].key, Published(p, FALSE))
    /\ EndPublication(p)
    /\ UNCHANGED <<clock, rootVars, cache, resolver, slowest>>

\* rotateSigningKey: there is an active record.
CheckActive(p) ==
    /\ publisher[p].pc = "idle"
    /\ begun < MaxBegun
    /\ begun' = begun + 1
    /\ \E k \in Keys :
         /\ table[k] # NoRow
         /\ table[k].record.status = "active"
         /\ publisher' = [publisher EXCEPT ![p] =
                [pc |-> "rotating", record |-> None, key |-> k, row |-> NoRow, loaded |-> NoRow]]
    /\ UNCHANGED <<clock, memory, history, nextId, due, admin, boot,
                   table, cache, resolver, publishedAt, slowest>>

\* markPendingRevocationBySubjectIdAndKeyId, whatever the row has become.
CommitMark(p) ==
    /\ publisher[p].pc = "rotating"
    /\ Write(publisher[p].key, [table[publisher[p].key] EXCEPT !.pending = TRUE])
    /\ EndPublication(p)
    /\ UNCHANGED <<clock, rootVars, cache, resolver, slowest>>

\* A statement or the commit fails; an INSERT that meets the key of another one always does.
AbortPublication(p) ==
    /\ publisher[p].pc # "idle"
    /\ EndPublication(p)
    /\ UNCHANGED <<clock, rootVars, table, cache, resolver, publishedAt, slowest>>

\* init-dev-trust writes the record of a key it has generated together with its root.
CommitDevTrust(a) ==
    /\ CommitSeed(a)
    /\ \E d \in DevRecords :
         /\ Quorum(d, admin[a].root)
         /\ table[d.key] = NoRow
         /\ Write(d.key, [record |-> d, pending |-> FALSE])
    /\ UNCHANGED <<clock, publisher, cache, resolver, slowest>>

-----------------------------------------------------------------------------

InWindow(at, record) == record.from <= at /\ at < record.until

\* filterByTime.
Answer(c, lookup, record) ==
    resolver' = [resolver EXCEPT ![c] =
        [NoLookup EXCEPT !.pc = "answered", !.key = lookup.key, !.at = lookup.at,
                         !.record = IF record # None /\ InWindow(lookup.at, record)
                                    THEN record ELSE None]]

\* Slip: what is cached does not expire.
CacheHitsForever(k) == cache[k].record # None

CacheHits(k) == cache[k].record # None /\ clock - cache[k].storedAt < CacheTtl

\* resolve for an envelope that arrives, as far as the SELECT of resolveOnce.
Resolve(c, k, at) ==
    /\ resolver[c].pc = "idle"
    /\ LET lookup == [NoLookup EXCEPT !.key = k, !.at = at]
       IN  IF CacheHits(k)
           THEN Answer(c, lookup, cache[k].record)
           ELSE resolver' = [resolver EXCEPT ![c] =
                    [lookup EXCEPT !.pc = "read", !.record = table[k].record, !.readAt = clock]]
    /\ UNCHANGED <<clock, rootVars, table, publisher, cache, publishedAt, slowest>>

ReadVerifies(c) == resolver[c].record # None /\ Verifies(resolver[c].record, memory)

VerifyRecord(c) ==
    /\ resolver[c].pc = "read"
    /\ ReadVerifies(c)
    /\ resolver' = [resolver EXCEPT ![c].pc = "found"]
    /\ UNCHANGED <<clock, rootVars, table, publisher, cache, publishedAt, slowest>>

\* Slip: the root is reloaded only when there is no record, not when none verifies.
MayRefreshIfMissing(c) == CanRefresh /\ ~resolver[c].again /\ resolver[c].record = None

MayRefresh(c) == CanRefresh /\ ~resolver[c].again

\* reloadFromDbIfStale wins the interval.
Refresh(c) ==
    /\ resolver[c].pc = "read"
    /\ ~ReadVerifies(c)
    /\ MayRefresh(c)
    /\ due' = FALSE
    /\ resolver' = [resolver EXCEPT ![c].pc = "refresh"]
    /\ UNCHANGED <<clock, memory, history, nextId, admin, boot, begun,
                   table, publisher, cache, publishedAt, slowest>>

GiveUp(c) ==
    /\ resolver[c].pc = "read"
    /\ ~ReadVerifies(c)
    /\ ~MayRefresh(c)
    /\ Answer(c, resolver[c], None)
    /\ UNCHANGED <<clock, rootVars, table, publisher, cache, publishedAt, slowest>>

ReadRoot(c) ==
    /\ resolver[c].pc = "refresh"
    /\ \E r \in Roots \cup {None} :
         IsNewest(r) /\ resolver' = [resolver EXCEPT ![c].pc = "refreshed", ![c].root = r]
    /\ UNCHANGED <<clock, rootVars, table, publisher, cache, publishedAt, slowest>>

\* The second resolveOnce: a row that was found is in the persistence context of the ingest
\* and comes back as it was read; only one that was missing is selected anew.
Retry(c) ==
    resolver' = [resolver EXCEPT
        ![c].pc = IF resolver[c].record = None THEN "retry" ELSE "read",
        ![c].again = TRUE, ![c].root = None]

\* Slip: what the query returns is set, also when it returns nothing.
SetRootAlways(c) ==
    /\ resolver[c].pc = "refreshed"
    /\ memory' = resolver[c].root
    /\ Retry(c)
    /\ UNCHANGED <<clock, history, nextId, due, admin, boot, begun,
                   table, publisher, cache, publishedAt, slowest>>

\* The root that was read replaces the one in memory.
SetRoot(c) ==
    /\ resolver[c].pc = "refreshed"
    /\ memory' = IF resolver[c].root = None THEN memory ELSE resolver[c].root
    /\ Retry(c)
    /\ UNCHANGED <<clock, history, nextId, due, admin, boot, begun,
                   table, publisher, cache, publishedAt, slowest>>

\* The SELECT of the second resolveOnce, after one that found no row.
ReadAgain(c) ==
    /\ resolver[c].pc = "retry"
    /\ resolver' = [resolver EXCEPT ![c].pc = "read", ![c].readAt = clock,
                                    ![c].record = table[resolver[c].key].record]
    /\ UNCHANGED <<clock, rootVars, table, publisher, cache, publishedAt, slowest>>

Longer(a, b) == IF a >= b THEN a ELSE b

\* cache.put and the answer.
Put(c) ==
    /\ resolver[c].pc = "found"
    /\ cache' = [cache EXCEPT ![resolver[c].key] =
                     [record |-> resolver[c].record, storedAt |-> clock]]
    /\ slowest' = Longer(slowest, clock - resolver[c].readAt)
    /\ Answer(c, resolver[c], resolver[c].record)
    /\ UNCHANGED <<clock, rootVars, table, publisher, publishedAt>>

\* The ingest goes on with the answer.
Finish(c) ==
    /\ resolver[c].pc = "answered"
    /\ resolver' = [resolver EXCEPT ![c] = NoLookup]
    /\ UNCHANGED <<clock, rootVars, table, publisher, cache, publishedAt, slowest>>

-----------------------------------------------------------------------------

Tick ==
    /\ clock < MaxClock
    /\ clock' = clock + 1
    /\ UNCHANGED <<rootVars, dirVars>>

\* The server stops and starts.
Restart ==
    /\ RootRestart
    /\ publisher' = [p \in Publishers |-> NoPublication]
    /\ cache' = [k \in Keys |-> NotCached]
    /\ resolver' = [c \in Resolvers |-> NoLookup]
    /\ UNCHANGED <<clock, table, publishedAt, slowest>>

RootStep(a) ==
    VerifyUpdate(a) \/ InsertRoot(a) \/ ApplyRoot(a) \/ CommitRoot(a) \/ AbortRoot(a) \/ SeedRoot(a)

Commit(p) == CommitUpdate(p) \/ CommitMerge(p) \/ CommitInsert(p) \/ CommitMark(p)

Lookup(c) ==
    \/ VerifyRecord(c) \/ Refresh(c) \/ GiveUp(c)
    \/ ReadRoot(c) \/ SetRoot(c) \/ ReadAgain(c) \/ Put(c) \/ Finish(c)

Next ==
    \/ \E a \in Admins : RootStep(a) /\ UNCHANGED <<clock, dirVars>>
    \/ \E a \in Admins : CommitDevTrust(a)
    \/ (BootRead \/ BootSet \/ IntervalElapses) /\ UNCHANGED <<clock, dirVars>>
    \/ \E p \in Publishers :
         Publish(p) \/ Merge(p) \/ Commit(p)
         \/ CheckActive(p) \/ AbortPublication(p)
    \/ \E c \in Resolvers : Lookup(c) \/ \E k \in Keys, at \in Times : Resolve(c, k, at)
    \/ Tick \/ Restart

Spec == Init /\ [][Next]_vars

\* Threads run, the start ends and time passes; an issuer whose envelope was refused
\* sends it again.
FairSpec ==
    /\ Spec
    /\ WF_vars((BootRead \/ BootSet \/ IntervalElapses) /\ UNCHANGED <<clock, dirVars>>)
    /\ \A c \in Resolvers : WF_vars(Lookup(c))
    /\ \A k \in Keys, at \in Times : SF_vars(\E c \in Resolvers : Resolve(c, k, at))

-----------------------------------------------------------------------------

SignedByTrusted(record) == \E r \in Trusted : Quorum(record, r)

\* Whatever overlaps, rolls back or restarts: every root in use and every record that is
\* stored, cached or served descends, signature by signature, from the configured root or
\* one the operator has seeded.
TrustDescends ==
    /\ memory \in Trusted
    /\ \A row \in history : row.root \in Trusted
    /\ \A k \in Keys : table[k] # NoRow => SignedByTrusted(table[k].record)
    /\ \A k \in Keys : cache[k].record # None => SignedByTrusted(cache[k].record)
    /\ \A c \in Resolvers :
         resolver[c].pc = "answered" /\ resolver[c].record # None
             => SignedByTrusted(resolver[c].record)

Publishes(p, k) ==
    publisher[p].key = k /\ publisher[p].record # None /\ publisher'[p].pc = "idle"

\* The record of a key is replaced by newer ones only, and its mark goes with its
\* revocation only, unless the publication that does otherwise has not seen the row it
\* replaces.
PublicationsForward ==
    [][\A k \in Keys :
         table[k] # NoRow /\ table'[k] # table[k] =>
             \/ table'[k] = [table[k] EXCEPT !.pending = TRUE]
             \/ /\ table'[k].record.issuedAt > table[k].record.issuedAt
                /\ table[k].pending => table'[k].pending \/ table'[k].record.status = "revoked"
             \/ \E p \in Publishers : Publishes(p, k) /\ publisher[p].row # table[k]]_vars

\* A record that was replaced is not served any more once the new one has been stored for
\* the time a key is cached and the longest lookup takes. (It says nothing of status, which
\* the resolver does not read: a revocation ends a key by the valid_until it brings.)
ReplacedRecordsExpire ==
    [][\A c \in Resolvers :
         LET k == resolver'[c].key
         IN  /\ resolver[c].pc # "answered"
             /\ resolver'[c].pc = "answered"
             /\ resolver'[c].record # None
             /\ clock >= publishedAt[k] + CacheTtl + slowest'
             => resolver'[c].record = table[k].record]_vars

\* plan.md:213: the wallet verifies that the key "is `active` for this `issuer_id` in the
\* directory at the current time". The code does not: a revoked key that was valid at the
\* created_at which the envelope names is served (Directory_revoked.cfg).
ServedKeysAreActive ==
    \A c \in Resolvers :
        resolver[c].pc = "answered" /\ resolver[c].record # None
            => resolver[c].record.status = "active"

\* The record that is stored verifies under the newest root that is stored and covers the
\* envelope, and no other one is cached.
Resolvable(k, at) ==
    /\ table[k] # NoRow
    /\ \E row \in history : IsNewest(row.root) /\ Verifies(table[k].record, row.root)
    /\ InWindow(at, table[k].record)
    /\ cache[k].record \in {None, table[k].record}

\* A server whose root in memory is not the stored one (seeded beside it, rolled back,
\* overtaken, or not loaded yet) finds the stored one: an issuer that keeps sending an
\* envelope whose key is resolvable gets through.
IssuerGetsThrough ==
    \A k \in Keys, at \in Times :
        <>[]Resolvable(k, at) =>
            []<>(\E c \in Resolvers :
                    /\ resolver[c].pc = "answered"
                    /\ resolver[c].key = k
                    /\ resolver[c].at = at
                    /\ resolver[c].record # None)

=============================================================================
