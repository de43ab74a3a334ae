# Verification of the data wallet

TLA+ models of the data wallet server, the TLC runs that check them on small
instances, and theorems about them that TLAPS checks for every instance.

A module models code, and each of its definitions names the lines it stands for
(`PROJECT.json`, `map`). A comment that begins with "Slip:" marks a definition
that is *not* the code: it is the way a plausible mistake would change the
definition that follows it, and it is there to show that a property notices.

## 1. The system

The repository has three programs: a Spring Boot **server** over PostgreSQL, a
Flutter **client** for verifiers, and a Java **command line** for issuers and
operators. Issuers upload signed, encrypted entries addressed to verifiers;
verifiers log in by signature and read what is addressed to them; a quorum of
root holders publishes the directory of keys. The server never sees plaintext.

The server keeps all shared state in tables. Its requests are threads, each in a
READ COMMITTED transaction; there are no retries on the server, and two kinds of
writes run in transactions of their own in the middle of a request
(`REQUIRES_NEW`): audit events and the lockout counter. Almost everything that is
hard here follows from that: statements of two requests interleave between any
two lines, an entity that was read is written back whole at the commit, `save()`
of an entity with an assigned id is a merge that looks first and writes later,
and what has committed on the side stays when the request is rolled back.

### Inventory

| Component | State | Operations | What is hard | What makes it correct |
|---|---|---|---|---|
| Entry ingest and purge (`EntryIngestService`, `SupersededPurgeJob`) | `entries`, `entry_recipients` | create, update, purge | flip, insert and event are three steps; two updates of one version; merge against a concurrent insert; purge between them | one current version, no gaps, issuer-only replacement, nothing lost before its retention ends, every request ends |
| Shared reads (`SharedController`) | none | list, detail | two statements with two snapshots; pages over a list that changes | a stable entry is listed once; 404/410 mean what they say |
| Audit chain (`HashChainAuditService`) | `audit_log`, its sequence | recordEvent | a lock on "the newest row", gaps in the sequence | every row hangs on a committed one; one successor per row |
| Audit read endpoint (`AdminAuditController`) | none | page by `since_seq` | numbers commit out of order | a poller passes no row of an unforked chain, and gets on |
| Authentication (`AuthController`, `AuthLockoutService`, `BearerAuthFilter`) | `auth_challenges`, `auth_lockouts`, `sessions` | challenge, verify, logout | one nonce presented twice; the lockout counts in transactions of its own | single-use nonces, no early lock, few guesses past a lock |
| Verifier account (`VerifierController`, `VerifierKeyService`) | `verifiers` | register, login blob, change password, rotate keys | read-modify-write of a whole row; sessions opened meanwhile | retired keys stay retired |
| Directory and pinned root (`AdminDirectoryController`, `AdminRootUpdateController`, `IssuerKeyController`, `PinnedRootHolder`, `IssuerKeyResolverImpl`) | `directory_records`, `pinned_root_history`, a root in memory, a cache | publish, mark for rotation, update the root, reload, start, resolve | memory against table, cache against replaced records, publications that have not seen each other | trust descends from the configured root, records move forward, bounded staleness, the stored root is found again |
| Rate limiting and connections (`RateLimitService`, the pool) | `rate_limits`, connections | consume, borrow, return | the clock is read before the row lock; a request holds one connection and needs a second | no more than burst plus refill, Retry-After is enough, every request is answered |
| Client (`WalletState`, login, list and detail screens) | session and keys in memory | login, lock, list, open | everything awaited outlives what it was awaited for | keys held only by a session or a login, no plaintext without its session, sessions end |
| Envelope verification (`EnvelopeVerifier`) | none | verify | only its key lookup | accepts only what the issuer's key signed |
| Directory queries and readiness; command line; cryptography and CBOR; HTTP filter chains | none; files; none; none | stateless reads; sequential commands; pure functions; declarations | little | round trips, checked by the repository's fixtures |

The components meet in these places: an ingest, a purge, a login and a rotation
each call `recordEvent` before they commit; reads see what ingests and purges
have committed; a rotation deletes sessions and marks directory records; envelope
verification asks the directory for the issuer's key; the directory verifies
against the pinned root; every endpoint asks the rate limiter first and takes its
connections from one pool.

## 2. What is modelled

| Module | Models | Checked by | Proved in |
|---|---|---|---|
| `EntryRegistry` | the promise: heads, superseded versions, retention | `store`; `reads`, `walk` (as the environment of the readers) | `SharedDetailProofs` |
| `EntryStore` | ingest and purge, statement by statement | `store`, `collide`, `overwrite` | `EntryStoreProofs` |
| `AuditChain` | the audit log | `audit`, `fork` | `AuditChainProofs` |
| `AuditPolling` | a reader of the log, composed with `AuditChain` | `audit` | `AuditChainProofs` |
| `SharedDetail`, `SharedList` | the two read endpoints, composed with `EntryRegistry` | `reads`, `walk` | `SharedDetailProofs`, `SharedListProofs` |
| `LoginTickets` | the promise of a login: a ticket opens one session | `login` | `AccountsProofs` |
| `Accounts` | authentication, lockout, password change, rotation | `login`, `retired` | `AccountsProofs` |
| `TrustRoot` | the pinned root in memory and in its table | `directory` | `DirectoryProofs` |
| `Directory` | records, publications, the resolver and its cache, composed with `TrustRoot` | `directory` | `DirectoryProofs` |
| `RequestPath` | the token bucket and the connections of a request | `requests` | `RequestPathProofs` |
| `KeyVault` | the promise of the app: what becomes of private keys | `client` | `WalletClientProofs` |
| `WalletClient` | the verifier's app | `client` | `WalletClientProofs` |

`MC...` modules only give constants their values.

### EntryStore and EntryRegistry

`EntryRegistry` has no threads and no rows: a set of heads, a set of superseded
versions, `Create`, `Publish`, `Expire` and time. `EntryStore` is the code. Its
variable `entries` holds *committed* rows; what a transaction has written and not
committed follows from the state of its thread in `tx`:

| Action | Code |
|---|---|
| `IngestNew` | `existsByEntryIdAndIssuerId` |
| `IngestUpdate` | `findCurrentByEntryId` and the checks after it |
| `Flip`, `FlipConflict` | the conditional `UPDATE ... SET current = FALSE`, which takes the row's lock at once |
| `Save` | the SELECT of `merge()`; what it finds decides later between INSERT and UPDATE |
| `RecordEvent` | the audit event, committed on its own |
| `CommitInsert`, `CommitOverwrite`, `CommitUnchanged`, `FlushFails` | the flush at the commit, against the primary key and the index of current rows |
| `Abort` | a rollback anywhere, the stop of the server included |
| `PurgeDelete` ... `PurgeAbort` | the purge job, whose deletion also holds locks until it commits |

Waiting is explicit: `RowLocked` and `FlushWaits` say for which transactions a
statement waits. `PastOf` and `HeadOf` map rows to the registry; every step of the
store is a step of the registry or leaves it unchanged.

### AuditChain

`ReadHead` picks the newest committed row when the statement starts; `LockHead`
is granted when nobody else holds that row, and the waiter goes on with the row it
had picked, as PostgreSQL does when the locked row was not changed. `Insert` draws
from the sequence, which no rollback takes back. A hash is represented by the
number of the row it belongs to.

`AuditPolling` adds a client that asks for the rows after the last `seq` it was given,
page by page. A writer draws its number before it commits, so such a client can pass a
row. The chain says when: a writer that commits late hangs on the same row as one that
did not, so whoever passes a row has a fork beside it (`SkippedRowsForked`).

### SharedDetail and SharedList

Both extend `EntryRegistry`: what readers are told is checked over the entries it allows
(`SharedList` over those without purges), and the store implements it under `FreshIds`. That
the two together say something of the store's readers is an argument, not a theorem: it
needs each registry step of the store to be one that the readers' modules allow. `detail` is two statements with registry steps in between. `list` is a
walk: a first request, with or without `since`, and then one request per
`next_cursor`, with creations and replacements in between. In a list, purges change
nothing that is read, so `SharedList` leaves them out.

### Accounts and LoginTickets

`LoginTickets` knows neither requests nor rows: tickets are issued, an unused one opens a
session, sessions end. `Accounts` is the code; its challenges are the tickets issued, and
its rows of `sessions`, expired ones included, come from tickets used.

One verifier, since verifiers share no row. `StartVerify`, `LoadVerifier`,
`CheckSignature` and `RejectNonce` are the statements of `verify` up to its
decision. A refused signature goes through `ReadFailures` and `WriteFailure`, or,
when there was no lockout row yet, `WriteFirstFailure`, where `save()` is a merge
again: of two first failures that overlap, the second overwrites the first, so one
failure is not counted (api.md:273 promises a lock after 10 in a row; it takes one
more then). `RecordSuccess` commits before `CommitLogin` does. `Authorize` is the
bearer filter, which runs before the transaction of the request; `LoadAccount`,
`DeleteSessions` and the commits are `changePassword`, `rotateKeys` and `logout`.
`account.key` and `account.blobs` tell the public key of the row from the key whose
wrapped private part the row holds.

The variables `logins`, `streak` and `late` are history: no action depends on them.

### TrustRoot and Directory

A root update goes through `VerifyUpdate` (against the root in memory), `InsertRoot`
(Hibernate inserts at once because the id is an IDENTITY; the number is drawn here),
`ApplyRoot` (`pinnedRootHolder.update`) and `CommitRoot`: memory runs ahead of the table
and stays there when the transaction is rolled back (`AbortRoot`). A reload is two steps
as well, the query and the assignment, with root updates between them; so is the start
(`BootRead`, `BootSet`), during which requests are served already, with the root of the
file. `SeedRoot` and `CommitDevTrust` are `init-dev-trust`, a process of its own that
writes a root and a record beside the server; it survives `Restart`. It exists outside
production only: `DevRoots` may be empty, and what it seeds is trusted by assumption.

`Publish` verifies a record, and compares it with the row `findById` finds. An existing
row is a managed entity, written back in `CommitUpdate` with all its columns. Without a
row, `save()` is a merge that looks again (`Merge`), and what it finds then is
overwritten (`CommitMerge`) although its `issued_at` was never compared. `CheckActive`
and `CommitMark` are the issuer's rotation, a single UPDATE of the mark.

`Resolve` up to `Put` and `GiveUp` is `resolve`: the cache, the row, the verification,
and, when nothing verifies, at most one reload of the root and a second attempt. Both
attempts run in the persistence context of the ingest's transaction, so a row that the first
SELECT has found comes back from the second as it was read, whatever has been published in
between (`Retry`); only one that was missing is read anew (`ReadAgain`). The reload is limited to once a second (`due`, `IntervalElapses`). A key is cached when the
lookup *ends*, with the time of that moment: a slow lookup caches what it has read long
ago, so the bound in `ReplacedRecordsExpire` is the lifetime of the cache and the longest
lookup, counted from the read it answers with (counted from the second attempt it is false: a
record replaced before the reload is cached after it). The resolver compares the validity window with
the envelope's `created_at` and never looks at `status`, so a revocation ends a key only
through the `valid_until` it brings (section 4, item 11). The histories are `publishedAt` and `slowest`.

The primary key of a record has its `record_type` too; the model has the records of
issuers' keys, the only ones `resolve` looks for.

### RequestPath

`consume()` is `Begin` (connection and clock), `Lock` (`insertIfAbsent` and
`findByKeyForUpdate` wait for the same holder) and `Allow` or `Deny`. The handler's own
transaction is `Open`; a `REQUIRES_NEW` call in it is `Nest`, `Record`, `CommitRecord`,
with the first connection kept. `TimeOut` is the pool's `connectionTimeout`, which is
what gets everybody on when all connections are held by requests in `nested`. Time is in
ticks, so that the truncation of `Duration.toMillis` and the rounding of Retry-After are
what they are in the code. `refilled_at` is set to the time a request has read before
it waited; where that sets it back, `rewound` counts by how much.

### WalletClient and KeyVault

`KeyVault` follows each login's keys from locked to gone: a vault holds one set of them at a
time, replacing or closing it destroys them, and an entry is opened with those in the vault.
Passwords, requests, frames and timers are left to `WalletClient`:

Dart runs one event at a time, so an action is what runs between two awaits, and every
await is a point at which the app may be hidden, the timer may fire or the user may tap.
`Frame` is the build of `_AppRoot`, which follows a change of the session only when a
frame is built. The login button also comes and goes with a frame (`DrawForm`): a second tap
before it submits the form again, and of two runs the one that ends first gives the button
back. That is how logins overlap. One detail screen at a time is on top of the list.
`keys` follows the buffers of each login: in force, overwritten by `Session.zero`, or
dropped without being overwritten by a login that failed later.

## 3. The runs

With two workers `directory` takes two to three minutes, each of the others less than one.

| Run | Question | Bounds |
|---|---|---|
| `store` | do the rows implement the registry, are readers the recipients, does every request end | 2 requests and the job, 3 versions, clock 0..2 with retention 1, 1 entry, 2 issuers, ids fresh up to retries |
| `collide` | do the invariants survive creations that collide within and across issuers | the same with 3 colliding creations |
| `overwrite` | is a collision rejected (plan.md:136) | violated |
| `audit` | what holds of the chain when 3 writers overlap and roll back, and which rows a reader passes | 3 writers, 3 numbers, a reader that asks for pages of 0 rows, which the endpoint raises to 1 |
| `fork` | does FOR UPDATE serialise writers (HashChainAuditService.java:25) | violated |
| `reads` | is a recent reader ever told 404 | 2 verifiers, 3 versions, clock 0..2 |
| `walk` | is every stable entry listed once | 3 entries, 2 instants (ties occur), pages of 1 |
| `login` | single-use nonces, honest locks, few late guesses | 2 requests, 2 nonces, 2 key pairs, 2 failures to a lock, clock 0..2 |
| `retired` | do rotated keys stay retired (plan.md:298, 300) | violated |
| `directory` | does trust descend, do records move forward, when is a replaced record gone, is the stored root found again | 2 administrators, 2 publishers, 1 resolver, 3 operations begun (updates, publications, marks, seedings and restarts together), clock 0..2 with a cache of 1 |
| `requests` | how much does the bucket hand out, is Retry-After enough, does every request end | 2 requests on 2 connections, a burst of 2 tokens of 3 ticks each, milliseconds and seconds of 2 ticks (the shortest second there can be, which leaves Retry-After the least slack), clock 0..4 |
| `client` | who holds keys, what is decrypted for whom, do sessions end | 3 logins, 3 pages, a phone |

Why these bounds are enough to be interesting. Entries share no row and no index
entry except through the audit log, so one entry shows what many do. Two requests
give every pairwise race, and a third only repeats one of them against a different
moment; the theorems cover every number. Three versions and a clock that passes the
retention once let the purge delete one version while a newer superseded one stays,
and run beside an update. In `login` a lock can be set, pass, and be set again, a
nonce can expire, and a session can expire under a request. In `directory` three
operations are a root update, a publication under it and a restart, or two
publications and a mark; the records are an active one, its revocation, and a successor
that verifies only under the new root. In `requests` both requests can hold one
connection and want another, and one can be late at the row by two ticks. In `client`
the second login can be on its way while the first session is in force, hidden, or
replaced. Each passing property has a mutant in `PROJECT.json`, a slip in the code's own
terms for which the same run finds a violation.

Deadlock is checked in the `EntryStore`, `SharedDetail`, `RequestPath` and `WalletClient`
runs. It is off where the bound itself ends a behaviour: the sequence in `AuditChain`, the
walk in `SharedList`, the operations begun in `Directory`, the clock in `Accounts`, whose
requests can all be finished with every session and nonce expired. In the `EntryStore`
runs the purge job can always start.

Five configurations belong to no run above. `AuditChain_overlap.cfg` is the chain without
a reader and with one number more; `AuditChain_gap.cfg`, `SharedDetail_gone.cfg`,
`SharedList_since.cfg` and `Directory_revoked.cfg` show four of the disagreements in section 4.

### Properties

* `OneCurrentVersion`, `FlipDecides`, `VersionsContiguous`: the conditional update
  alone decides between two updates, and after any mixture of steps an entry has one
  current version above an unbroken history.
* `StoredVersionsAudited`: an event may be there without its version (the request was
  rolled back afterwards), never a version without its event.
* `ImplementsRegistry`, `ReadersAreRecipients`: need `FreshIds`, that all creations of an
  id carry the same envelope. `overwrite` shows what happens without it.
* `HoldersDoNotWait`: the insert of an update waits for every other transaction that writes
  the same key, and its own flip makes others wait; yet whoever has flipped waits for
  nobody, because it alone has the entry's current row. So there is no circle of waits.
* `HistoryKept`: what `entries` may forget. Beside versions past their retention this is a
  first version that stands alone and is overwritten: a collision costs the envelope of a
  new entry and never a later version or a superseded one.
* `RequestsEnd`: requests wait for each other's locks only in ways that end.
* `Rooted`, `ForksBounded`: what is left of the chain although writers are not
  serialised: it is a tree that hangs on the genesis hash, as wide as the number of
  writers at most. `SkippedRowsForked`, `ReaderReachesRows`: what a poller may rely on.
* `RecentReadersNotTold404`, `StableListedOnce`: the readers' view of concurrent change.
* `NonceUsedOnce`, `LockedOnlyAfterFailures`, `LateGuessesBounded`: see `Accounts`.
  `ImplementsTickets` says more of sessions than that nonces are single-use: a session that
  a logout or a rotation has deleted is never there again.
* `TrustDescends`: whatever overlaps, rolls back or restarts, roots and records in use are
  signed, step by step, from a root somebody has configured or seeded. It allows an older
  root, or one whose update was rolled back; how those are left behind is
  `IssuerGetsThrough`.
* `PublicationsForward`: what a publication that has seen the row it replaces may do to it.
  The exception is real: two that have not seen each other can set `issued_at` and the
  status back, and lose the mark for rotation.
* `ReplacedRecordsExpire`, `IssuerGetsThrough`: the two sides of a cache, that an old answer
  ends and that a server with the wrong root in memory finds the stored one. The first is
  about which record is served, not about its status.
* `GrantsBounded`, `SustainedRate`: `GrantsBounded` is exact about what late requests gain;
  `SustainedRate` is the promise of api.md section 6 for spans in which there are none.
* `RetryAfterHonored`: truncated milliseconds and rounded seconds do not make a client that
  comes back on time come back again.
* `RequestsAnswered`: nobody waits for a connection for ever.
* `KeysAreHeld`, `PlaintextNeedsSession`, `PagesInOrder`, `SessionsEnd`: the client between
  its awaits. `PlaintextNeedsSession` rests on the overwritten buffers: nothing else stops
  a detail screen whose session ended. `ImplementsVault` adds that no order of answers
  brings keys back that were overwritten or dropped. `PagesInOrder` is about the wallet of
  one verifier: the pages do not depend on whose session asks, so a list that goes on with
  the session of another verifier is outside it. `KeysAreHeld` exempts the keys of failed
  logins (section 4, item 7).

### Fairness

* `store` (`EntryStore!FairSpec`): each thread is weakly fair in the steps that wait for
  nothing. The flip and the flush can be blocked by other transactions again and again, each
  time for a finite time; PostgreSQL queues waiters, so they are strongly fair. The purge job
  runs every day and is rolled back only by a fault, so not every one of its runs fails: its
  event and its commit are strongly fair. Nothing is assumed of `Abort`, of new requests or
  of the clock.
* `audit`: the reader polls again (weakly fair). Nothing is assumed of writers.
* `directory`: threads run, the start ends and a second passes (weakly fair); an issuer whose
  envelope was refused sends it again (strongly fair, because the cache can answer in
  between). Nothing is assumed of administrators.
* `requests`: threads run and a wait for a connection times out (weakly fair, in one
  disjunction: the timeout itself is enough); the row lock is queued (strongly fair).
* `client`: a timer that runs and is not started anew for ever fires. This is the timer of a
  running Dart isolate: nothing happens while the system has suspended the process. A user who opens entries for ever
  does start it anew, which `SessionsEnd` and `FairSpec` both say (`KeepsOpening`).

## 4. Where code and documents disagree

Three are runs that TLC finds violated, with the quoted line in `PROJECT.json`.

1. `overwrite`: a second creation of an entry id can replace the stored envelope.
   The check looks for the pair of entry and issuer, the primary key is the pair of
   entry and version, and `save()` is a merge.
2. `fork`: two audit events can carry the same `prev_hash`.
3. `retired`: a password change that overlaps a rotation writes the old keys back. Excluding
   it in the model leaves two more ways: a login that has read the old key commits its
   session after the rotation, and a password change whose session the rotation deletes writes
   the old wrapped keys beside the new public one.

What else the models show, without a run of its own:

4. After one rollback the stored `seq` is no longer the number that was hashed
   (`HashedSeqIsStored`, `AuditChain_gap.cfg`).
5. A dropped recipient is told 410 while the versions that named them are stored, and 404
   once they are purged, the opposite of api.md:208 (`GoneMeansPurged`, `SharedDetail_gone.cfg`).
6. The pages after the first one are not filtered by `since`, unlike api.md:164
   (`SinceRespected`, `SharedList_since.cfg`).
7. plan.md:337 says that keys are zeroed on loss of tab visibility; the client does so in
   `paused`, which a browser never reports (`HiddenHoldsNoSession`). On a phone a login that
   is awaited when the app is paused stores its session afterwards, which then stays until its
   timer fires (`SessionsEnd`). crypto-formats.md:332 says that both private keys MUST be
   zeroed when no longer needed; a login that fails after it has unwrapped them drops them as
   they are ("lost" in `WalletClient`).
8. crypto-formats.md:206 calls the status of records append-only; see `PublicationsForward`.
9. A first root update that is rolled back leaves its root in memory with no row in the
   table to reload, until the next update or restart. A server with an old root keeps it as
   long as whatever it is asked for verifies under it, since only a failure reloads.
10. `V6` withdraws UPDATE on `audit_log` from the application's role although
    `SELECT ... FOR UPDATE` requires it.
11. plan.md:213 says that the wallet MUST verify that the issuer's key is `active` "in the
   directory at the current time". It compares `valid_from` and `valid_until` with the
   `created_at` the envelope names, and nothing else: a revoked key goes on signing envelopes
   that are dated before the end of its window (`ServedKeysAreActive`,
   `Directory_revoked.cfg`).

## 5. The proofs

The theorems hold for every number of threads, entries, verifiers, nonces, keys, roots and
versions, and every retention, limit, burst and lifetime. They assume what the modules state
with ASSUME: constants are numbers where they are counted, `None` is none of the values it
stands beside, writers and requests are finite (for counting them), updates bring roots, a
bucket holds a token or more (the policies' bursts are 5 and more) and a second is a whole
number of milliseconds.

Some theorems assume more, in their own statement, because the property is false without it
and a run shows so: `FreshIds` (creations of an id carry one envelope) in
`ReadersStayRecipients`, `StoreImplementsRegistry` and `FreshIdsReject`, where `overwrite`
collides two; one writer at a time in `OneWriterSerialized`, where `fork` overlaps two; one
request of the verifier at a time in `SerialRequestsRetireKeys`, where `retired` overlaps two;
one writer that loses no number of the sequence in `NumbersAgreeWithoutLoss`, where
`AuditChain_gap.cfg` loses one. They name conditions under which what the documents promise
is true; section 4 has what happens otherwise.

* **EntryStoreProofs.** The invariant `IInv` has, beside types, that keys are unique, that
  the current row is the newest (`CurrentIsLatest`), that a transaction that has flipped
  holds the current row alone (`FlipHolds`), that the purge touches superseded rows only,
  and that exactly those have an instant. `OneCurrentVersion` alone is not inductive: a
  commit replaces the row only because of `FlipHolds`. A lemma reduces every commit to
  three cases (created, replaced, overwrote). `HistoryKept` reads them from the row that was
  there before: to be overwritten a row has to be the first version and current, and then
  `CurrentIsLatest` leaves no other. `NoDeadlock` needs `FlipHolds` for the key: two writers
  of one version would both have flipped the row below it. Versions are contiguous because
  superseded instants are ordered as versions are, so that a cut-off removes a lower part;
  audited because the event of a transaction is in the log when it reaches its commit. Under
  `FreshIds` no commit overwrites, hence readers are recipients, and every step maps to
  `Create`, `Publish`, `Expire`, `Tick` or a stutter, and `CollisionRejected` holds
  (`FreshIdsReject`).
* **SharedDetailProofs.** Heads stay unique and newest in the registry. A reader is told 404
  only when every version that named it is purged, and what is purged is older than the
  retention, which time only makes truer.
* **SharedListProofs.** The first part is about one page. Rows are totally ordered, as no two
  have the same id, and a finite set of them has a newest and an oldest row (by well-founded
  induction on strict subsets); hence a page holds the first rows, its cursor is its last one,
  and everything else that could be read comes after the cursor (`PageDivides`). The invariant
  of the walk says that a version stable so far is on one page if it is not after the cursor,
  and on none otherwise (`ListedSoFar`). Neither depends on the page size or on the ids.
  `WalksDescend` says of everything listed, stable or not, that it descends from page to
  page; its invariant says that all of it comes before the cursor or is the row it names. It
  says that the first page respects `since`, which `SharedList_since.cfg` refutes of later ones.
* **AuditChainProofs.** `Rooted` needs that a thread's head was committed and is below
  the number it draws; `ForksBounded` counts, for each row, its successors and the
  writers that have it as their head: the sum grows only when a writer reads the row as
  the head, and the row then has no successor, so it never exceeds the number of writers.
  For the reader: in a chain without forks rows commit in the order of their numbers, and a
  page is a lower part of what is unread. With one writer, what it has read is the head until
  it commits, so no row gets a second successor (`OneWriterSerialized`); and if no number is
  lost, the next one is the head's plus one (`NoGap`), which is what `recordEvent` hashes.
* **AccountsProofs.** `NonceUsedOnce` needs that whoever has passed the check holds the
  row of its nonce alone and the nonce is unused; `LockedOnlyAfterFailures` that whoever
  has read the lockout row holds it alone and what it read is current;
  `LateGuessesBounded` that under a lock the late guesses and the requests that have
  passed the check and not guessed are together fewer than the threads. With one request at a
  time, what a request has read of the row and of the sessions is still so when it writes
  (`SerialInv`). For `LoginTickets`, every action maps to `Issue`, `Login`, `End` or a
  stutter: a commit is `Login` because its nonce is locked and unused, and every other change
  of `sessions` removes some. `SessionsHaveOwnNonces` is proved of the tickets and holds of
  the account by that refinement.
* **DirectoryProofs.** The invariant has three parts. `RootInv`: whatever holds a root
  (memory, table, updates on their way, reload, start) holds a trusted one; trust is the least
  set closed under updates, and so contains what a trusted root's quorum has signed.
  `TableInv`: what a publication holds in each state, in particular that it has compared
  `issued_at` exactly when it has seen a row. `ResolverInv`: what is read or cached is the row
  or was overtaken after it was read (`Overtaken`), which no commit can disturb; it holds
  across a reload because the time of the first read is kept with the record.
* **RequestPathProofs.** `GrantsBounded` is inductive beside types and the fact that no time
  in use lies in the future: one use refills at most the time that has passed since
  `refilled_at`, plus what it sets back. `SustainedRate` follows. `RetryAfterHonored` needs what
  a denial leaves behind (`PromiseSound`): from `refilled_at`, which a late request may have
  set back, to the promised time the whole milliseconds refill what was missing. Rounding up
  to a second is rounding up to a millisecond or more, and dropping the part of a millisecond
  from a longer time leaves no fewer whole ones (`RoundedUp`, `MillisKept`). The type
  invariant holds the count of connections, which a lemma reduces to one thread's share.
* **WalletClientProofs.** `KeysInv` follows the keys of each attempt through its login; the
  session in force belongs to an attempt that has ended, so no answer still awaited touches
  its keys. A screen names a session that has been in force once (`Entered`): its keys are
  either those of the session in force or overwritten, and it opens nothing with the latter.
  These facts are what the steps of `KeyVault` ask for: `Open` is a login that still has its
  keys, `Close` overwrites those of the session in force and no others.

Model-checked only: liveness (`RequestsEnd`, `ReaderReachesRows`, `IssuerGetsThrough`,
`RequestsAnswered`, `SessionsEnd`), which is out of the prover's reach, and the violations
themselves. Every invariant and every action property of a passing run has its theorem.

## 6. What is not modelled

* Contents: ciphertext, keys, hashes and signatures are values that are equal or not.
  Signatures cannot be forged and hashes do not collide.
* A request that is refused before it writes anything, unless the refusal matters to a
  property: it would be a step that changes nothing.
* Registration, the login blob and the checks of handles and KDF parameters: single
  inserts and stateless predicates. Of the account, what meets sessions is in `Accounts`.
* Several server processes. Requests meet in the database only, so for most modules they
  are more threads; a second root in memory and a second cache are not in `Directory`.
* Directory queries and readiness, which read and change nothing; the policy table of the
  rate limiter and how it finds a bucket's key, a lookup; all requests share one bucket.
* The command line, except for what `init-dev-trust` writes; the filter chains, CBOR and the
  wrappers of libsodium, which have no shared state. `web/sodium.js` is a vendored build of
  libsodium, not code of this project.

## 7. Order of work

`EntryRegistry` and `EntryStore`, `AuditChain`, the two readers and `Accounts` came first, then
`AuditPolling`, `TrustRoot` and `Directory`, `RequestPath`, and `WalletClient`. What could
follow, the most consequential first:

1. A second server in `Directory`, whose memory and cache learn of an update only by
   reloading, and its composition with `EntryStore` through the key lookup of an ingest.
2. `Directory` with `Accounts`, through the mark that a rotation of a verifier's keys sets.
3. Pure functions against reference definitions over bounded inputs: handles, KDF floors,
   the order of keys in canonical CBOR.
