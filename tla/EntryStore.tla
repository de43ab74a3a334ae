----------------------------- MODULE EntryStore -----------------------------
(***************************************************************************)
(* EntryIngestService (POST and PUT /v1/entries) and SupersededPurgeJob    *)
(* over the tables entries, entry_recipients and audit_log, at the grain   *)
(* of the SQL statements they send.                                        *)
(*                                                                         *)
(* A request runs in one READ COMMITTED transaction: every SELECT sees the *)
(* rows committed when it starts; the flip UPDATE locks its row at once;   *)
(* the entities handed to save() are merged (a SELECT by primary key, as   *)
(* their identifiers are assigned) and written when the transaction        *)
(* commits; the audit event is written by a transaction of its own in      *)
(* between.  The variable entries holds committed rows only: what a        *)
(* transaction has written and not committed follows from its state in tx. *)
(*                                                                         *)
(* A request that is refused before its first write leaves no trace in     *)
(* the model: it is not a step.                                            *)
(***************************************************************************)
EXTENDS Integers, FiniteSets

CONSTANTS
    Entries, Issuers, Verifiers, Hashes,
    Threads,     \* requests that can be in flight at once
    Creates,     \* verified envelopes that are POSTed
    Updates,     \* verified envelopes that are PUT
    Retention,   \* RETENTION_DAYS
    MaxVersion,  \* bound: no update is started beyond this version
    MaxClock,    \* bound: the clock stops here
    None

\* The part of a signed envelope the server acts on.
Envelope == [entry: Entries, issuer: Issuers, hash: Hashes, recipients: SUBSET Verifiers]

ASSUME EnvelopesAssumption ==
    /\ Creates \subseteq Envelope
    /\ Updates \subseteq Envelope
ASSUME BoundsAssumption ==
    /\ Retention \in Nat
    /\ MaxVersion \in Nat \ {0}
    /\ MaxClock \in Nat
ASSUME NoneAssumption ==
    None \notin Nat \cup Envelope

VARIABLES
    entries,   \* committed rows of entries, each with its rows of entry_recipients
    audit,     \* committed events of audit_log, order and hashes left to AuditChain
    tx,        \* the transaction each thread is running
    job,       \* where the purge job is: "idle", "deleted" or "audited"
    doomed,    \* rows the purge job has deleted and not committed
    clock

vars == <<entries, audit, tx, job, doomed, clock>>

-----------------------------------------------------------------------------

\* A row of entries; readers are the verifiers of its rows of entry_recipients.
Row == [env: Envelope, version: Nat \ {0}, current: BOOLEAN,
        supersededAt: Nat \cup {None}, readers: SUBSET Verifiers]

\* version is the payload of an ingest event and the count of a purge event.
AuditEvent == [type: {"ENTRY_INGESTED", "ENTRY_UPDATED", "PURGE_RAN"},
               actor: Issuers \cup {None}, entry: Entries \cup {None}, version: Nat]

\* env is the request's envelope, base the version an update read as current (0
\* for a creation), stamp its superseded_at, loaded what merge() found.
Tx == [pc: {"idle", "checked", "read", "flipped", "saved", "audited"},
       env: Envelope \cup {None}, base: Nat, stamp: Nat, loaded: Row \cup {None}]

Idle == [pc |-> "idle", env |-> None, base |-> 0, stamp |-> 0, loaded |-> None]

TypeOK ==
    /\ entries \subseteq Row
    /\ audit \subseteq AuditEvent
    /\ tx \in [Threads -> Tx]
    /\ \A t \in Threads : tx[t].pc # "idle" => tx[t].env \in Envelope
    /\ job \in {"idle", "deleted", "audited"}
    /\ doomed \subseteq entries
    /\ clock \in Nat

-----------------------------------------------------------------------------

IsKey(r, e, v) == r.env.entry = e /\ r.version = v

RowsAt(e, v) == {r \in entries : IsKey(r, e, v)}

CurrentRows(e) == {r \in entries : r.env.entry = e /\ r.current}

Entry(t) == tx[t].env.entry

\* Slip: the version that was read is written again.
TargetOffByOne(t) == tx[t].base

\* The version the request writes.
Target(t) == tx[t].base + 1

\* The flip of t's transaction holds the row (e, base) until it ends.
HasFlipped(t, e) ==
    /\ tx[t].pc \in {"flipped", "saved", "audited"}
    /\ tx[t].base # 0
    /\ Entry(t) = e

\* A statement of t on the row (e, v) waits for the transaction that wrote it.
RowLocked(t, e, v) ==
    \/ \E u \in Threads \ {t} : HasFlipped(u, e) /\ tx[u].base = v
    \/ \E r \in doomed : IsKey(r, e, v)

\* Slip: the insert runs in a transaction of its own and waits for its caller's flip.
FlushWaitsForItself(t) ==
    \/ \E u \in Threads : HasFlipped(u, Entry(t))
    \/ RowLocked(t, Entry(t), Target(t))

\* Writing a current row of e waits for a transaction that wrote the same key, or
\* that flipped the row now in the index entries_one_current_per_id.
FlushWaits(t) ==
    \/ \E u \in Threads \ {t} : HasFlipped(u, Entry(t))
    \/ RowLocked(t, Entry(t), Target(t))

\* The rows as t's own transaction sees them: its flip is in force.
Flipped(t) == RowsAt(Entry(t), tx[t].base)
View(t) ==
    (entries \ Flipped(t)) \cup
        {[r EXCEPT !.current = FALSE, !.supersededAt = tx[t].stamp] : r \in Flipped(t)}

\* Slip: the recipients of the version before are carried over.
NewRowKeepsReaders(t) ==
    [env |-> tx[t].env, version |-> Target(t), current |-> TRUE, supersededAt |-> None,
     readers |-> tx[t].env.recipients \cup UNION {r.readers : r \in Flipped(t)}]

NewRow(t) ==
    [env |-> tx[t].env, version |-> Target(t), current |-> TRUE,
     supersededAt |-> None, readers |-> tx[t].env.recipients]

\* merge() found a row equal to the new one: there is nothing to write.
NothingToWrite(t) ==
    /\ tx[t].loaded # None
    /\ tx[t].loaded.env = tx[t].env
    /\ tx[t].loaded.current

\* INSERT meets neither the primary key nor entries_one_current_per_id.
CanInsert(t) ==
    /\ tx[t].loaded = None
    /\ \A r \in View(t) : r.env.entry = Entry(t) => ~r.current /\ r.version # Target(t)

\* UPDATE finds its row, and no other row of the entry is current; recipients
\* that merge() did not find are inserted, and must still be missing.
CanOverwrite(t) ==
    /\ tx[t].loaded # None
    /\ ~NothingToWrite(t)
    /\ \A r \in View(t) : r.env.entry = Entry(t) /\ r.current => r.version = Target(t)
    /\ \E r \in View(t) :
         /\ IsKey(r, Entry(t), Target(t))
         /\ (tx[t].env.recipients \ tx[t].loaded.readers) \cap r.readers = {}

-----------------------------------------------------------------------------

Init ==
    /\ entries = {}
    /\ audit = {}
    /\ tx = [t \in Threads |-> Idle]
    /\ job = "idle"
    /\ doomed = {}
    /\ clock = 0

\* ingestNew: existsByEntryIdAndIssuerId; a hit ends the request (EntryIdTaken).
IngestNew(t, e) ==
    /\ tx[t].pc = "idle"
    /\ \A r \in entries : ~(r.env.entry = e.entry /\ r.env.issuer = e.issuer)
    /\ tx' = [tx EXCEPT ![t] = [Idle EXCEPT !.pc = "checked", !.env = e]]
    /\ UNCHANGED <<entries, audit, job, doomed, clock>>

\* ingestUpdate: findCurrentByEntryId; the request ends if there is none
\* (EntryNotFound), if another issuer owns it (IssuerMismatch), or if the
\* ciphertext is the one already stored (RewrapOnlyForbidden).
IngestUpdate(t, e) ==
    /\ tx[t].pc = "idle"
    /\ \E r \in CurrentRows(e.entry) :
         /\ r.env.issuer = e.issuer
         /\ r.env.hash # e.hash
         /\ r.version < MaxVersion
         /\ tx' = [tx EXCEPT ![t] = [Idle EXCEPT !.pc = "read", !.env = e,
                                                 !.base = r.version, !.stamp = clock]]
    /\ UNCHANGED <<entries, audit, job, doomed, clock>>

\* Slip: the UPDATE without its condition current = TRUE.
FlipUnconditional(t) ==
    /\ tx[t].pc = "read"
    /\ ~RowLocked(t, Entry(t), tx[t].base)
    /\ RowsAt(Entry(t), tx[t].base) # {}
    /\ tx' = [tx EXCEPT ![t].pc = "flipped"]
    /\ UNCHANGED <<entries, audit, job, doomed, clock>>

\* Slip: no @Transactional on ingestUpdate, the flip commits at once.
FlipAutocommit(t) ==
    /\ tx[t].pc = "read"
    /\ ~RowLocked(t, Entry(t), tx[t].base)
    /\ \E r \in RowsAt(Entry(t), tx[t].base) : r.current
    /\ entries' = View(t)
    /\ tx' = [tx EXCEPT ![t].pc = "flipped"]
    /\ UNCHANGED <<audit, job, doomed, clock>>

\* flipCurrentToSuperseded matched the row that was read.  The instant it stores
\* was taken at some point since the read.
Flip(t) ==
    /\ tx[t].pc = "read"
    /\ ~RowLocked(t, Entry(t), tx[t].base)
    /\ \E r \in RowsAt(Entry(t), tx[t].base) : r.current
    /\ \E when \in tx[t].stamp..clock :
         tx' = [tx EXCEPT ![t] = [@ EXCEPT !.pc = "flipped", !.stamp = when]]
    /\ UNCHANGED <<entries, audit, job, doomed, clock>>

\* flipCurrentToSuperseded matched nothing: VersionConflict.
FlipConflict(t) ==
    /\ tx[t].pc = "read"
    /\ ~RowLocked(t, Entry(t), tx[t].base)
    /\ \A r \in RowsAt(Entry(t), tx[t].base) : ~r.current
    /\ tx' = [tx EXCEPT ![t] = Idle]
    /\ UNCHANGED <<entries, audit, job, doomed, clock>>

\* save(): merge() looks the new key up and remembers what it found.
Save(t) ==
    /\ tx[t].pc \in {"checked", "flipped"}
    /\ \/ /\ RowsAt(Entry(t), Target(t)) = {}
          /\ tx' = [tx EXCEPT ![t].pc = "saved"]
       \/ \E r \in RowsAt(Entry(t), Target(t)) :
            tx' = [tx EXCEPT ![t] = [@ EXCEPT !.pc = "saved", !.loaded = r]]
    /\ UNCHANGED <<entries, audit, job, doomed, clock>>

\* Slip: the event of an update names the version it replaces.
RecordEventOfBase(t) ==
    /\ tx[t].pc = "saved"
    /\ audit' = audit \cup
         {[type |-> IF tx[t].base = 0 THEN "ENTRY_INGESTED" ELSE "ENTRY_UPDATED",
           actor |-> tx[t].env.issuer, entry |-> Entry(t), version |-> tx[t].base]}
    /\ tx' = [tx EXCEPT ![t].pc = "audited"]
    /\ UNCHANGED <<entries, job, doomed, clock>>

\* recordEvent commits before the transaction that asked for it.
RecordEvent(t) ==
    /\ tx[t].pc = "saved"
    /\ audit' = audit \cup
         {[type |-> IF tx[t].base = 0 THEN "ENTRY_INGESTED" ELSE "ENTRY_UPDATED",
           actor |-> tx[t].env.issuer, entry |-> Entry(t), version |-> Target(t)]}
    /\ tx' = [tx EXCEPT ![t].pc = "audited"]
    /\ UNCHANGED <<entries, job, doomed, clock>>

\* The flush INSERTs the new row and the transaction commits.
CommitInsert(t) ==
    /\ tx[t].pc = "audited"
    /\ ~FlushWaits(t)
    /\ CanInsert(t)
    /\ entries' = View(t) \cup {NewRow(t)}
    /\ tx' = [tx EXCEPT ![t] = Idle]
    /\ UNCHANGED <<audit, job, doomed, clock>>

\* The flush UPDATEs the row that merge() found: the envelope is replaced and
\* the recipients are added to those it had.
CommitOverwrite(t) ==
    /\ tx[t].pc = "audited"
    /\ ~FlushWaits(t)
    /\ CanOverwrite(t)
    /\ LET old == {r \in View(t) : IsKey(r, Entry(t), Target(t))}
       IN  entries' = (View(t) \ old) \cup
                        {[NewRow(t) EXCEPT !.readers = @ \cup r.readers] : r \in old}
    /\ tx' = [tx EXCEPT ![t] = Idle]
    /\ UNCHANGED <<audit, job, doomed, clock>>

\* The flush has nothing to write; only a flip, if there was one, is committed.
CommitUnchanged(t) ==
    /\ tx[t].pc = "audited"
    /\ NothingToWrite(t)
    /\ entries' = View(t)
    /\ tx' = [tx EXCEPT ![t] = Idle]
    /\ UNCHANGED <<audit, job, doomed, clock>>

\* A constraint or a missing row fails the flush: 409 or 500, all is rolled back.
FlushFails(t) ==
    /\ tx[t].pc = "audited"
    /\ ~FlushWaits(t)
    /\ ~(CanInsert(t) \/ CanOverwrite(t) \/ NothingToWrite(t))
    /\ tx' = [tx EXCEPT ![t] = Idle]
    /\ UNCHANGED <<entries, audit, job, doomed, clock>>

\* The server stops, the connection breaks or a statement or the audit write
\* fails: the transaction is rolled back wherever it was.
Abort(t) ==
    /\ tx[t].pc # "idle"
    /\ tx' = [tx EXCEPT ![t] = Idle]
    /\ UNCHANGED <<entries, audit, job, doomed, clock>>

-----------------------------------------------------------------------------

\* Slip: the comparison with the cut-off the other way round.
PurgeDeleteRecent ==
    /\ job = "idle"
    /\ job' = "deleted"
    /\ doomed' = {r \in entries : ~r.current /\ r.supersededAt + Retention > clock}
    /\ UNCHANGED <<entries, audit, tx, clock>>

\* SupersededPurgeJob.run: deleteSupersededBefore(now - RETENTION_DAYS).
PurgeDelete ==
    /\ job = "idle"
    /\ job' = "deleted"
    /\ doomed' = {r \in entries : ~r.current /\ r.supersededAt + Retention < clock}
    /\ UNCHANGED <<entries, audit, tx, clock>>

PurgeRecordEvent ==
    /\ job = "deleted"
    /\ job' = "audited"
    /\ audit' = audit \cup {[type |-> "PURGE_RAN", actor |-> None, entry |-> None,
                             version |-> Cardinality(doomed)]}
    /\ UNCHANGED <<entries, tx, doomed, clock>>

\* The rows leave, and with them their rows of entry_recipients (ON DELETE CASCADE).
PurgeCommit ==
    /\ job = "audited"
    /\ job' = "idle"
    /\ entries' = entries \ doomed
    /\ doomed' = {}
    /\ UNCHANGED <<audit, tx, clock>>

PurgeAbort ==
    /\ job # "idle"
    /\ job' = "idle"
    /\ doomed' = {}
    /\ UNCHANGED <<entries, audit, tx, clock>>

Tick ==
    /\ clock < MaxClock
    /\ clock' = clock + 1
    /\ UNCHANGED <<entries, audit, tx, job, doomed>>

Flush(t) == CommitInsert(t) \/ CommitOverwrite(t) \/ CommitUnchanged(t) \/ FlushFails(t)

Request(t) ==
    \/ \E e \in Creates : IngestNew(t, e)
    \/ \E e \in Updates : IngestUpdate(t, e)
    \/ Flip(t) \/ FlipConflict(t) \/ Save(t) \/ RecordEvent(t) \/ Flush(t)
    \/ Abort(t)

Purge == PurgeDelete \/ PurgeRecordEvent \/ PurgeCommit \/ PurgeAbort

Next == (\E t \in Threads : Request(t)) \/ Purge \/ Tick

Spec == Init /\ [][Next]_vars

\* A statement that waits for a row or for an index entry is woken each time the
\* transaction it waits for ends; of a wait that is over again and again, one wake-up
\* finds it over.  Every other step is the thread's own to make.
Fairness ==
    \A t \in Threads :
        /\ SF_vars(Flip(t) \/ FlipConflict(t))
        /\ SF_vars(Flush(t))
        /\ WF_vars(Save(t) \/ RecordEvent(t))

\* The job runs every day: a failure that ends one run does not end all of them.
FairPurge == SF_vars(PurgeRecordEvent) /\ SF_vars(PurgeCommit)

FairSpec == Spec /\ Fairness /\ FairPurge

-----------------------------------------------------------------------------

\* An entry that has versions has exactly one current version, whatever creations,
\* updates, retries, purges and rollbacks run together: the flip and the insert of
\* ingestUpdate take effect as one, and no purge or merge() undoes either half.
OneCurrentVersion ==
    \A r \in entries :
        \E c \in CurrentRows(r.env.entry) : \A d \in CurrentRows(r.env.entry) : d = c

\* The stored versions of an entry run without a gap up to the current one: no
\* update skips a version, and the purge removes the oldest versions first.
VersionsContiguous ==
    \A r \in entries :
        \E c \in CurrentRows(r.env.entry) :
            \A v \in r.version..c.version : RowsAt(r.env.entry, v) # {}

\* An update whose flip succeeded always finds its new version free: neither the
\* primary key nor entries_one_current_per_id ever fails it, so the row count of
\* the flip alone decides between two concurrent updates.
FlipDecides ==
    \A t \in Threads : tx[t].pc = "audited" /\ tx[t].base # 0 => CanInsert(t)

\* Whoever holds a flipped row goes on to its commit without waiting for anybody: a chain
\* of waits ends at a transaction that runs, so requests and the purge never deadlock.
HoldersDoNotWait ==
    \A t \in Threads : HasFlipped(t, Entry(t)) => ~FlushWaits(t)

\* Every stored version has its event in the audit log, with its issuer as the
\* actor: the event is durable before the version is visible.
StoredVersionsAudited ==
    \A r \in entries :
        \E a \in audit : /\ a.type \in {"ENTRY_INGESTED", "ENTRY_UPDATED"}
                         /\ a.entry = r.env.entry
                         /\ a.version = r.version
                         /\ a.actor = r.env.issuer

\* A collision is rejected, not overwritten (plan.md section 4.2): the envelope of a
\* stored version never changes.
CollisionRejected ==
    [][\A r \in entries, s \in entries' :
         r.env.entry = s.env.entry /\ r.version = s.version => r.env = s.env]_vars

\* A step keeps the version r, and once it is superseded its whole row.
Kept(r) ==
    \E s \in entries' :
        /\ s.env = r.env /\ s.version = r.version
        /\ ~r.current => s = r

\* What the table forgets, whatever creations share an entry id: superseded versions
\* whose retention is over, and the first version of an entry, which can give way to a
\* second creation while it is alone.
HistoryKept ==
    [][\A r \in entries :
         \/ Kept(r)
         \/ ~r.current /\ r.supersededAt + Retention < clock
         \/ /\ r.version = 1 /\ r.current
            /\ \A s \in entries : s.env.entry = r.env.entry => s = r]_vars

\* The verifiers that can read a version are the recipients its envelope names.
ReadersAreRecipients ==
    \A r \in entries : r.readers = r.env.recipients

\* Every request ends: no two transactions wait for each other's row locks.
RequestsEnd ==
    \A t \in Threads : tx[t].pc # "idle" ~> tx[t].pc = "idle"

\* Entry ids are fresh: all creations of an id carry one envelope (retries).
FreshIds == \A d, e \in Creates : d.entry = e.entry => d = e

\* The rows as the registry of heads and superseded versions they stand for.
HeadOf(r) == [env |-> r.env, version |-> r.version]
PastOf(r) == [env |-> r.env, version |-> r.version, supersededAt |-> r.supersededAt]
Heads == {HeadOf(r) : r \in {q \in entries : q.current}}
Superseded == {PastOf(r) : r \in {q \in entries : ~q.current}}
Registry == INSTANCE EntryRegistry WITH heads <- Heads, past <- Superseded

\* With fresh ids the store is the registry: a version is published by its issuer in
\* one step, replaces exactly the version its author saw, and is never lost.
ImplementsRegistry == Registry!Spec
=============================================================================
