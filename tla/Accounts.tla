------------------------------- MODULE Accounts -------------------------------
(***************************************************************************)
(* One verifier's account: AuthController (challenge, verify, logout),     *)
(* AuthLockoutService and VerifierKeyService (password, rotate-keys) over  *)
(* the tables verifiers, auth_challenges, auth_lockouts and sessions.      *)
(* Accounts share no row, so one stands for all.                           *)
(*                                                                         *)
(* A request runs in one READ COMMITTED transaction; entities it loads are *)
(* written back, every column of them, when it commits; the lockout row is *)
(* written by transactions of their own that commit first.  Audit events   *)
(* are AuditChain's: one that fails is an Abort here.                      *)
(*                                                                         *)
(* A verifier's encryption and authentication keys change together and are *)
(* one key here.                                                           *)
(***************************************************************************)
EXTENDS Integers, FiniteSets

CONSTANTS
    Threads,      \* requests that can be in flight at once
    Keys,         \* key pairs
    FirstKey,     \* the one the verifier registered
    Nonces,       \* nonces that challenge can draw
    MaxFailures,  \* MAX_FAILURES
    Lockout,      \* LOCKOUT_MINUTES
    NonceTtl,     \* CHALLENGE_TTL_SECONDS
    SessionTtl,   \* SESSION_TTL_SECONDS
    MaxClock,     \* bound: the clock stops here
    None

ASSUME KeysAssumption == FirstKey \in Keys
ASSUME ThreadsAssumption == IsFiniteSet(Threads) /\ Threads # {}
ASSUME TimesAssumption ==
    /\ MaxFailures \in Nat \ {0}
    /\ {Lockout, NonceTtl, SessionTtl} \subseteq Nat \ {0}
    /\ MaxClock \in Nat

VARIABLES
    account,      \* the committed row of verifiers
    pending,      \* keys whose directory records are marked pending_revocation
    challenges,   \* committed rows of auth_challenges
    lockout,      \* the committed row of auth_lockouts, None while there is none
    sessions,     \* committed rows of sessions
    tx,           \* the request each thread is running
    clock,
    logins,       \* history: how many sessions each nonce has opened
    streak,       \* history: failed verifications since the last successful one
    late          \* history: wrong signatures checked since the lock in force was set

tables == <<account, pending, challenges, lockout, sessions>>
history == <<logins, streak, late>>
vars == <<account, pending, challenges, lockout, sessions, tx, clock, logins, streak, late>>

\* blobs is the key whose wrapped private parts the row holds.
Account == [key: Keys, blobs: Keys]
Challenge == [expires: Nat, consumed: BOOLEAN]
\* until 0 is a null locked_until.
LockoutRow == [failures: Nat, until: Nat]
Session == [nonce: Nonces, key: Keys, expires: Nat]

ASSUME NoneAssumption ==
    None \notin Keys \cup Nonces \cup Nat \cup Challenge \cup LockoutRow

\* held is the key the client holds, None if it guesses; key the one the transaction
\* has read; failures what recordFailure has read; doomed the sessions it deletes.
Tx == [pc: {"idle", "checked", "loaded", "accepted", "refused", "failing", "reset",
            "authorized", "deleted"},
       op: {"verify", "logout", "password", "rotate"},
       nonce: Nonces \cup {None}, held: Keys \cup {None}, key: Keys,
       expires: Nat, failures: Nat \cup {None}, doomed: SUBSET Session]

Idle == [pc |-> "idle", op |-> "verify", nonce |-> None, held |-> None, key |-> FirstKey,
         expires |-> 0, failures |-> None, doomed |-> {}]

TypeOK ==
    /\ account \in Account
    /\ pending \subseteq Keys
    /\ challenges \in [Nonces -> Challenge \cup {None}]
    /\ lockout \in LockoutRow \cup {None}
    /\ sessions \subseteq Session
    /\ tx \in [Threads -> Tx]
    /\ \A t \in Threads : tx[t].pc # "idle" /\ tx[t].op = "verify" => tx[t].nonce \in Nonces
    /\ \A t \in Threads : tx[t].pc # "idle" /\ tx[t].op # "verify" => tx[t].held \in Keys
    /\ clock \in Nat
    /\ logins \in [Nonces -> Nat]
    /\ streak \in Nat
    /\ late \in Nat

-----------------------------------------------------------------------------

Locked == lockout # None /\ clock < lockout.until

\* Slip: findById in place of findForUpdate.
ChallengeNotLocked(t, n) == FALSE

\* findForUpdate holds the row of the nonce until its transaction ends.
ChallengeLocked(t, n) ==
    \E u \in Threads \ {t} :
        tx[u].nonce = n /\ tx[u].pc \in {"accepted", "refused", "failing", "reset"}

\* findByVerifierIdForUpdate holds the lockout row, if there is one.
LockoutLocked(t) ==
    \E u \in Threads \ {t} : tx[u].pc = "failing" /\ tx[u].failures # None

Init ==
    /\ account = [key |-> FirstKey, blobs |-> FirstKey]
    /\ pending = {}
    /\ challenges = [n \in Nonces |-> None]
    /\ lockout = None
    /\ sessions = {}
    /\ tx = [t \in Threads |-> Idle]
    /\ clock = 0
    /\ logins = [n \in Nonces |-> 0]
    /\ streak = 0
    /\ late = 0

\* Slip: minusSeconds.
IssueChallengeExpired(n) ==
    /\ challenges[n] = None
    /\ challenges' = [challenges EXCEPT ![n] = [expires |-> clock - NonceTtl, consumed |-> FALSE]]
    /\ UNCHANGED <<account, pending, lockout, sessions, tx, clock, history>>

\* challenge: a new nonce.
IssueChallenge(n) ==
    /\ challenges[n] = None
    /\ challenges' = [challenges EXCEPT ![n] = [expires |-> clock + NonceTtl, consumed |-> FALSE]]
    /\ UNCHANGED <<account, pending, lockout, sessions, tx, clock, history>>

\* Slip: the lockout is not looked at.
StartVerifyUnchecked(t, n, k) ==
    /\ tx[t].pc = "idle"
    /\ challenges[n] # None
    /\ tx' = [tx EXCEPT ![t] = [Idle EXCEPT !.pc = "checked", !.nonce = n, !.held = k]]
    /\ UNCHANGED <<tables, clock, history>>

\* verify: checkNotLocked, which ends the request with AuthLocked while Locked.
StartVerify(t, n, k) ==
    /\ tx[t].pc = "idle"
    /\ challenges[n] # None
    /\ ~Locked
    /\ tx' = [tx EXCEPT ![t] = [Idle EXCEPT !.pc = "checked", !.nonce = n, !.held = k]]
    /\ UNCHANGED <<tables, clock, history>>

\* findById: the row of verifiers, as it is committed now.
LoadVerifier(t) ==
    /\ tx[t].pc = "checked"
    /\ tx' = [tx EXCEPT ![t] = [@ EXCEPT !.pc = "loaded", !.key = account.key]]
    /\ UNCHANGED <<tables, clock, history>>

\* findForUpdate returned the challenge and it can be answered: the signature is
\* checked against the key that was read.
CheckSignature(t) ==
    /\ tx[t].pc = "loaded" /\ tx[t].op = "verify"
    /\ ~ChallengeLocked(t, tx[t].nonce)
    /\ ~challenges[tx[t].nonce].consumed
    /\ clock < challenges[tx[t].nonce].expires
    /\ \/ /\ tx[t].held = tx[t].key
          /\ tx' = [tx EXCEPT ![t] = [@ EXCEPT !.pc = "accepted", !.expires = clock + SessionTtl]]
          /\ UNCHANGED late
       \/ /\ tx[t].held # tx[t].key
          /\ tx' = [tx EXCEPT ![t].pc = "refused"]
          /\ late' = IF Locked THEN late + 1 ELSE late
    /\ UNCHANGED <<tables, clock, logins, streak>>

\* AuthNonceConsumed or AuthNonceExpired.
RejectNonce(t) ==
    /\ tx[t].pc = "loaded" /\ tx[t].op = "verify"
    /\ ~ChallengeLocked(t, tx[t].nonce)
    /\ challenges[tx[t].nonce].consumed \/ clock >= challenges[tx[t].nonce].expires
    /\ tx' = [tx EXCEPT ![t] = Idle]
    /\ UNCHANGED <<tables, clock, history>>

\* recordFailure, in its own transaction: the row is read and locked; if there is
\* none, nothing is.
ReadFailures(t) ==
    /\ tx[t].pc = "refused"
    /\ ~LockoutLocked(t)
    /\ tx' = [tx EXCEPT ![t] = [@ EXCEPT !.pc = "failing",
                !.failures = IF lockout = None THEN None ELSE lockout.failures]]
    /\ UNCHANGED <<tables, clock, history>>

\* The row recordFailure writes: an old lock stays until it is replaced.
Counted(n, until) ==
    [failures |-> n, until |-> IF n >= MaxFailures THEN clock + Lockout ELSE until]

Count(t, row) ==
    /\ lockout' = row
    /\ streak' = streak + 1
    /\ late' = IF Locked THEN late ELSE 0
    /\ tx' = [tx EXCEPT ![t] = Idle]
    /\ UNCHANGED <<account, pending, challenges, sessions, clock, logins>>

\* recordFailure commits; verify answers auth_invalid_signature and rolls back.
WriteFailure(t) ==
    /\ tx[t].pc = "failing" /\ tx[t].failures # None
    /\ Count(t, Counted(tx[t].failures + 1, lockout.until))

\* No row was read: save() is a merge(), which inserts the row or, if it is there by
\* now, writes the new entity over it.
WriteFirstFailure(t) ==
    /\ tx[t].pc = "failing" /\ tx[t].failures = None
    /\ ~LockoutLocked(t)
    /\ Count(t, Counted(1, 0))

\* The row was inserted after merge() had looked for it: the primary key fails the
\* INSERT, recordFailure and with it verify.
FirstFailureConflict(t) ==
    /\ tx[t].pc = "failing" /\ tx[t].failures = None
    /\ lockout # None
    /\ tx' = [tx EXCEPT ![t] = Idle]
    /\ UNCHANGED <<tables, clock, history>>

\* Slip: the lock is cleared and the failures are not.
RecordSuccessKeepsFailures(t) ==
    /\ tx[t].pc = "accepted"
    /\ ~LockoutLocked(t)
    /\ lockout' = IF lockout = None THEN None ELSE [lockout EXCEPT !.until = 0]
    /\ streak' = 0
    /\ tx' = [tx EXCEPT ![t].pc = "reset"]
    /\ UNCHANGED <<account, pending, challenges, sessions, clock, logins, late>>

\* recordSuccess commits before the login does.
RecordSuccess(t) ==
    /\ tx[t].pc = "accepted"
    /\ ~LockoutLocked(t)
    /\ lockout' = IF lockout = None THEN None ELSE [failures |-> 0, until |-> 0]
    /\ streak' = 0
    /\ tx' = [tx EXCEPT ![t].pc = "reset"]
    /\ UNCHANGED <<account, pending, challenges, sessions, clock, logins, late>>

\* verify commits: the challenge is consumed and the session inserted.
CommitLogin(t) ==
    /\ tx[t].pc = "reset"
    /\ challenges' = [challenges EXCEPT ![tx[t].nonce].consumed = TRUE]
    /\ sessions' = sessions \cup
          {[nonce |-> tx[t].nonce, key |-> tx[t].key, expires |-> tx[t].expires]}
    /\ logins' = [logins EXCEPT ![tx[t].nonce] = @ + 1]
    /\ tx' = [tx EXCEPT ![t] = Idle]
    /\ UNCHANGED <<account, pending, lockout, clock, streak, late>>

-----------------------------------------------------------------------------

\* BearerAuthFilter finds the session s; the request acts with the key its client
\* logged in with.
Authorize(t, op, s) ==
    /\ tx[t].pc = "idle"
    /\ clock < s.expires
    /\ tx' = [tx EXCEPT ![t] = [Idle EXCEPT !.pc = "authorized", !.op = op, !.held = s.key]]
    /\ UNCHANGED <<tables, clock, history>>

\* changePassword and rotateKeys: findById; a rotation names the keys it replaces and
\* ends with KeyRotationStale when they are not those of the row.
LoadAccount(t) ==
    /\ tx[t].pc = "authorized" /\ tx[t].op \in {"password", "rotate"}
    /\ tx' = [tx EXCEPT ![t] =
                IF tx[t].op = "rotate" /\ tx[t].held # account.key
                THEN Idle ELSE [@ EXCEPT !.pc = "loaded", !.key = account.key]]
    /\ UNCHANGED <<tables, clock, history>>

\* deleteAllByVerifierIdAndRevokedAtIsNull: the sessions that are committed now.
DeleteSessions(t) ==
    /\ \/ tx[t].pc = "authorized" /\ tx[t].op = "logout"
       \/ tx[t].pc = "loaded" /\ tx[t].op = "rotate"
    /\ tx' = [tx EXCEPT ![t] = [@ EXCEPT !.pc = "deleted", !.doomed = sessions]]
    /\ UNCHANGED <<tables, clock, history>>

CommitLogout(t) ==
    /\ tx[t].pc = "deleted" /\ tx[t].op = "logout"
    /\ sessions' = sessions \ tx[t].doomed
    /\ tx' = [tx EXCEPT ![t] = Idle]
    /\ UNCHANGED <<account, pending, challenges, lockout, clock, history>>

\* The new keys with their blobs are written over the row; the records of the old keys
\* are marked.
CommitRotation(t, fresh) ==
    /\ tx[t].pc = "deleted" /\ tx[t].op = "rotate"
    /\ account' = [key |-> fresh, blobs |-> fresh]
    /\ pending' = pending \cup {tx[t].key}
    /\ sessions' = sessions \ tx[t].doomed
    /\ tx' = [tx EXCEPT ![t] = Idle]
    /\ UNCHANGED <<challenges, lockout, clock, history>>

\* The blobs of the key the client holds, and the other columns as they were read.
CommitPassword(t) ==
    /\ tx[t].pc = "loaded" /\ tx[t].op = "password"
    /\ account' = [key |-> tx[t].key, blobs |-> tx[t].held]
    /\ tx' = [tx EXCEPT ![t] = Idle]
    /\ UNCHANGED <<pending, challenges, lockout, sessions, clock, history>>

Abort(t) ==
    /\ tx[t].pc # "idle"
    /\ tx' = [tx EXCEPT ![t] = Idle]
    /\ UNCHANGED <<tables, clock, history>>

Tick ==
    /\ clock < MaxClock
    /\ clock' = clock + 1
    /\ UNCHANGED <<tables, tx, history>>

\* Key pairs are generated afresh.
NewKeys == {k \in Keys : k # account.key /\ k \notin pending}

Verify(t) ==
    \/ \E n \in Nonces, k \in Keys \cup {None} : StartVerify(t, n, k)
    \/ LoadVerifier(t) \/ CheckSignature(t) \/ RejectNonce(t)
    \/ ReadFailures(t) \/ WriteFailure(t) \/ WriteFirstFailure(t) \/ FirstFailureConflict(t)
    \/ RecordSuccess(t) \/ CommitLogin(t)

Manage(t) ==
    \/ \E op \in {"logout", "password", "rotate"}, s \in sessions : Authorize(t, op, s)
    \/ LoadAccount(t) \/ DeleteSessions(t) \/ CommitLogout(t)
    \/ \E k \in NewKeys : CommitRotation(t, k)
    \/ CommitPassword(t)

Next ==
    \/ \E n \in Nonces : IssueChallenge(n)
    \/ \E t \in Threads : Verify(t) \/ Manage(t) \/ Abort(t)
    \/ Tick

Spec == Init /\ [][Next]_vars

-----------------------------------------------------------------------------

\* A nonce is single-use (api.md section 3.2): it opens one session, and only that
\* consumes it, however many verifications of it overlap, fail or are rolled back.
NonceUsedOnce ==
    \A n \in Nonces :
        logins[n] = IF challenges[n] # None /\ challenges[n].consumed THEN 1 ELSE 0

\* No verifier is locked out early: behind a lock there are MaxFailures wrong
\* signatures with no success between them, in whatever order they are counted.
LockedOnlyAfterFailures ==
    lockout # None => /\ lockout.failures <= streak
                      /\ lockout.until # 0 => lockout.failures >= MaxFailures

\* What the lock lets through: signatures of requests that were in flight when it was
\* set, one for each other thread.
LateGuessesBounded ==
    late < Cardinality(Threads)

\* "Unsafe device loss or verifier compromise requires new keypairs, old-key revocation
\* in the directory, active-session invalidation" (plan.md:300): keys that were rotated
\* away are not in force again and have no session.
RetiredKeysStayRetired ==
    \A k \in pending : /\ k \notin {account.key, account.blobs}
                       /\ \A s \in sessions : s.key # k

-----------------------------------------------------------------------------

\* The challenges are the tickets of LoginTickets; one is used when it is consumed.
Issued == {n \in Nonces : challenges[n] # None}
Consumed == {n \in Issued : challenges[n].consumed}

Tickets == INSTANCE LoginTickets WITH issued <- Issued, used <- Consumed, live <- sessions

\* The tables keep the promise of LoginTickets: a row of sessions is inserted only for a
\* challenge that was issued and not consumed, which it consumes, and none comes back
\* that a logout or a rotation has deleted.
ImplementsTickets == Tickets!Spec

=============================================================================
