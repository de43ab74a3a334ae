---------------------------- MODULE RequestPath ----------------------------
(***************************************************************************)
(* What every request passes on the server: the token bucket that          *)
(* RateLimitInterceptor consults before the controller, and the pool of    *)
(* database connections, from which a transaction takes one and a          *)
(* REQUIRES_NEW transaction inside it (recordEvent, recordFailure,         *)
(* recordSuccess) a second one.                                            *)
(*                                                                         *)
(* consume() runs in a transaction of its own: it reads the clock, inserts *)
(* the bucket's row if there is none, locks the row, and writes tokens and *)
(* refilled_at.  A request that waits for the lock goes on with the time   *)
(* it read before it waited.                                               *)
(*                                                                         *)
(* All requests here share one bucket.  Time is counted in ticks, of which *)
(* Milli make a millisecond and Second a second; tokens are counted in     *)
(* units, of which one is refilled in a tick and Cost make a token.        *)
(***************************************************************************)
EXTENDS Integers, FiniteSets

CONSTANTS
    Requests,   \* the threads that serve requests
    PoolSize,   \* connections in the pool
    Capacity,   \* units in a full bucket (burst)
    Cost,       \* units in a token
    Milli,      \* ticks in a millisecond
    Second,     \* ticks in a second
    MaxClock,   \* bound: the clock stops here
    None

ASSUME RequestsAssumption == IsFiniteSet(Requests)
ASSUME PoolAssumption == PoolSize \in Nat \ {0}
\* The policies' bursts are 5 tokens and more.
ASSUME BucketAssumption == Capacity \in Nat /\ Cost \in Nat \ {0} /\ Cost <= Capacity
ASSUME TimeAssumption ==
    /\ Milli \in Nat \ {0} /\ Second \in Nat \ {0} /\ Second % Milli = 0
    /\ MaxClock \in Nat
ASSUME NoneAssumption == None \notin Nat /\ None \notin [tokens : Nat, refilledAt : Nat]

VARIABLES
    clock,
    bucket,     \* the committed row of rate_limits, or None
    request,    \* what each thread is doing
    since,      \* the time of some use of the bucket, from which on it is watched (history)
    granted,    \* tokens handed out since then (history)
    rewound,    \* ticks by which refilled_at has been set back since then (history)
    promise     \* when the last answer, if it was a denial, asked to come back (history)

watched == <<since, granted, rewound, promise>>
vars == <<clock, bucket, request, watched>>

Bucket == [tokens : Nat, refilledAt : Nat]

\* queued, admitted, nested: waiting for a connection.  begun: waiting for the row of
\* the bucket; locked: holding it.  open: in the handler's transaction.  recording:
\* in the transaction inside it.  now is the clock consume() has read.
Pc == {"idle", "queued", "begun", "locked", "denied",
       "admitted", "open", "nested", "recording", "recorded"}
Request == [pc : Pc, now : Nat]

Idle == [pc |-> "idle", now |-> 0]

HoldingOne == {r \in Requests :
                 request[r].pc \in {"begun", "locked", "open", "nested", "recorded"}}
HoldingTwo == {r \in Requests : request[r].pc = "recording"}

Taken == Cardinality(HoldingOne) + 2 * Cardinality(HoldingTwo)

\* The last conjunct: the pool hands out no more than it has, and the row has one holder.
TypeOK ==
    /\ clock \in Nat
    /\ bucket \in Bucket \cup {None}
    /\ request \in [Requests -> Request]
    /\ since \in Nat \cup {None}
    /\ granted \in Nat
    /\ rewound \in Nat
    /\ promise \in Nat \cup {None}
    /\ Taken <= PoolSize
    /\ \A r, s \in Requests : request[r].pc = "locked" /\ request[s].pc = "locked" => r = s

-----------------------------------------------------------------------------

Least(a, b) == IF a <= b THEN a ELSE b
Greatest(a, b) == IF a >= b THEN a ELSE b

Init ==
    /\ clock = 0
    /\ bucket = None
    /\ request = [r \in Requests |-> Idle]
    /\ since = None
    /\ granted = 0
    /\ rewound = 0
    /\ promise = None

Goto(r, pc) == request' = [request EXCEPT ![r].pc = pc]

\* A request arrives; a route without a policy is not limited.
Arrive(r) ==
    /\ request[r].pc = "idle"
    /\ \E pc \in {"queued", "admitted"} : Goto(r, pc)
    /\ UNCHANGED <<clock, bucket, watched>>

\* consume: the transaction gets its connection and now is read.
Begin(r) ==
    /\ request[r].pc = "queued"
    /\ Taken < PoolSize
    /\ request' = [request EXCEPT ![r] = [pc |-> "begun", now |-> clock]]
    /\ UNCHANGED <<clock, bucket, watched>>

\* Slip: the row is read without FOR UPDATE.
LockNothing(r) ==
    /\ request[r].pc = "begun"
    /\ Goto(r, "locked")
    /\ UNCHANGED <<clock, bucket, watched>>

\* insertIfAbsent and findByKeyForUpdate: both wait for whoever has inserted or locked
\* the row in a transaction that has not ended.
Lock(r) ==
    /\ request[r].pc = "begun"
    /\ \A s \in Requests : request[s].pc # "locked"
    /\ Goto(r, "locked")
    /\ UNCHANGED <<clock, bucket, watched>>

\* The row as the holder finds it: a new bucket is full.
Row(r) == IF bucket = None THEN [tokens |-> Capacity, refilledAt |-> request[r].now] ELSE bucket

\* toMillis() drops what is left of a millisecond.
Elapsed(r) ==
    LET ticks == request[r].now - Row(r).refilledAt
    IN  Greatest(0, ticks - (ticks % Milli))

\* Slip: the bucket is not capped.
RefilledPastCapacity(r) == Row(r).tokens + Elapsed(r)

Refilled(r) == Least(Capacity, Row(r).tokens + Elapsed(r))

Rewind(r) == Greatest(0, Row(r).refilledAt - request[r].now)

\* Slip: rounded down.
RetryAfterFloor(r) == Greatest(1, (Cost - Refilled(r)) \div Second) * Second

\* retryAfterSec, in ticks: whole seconds, rounded up.
RetryAfter(r) == Greatest(1, (Cost - Refilled(r) + Second - 1) \div Second) * Second

\* The history of a use of the bucket: watching begins with some use.
Watch(r, tokens) ==
    \/ since = None /\ UNCHANGED <<since, granted, rewound>>
    \/ since = None /\ since' = request[r].now /\ granted' = tokens /\ rewound' = 0
    \/ /\ since # None
       /\ granted' = granted + tokens
       /\ rewound' = rewound + Rewind(r)
       /\ UNCHANGED since

Leave(r, pc) == request' = [request EXCEPT ![r].pc = pc, ![r].now = 0]

Allow(r) ==
    /\ request[r].pc = "locked"
    /\ Refilled(r) >= Cost
    /\ bucket' = [tokens |-> Refilled(r) - Cost, refilledAt |-> request[r].now]
    /\ Leave(r, "admitted")
    /\ promise' = None
    /\ Watch(r, 1)
    /\ UNCHANGED clock

\* Slip: a denied request leaves refilled_at as it was.
DenyKeepsTime(r) ==
    /\ request[r].pc = "locked"
    /\ Refilled(r) < Cost
    /\ bucket' = [tokens |-> Refilled(r), refilledAt |-> Row(r).refilledAt]
    /\ Leave(r, "denied")
    /\ promise' = clock + RetryAfter(r)
    /\ Watch(r, 0)
    /\ UNCHANGED clock

Deny(r) ==
    /\ request[r].pc = "locked"
    /\ Refilled(r) < Cost
    /\ bucket' = [tokens |-> Refilled(r), refilledAt |-> request[r].now]
    /\ Leave(r, "denied")
    /\ promise' = clock + RetryAfter(r)
    /\ Watch(r, 0)
    /\ UNCHANGED clock

\* The controller's transaction gets its connection.
Open(r) ==
    /\ request[r].pc = "admitted"
    /\ Taken < PoolSize
    /\ Goto(r, "open")
    /\ UNCHANGED <<clock, bucket, watched>>

\* A REQUIRES_NEW method is called: the first connection is kept meanwhile.
Nest(r) ==
    /\ request[r].pc = "open"
    /\ Goto(r, "nested")
    /\ UNCHANGED <<clock, bucket, watched>>

Record(r) ==
    /\ request[r].pc = "nested"
    /\ Taken < PoolSize
    /\ Goto(r, "recording")
    /\ UNCHANGED <<clock, bucket, watched>>

CommitRecord(r) ==
    /\ request[r].pc = "recording"
    /\ Goto(r, "recorded")
    /\ UNCHANGED <<clock, bucket, watched>>

\* The response is sent: 429, or the end of the handler's transaction, with or without
\* a transaction inside it.
Respond(r) ==
    /\ request[r].pc \in {"denied", "open", "recorded"}
    /\ request' = [request EXCEPT ![r] = Idle]
    /\ UNCHANGED <<clock, bucket, watched>>

\* Slip: a request that waits for its second connection tries again, keeping the first.
TimeOutRetries(r) ==
    /\ request[r].pc \in {"queued", "admitted", "nested"}
    /\ request' = [request EXCEPT ![r].pc = IF @ = "nested" THEN "open" ELSE "idle"]
    /\ UNCHANGED <<clock, bucket, watched>>

\* The pool's connectionTimeout: the wait for a connection ends with an exception, which
\* rolls back what the request holds and answers 500.
TimeOut(r) ==
    /\ request[r].pc \in {"queued", "admitted", "nested"}
    /\ request' = [request EXCEPT ![r] = Idle]
    /\ UNCHANGED <<clock, bucket, watched>>

\* A statement or a commit fails: the transactions of the request are rolled back.
Fail(r) ==
    /\ request[r].pc \in {"begun", "locked", "open", "recording", "recorded"}
    /\ request' = [request EXCEPT ![r] = Idle]
    /\ UNCHANGED <<clock, bucket, watched>>

Tick ==
    /\ clock < MaxClock
    /\ clock' = clock + 1
    /\ UNCHANGED <<bucket, request, watched>>

\* What a thread does of its own accord once it serves a request.
Step(r) ==
    \/ Begin(r) \/ Allow(r) \/ Deny(r)
    \/ Open(r) \/ Nest(r) \/ Record(r) \/ CommitRecord(r)
    \/ Respond(r) \/ TimeOut(r)

Next ==
    \/ \E r \in Requests : Arrive(r) \/ Lock(r) \/ Step(r) \/ Fail(r)
    \/ Tick

Spec == Init /\ [][Next]_vars

\* Threads run and waits for a connection time out; PostgreSQL grants a row lock in the
\* order of the requests for it, so who waits for it is served.
FairSpec ==
    Spec /\ \A r \in Requests : WF_vars(Step(r)) /\ SF_vars(Lock(r))

-----------------------------------------------------------------------------

\* However requests overlap: from any use of the bucket on, what was handed out and what
\* is left was a full bucket at most or was refilled since; time is refilled twice only
\* as far as late requests have set refilled_at back.
GrantsBounded ==
    since # None =>
        Cost * granted + bucket.tokens <= Capacity + (bucket.refilledAt - since) + rewound

\* api.md section 6, burst and sustained rate: in any span of time no more tokens are
\* handed out than the burst and the refill of that time, as long as no request that
\* waited for the row sets refilled_at back.
SustainedRate ==
    since # None /\ rewound = 0 => Cost * granted <= Capacity + (clock - since)

\* Retry-After is enough: a client that comes back when the last denial has asked it to
\* is let in, if nobody used the bucket in between.
RetryAfterHonored ==
    [][\A r \in Requests :
         request[r].pc = "locked" /\ request'[r].pc = "denied" =>
             promise = None \/ request[r].now < promise]_vars

\* Every request is answered, also when all connections are held by requests that wait
\* for a second one.
RequestsAnswered ==
    \A r \in Requests : request[r].pc # "idle" ~> request[r].pc = "idle"

=============================================================================
