------------------------ MODULE RequestPathProofs ------------------------
(***************************************************************************)
(* Proofs about RequestPath: the pool never hands out more connections     *)
(* than it has and the bucket's row has one holder, what the bucket hands  *)
(* out is bounded however requests overlap, and Retry-After is enough.     *)
(***************************************************************************)
EXTENDS RequestPath, FiniteSetTheorems, TLAPS

\* The part of TypeOK about single values.
Typed ==
    /\ clock \in Nat
    /\ bucket \in Bucket \cup {None}
    /\ request \in [Requests -> Request]
    /\ since \in Nat \cup {None}
    /\ granted \in Nat
    /\ rewound \in Nat
    /\ promise \in Nat \cup {None}

OneHolder ==
    \A r, s \in Requests : request[r].pc = "locked" /\ request[s].pc = "locked" => r = s

\* A bucket that is watched exists, and no time that was read lies ahead of the clock.
TimesPast ==
    /\ since # None => bucket # None
    /\ bucket # None => bucket.refilledAt <= clock
    /\ \A r \in Requests : request[r].now <= clock

Inv == TypeOK /\ TimesPast /\ GrantsBounded

-----------------------------------------------------------------------------

\* Connections a thread holds.
OnePc == {"begun", "locked", "open", "nested", "recorded"}
Weight(pc) == IF pc \in OnePc THEN 1 ELSE IF pc = "recording" THEN 2 ELSE 0

One(req) == {s \in Requests : req[s].pc \in OnePc}
Two(req) == {s \in Requests : req[s].pc = "recording"}

\* A thread's share of the connections that are taken.
LEMMA Shares ==
    ASSUME NEW req, NEW r \in Requests
    PROVE  /\ Cardinality(One(req) \ {r}) \in Nat
           /\ Cardinality(Two(req) \ {r}) \in Nat
           /\ Cardinality(One(req)) + 2 * Cardinality(Two(req)) =
                 Cardinality(One(req) \ {r}) + 2 * Cardinality(Two(req) \ {r})
                 + Weight(req[r].pc)
<1>1. One(req) \subseteq Requests /\ Two(req) \subseteq Requests
  BY DEF One, Two
<1>2. IsFiniteSet(One(req)) /\ IsFiniteSet(Two(req))
  BY <1>1, FS_Subset, RequestsAssumption
<1>3. IsFiniteSet(One(req) \ {r}) /\ IsFiniteSet(Two(req) \ {r})
  BY <1>2, FS_Subset
<1>4. /\ Cardinality(One(req)) \in Nat /\ Cardinality(Two(req)) \in Nat
      /\ Cardinality(One(req) \ {r}) \in Nat /\ Cardinality(Two(req) \ {r}) \in Nat
  BY <1>2, <1>3, FS_CardinalityType
<1>5. Cardinality(One(req)) =
        Cardinality(One(req) \ {r}) + IF req[r].pc \in OnePc THEN 1 ELSE 0
  <2>1. CASE req[r].pc \in OnePc
    <3>1. r \in One(req)
      BY <2>1 DEF One
    <3>2. Cardinality(One(req) \ {r}) = Cardinality(One(req)) - 1
      BY <1>2, <3>1, FS_RemoveElement
    <3> QED BY <1>4, <2>1, <3>2
  <2>2. CASE req[r].pc \notin OnePc
    <3>1. One(req) \ {r} = One(req)
      BY <2>2 DEF One
    <3>2. Cardinality(One(req) \ {r}) = Cardinality(One(req))
      BY <3>1
    <3> QED BY <1>4, <2>2, <3>2
  <2> QED BY <2>1, <2>2
<1>6. Cardinality(Two(req)) =
        Cardinality(Two(req) \ {r}) + IF req[r].pc = "recording" THEN 1 ELSE 0
  <2>1. CASE req[r].pc = "recording"
    <3>1. r \in Two(req)
      BY <2>1 DEF Two
    <3>2. Cardinality(Two(req) \ {r}) = Cardinality(Two(req)) - 1
      BY <1>2, <3>1, FS_RemoveElement
    <3> QED BY <1>4, <2>1, <3>2
  <2>2. CASE req[r].pc # "recording"
    <3>1. Two(req) \ {r} = Two(req)
      BY <2>2 DEF Two
    <3>2. Cardinality(Two(req) \ {r}) = Cardinality(Two(req))
      BY <3>1
    <3> QED BY <1>4, <2>2, <3>2
  <2> QED BY <2>1, <2>2
<1> QED BY <1>4, <1>5, <1>6 DEF Weight, OnePc

\* A step of one thread moves what is taken by the difference of its shares.
LEMMA TakenMoves ==
    ASSUME NEW r \in Requests,
           \A s \in Requests \ {r} : request'[s].pc = request[s].pc
    PROVE  /\ Taken \in Int /\ Taken' \in Int
           /\ Taken' = Taken - Weight(request[r].pc) + Weight(request'[r].pc)
<1>1. Taken = Cardinality(One(request)) + 2 * Cardinality(Two(request))
  BY DEF Taken, HoldingOne, HoldingTwo, One, Two, OnePc
<1>2. Taken' = Cardinality(One(request')) + 2 * Cardinality(Two(request'))
  BY DEF Taken, HoldingOne, HoldingTwo, One, Two, OnePc
<1>3. One(request') \ {r} = One(request) \ {r} /\ Two(request') \ {r} = Two(request) \ {r}
  BY DEF One, Two
<1>4. Weight(request[r].pc) \in Int /\ Weight(request'[r].pc) \in Int
  BY DEF Weight
<1>5. /\ Cardinality(One(request) \ {r}) \in Nat
      /\ Cardinality(Two(request) \ {r}) \in Nat
      /\ Taken = Cardinality(One(request) \ {r}) + 2 * Cardinality(Two(request) \ {r})
                 + Weight(request[r].pc)
  BY <1>1, Shares
<1>6. Taken' = Cardinality(One(request) \ {r}) + 2 * Cardinality(Two(request) \ {r})
               + Weight(request'[r].pc)
  BY <1>2, <1>3, Shares
<1> QED BY <1>4, <1>5, <1>6

\* TypeOK in its three parts.
LEMMA TypeParts == TypeOK <=> Typed /\ Taken <= PoolSize /\ OneHolder
BY DEF TypeOK, Typed, OneHolder

\* A thread moves on: a new share needs a free connection, and the row one holder.
LEMMA Moves ==
    ASSUME TypeOK, Typed', NEW r \in Requests, NEW pc,
           request'[r].pc = pc,
           \A s \in Requests \ {r} : request'[s].pc = request[s].pc,
           \/ Weight(pc) <= Weight(request[r].pc)
           \/ Weight(pc) = Weight(request[r].pc) + 1 /\ Taken < PoolSize,
           pc = "locked" => \A s \in Requests \ {r} : request[s].pc # "locked"
    PROVE  TypeOK'
<1>1. /\ Taken \in Int /\ Taken' \in Int
      /\ Taken' = Taken - Weight(request[r].pc) + Weight(pc)
  BY TakenMoves
<1>2. Weight(pc) \in Int /\ Weight(request[r].pc) \in Int
  BY DEF Weight
<1>3. Taken' <= PoolSize
  BY <1>1, <1>2, TypeParts, PoolAssumption
<1>4. OneHolder'
  BY TypeParts DEF OneHolder
<1> QED BY <1>3, <1>4 DEF TypeOK, Typed, OneHolder

-----------------------------------------------------------------------------

LEMMA InitInv == Init => Inv
<1> SUFFICES ASSUME Init PROVE Inv
  OBVIOUS
<1>1. HoldingOne = {} /\ HoldingTwo = {}
  BY DEF Init, HoldingOne, HoldingTwo, Idle
<1>2. Taken = 0
  BY <1>1, FS_EmptySet DEF Taken
<1>3. TypeOK
  BY <1>2, PoolAssumption DEF Init, TypeOK, Idle, Request, Pc
<1>4. TimesPast
  BY DEF Init, TimesPast, Idle
<1>5. GrantsBounded
  BY DEF Init, GrantsBounded
<1> QED BY <1>3, <1>4, <1>5 DEF Inv

\* The bucket as a holder finds it, refilled: full at most, by the time that has passed at
\* most.
LEMMA RefillBounded ==
    ASSUME Typed, NEW r \in Requests
    PROVE  /\ Row(r) \in Bucket
           /\ Elapsed(r) \in Nat
           /\ Elapsed(r) <= Greatest(0, request[r].now - Row(r).refilledAt)
           /\ Refilled(r) \in Nat
           /\ Refilled(r) <= Capacity
           /\ Refilled(r) <= Row(r).tokens + Elapsed(r)
           /\ Rewind(r) \in Nat
<1>1. request[r].now \in Nat
  BY DEF Typed, Request
<1>2. Row(r) \in Bucket
  BY <1>1, BucketAssumption DEF Typed, Row, Bucket
<1>3. Row(r).tokens \in Nat /\ Row(r).refilledAt \in Nat
  BY <1>2 DEF Bucket
<1> DEFINE ticks == request[r].now - Row(r).refilledAt
<1>4. ticks \in Int
  BY <1>1, <1>3
<1>5. \A a \in Int, b \in Nat \ {0} : a % b \in Int /\ 0 <= a % b
  OBVIOUS
<1>6. ticks % Milli \in Int /\ 0 <= ticks % Milli
  BY <1>4, <1>5, TimeAssumption
<1>7. ticks >= 0 => 0 <= ticks - (ticks % Milli)
  BY <1>4, TimeAssumption
<1>8. Elapsed(r) = Greatest(0, ticks - (ticks % Milli))
  BY DEF Elapsed
<1> HIDE DEF ticks
<1>9. Elapsed(r) \in Nat /\ Elapsed(r) <= Greatest(0, ticks)
  BY <1>4, <1>6, <1>8 DEF Greatest
<1>10. /\ Refilled(r) \in Nat
       /\ Refilled(r) <= Capacity
       /\ Refilled(r) <= Row(r).tokens + Elapsed(r)
  BY <1>3, <1>9, BucketAssumption DEF Refilled, Least
<1>11. Rewind(r) \in Nat
  BY <1>1, <1>3 DEF Rewind, Greatest
<1> QED BY <1>2, <1>9, <1>10, <1>11 DEF ticks

\* A use of the bucket that hands out n tokens keeps the bound.
LEMMA UseBounded ==
    ASSUME Typed, TimesPast, GrantsBounded, NEW r \in Requests, NEW n \in Nat,
           Cost * n <= Refilled(r), Cost * n \in Nat,
           bucket' = [tokens |-> Refilled(r) - Cost * n, refilledAt |-> request[r].now],
           Watch(r, n)
    PROVE  /\ GrantsBounded'
           /\ since' \in Nat \cup {None} /\ granted' \in Nat /\ rewound' \in Nat
           /\ bucket' \in Bucket
<1>1. /\ request[r].now \in Nat
      /\ Row(r).tokens \in Nat /\ Row(r).refilledAt \in Nat
      /\ Elapsed(r) \in Nat
      /\ Elapsed(r) <= Greatest(0, request[r].now - Row(r).refilledAt)
      /\ Refilled(r) \in Nat
      /\ Refilled(r) <= Capacity
      /\ Refilled(r) <= Row(r).tokens + Elapsed(r)
      /\ Rewind(r) \in Nat
  BY RefillBounded DEF Typed, Request, Bucket
<1>2. bucket' \in Bucket
  BY <1>1 DEF Bucket
<1>3. /\ bucket'.tokens = Refilled(r) - Cost * n
      /\ bucket'.refilledAt = request[r].now
  OBVIOUS
<1>4. CASE since = None /\ UNCHANGED <<since, granted, rewound>>
  BY <1>2, <1>4 DEF GrantsBounded, Typed
<1>5. CASE since = None /\ since' = request[r].now /\ granted' = n /\ rewound' = 0
  <2>1. Cost * granted' + bucket'.tokens = Refilled(r)
    BY <1>1, <1>3, <1>5
  <2>2. Cost * granted' + bucket'.tokens
            <= Capacity + (bucket'.refilledAt - since') + rewound'
    BY <1>1, <1>3, <1>5, <2>1, BucketAssumption
  <2> QED BY <1>1, <1>2, <1>5, <2>2 DEF GrantsBounded
<1>6. CASE /\ since # None
           /\ granted' = granted + n
           /\ rewound' = rewound + Rewind(r)
           /\ UNCHANGED since
  <2>1. bucket # None /\ Row(r) = bucket
    BY <1>6 DEF TimesPast, Row
  <2>2. since \in Nat /\ granted \in Nat /\ rewound \in Nat
    BY <1>6 DEF Typed
  <2>3. Cost * (granted + n) = Cost * granted + Cost * n /\ Cost * granted \in Nat
    BY <2>2, BucketAssumption
  <2>4. Cost * granted + Row(r).tokens <= Capacity + (Row(r).refilledAt - since) + rewound
    BY <1>6, <2>1 DEF GrantsBounded
  <2>5. Rewind(r) = Greatest(0, Row(r).refilledAt - request[r].now)
    BY DEF Rewind
  <2>6. Row(r).refilledAt + Elapsed(r) <= request[r].now + Rewind(r)
    BY <1>1, <2>5 DEF Greatest
  <2> DEFINE g == Cost * granted
             c == Cost * n
  <2> HIDE DEF g, c
  <2>7. (g + c) + (Refilled(r) - c)
            <= Capacity + (request[r].now - since) + (rewound + Rewind(r))
    <3>1. g \in Nat /\ c \in Nat
      BY <2>3 DEF g, c
    <3>2. g + Row(r).tokens <= Capacity + (Row(r).refilledAt - since) + rewound
      BY <2>4 DEF g
    <3> QED BY <1>1, <2>2, <2>6, <3>1, <3>2, BucketAssumption
  <2>8. Cost * granted' = g + c
    BY <1>6, <2>3 DEF g, c
  <2>9. bucket'.tokens = Refilled(r) - c
    BY <1>3 DEF c
  <2>10. GrantsBounded'
    BY <1>3, <1>6, <2>7, <2>8, <2>9 DEF GrantsBounded
  <2> QED BY <1>1, <1>2, <1>6, <2>2, <2>10
<1> QED BY <1>4, <1>5, <1>6 DEF Watch

-----------------------------------------------------------------------------

\* A thread moves on and leaves the bucket alone.
LEMMA BucketUntouched ==
    ASSUME Inv, UNCHANGED <<clock, bucket, watched>>, NEW r \in Requests,
           NEW pc \in Pc, NEW now \in Nat, now <= clock,
           request' = [request EXCEPT ![r] = [pc |-> pc, now |-> now]],
           \/ Weight(pc) <= Weight(request[r].pc)
           \/ Weight(pc) = Weight(request[r].pc) + 1 /\ Taken < PoolSize,
           pc = "locked" => \A s \in Requests \ {r} : request[s].pc # "locked"
    PROVE  Inv'
<1>1. request \in [Requests -> Request]
  BY DEF Inv, TypeOK
<1>2. /\ request'[r] = [pc |-> pc, now |-> now]
      /\ \A s \in Requests \ {r} : request'[s] = request[s]
      /\ request' \in [Requests -> Request]
  BY <1>1 DEF Request
<1>3. Typed'
  BY <1>2 DEF Inv, TypeOK, Typed, watched
<1>4. TypeOK'
  BY <1>2, <1>3, Moves DEF Inv
<1>5. TimesPast'
  BY <1>2 DEF Inv, TimesPast, watched
<1>6. GrantsBounded'
  BY DEF Inv, GrantsBounded, watched
<1> QED BY <1>4, <1>5, <1>6 DEF Inv

\* A thread uses the bucket and leaves its transaction.
LEMMA BucketUsed ==
    ASSUME Inv, NEW r \in Requests, request[r].pc = "locked", clock' = clock,
           NEW pc \in {"admitted", "denied"}, Leave(r, pc),
           NEW n \in Nat, Cost * n <= Refilled(r), Cost * n \in Nat,
           bucket' = [tokens |-> Refilled(r) - Cost * n, refilledAt |-> request[r].now],
           Watch(r, n), promise' \in Nat \cup {None}
    PROVE  Inv'
<1>1. Typed /\ TimesPast /\ GrantsBounded /\ request \in [Requests -> Request]
  BY TypeParts DEF Inv, Typed
<1>2. /\ GrantsBounded'
      /\ since' \in Nat \cup {None} /\ granted' \in Nat /\ rewound' \in Nat
      /\ bucket' \in Bucket
  BY <1>1, UseBounded
<1>3. /\ request'[r] = [pc |-> pc, now |-> 0]
      /\ \A s \in Requests \ {r} : request'[s] = request[s]
      /\ request' \in [Requests -> Request]
  BY <1>1 DEF Leave, Request, Pc
<1>4. Typed'
  BY <1>1, <1>2, <1>3 DEF Typed
<1>5. Weight(pc) <= Weight(request[r].pc)
  BY DEF Weight, OnePc
<1>6. TypeOK'
  BY <1>3, <1>4, <1>5, Moves DEF Inv
<1>7. clock \in Nat /\ request[r].now <= clock /\ bucket' # None
  BY <1>1, <1>2, NoneAssumption DEF Typed, TimesPast, Bucket
<1>8. TimesPast'
  BY <1>1, <1>3, <1>7 DEF TimesPast
<1> QED BY <1>2, <1>6, <1>8 DEF Inv

LEMMA StepInv == Inv /\ [Next]_vars => Inv'
<1> SUFFICES ASSUME Inv, [Next]_vars PROVE Inv'
  OBVIOUS
<1>t. /\ request \in [Requests -> Request]
      /\ \A r \in Requests :
           /\ request[r] \in Request
           /\ request[r].pc \in Pc /\ request[r].now \in Nat /\ request[r].now <= clock
           /\ \A pc : [request EXCEPT ![r].pc = pc]
                        = [request EXCEPT ![r] = [pc |-> pc, now |-> request[r].now]]
  BY DEF Inv, TypeOK, TimesPast, Request
<1>c. clock \in Nat /\ 0 <= clock
  BY DEF Inv, TypeOK
<1>1. ASSUME NEW r \in Requests, Arrive(r) PROVE Inv'
  <2>1. PICK pc \in {"queued", "admitted"} : Goto(r, pc)
    BY <1>1 DEF Arrive
  <2>2. request' = [request EXCEPT ![r] = [pc |-> pc, now |-> request[r].now]]
    BY <1>t, <2>1 DEF Goto
  <2>3. Weight(pc) <= Weight(request[r].pc)
    BY DEF Weight, OnePc
  <2> QED BY <1>1, <1>t, <2>2, <2>3, BucketUntouched DEF Arrive, Pc
<1>2. ASSUME NEW r \in Requests, Begin(r) PROVE Inv'
  <2>1. request' = [request EXCEPT ![r] = [pc |-> "begun", now |-> clock]]
    BY <1>2 DEF Begin
  <2>2. Weight("begun") = Weight(request[r].pc) + 1 /\ Taken < PoolSize
    BY <1>2 DEF Begin, Weight, OnePc
  <2>3. UNCHANGED <<clock, bucket, watched>>
    BY <1>2 DEF Begin
  <2>4. "begun" \in Pc /\ clock <= clock
    BY <1>c DEF Pc
  <2> QED BY <1>c, <2>1, <2>2, <2>3, <2>4, BucketUntouched
<1>3. ASSUME NEW r \in Requests, Lock(r) PROVE Inv'
  <2>1. request' = [request EXCEPT ![r] = [pc |-> "locked", now |-> request[r].now]]
    BY <1>3, <1>t DEF Lock, Goto
  <2>2. Weight("locked") <= Weight(request[r].pc)
    BY <1>3 DEF Lock, Weight, OnePc
  <2> QED BY <1>3, <1>t, <2>1, <2>2, BucketUntouched DEF Lock, Pc
<1>4. ASSUME NEW r \in Requests, Allow(r) PROVE Inv'
  <2>1. Typed
    BY TypeParts DEF Inv
  <2>2. Refilled(r) \in Nat
    BY <2>1, RefillBounded
  <2>3. Cost * 1 = Cost /\ Cost \in Nat
    BY BucketAssumption
  <2>4. /\ Cost * 1 <= Refilled(r)
        /\ bucket' = [tokens |-> Refilled(r) - Cost * 1, refilledAt |-> request[r].now]
    BY <1>4, <2>2, <2>3 DEF Allow
  <2> QED BY <1>4, <2>3, <2>4, BucketUsed DEF Allow
<1>5. ASSUME NEW r \in Requests, Deny(r) PROVE Inv'
  <2>1. Typed
    BY TypeParts DEF Inv
  <2>2. Refilled(r) \in Nat
    BY <2>1, RefillBounded
  <2>3. Cost * 0 = 0
    BY BucketAssumption
  <2>4. /\ Cost * 0 <= Refilled(r)
        /\ bucket' = [tokens |-> Refilled(r) - Cost * 0, refilledAt |-> request[r].now]
    BY <1>5, <2>2, <2>3 DEF Deny
  <2>5. RetryAfter(r) \in Nat
    <3> DEFINE secs == Greatest(1, (Cost - Refilled(r) + Second - 1) \div Second)
    <3>1. (Cost - Refilled(r) + Second - 1) \div Second \in Int
      BY <2>2, BucketAssumption, TimeAssumption
    <3>2. secs \in Nat
      BY <3>1 DEF Greatest
    <3> HIDE DEF secs
    <3>3. secs * Second \in Nat
      BY <3>2, TimeAssumption
    <3> QED BY <3>3 DEF secs, RetryAfter
  <2>6. promise' \in Nat \cup {None}
    BY <1>5, <1>c, <2>5 DEF Deny
  <2> QED BY <1>5, <2>3, <2>4, <2>6, BucketUsed DEF Deny
<1>6. ASSUME NEW r \in Requests, Open(r) PROVE Inv'
  <2>1. request' = [request EXCEPT ![r] = [pc |-> "open", now |-> request[r].now]]
    BY <1>6, <1>t DEF Open, Goto
  <2>2. Weight("open") = Weight(request[r].pc) + 1 /\ Taken < PoolSize
    BY <1>6 DEF Open, Weight, OnePc
  <2> QED BY <1>6, <1>t, <2>1, <2>2, BucketUntouched DEF Open, Pc
<1>7. ASSUME NEW r \in Requests, Nest(r) PROVE Inv'
  <2>1. request' = [request EXCEPT ![r] = [pc |-> "nested", now |-> request[r].now]]
    BY <1>7, <1>t DEF Nest, Goto
  <2>2. Weight("nested") <= Weight(request[r].pc)
    BY <1>7 DEF Nest, Weight, OnePc
  <2> QED BY <1>7, <1>t, <2>1, <2>2, BucketUntouched DEF Nest, Pc
<1>8. ASSUME NEW r \in Requests, Record(r) PROVE Inv'
  <2>1. request' = [request EXCEPT ![r] = [pc |-> "recording", now |-> request[r].now]]
    BY <1>8, <1>t DEF Record, Goto
  <2>2. Weight("recording") = Weight(request[r].pc) + 1 /\ Taken < PoolSize
    BY <1>8 DEF Record, Weight, OnePc
  <2> QED BY <1>8, <1>t, <2>1, <2>2, BucketUntouched DEF Record, Pc
<1>9. ASSUME NEW r \in Requests, CommitRecord(r) PROVE Inv'
  <2>1. request' = [request EXCEPT ![r] = [pc |-> "recorded", now |-> request[r].now]]
    BY <1>9, <1>t DEF CommitRecord, Goto
  <2>2. Weight("recorded") <= Weight(request[r].pc)
    BY <1>9 DEF CommitRecord, Weight, OnePc
  <2> QED BY <1>9, <1>t, <2>1, <2>2, BucketUntouched DEF CommitRecord, Pc
<1>10. ASSUME NEW r \in Requests, Respond(r) \/ TimeOut(r) \/ Fail(r) PROVE Inv'
  <2>1. /\ request' = [request EXCEPT ![r] = [pc |-> "idle", now |-> 0]]
        /\ UNCHANGED <<clock, bucket, watched>>
    BY <1>10 DEF Respond, TimeOut, Fail, Idle
  <2>2. Weight("idle") <= Weight(request[r].pc)
    BY DEF Weight, OnePc
  <2> QED BY <1>c, <2>1, <2>2, BucketUntouched DEF Pc
<1>11. CASE Tick
  <2>1. UNCHANGED <<bucket, request, watched>> /\ clock' = clock + 1
    BY <1>11 DEF Tick
  <2>2. TypeOK'
    BY <1>c, <2>1 DEF Inv, TypeOK, watched, Taken, HoldingOne, HoldingTwo
  <2>3. TimesPast'
    BY <1>c, <1>t, <2>1 DEF Inv, TimesPast, watched, TypeOK, Bucket
  <2>4. GrantsBounded'
    BY <2>1 DEF Inv, GrantsBounded, watched
  <2> QED BY <2>2, <2>3, <2>4 DEF Inv
<1>12. CASE UNCHANGED vars
  BY <1>12 DEF vars, watched, Inv, TypeOK, TimesPast, GrantsBounded, Taken, HoldingOne, HoldingTwo
<1> QED
  BY <1>1, <1>2, <1>3, <1>4, <1>5, <1>6, <1>7, <1>8, <1>9, <1>10, <1>11, <1>12 DEF Next, Step

\* For any number of requests, connections and sizes of the bucket: the pool never hands
\* out more connections than it has, and one request at a time has the bucket's row.
THEOREM TypeCorrect == Spec => []TypeOK
<1>1. Spec => []Inv
  BY InitInv, StepInv, PTL DEF Spec
<1>2. Inv => TypeOK
  BY DEF Inv
<1> QED BY <1>1, <1>2, PTL

\* From any use of the bucket on, what it hands out is a full bucket and the refill since
\* then, and what late requests have set back.
THEOREM GrantsStayBounded == Spec => []GrantsBounded
<1>1. Spec => []Inv
  BY InitInv, StepInv, PTL DEF Spec
<1>2. Inv => GrantsBounded
  BY DEF Inv
<1> QED BY <1>1, <1>2, PTL

\* The documented rate, burst and refill of the time, holds for every span of time in which
\* no request that waited has set refilled_at back.
THEOREM RateSustained == Spec => []SustainedRate
<1>1. Spec => []Inv
  BY InitInv, StepInv, PTL DEF Spec
<1>2. Inv => SustainedRate
  <2> SUFFICES ASSUME Inv, since # None, rewound = 0
               PROVE  Cost * granted <= Capacity + (clock - since)
    BY DEF SustainedRate
  <2>1. /\ clock \in Nat /\ since \in Nat /\ granted \in Nat
        /\ bucket.tokens \in Nat /\ bucket.refilledAt \in Nat
        /\ bucket.refilledAt <= clock
    BY DEF Inv, TypeOK, TimesPast, Bucket
  <2>2. Cost * granted + bucket.tokens <= Capacity + (bucket.refilledAt - since) + 0
    BY DEF Inv, GrantsBounded
  <2>3. Cost * granted \in Nat
    BY <2>1, BucketAssumption
  <2> QED BY <2>1, <2>2, <2>3, BucketAssumption
<1> QED BY <1>1, <1>2, PTL

-----------------------------------------------------------------------------

\* Arithmetic of whole milliseconds and seconds.  What is rounded up to a multiple of s is
\* not less than it was.
LEMMA RoundedUp ==
    ASSUME NEW n \in Int, NEW s \in Nat \ {0}
    PROVE  /\ (n + s - 1) \div s \in Int
           /\ ((n + s - 1) \div s) * s >= n
<1> DEFINE x == n + s - 1
<1>1. x \in Int
  OBVIOUS
<1> HIDE DEF x
<1>2. x \div s \in Int /\ x % s \in 0..(s - 1) /\ x = s * (x \div s) + (x % s)
  BY <1>1
<1>3. (x \div s) * s = s * (x \div s) /\ s * (x \div s) \in Int
  BY <1>2
<1>4. s * (x \div s) >= x - (s - 1)
  BY <1>1, <1>2, <1>3
<1> QED BY <1>2, <1>3, <1>4 DEF x

\* Whole seconds are whole milliseconds.
LEMMA WholeMillis ==
    ASSUME NEW k \in Nat
    PROVE  k * Second \in Nat /\ (k * Second) % Milli = 0
<1> DEFINE d == Second \div Milli
<1>1. Second = Milli * d /\ d \in Int
  BY TimeAssumption
<1> HIDE DEF d
<1>2. k * Second = Milli * (k * d) /\ k * d \in Int
  BY <1>1, TimeAssumption
<1>3. \A j \in Int : (Milli * j) % Milli = 0
  BY TimeAssumption
<1>4. k * Second \in Nat
  BY TimeAssumption
<1> QED BY <1>2, <1>3, <1>4

\* Dropping what is left of a millisecond keeps every whole millisecond.
LEMMA MillisKept ==
    ASSUME NEW x \in Int, NEW w \in Int, w % Milli = 0, w <= x
    PROVE  w <= x - (x % Milli)
<1> DEFINE q == x \div Milli
           v == w \div Milli
<1>1. x % Milli \in 0..(Milli - 1) /\ q \in Int /\ x = Milli * q + (x % Milli)
  BY TimeAssumption
<1>2. v \in Int /\ w = Milli * v
  BY TimeAssumption
<1> HIDE DEF q, v
<1>3. Milli * q \in Int /\ Milli * v \in Int /\ Milli \in Nat \ {0}
  BY <1>1, <1>2, TimeAssumption
<1>4. v <= q
  <2> SUFFICES ASSUME q + 1 <= v PROVE FALSE
    BY <1>1, <1>2
  <2>1. Milli * (q + 1) <= Milli * v
    BY <1>1, <1>2, <1>3
  <2>2. Milli * (q + 1) = Milli * q + Milli
    BY <1>1, <1>3
  <2> QED BY <1>1, <1>2, <1>3, <2>1, <2>2
<1>5. Milli * v <= Milli * q
  BY <1>1, <1>2, <1>3, <1>4
<1> QED BY <1>1, <1>2, <1>3, <1>5

\* The last answer, if it was a denial, told the client to wait until the bucket, which
\* nobody has used since, will hold a token.
PromiseSound ==
    promise # None =>
        /\ bucket # None
        /\ \E wait \in Nat :
              /\ wait % Milli = 0
              /\ promise >= bucket.refilledAt + wait
              /\ bucket.tokens + wait >= Cost

LEMMA InitPromise == Init => PromiseSound
BY DEF Init, PromiseSound

\* A denial makes such a promise.
LEMMA DenyPromises ==
    ASSUME Inv, NEW r \in Requests, Deny(r)
    PROVE  PromiseSound'
<1>1. Typed /\ clock \in Nat /\ request[r].now \in Nat /\ request[r].now <= clock
  BY TypeParts DEF Inv, Typed, TimesPast, Request
<1>2. Refilled(r) \in Nat
  BY <1>1, RefillBounded
<1> DEFINE n == Cost - Refilled(r)
           secs == Greatest(1, (n + Second - 1) \div Second)
           wait == secs * Second
<1>3. n \in Int
  BY <1>2, BucketAssumption
<1>4. RetryAfter(r) = wait
  BY DEF RetryAfter
<1> HIDE DEF n
<1>5. /\ (n + Second - 1) \div Second \in Int
      /\ ((n + Second - 1) \div Second) * Second >= n
  BY <1>3, RoundedUp, TimeAssumption
<1> DEFINE q == (n + Second - 1) \div Second
<1> HIDE DEF q
<1>6. q \in Int /\ q * Second >= n /\ secs = Greatest(1, q)
  BY <1>5 DEF q
<1> HIDE DEF secs
<1>7. secs \in Nat /\ q <= secs
  BY <1>6 DEF Greatest
<1>8. q * Second <= secs * Second /\ q * Second \in Int /\ secs * Second \in Int
  BY <1>6, <1>7, TimeAssumption
<1>9. wait \in Nat /\ wait % Milli = 0 /\ wait >= n
  BY <1>3, <1>6, <1>7, <1>8, WholeMillis
<1> HIDE DEF wait
<1>10. Refilled(r) + wait >= Cost
  BY <1>2, <1>9, BucketAssumption DEF n
<1>11. /\ bucket' = [tokens |-> Refilled(r), refilledAt |-> request[r].now]
       /\ promise' = clock + wait
  BY <1>4 DEF Deny
<1>12. bucket' # None
  BY <1>1, <1>2, <1>11, NoneAssumption
<1>13. /\ promise' >= bucket'.refilledAt + wait
       /\ bucket'.tokens + wait >= Cost
  BY <1>1, <1>9, <1>10, <1>11
<1> QED BY <1>9, <1>12, <1>13 DEF PromiseSound

\* Only a use of the bucket touches it or the promise, and it makes a new one or none.
LEMMA StepPromise == Inv /\ PromiseSound /\ [Next]_vars => PromiseSound'
<1> SUFFICES ASSUME Inv, PromiseSound, [Next]_vars PROVE PromiseSound'
  OBVIOUS
<1>1. ASSUME NEW r \in Requests, Deny(r) PROVE PromiseSound'
  BY <1>1, DenyPromises
<1>2. ASSUME NEW r \in Requests, Allow(r) PROVE PromiseSound'
  BY <1>2 DEF Allow, PromiseSound
<1>3. CASE UNCHANGED <<bucket, promise>>
  BY <1>3 DEF PromiseSound
<1> QED
  BY <1>1, <1>2, <1>3
  DEF Next, Step, Arrive, Begin, Lock, Open, Nest, Record, CommitRecord, Respond, TimeOut,
      Fail, Tick, vars, watched

\* Whoever finds the bucket at the promised time or later finds a token in it.
LEMMA PromiseKept ==
    ASSUME Inv, PromiseSound, NEW r \in Requests, promise # None, request[r].now >= promise
    PROVE  Refilled(r) >= Cost
<1>1. Typed /\ promise \in Nat /\ request[r].now \in Nat
  BY TypeParts DEF Inv, Typed, Request
<1>2. Row(r) = bucket /\ Row(r).tokens \in Nat /\ Row(r).refilledAt \in Nat
  BY <1>1, RefillBounded DEF PromiseSound, Row, Bucket
<1>3. PICK wait \in Nat : /\ wait % Milli = 0
                          /\ promise >= Row(r).refilledAt + wait
                          /\ Row(r).tokens + wait >= Cost
  BY <1>2 DEF PromiseSound
<1> DEFINE ticks == request[r].now - Row(r).refilledAt
<1>4. ticks \in Int /\ wait <= ticks
  BY <1>1, <1>2, <1>3
<1>5. Elapsed(r) = Greatest(0, ticks - (ticks % Milli))
  BY DEF Elapsed
<1> HIDE DEF ticks
<1>6. wait <= ticks - (ticks % Milli) /\ ticks % Milli \in Int
  BY <1>3, <1>4, MillisKept, TimeAssumption
<1>7. wait <= Elapsed(r) /\ Elapsed(r) \in Int
  BY <1>3, <1>4, <1>5, <1>6 DEF Greatest
<1>8. Row(r).tokens + Elapsed(r) >= Cost
  BY <1>2, <1>3, <1>7, BucketAssumption
<1> QED BY <1>2, <1>7, <1>8, BucketAssumption DEF Refilled, Least

\* For every rate, burst and overlap of requests: a client that comes back when the last
\* denial has asked it to, and before whom nobody has used the bucket again, is let in; the
\* rounding of Retry-After to whole seconds makes up for the milliseconds that consume()
\* drops, and for the time the denied request had waited for the row.
THEOREM RetryAfterIsHonored == Spec => RetryAfterHonored
<1>1. Spec => [](Inv /\ PromiseSound)
  BY InitInv, StepInv, InitPromise, StepPromise, PTL DEF Spec
<1>2. Inv /\ PromiseSound /\ [Next]_vars =>
        [\A r \in Requests :
           request[r].pc = "locked" /\ request'[r].pc = "denied" =>
               promise = None \/ request[r].now < promise]_vars
  <2> SUFFICES ASSUME Inv, PromiseSound, [Next]_vars,
                      NEW r \in Requests, request[r].pc = "locked",
                      request'[r].pc = "denied", promise # None,
                      request[r].now >= promise
               PROVE  FALSE
    <3>1. Inv => (\A s \in Requests : request[s].now \in Nat) /\ promise \in Nat \cup {None}
      BY DEF Inv, TypeOK, Request
    <3> QED BY <3>1
  <2>1. request \in [Requests -> Request]
    BY DEF Inv, TypeOK
  <2>2. Deny(r)
    <3>1. ASSUME NEW s \in Requests, NEW pc, NEW now, pc # "denied",
                 request' = [request EXCEPT ![s] = [pc |-> pc, now |-> now]]
          PROVE  FALSE
      BY <2>1, <3>1
    <3>2. ASSUME NEW s \in Requests, NEW pc, pc # "denied",
                 request' = [request EXCEPT ![s].pc = pc]
          PROVE  FALSE
      BY <2>1, <3>2 DEF Request
    <3>3. ASSUME NEW s \in Requests, Allow(s) PROVE FALSE
      BY <2>1, <3>3 DEF Allow, Leave, Request
    <3>4. ASSUME NEW s \in Requests, Deny(s) PROVE s = r
      BY <2>1, <3>4 DEF Deny, Leave
    <3>5. \A s \in Requests : ~Arrive(s) /\ ~Lock(s) /\ ~Begin(s)
      BY <3>1, <3>2 DEF Arrive, Lock, Begin, Goto
    <3>6. \A s \in Requests : ~Open(s) /\ ~Nest(s) /\ ~Record(s) /\ ~CommitRecord(s)
      BY <3>2 DEF Open, Nest, Record, CommitRecord, Goto
    <3>7. \A s \in Requests : ~Respond(s) /\ ~TimeOut(s) /\ ~Fail(s)
      BY <3>1 DEF Respond, TimeOut, Fail, Idle
    <3>8. ~Tick /\ ~UNCHANGED vars
      BY DEF Tick, vars
    <3> QED BY <3>3, <3>4, <3>5, <3>6, <3>7, <3>8 DEF Next, Step
  <2>3. Refilled(r) < Cost
    BY <2>2 DEF Deny
  <2>4. Refilled(r) >= Cost
    BY PromiseKept
  <2>5. Refilled(r) \in Nat
    BY RefillBounded, TypeParts DEF Inv
  <2> QED BY <2>3, <2>4, <2>5, BucketAssumption
<1> QED BY <1>1, <1>2, PTL DEF Spec, RetryAfterHonored

=============================================================================
