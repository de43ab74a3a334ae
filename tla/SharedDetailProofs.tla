------------------------- MODULE SharedDetailProofs -------------------------
(***************************************************************************)
(* What EntryRegistry promises holds of it, for any entries, envelopes and *)
(* retention, and what SharedDetail tells readers of entries that change   *)
(* between its two queries.                                                *)
(***************************************************************************)
EXTENDS SharedDetail, TLAPS

RegistryInv == RegistryTypeOK /\ HeadIsNewest

LEMMA InitRegistry == Init => RegistryInv
BY DEF Init, RegistryInv, RegistryTypeOK, HeadIsNewest

LEMMA StepRegistry == RegistryInv /\ [Next]_vars => RegistryInv'
<1> SUFFICES ASSUME RegistryInv, [Next]_vars PROVE RegistryInv'
  OBVIOUS
<1> USE DEF RegistryInv, RegistryTypeOK, HeadIsNewest, HeadVersion, PastVersion
<1>1. ASSUME NEW e \in Envelope, Create(e) PROVE RegistryInv'
  BY <1>1 DEF Create
<1>2. ASSUME NEW h \in heads, NEW e \in Envelope, NEW when \in 0..clock, Publish(h, e, when)
      PROVE  RegistryInv'
  <2> DEFINE new == [env |-> e, version |-> h.version + 1]
             old == [env |-> h.env, version |-> h.version, supersededAt |-> when]
  <2>1. new \in HeadVersion /\ old \in PastVersion
    OBVIOUS
  <2>2. heads' = (heads \ {h}) \cup {new} /\ past' = past \cup {old} /\ clock' = clock
    BY <1>2 DEF Publish
  <2>3. /\ new.env.entry = h.env.entry /\ new.version = h.version + 1
        /\ old.env.entry = h.env.entry /\ old.version = h.version
    BY <1>2 DEF Publish
  <2> HIDE DEF new, old
  <2>4. RegistryTypeOK'
    BY <2>1, <2>2
  <2>5. \A f, g \in heads' : f.env.entry = g.env.entry => f = g
    BY <2>2, <2>3
  <2>6. \A p \in past' : \E g \in heads' : g.env.entry = p.env.entry /\ p.version < g.version
    <3> SUFFICES ASSUME NEW p \in past'
                 PROVE  \E g \in heads' : g.env.entry = p.env.entry /\ p.version < g.version
      OBVIOUS
    <3>1. CASE p = old
      BY <2>1, <2>2, <2>3, <3>1
    <3>2. CASE p # old
      <4>1. p \in past
        BY <2>2, <3>2
      <4>2. PICK g \in heads : g.env.entry = p.env.entry /\ p.version < g.version
        BY <4>1
      <4>3. g.version \in Nat /\ p.version \in Nat
        BY <4>1
      <4> QED BY <2>2, <2>3, <4>2, <4>3
    <3> QED BY <3>1, <3>2
  <2> QED BY <2>4, <2>5, <2>6
<1>3. ASSUME NEW S \in SUBSET past, Expire(S) PROVE RegistryInv'
  BY <1>3 DEF Expire
<1>4. CASE Tick
  BY <1>4 DEF Tick
<1>5. CASE UNCHANGED vars
  BY <1>5 DEF vars
<1> QED BY <1>1, <1>2, <1>3, <1>4, <1>5 DEF Next

\* Every entry has at most one head, and it is newer than every superseded version of the
\* entry that is kept: what readers of the registry rely on.
THEOREM RegistryKeepsHeads == Spec => []HeadIsNewest
<1>1. RegistryInv => HeadIsNewest
  BY DEF RegistryInv
<1> QED BY <1>1, InitRegistry, StepRegistry, PTL DEF Spec

-----------------------------------------------------------------------------

\* What was purged had been superseded for longer than the retention period.
DetailInv ==
    /\ RegistryInv
    /\ TypeOK
    /\ \A p \in expired : p.supersededAt + Retention < clock

LEMMA InitDetail == DetailInit => DetailInv
<1> SUFFICES ASSUME DetailInit PROVE DetailInv
  OBVIOUS
<1>1. RegistryInv
  BY InitRegistry DEF DetailInit
<1>2. request \in [Verifiers -> Request]
  BY DEF DetailInit, Request, Status
<1> QED BY <1>1, <1>2 DEF DetailInit, DetailInv, TypeOK, RegistryInv

\* The registry steps of SharedDetail are steps of the registry.
LEMMA RegistrySteps ==
    ASSUME DetailInv, RegistryStep
    PROVE  /\ RegistryInv'
           /\ \A p \in past \ past' : p.supersededAt + Retention < clock
           /\ clock \in Nat /\ clock' \in Nat /\ clock <= clock'
<1>t. clock \in Nat /\ past \subseteq PastVersion /\ heads \subseteq HeadVersion
  BY DEF DetailInv, RegistryInv, RegistryTypeOK
<1>1. ASSUME NEW e \in Envelope, Create(e)
      PROVE  Next /\ past \ past' = {} /\ clock' = clock
  BY <1>1 DEF Create, Next
<1>2. ASSUME NEW h \in heads, NEW e \in Envelope, NEW when \in 0..clock, Publish(h, e, when)
      PROVE  Next /\ past \ past' = {} /\ clock' = clock
  <2>1. Next
    BY <1>2 DEF Next
  <2> QED BY <1>2, <2>1 DEF Publish
<1>3. ASSUME NEW S \in SUBSET past, Expire(S)
      PROVE  /\ Next /\ clock' = clock
             /\ \A p \in past \ past' : p.supersededAt + Retention < clock
  <2>1. Next
    BY <1>3 DEF Next
  <2> QED BY <1>3, <2>1 DEF Expire
<1>4. ASSUME Tick PROVE Next /\ past \ past' = {} /\ clock' = clock + 1
  BY <1>4 DEF Tick, Next
<1>5. /\ Next /\ clock' \in {clock, clock + 1}
      /\ \A p \in past \ past' : p.supersededAt + Retention < clock
  BY <1>1, <1>2, <1>3, <1>4 DEF RegistryStep
<1>6. RegistryInv'
  BY <1>5, StepRegistry DEF DetailInv
<1> QED BY <1>t, <1>5, <1>6

LEMMA StepDetail == DetailInv /\ [DetailNext]_detailVars => DetailInv'
<1> SUFFICES ASSUME DetailInv, [DetailNext]_detailVars PROVE DetailInv'
  OBVIOUS
<1>t. /\ expired \subseteq PastVersion /\ past \subseteq PastVersion /\ Retention \in Nat
      /\ request \in [Verifiers -> Request]
  BY BoundsAssumption DEF DetailInv, TypeOK, RegistryTypeOK
<1>1. CASE RegistryStep
  <2>1. /\ RegistryInv' /\ clock \in Nat /\ clock' \in Nat /\ clock <= clock'
        /\ \A p \in past \ past' : p.supersededAt + Retention < clock
    BY <1>1, RegistrySteps
  <2>2. expired' = expired \cup (past \ past') /\ request' = request
    BY <1>1 DEF RegistryStep
  <2>3. \A p \in expired' : p \in PastVersion /\ p.supersededAt + Retention < clock'
    <3> SUFFICES ASSUME NEW p \in expired'
                 PROVE  p \in PastVersion /\ p.supersededAt + Retention < clock'
      OBVIOUS
    <3>1. p \in PastVersion /\ p.supersededAt + Retention < clock
      BY <1>t, <2>1, <2>2 DEF DetailInv
    <3>2. p.supersededAt \in Nat
      BY <3>1 DEF PastVersion
    <3> QED BY <1>t, <2>1, <3>1, <3>2
  <2> QED BY <1>t, <2>1, <2>2, <2>3 DEF DetailInv, TypeOK, RegistryInv
<1>2. ASSUME NEW v \in Verifiers, LookupRecipient(v) PROVE DetailInv'
  <2>1. /\ UNCHANGED <<heads, past, clock, expired>>
        /\ request' = [request EXCEPT ![v].status =
                          IF IsRecipient(v, request[v].entry) THEN "410" ELSE "404"]
    BY <1>2 DEF LookupRecipient
  <2>2. request' \in [Verifiers -> Request]
    BY <1>t, <2>1 DEF Request, Status
  <2> QED BY <2>1, <2>2 DEF DetailInv, TypeOK, RegistryInv, RegistryTypeOK, HeadIsNewest
<1>3. ASSUME NEW v \in Verifiers, NEW e \in Entries, LookupCurrent(v, e) PROVE DetailInv'
  <2>1. /\ UNCHANGED <<heads, past, clock, expired>>
        /\ request' = [request EXCEPT ![v] =
                          [entry |-> e, status |-> IF IsReader(v, e) THEN "200" ELSE "missed"]]
    BY <1>3 DEF LookupCurrent
  <2>2. request' \in [Verifiers -> Request]
    BY <1>t, <2>1 DEF Request, Status
  <2> QED BY <2>1, <2>2 DEF DetailInv, TypeOK, RegistryInv, RegistryTypeOK, HeadIsNewest
<1>4. CASE UNCHANGED detailVars
  BY <1>4 DEF detailVars, DetailInv, TypeOK, RegistryInv, RegistryTypeOK, HeadIsNewest
<1> QED BY <1>1, <1>2, <1>3, <1>4 DEF DetailNext

LEMMA AlwaysDetail == DetailSpec => []DetailInv
BY InitDetail, StepDetail, PTL DEF DetailSpec

\* The registry that readers see keeps one head for every entry.
THEOREM ReadersSeeHeads == DetailSpec => [](TypeOK /\ HeadIsNewest)
<1>1. DetailInv => TypeOK /\ HeadIsNewest
  BY DEF DetailInv, RegistryInv
<1> QED BY <1>1, AlwaysDetail, PTL

\* A verifier that is told 404 is named by purged versions only, and those were old.
LEMMA NotFoundIsOld ==
    ASSUME DetailInv, DetailNext, NEW v \in Verifiers, Answers(v, "404"),
           NEW p \in past \cup expired, Names(p, v, request[v].entry)
    PROVE  p.supersededAt + Retention < clock
<1>1. request[v].status = "missed" /\ request'[v].status = "404"
  BY DEF Answers
<1>2. request \in [Verifiers -> Request]
  BY DEF DetailInv, TypeOK
<1>3. ~RegistryStep
  BY <1>1 DEF RegistryStep
<1>4. ASSUME NEW u \in Verifiers, NEW e \in Entries, LookupCurrent(u, e) PROVE FALSE
  BY <1>1, <1>2, <1>4 DEF LookupCurrent
<1>5. PICK u \in Verifiers : LookupRecipient(u)
  BY <1>3, <1>4 DEF DetailNext
<1>6. u = v
  BY <1>1, <1>2, <1>5 DEF LookupRecipient
<1>7. ~IsRecipient(v, request[v].entry)
  BY <1>1, <1>2, <1>5, <1>6 DEF LookupRecipient, Request
<1>8. p \in expired
  BY <1>7 DEF IsRecipient
<1> QED BY <1>8 DEF DetailInv

\* Whatever is published or purged between the two queries of detail, 404 is not for a
\* verifier that a version named which was superseded within the retention period.
THEOREM RecentReadersAreTold == DetailSpec => RecentReadersNotTold404
<1>1. DetailInv /\ [DetailNext]_detailVars =>
        [\A v \in Verifiers : Answers(v, "404") =>
           \A p \in past \cup expired :
              Names(p, v, request[v].entry) => p.supersededAt + Retention < clock]_detailVars
  BY NotFoundIsOld
<1> QED BY <1>1, AlwaysDetail, PTL DEF DetailSpec, RecentReadersNotTold404

=============================================================================
