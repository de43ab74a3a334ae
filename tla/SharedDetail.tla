---------------------------- MODULE SharedDetail ----------------------------
(***************************************************************************)
(* SharedController.detail (GET /v1/shared/{entryId}) over the entries     *)
(* that EntryRegistry describes.                                           *)
(*                                                                         *)
(* The handler is not transactional: its two queries are two statements    *)
(* with a snapshot each, and issuers and the purge job run between them.   *)
(***************************************************************************)
EXTENDS EntryRegistry

CONSTANTS
    MaxVersion,  \* bound: no head beyond this version
    MaxClock     \* bound: the clock stops here

ASSUME BoundsAssumption == MaxVersion \in Nat \ {0} /\ MaxClock \in Nat /\ Retention \in Nat

VARIABLES
    expired,     \* superseded versions that have been purged (history)
    request      \* the request each verifier has made last

detailVars == <<heads, past, clock, expired, request>>

\* "missed": the first query found nothing; the last three are the responses.
Status == {"none", "missed", "200", "404", "410"}
Request == [entry : Entries, status : Status]

TypeOK ==
    /\ RegistryTypeOK
    /\ expired \subseteq PastVersion
    /\ request \in [Verifiers -> Request]

DetailInit ==
    /\ Init
    /\ expired = {}
    /\ request \in [Verifiers -> [entry : Entries, status : {"none"}]]

-----------------------------------------------------------------------------

Names(version, v, e) == version.env.entry = e /\ v \in version.env.recipients

\* findCurrentByEntryIdForVerifier.
IsReader(v, e) == \E h \in heads : Names(h, v, e)

\* Slip: the query looks at superseded versions only.
WasRecipientOfLast(v, e) ==
    \E p \in past : Names(p, v, e) /\ \A q \in past : q.env.entry = e => q.version <= p.version

\* existsByEntryIdAndVerifierId: entry_recipients of any stored version.
IsRecipient(v, e) == \E version \in heads \cup past : Names(version, v, e)

LookupCurrent(v, e) ==
    /\ request[v].status # "missed"
    /\ request' = [request EXCEPT ![v] =
                     [entry |-> e, status |-> IF IsReader(v, e) THEN "200" ELSE "missed"]]
    /\ UNCHANGED <<heads, past, clock, expired>>

LookupRecipient(v) ==
    /\ request[v].status = "missed"
    /\ request' = [request EXCEPT ![v].status =
                     IF IsRecipient(v, request[v].entry) THEN "410" ELSE "404"]
    /\ UNCHANGED <<heads, past, clock, expired>>

\* Issuers, the purge job and time, as EntryRegistry lets them act.
RegistryStep ==
    /\ \/ \E e \in Envelope : Create(e)
       \/ \E h \in heads, e \in Envelope :
            h.version < MaxVersion /\ \E when \in 0..clock : Publish(h, e, when)
       \/ \E S \in SUBSET past : S # {} /\ Expire(S)
       \/ clock < MaxClock /\ Tick
    /\ expired' = expired \cup (past \ past')
    /\ UNCHANGED request

DetailNext ==
    \/ RegistryStep
    \/ \E v \in Verifiers :
        LookupRecipient(v) \/ \E e \in Entries : LookupCurrent(v, e)

DetailSpec == DetailInit /\ [][DetailNext]_detailVars

-----------------------------------------------------------------------------

Answers(v, status) == request[v].status = "missed" /\ request'[v].status = status

\* 404 is not for former readers whose access lies within the retention period: when
\* detail answers 404, every version that ever named the verifier was superseded longer
\* ago than that, whatever was published or purged between the two queries.
RecentReadersNotTold404 ==
    [][\A v \in Verifiers : Answers(v, "404") =>
         \A p \in past \cup expired :
            Names(p, v, request[v].entry) => p.supersededAt + Retention < clock]_detailVars

\* api.md:208, "`410 Gone` | entry was purged (older superseded version requested)":
\* 410 is answered only when a version that named the verifier has been purged.
GoneMeansPurged ==
    [][\A v \in Verifiers : Answers(v, "410") =>
         \E p \in expired : Names(p, v, request[v].entry)]_detailVars

=============================================================================
