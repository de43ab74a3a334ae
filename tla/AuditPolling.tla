---------------------------- MODULE AuditPolling ----------------------------
(***************************************************************************)
(* AuditChain with a reader: an external checker that asks                 *)
(* AdminAuditController for the rows after the last seq it knows, again    *)
(* and again, while events are recorded.                                   *)
(***************************************************************************)
EXTENDS AuditChain

CONSTANTS
    Limit,      \* the page size the reader asks for
    MaxLimit    \* MAX_LIMIT

ASSUME LimitAssumption == Limit \in Int /\ MaxLimit \in Nat \ {0}

VARIABLES
    since,      \* since_seq of the reader's next request
    seen        \* the seqs it has been given

pollVars == <<log, nextSeq, writer, since, seen>>

PollTypeOK ==
    /\ TypeOK
    /\ since \in Nat
    /\ seen \subseteq Nat

PollInit ==
    /\ Init
    /\ since = 0
    /\ seen = {}

-----------------------------------------------------------------------------

\* Slip: an unreasonable limit is cut off above, not below.
LimitNotRaised == IF Limit < MaxLimit THEN Limit ELSE MaxLimit

EffectiveLimit ==
    LET raised == IF Limit > 1 THEN Limit ELSE 1
    IN  IF raised < MaxLimit THEN raised ELSE MaxLimit

Unread == {r \in log : r.seq > since}

\* Slip: the newest rows first.
NewestPage ==
    {r \in Unread : Cardinality({q \in Unread : q.seq > r.seq}) < EffectiveLimit}

\* findBySeqGreaterThanOrderBySeqAsc.
Page == {r \in Unread : Cardinality({q \in Unread : q.seq < r.seq}) < EffectiveLimit}

\* read, and the reader goes on after the last row of the page.
Poll ==
    /\ Page # {}
    /\ \E last \in Page :
         /\ \A r \in Page : r.seq <= last.seq
         /\ since' = last.seq
    /\ seen' = seen \cup {r.seq : r \in Page}
    /\ UNCHANGED vars

PollNext ==
    \/ Next /\ UNCHANGED <<since, seen>>
    \/ Poll

PollSpec == PollInit /\ [][PollNext]_pollVars

FairPollSpec == PollSpec /\ WF_pollVars(Poll)

-----------------------------------------------------------------------------

\* A seq is drawn before its row is committed, so the reader can pass a row that comes
\* late; but only a row beside which the chain has gone on: when no two rows carry the
\* same prev_hash, everything up to since_seq has been read.
SkippedRowsForked ==
    WritersSerialized => \A r \in log : r.seq <= since => r.seq \in seen

\* The reader gets on, whatever page size it asks for: it reaches every row.
ReaderReachesRows ==
    \A s \in 1..(MaxSeq + Cardinality(Writers)) :
        (\E r \in log : r.seq = s) ~> since >= s

=============================================================================
