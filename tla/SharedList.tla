----------------------------- MODULE SharedList -----------------------------
(***************************************************************************)
(* SharedController.list (GET /v1/shared) over the entries EntryRegistry   *)
(* describes: keyset pages in the order created_at DESC, entry_id DESC,    *)
(* which a client walks by sending back next_cursor while issuers create   *)
(* and update entries.  One verifier walks the list.                       *)
(***************************************************************************)
EXTENDS EntryRegistry, FiniteSets, Sequences

CONSTANTS
    Reader,         \* the verifier that lists
    CreatedAt(_),   \* created_at of an envelope, as its issuer states it
    Limit,          \* limit, after it was clamped to 1..100
    MaxVersion,     \* bound: no head beyond this version
    None

\* entry_id is compared, so entry ids are numbers here.
ASSUME ListAssumption ==
    /\ Entries \subseteq Nat
    /\ Reader \in Verifiers
    /\ Limit \in Nat \ {0}
    /\ MaxVersion \in Nat \ {0}
    /\ \A e \in Envelope : CreatedAt(e) \in Nat

ASSUME NoneAssumption == None \notin Nat /\ None \notin [createdAt : Nat, entry : Entries]

VARIABLE walk   \* the walk in progress, or the last one

listVars == <<heads, past, clock, walk>>

\* What Cursor.encode keeps of the last row of a page.
Cursor == [createdAt : Nat, entry : Entries]

\* since is None, or the filter of the first request; start is what the list held
\* then; pages are the pages received, each with its items.
Walk == [pc : {"none", "paging", "done"}, since : Nat \cup {None},
         cursor : Cursor \cup {None}, start : SUBSET HeadVersion, pages : Seq(SUBSET HeadVersion)]

\* No page is longer than the limit, and a walk goes on only with a cursor.
TypeOK ==
    /\ walk \in Walk
    /\ \A i \in 1..Len(walk.pages) : Cardinality(walk.pages[i]) <= Limit
    /\ walk.pc = "paging" <=> walk.cursor # None

ListInit ==
    /\ Init
    /\ walk = [pc |-> "none", since |-> None, cursor |-> None, start |-> {}, pages |-> <<>>]

-----------------------------------------------------------------------------

KeyOf(h) == [createdAt |-> CreatedAt(h.env), entry |-> h.env.entry]

\* k comes after c in the list.
Older(k, c) ==
    \/ k.createdAt < c.createdAt
    \/ k.createdAt = c.createdAt /\ k.entry < c.entry

\* findCurrentForVerifier, without its LIMIT.
Readable == {h \in heads : Reader \in h.env.recipients}

\* The first n of the rows S in the order of the list.
FirstOf(n, S) ==
    {h \in S : Cardinality({g \in S : Older(KeyOf(h), KeyOf(g))}) < n}

LastOf(S) == CHOOSE h \in S : \A g \in S : ~Older(KeyOf(g), KeyOf(h))

\* Slip: the row fetched to see whether there are more is sent as well.
PageTooLong(S) == FirstOf(Limit + 1, S)

\* The query fetches one row more than the page holds.
Page(S) == FirstOf(Limit, FirstOf(Limit + 1, S))

NextCursor(S) ==
    IF Cardinality(FirstOf(Limit + 1, S)) > Limit THEN KeyOf(LastOf(Page(S))) ELSE None

Received(S) ==
    [walk EXCEPT !.pages = Append(@, Page(S)),
                 !.cursor = NextCursor(S),
                 !.pc = IF NextCursor(S) = None THEN "done" ELSE "paging"]

\* The first request, with or without since (findCurrentForVerifierSince).
ListFirst ==
    /\ walk.pc = "none"
    /\ \E since \in {None} \cup {CreatedAt(h.env) : h \in Readable} :
         LET S == {h \in Readable : since = None \/ CreatedAt(h.env) >= since}
         IN  walk' = [Received(S) EXCEPT !.since = since, !.start = Readable]
    /\ UNCHANGED vars

\* Slip: pages by offset.
ListNextByOffset ==
    /\ walk.pc = "paging"
    /\ walk' = Received(Readable \ FirstOf(Limit * Len(walk.pages), Readable))
    /\ UNCHANGED vars

\* A request with the cursor; since and cursor exclude each other (SchemaViolation),
\* so the filter of the first request is not sent again.
ListNext ==
    /\ walk.pc = "paging"
    /\ walk' = Received({h \in Readable : Older(KeyOf(h), walk.cursor)})
    /\ UNCHANGED vars

RegistryStep ==
    /\ \/ \E e \in Envelope : Create(e)
       \/ \E h \in heads, e \in Envelope : h.version < MaxVersion /\ Publish(h, e, clock)
    /\ UNCHANGED walk

ListStep == ListFirst \/ ListNext \/ RegistryStep

ListSpec == ListInit /\ [][ListStep]_listVars

-----------------------------------------------------------------------------

TimesListed(h) == Cardinality({i \in 1..Len(walk.pages) : h \in walk.pages[i]})

\* A finished walk has listed every version that was current throughout it exactly once,
\* provided since let it in: entries that issuers add, replace or withdraw meanwhile
\* neither hide nor repeat the others, which pages by offset would do.
StableListedOnce ==
    walk.pc = "done" =>
        \A h \in walk.start \cap heads :
            walk.since = None \/ CreatedAt(h.env) >= walk.since => TimesListed(h) = 1

\* api.md:164, "`since=<RFC3339>` - only entries with `created_at >= since`": it holds of
\* every page of a walk that began with since.
SinceRespected ==
    \A i \in 1..Len(walk.pages) : \A h \in walk.pages[i] :
        walk.since = None \/ CreatedAt(h.env) >= walk.since

=============================================================================
