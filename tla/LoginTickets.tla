---------------------------- MODULE LoginTickets ----------------------------
(***************************************************************************)
(* What the login promises (api.md sections 3.1 to 3.3), with no requests, *)
(* transactions, locks or keys: the server issues tickets, which are the   *)
(* nonces of challenges; a ticket that has been issued opens one session,  *)
(* and nothing else opens one; a session that has ended stays ended,       *)
(* because its ticket is used.  Accounts is the code that keeps this       *)
(* promise.                                                                *)
(***************************************************************************)

CONSTANT Nonces

VARIABLES
    issued,     \* tickets issued so far
    used,       \* tickets that have opened their session
    live        \* sessions in force; a session names its ticket

vars == <<issued, used, live>>

-----------------------------------------------------------------------------

Init ==
    /\ issued = {}
    /\ used = {}
    /\ live = {}

Issue(n) ==
    /\ n \notin issued
    /\ issued' = issued \cup {n}
    /\ UNCHANGED <<used, live>>

Login(s) ==
    /\ s.nonce \in issued \ used
    /\ used' = used \cup {s.nonce}
    /\ live' = live \cup {s}
    /\ UNCHANGED issued

\* Sessions end by themselves, several at a time or one by one, and no other begins.
End ==
    /\ live' \subseteq live
    /\ UNCHANGED <<issued, used>>

Next ==
    \/ \E n \in Nonces : Issue(n)
    \/ \E s \in live' : Login(s)
    \/ End

Spec == Init /\ [][Next]_vars

-----------------------------------------------------------------------------

\* What a verifier can rely on: a session in force has used its ticket, and no other
\* session was opened with it.
OneSessionPerTicket ==
    /\ \A s \in live : s.nonce \in used
    /\ \A r, s \in live : r.nonce = s.nonce => r = s

=============================================================================
