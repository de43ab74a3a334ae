------------------------------ MODULE KeyVault ------------------------------
(***************************************************************************)
(* What the wallet promises of the private keys it unwraps, with no        *)
(* screens, requests or timers: the keys of a login are unlocked once; a   *)
(* vault with at most one set of keys is open, and putting other keys into *)
(* it destroys those it held; keys that are gone never come back; and an   *)
(* entry is opened only with the keys in the vault.  WalletClient is the   *)
(* code that keeps this promise.                                           *)
(***************************************************************************)

CONSTANTS
    Logins,     \* attempts to log in
    Nobody

VARIABLES
    stage,      \* what has become of the keys of each login
    shown       \* the login whose keys opened the entry on the screen

vars == <<stage, shown>>

Stage == {"locked", "unlocked", "open", "gone"}

-----------------------------------------------------------------------------

Init ==
    /\ stage = [i \in Logins |-> "locked"]
    /\ shown = Nobody

\* The password opens the wrapped keys of a login.
Unlock(i) ==
    /\ stage[i] = "locked"
    /\ stage' = [stage EXCEPT ![i] = "unlocked"]
    /\ UNCHANGED shown

Emptied == [i \in Logins |-> IF stage[i] = "open" THEN "gone" ELSE stage[i]]

\* The login succeeds: its keys take the place of those in the vault.
Open(i) ==
    /\ stage[i] = "unlocked"
    /\ stage' = [Emptied EXCEPT ![i] = "open"]
    /\ UNCHANGED shown

\* The login fails after its keys were unlocked.
Drop(i) ==
    /\ stage[i] = "unlocked"
    /\ stage' = [stage EXCEPT ![i] = "gone"]
    /\ UNCHANGED shown

Close ==
    /\ stage' = Emptied
    /\ UNCHANGED shown

Show(i) ==
    /\ stage[i] = "open"
    /\ shown' = i
    /\ UNCHANGED stage

\* An entry on the screen outlives its keys until the user leaves it.
Hide ==
    /\ shown' = Nobody
    /\ UNCHANGED stage

Next ==
    \/ \E i \in Logins : Unlock(i) \/ Open(i) \/ Drop(i) \/ Show(i)
    \/ Close \/ Hide

Spec == Init /\ [][Next]_vars

=============================================================================
