---------------------------- MODULE WalletClient ----------------------------
(***************************************************************************)
(* The verifier's wallet (Flutter): WalletState with its session and idle  *)
(* timer, the login, list and detail screens, and the transitions of the   *)
(* app between foreground and background.                                  *)
(*                                                                         *)
(* Dart runs one event at a time; an action is what runs between two       *)
(* awaits.  While a response is awaited everything else may happen: the    *)
(* app is hidden, the timer fires, the screen that waits is replaced.      *)
(* Widgets are replaced when the next frame is built, not when the state   *)
(* they depend on changes, and no frame is built while the app is hidden.  *)
(*                                                                         *)
(* Each submission of the login form is an attempt, and names the private  *)
(* keys it unwraps.  What a cleared session's keys open is nothing: zero() *)
(* overwrites the bytes every screen holds a reference to.                 *)
(***************************************************************************)
EXTENDS Integers, Sequences

CONSTANTS
    MaxAttempts,    \* bound: logins attempted
    Pages,          \* pages the server's list has
    Mobile          \* TRUE on a phone, FALSE in a browser, which never pauses the app

ASSUME AttemptsAssumption == MaxAttempts \in Nat
ASSUME PagesAssumption == Pages \in Nat \ {0}
ASSUME MobileAssumption == Mobile \in BOOLEAN

Attempts == 1..MaxAttempts
NoSession == 0

VARIABLES
    app,        \* AppLifecycleState
    root,       \* the screen _AppRoot has built: login or list
    session,    \* WalletState._session: the attempt it comes from
    timer,      \* whether _idleTimer is running
    keys,       \* the private keys of each attempt
    attempt,    \* what each run of _submit awaits
    form,       \* the state of the mounted login screen
    list,       \* the state of the mounted list screen
    detail      \* the detail screen pushed on top of the root, if any

vars == <<app, root, session, timer, keys, attempt, form, list, detail>>

\* "lost": the keys of an attempt that failed later, which nothing zeroes.
KeyState == {"none", "live", "zeroed", "lost"}

AttemptPc == {"unused", "blob", "derive", "challenge", "verify", "ended"}

\* loading is _loading; button whether the last frame has drawn the button or the progress
\* indicator; runs are the attempts that were submitted here and are awaited.
Form == [loading : BOOLEAN, button : BOOLEAN, runs : SUBSET Attempts]

NewForm == [loading |-> FALSE, button |-> TRUE, runs |-> {}]

\* user is widget.session; next the page the cursor leads to, 0 when there is none.
List == [pc : {"none", "first", "ready", "more", "error"}, user : 0..MaxAttempts,
         shown : Seq(1..Pages), next : 0..Pages]

NoList == [pc |-> "none", user |-> NoSession, shown |-> <<>>, next |-> 0]

Detail == [pc : {"none", "envelope", "directory", "plaintext", "error"}, user : 0..MaxAttempts]

NoDetail == [pc |-> "none", user |-> NoSession]

\* The last two conjuncts: a session's keys are in force and its idle timer is running.
TypeOK ==
    /\ app \in {"resumed", "inactive", "hidden", "paused"}
    /\ root \in {"login", "list"}
    /\ session \in 0..MaxAttempts
    /\ timer \in BOOLEAN
    /\ keys \in [Attempts -> KeyState]
    /\ attempt \in [Attempts -> AttemptPc]
    /\ form \in Form
    /\ list \in List
    /\ detail \in Detail
    /\ session # NoSession => keys[session] = "live"
    /\ session # NoSession => timer

-----------------------------------------------------------------------------

Init ==
    /\ app = "resumed"
    /\ root = "login"
    /\ session = NoSession
    /\ timer = FALSE
    /\ keys = [i \in Attempts |-> "none"]
    /\ attempt = [i \in Attempts |-> "unused"]
    /\ form = NewForm
    /\ list = NoList
    /\ detail = NoDetail

\* Session.zero.
Zeroed == [i \in Attempts |-> IF i = session THEN "zeroed" ELSE keys[i]]

\* Slip: the session is forgotten, its keys are not overwritten.
ForgetSession ==
    /\ session' = NoSession
    /\ timer' = FALSE
    /\ UNCHANGED keys

ClearSession ==
    /\ session' = NoSession
    /\ timer' = FALSE
    /\ keys' = Zeroed

\* Slip: a session that is replaced keeps its keys.
SetSessionOnly(i) ==
    /\ session' = i
    /\ timer' = TRUE
    /\ UNCHANGED keys

\* Slip: the new session is zeroed, not the one it replaces.
SetSessionZeroesNew(i) ==
    /\ session' = i
    /\ timer' = TRUE
    /\ keys' = [keys EXCEPT ![i] = "zeroed"]

\* Slip: the idle timer is left to the first use of the wallet.
SetSessionNoTimer(i) ==
    /\ session' = i
    /\ keys' = Zeroed
    /\ UNCHANGED timer

SetSession(i) ==
    /\ session' = i
    /\ timer' = TRUE
    /\ keys' = Zeroed

-----------------------------------------------------------------------------

\* The user sees the root screen and can tap on it.
OnTop(screen) == app = "resumed" /\ root = screen /\ detail.pc = "none"

\* The login form is submitted.  The button is there until the frame in which it gives way
\* to the progress indicator, so a second tap in that time submits the form again.
Submit(i) ==
    /\ OnTop("login")
    /\ form.button
    /\ attempt[i] = "unused"
    /\ attempt' = [attempt EXCEPT ![i] = "blob"]
    /\ form' = [form EXCEPT !.loading = TRUE, !.runs = @ \cup {i}]
    /\ UNCHANGED <<app, root, session, timer, keys, list, detail>>

Await(i, from, to) ==
    /\ attempt[i] = from
    /\ attempt' = [attempt EXCEPT ![i] = to]

LoginBlob(i) ==
    /\ Await(i, "blob", "derive")
    /\ UNCHANGED <<app, root, session, timer, keys, form, list, detail>>

\* Argon2id is done and the password opens the wrapped keys.
Unwrap(i) ==
    /\ Await(i, "derive", "challenge")
    /\ keys' = [keys EXCEPT ![i] = "live"]
    /\ UNCHANGED <<app, root, session, timer, form, list, detail>>

Challenge(i) ==
    /\ Await(i, "challenge", "verify")
    /\ UNCHANGED <<app, root, session, timer, keys, form, list, detail>>

\* _loading is reset if the screen that submitted is still mounted, also when another of
\* its attempts is awaited.
Ended(i) ==
    form' = [form EXCEPT !.loading = @ /\ i \notin form.runs, !.runs = @ \ {i}]

\* verify has returned a token.
StoreSession(i) ==
    /\ Await(i, "verify", "ended")
    /\ SetSession(i)
    /\ Ended(i)
    /\ UNCHANGED <<app, root, list, detail>>

\* A wrong password, or a request that fails: keys unwrapped before are dropped as they are.
LoginFails(i) ==
    /\ attempt[i] \in {"blob", "derive", "challenge", "verify"}
    /\ attempt' = [attempt EXCEPT ![i] = "ended"]
    /\ keys' = [keys EXCEPT ![i] = IF @ = "live" THEN "lost" ELSE @]
    /\ Ended(i)
    /\ UNCHANGED <<app, root, session, timer, list, detail>>

-----------------------------------------------------------------------------

\* The build of a login screen that stays: the button or the progress indicator.
DrawForm ==
    /\ form.button = form.loading
    /\ form' = [form EXCEPT !.button = ~form.loading]

\* _AppRoot.build in the next frame.  A list that takes the place of the login screen
\* starts to load; one that stays is given the new session.
Frame ==
    /\ app \in {"resumed", "inactive"}
    /\ \/ /\ session = NoSession /\ root = "list"
          /\ root' = "login"
          /\ list' = NoList
          /\ form' = NewForm
       \/ /\ session # NoSession /\ root = "login"
          /\ root' = "list"
          /\ list' = [NoList EXCEPT !.pc = "first", !.user = session]
          /\ form' = NewForm
       \/ /\ session \notin {NoSession, list.user} /\ root = "list"
          /\ list' = [list EXCEPT !.user = session]
          /\ UNCHANGED <<root, form>>
       \/ /\ session = NoSession /\ root = "login"
          /\ DrawForm
          /\ UNCHANGED <<root, list>>
    /\ UNCHANGED <<app, session, timer, keys, attempt, detail>>

After(page) == IF page < Pages THEN page + 1 ELSE 0

FirstPage ==
    /\ list.pc = "first"
    /\ \/ list' = [list EXCEPT !.pc = "ready", !.shown = <<1>>, !.next = After(1)]
       \/ list' = [list EXCEPT !.pc = "error"]
    /\ UNCHANGED <<app, root, session, timer, keys, attempt, form, detail>>

\* Slip: scrolling does not ask whether a page is on its way: its answer is overtaken.
ScrollAgain ==
    /\ OnTop("list")
    /\ list.pc \in {"ready", "more"}
    /\ list.next # 0
    /\ list' = [list EXCEPT !.pc = "more",
                            !.shown = IF list.pc = "more" THEN Append(@, list.next) ELSE @]
    /\ UNCHANGED <<app, root, session, timer, keys, attempt, form, detail>>

\* _onScroll near the end of the list.
Scroll ==
    /\ OnTop("list")
    /\ list.pc = "ready"
    /\ list.next # 0
    /\ list' = [list EXCEPT !.pc = "more"]
    /\ UNCHANGED <<app, root, session, timer, keys, attempt, form, detail>>

\* The page arrives; a failure is dropped and scrolling asks for the same page again.
MorePage ==
    /\ list.pc = "more"
    /\ \/ list' = [list EXCEPT !.pc = "ready", !.shown = Append(@, list.next),
                               !.next = After(list.next)]
       \/ list' = [list EXCEPT !.pc = "ready"]
    /\ UNCHANGED <<app, root, session, timer, keys, attempt, form, detail>>

\* Logging out: the button of the list.
LogOut ==
    /\ OnTop("list")
    /\ ClearSession
    /\ UNCHANGED <<app, root, attempt, form, list, detail>>

-----------------------------------------------------------------------------

\* A tile is tapped: resetIdle starts the timer again, and the detail screen is pushed
\* with the session the list was built with.
OpenDetail ==
    /\ OnTop("list")
    /\ list.pc \in {"ready", "more"}
    /\ timer' = TRUE
    /\ detail' = [pc |-> "envelope", user |-> list.user]
    /\ UNCHANGED <<app, root, session, keys, attempt, form, list>>

GetShared ==
    /\ detail.pc = "envelope"
    /\ detail' = [detail EXCEPT !.pc = "directory"]
    /\ UNCHANGED <<app, root, session, timer, keys, attempt, form, list>>

\* The directory has answered, the envelope is verified and opened with the keys as
\* they are now.
ShowPlaintext ==
    /\ detail.pc = "directory"
    /\ keys[detail.user] # "zeroed"
    /\ detail' = [detail EXCEPT !.pc = "plaintext"]
    /\ UNCHANGED <<app, root, session, timer, keys, attempt, form, list>>

\* A request fails, the envelope is rejected, or SealedBox.open fails.
ShowError ==
    /\ detail.pc \in {"envelope", "directory"}
    /\ detail' = [detail EXCEPT !.pc = "error"]
    /\ UNCHANGED <<app, root, session, timer, keys, attempt, form, list>>

\* The user goes back; what is still awaited is ignored when it arrives (mounted).
PopDetail ==
    /\ app = "resumed"
    /\ detail.pc # "none"
    /\ detail' = NoDetail
    /\ UNCHANGED <<app, root, session, timer, keys, attempt, form, list>>

-----------------------------------------------------------------------------

IdleTimeout ==
    /\ timer
    /\ ClearSession
    /\ UNCHANGED <<app, root, attempt, form, list, detail>>

\* The states a platform reports, in the order in which the app leaves the foreground.
Lifecycle == <<"resumed", "inactive", "hidden">> \o IF Mobile THEN <<"paused">> ELSE <<>>

\* didChangeAppLifecycleState clears the session in paused, and in no state before it.
ChangeLifecycle ==
    /\ \E i, j \in 1..Len(Lifecycle) :
         /\ i - j \in {1, -1}
         /\ app = Lifecycle[i]
         /\ app' = Lifecycle[j]
    /\ IF app' = "paused" THEN ClearSession ELSE UNCHANGED <<session, timer, keys>>
    /\ UNCHANGED <<root, attempt, form, list, detail>>

Next ==
    \/ \E i \in Attempts :
         \/ Submit(i) \/ LoginBlob(i) \/ Unwrap(i) \/ Challenge(i)
         \/ StoreSession(i) \/ LoginFails(i)
    \/ Frame \/ FirstPage \/ Scroll \/ MorePage \/ LogOut
    \/ OpenDetail \/ GetShared \/ ShowPlaintext \/ ShowError \/ PopDetail
    \/ IdleTimeout \/ ChangeLifecycle

Spec == Init /\ [][Next]_vars

\* Opening an entry starts the timer anew.
KeepsOpening == []<><<OpenDetail>>_vars

\* A timer that runs and is not started anew for ever fires, unless it is cancelled first.
FairSpec == Spec /\ (KeepsOpening \/ WF_vars(IdleTimeout))

-----------------------------------------------------------------------------

\* Private keys are in memory only for the session in force or for a login that is still
\* on its way, whatever was awaited when sessions came and went; the keys of a login that
\* failed are the exception (they are counted as lost).
KeysAreHeld ==
    \A i \in Attempts :
        keys[i] = "live" => i = session \/ attempt[i] \in {"challenge", "verify"}

\* An entry is decrypted only for the session in force: a detail screen whose envelope was
\* awaited while its session ended shows no plaintext.
PlaintextNeedsSession ==
    [][detail.pc # "plaintext" /\ detail'.pc = "plaintext" => session = detail.user]_vars

\* The list shows the pages of the server in their order, each once, through failed
\* requests, scrolling while a page is awaited and a change of session.  It is the wallet of
\* one verifier: the pages do not depend on whose session asks for them.
PagesInOrder ==
    \A n \in 1..Len(list.shown) : list.shown[n] = n

\* No session outlasts the use of the wallet: not one that was stored while the app was in
\* the background, after clearSession had run, either.
SessionsEnd == KeepsOpening \/ (session # NoSession ~> session = NoSession)

\* plan.md:337, "Key material is zeroed and dropped from memory on tab visibility loss":
\* a wallet that is hidden holds no session.  A browser never reports paused, and on a phone
\* a login that is awaited when the app is paused stores its session afterwards.
HiddenHoldsNoSession == app \in {"hidden", "paused"} => session = NoSession

-----------------------------------------------------------------------------

\* The keys of the session are those in the vault; keys that were overwritten or lost are
\* gone.
VaultStage ==
    [i \in Attempts |->
        CASE keys[i] = "none" -> "locked"
          [] keys[i] = "live" -> IF i = session THEN "open" ELSE "unlocked"
          [] OTHER -> "gone"]

OnScreen == IF detail.pc = "plaintext" THEN detail.user ELSE NoSession

Vault == INSTANCE KeyVault WITH
    Logins <- Attempts, Nobody <- NoSession, stage <- VaultStage, shown <- OnScreen

\* The wallet keeps the promise of KeyVault: a login that is stored destroys the keys of
\* the session it replaces, the keys of a session that ended are never in force again,
\* and only those of the session in force open an entry.
ImplementsVault == Vault!Spec

=============================================================================
