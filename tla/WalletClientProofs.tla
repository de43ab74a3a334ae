------------------------- MODULE WalletClientProofs -------------------------
(***************************************************************************)
(* Proofs about WalletClient: keys are held by the session in force or by  *)
(* a login on its way, an entry is decrypted only for the session in       *)
(* force, and the list shows its pages in their order.                     *)
(*                                                                         *)
(* The invariant has two parts: the logins with their keys, and the        *)
(* screens, which name sessions that may have ended.                       *)
(***************************************************************************)
EXTENDS WalletClient, TLAPS

Awaiting == {"challenge", "verify"}

KeysInv ==
    /\ session \in 0..MaxAttempts
    /\ timer \in BOOLEAN
    /\ keys \in [Attempts -> KeyState]
    /\ attempt \in [Attempts -> AttemptPc]
    /\ \A i \in Attempts : attempt[i] \in {"unused", "blob", "derive"} => keys[i] = "none"
    /\ \A i \in Attempts : attempt[i] \in Awaiting => keys[i] = "live"
    /\ \A i \in Attempts : keys[i] = "live" => i = session \/ attempt[i] \in Awaiting
    /\ session # NoSession => keys[session] = "live" /\ attempt[session] = "ended" /\ timer

\* A screen's session has been in force: its keys are, or they have been overwritten.
Entered(user) ==
    user \in Attempts /\ attempt[user] = "ended" /\ keys[user] \in {"live", "zeroed"}

\* The cursor leads to the page after those that are shown.
ListKept(l) ==
    /\ l \in List
    /\ \A n \in 1..Len(l.shown) : l.shown[n] = n
    /\ l.pc \in {"ready", "more"} => l.next = After(Len(l.shown)) /\ Len(l.shown) <= Pages
    /\ l.pc = "more" => l.next # 0
    /\ l.pc \in {"none", "first", "error"} => l.shown = <<>>

ScreensInv ==
    /\ app \in {"resumed", "inactive", "hidden", "paused"}
    /\ root \in {"login", "list"}
    /\ form \in Form
    /\ ListKept(list)
    /\ detail \in Detail
    /\ list.pc # "none" => Entered(list.user)
    /\ detail.pc # "none" => Entered(detail.user)

Inv == KeysInv /\ ScreensInv

-----------------------------------------------------------------------------

LEMMA InvParts == Inv => TypeOK /\ KeysAreHeld /\ PagesInOrder
BY DEF Inv, KeysInv, ScreensInv, ListKept, TypeOK, KeysAreHeld, PagesInOrder, Awaiting

LEMMA NoListKept == ListKept(NoList)
BY AttemptsAssumption, PagesAssumption DEF ListKept, NoList, List, NoSession

LEMMA NewFormTyped == NewForm \in Form
BY DEF NewForm, Form

LEMMA InitInv == Init => Inv
<1> SUFFICES ASSUME Init PROVE Inv
  OBVIOUS
<1>1. KeysInv
  <2>t. timer \in BOOLEAN
    BY DEF Init
  <2>1. session = NoSession /\ session \in 0..MaxAttempts
    BY AttemptsAssumption DEF Init, NoSession
  <2>2. /\ keys \in [Attempts -> KeyState] /\ attempt \in [Attempts -> AttemptPc]
        /\ \A i \in Attempts : keys[i] = "none" /\ attempt[i] = "unused"
    BY DEF Init, KeyState, AttemptPc
  <2> QED BY <2>t, <2>1, <2>2 DEF KeysInv, Awaiting
<1>2. ScreensInv
  BY NoListKept, NewFormTyped, AttemptsAssumption
  DEF Init, ScreensInv, NoSession, NoList, NoDetail, Detail
<1> QED BY <1>1, <1>2 DEF Inv

\* What the end of a session does to keys, and that screens still know what they hold.
LEMMA Cleared ==
    ASSUME KeysInv, ClearSession, UNCHANGED attempt
    PROVE  KeysInv' /\ \A u \in Attempts : Entered(u) => Entered(u)'
<1>1. session \in Attempts \/ session = NoSession
  BY AttemptsAssumption DEF KeysInv, Attempts, NoSession
<1>2. /\ session' = NoSession /\ timer' = FALSE /\ attempt' = attempt
      /\ keys' \in [Attempts -> KeyState]
      /\ \A i \in Attempts : keys'[i] = IF i = session THEN "zeroed" ELSE keys[i]
  BY DEF KeysInv, ClearSession, Zeroed, KeyState
<1>3. \A i \in Attempts : attempt[i] \in {"unused", "blob", "derive"} \cup Awaiting => i # session
  BY DEF KeysInv, Awaiting, Attempts, NoSession
<1>4. KeysInv'
  <2>t. timer' \in BOOLEAN
    BY <1>2
  <2>1. session' = NoSession /\ session' \in 0..MaxAttempts
    BY <1>2, AttemptsAssumption DEF NoSession
  <2>2. attempt' \in [Attempts -> AttemptPc]
    BY <1>2 DEF KeysInv
  <2>3. \A i \in Attempts : attempt[i] \in {"unused", "blob", "derive"} => keys'[i] = "none"
    BY <1>2, <1>3 DEF KeysInv
  <2>4. \A i \in Attempts : attempt[i] \in Awaiting => keys'[i] = "live"
    BY <1>2, <1>3 DEF KeysInv
  <2>5. \A i \in Attempts : keys'[i] = "live" => attempt[i] \in Awaiting
    BY <1>2 DEF KeysInv
  <2> QED BY <1>2, <2>t, <2>1, <2>2, <2>3, <2>4, <2>5 DEF KeysInv
<1>5. \A u \in Attempts : Entered(u) => Entered(u)'
  BY <1>2 DEF Entered
<1> QED BY <1>4, <1>5

\* The steps of logins and sessions.
LEMMA KeySteps ==
    ASSUME Inv, [Next]_vars
    PROVE  KeysInv' /\ \A u \in Attempts : Entered(u) => Entered(u)'
<1> USE DEF Inv, Attempts, NoSession
<1>0. ASSUME UNCHANGED <<session, timer, keys, attempt>>
      PROVE  KeysInv' /\ \A u \in Attempts : Entered(u) => Entered(u)'
  BY <1>0 DEF KeysInv, Entered
<1>1. ASSUME NEW i \in Attempts, Submit(i) \/ LoginBlob(i)
      PROVE  KeysInv' /\ \A u \in Attempts : Entered(u) => Entered(u)'
  <2>1. /\ UNCHANGED <<session, timer, keys>>
        /\ \E to \in {"blob", "derive"} : attempt' = [attempt EXCEPT ![i] = to]
        /\ attempt[i] \in {"unused", "blob"}
    BY <1>1 DEF Submit, LoginBlob, Await
  <2> QED BY <2>1 DEF KeysInv, Entered, AttemptPc, Awaiting
<1>2. ASSUME NEW i \in Attempts, Unwrap(i)
      PROVE  KeysInv' /\ \A u \in Attempts : Entered(u) => Entered(u)'
  BY <1>2 DEF KeysInv, Entered, AttemptPc, KeyState, Awaiting, Unwrap, Await
<1>3. ASSUME NEW i \in Attempts, Challenge(i)
      PROVE  KeysInv' /\ \A u \in Attempts : Entered(u) => Entered(u)'
  BY <1>3 DEF KeysInv, Entered, AttemptPc, Awaiting, Challenge, Await
<1>4. ASSUME NEW i \in Attempts, StoreSession(i)
      PROVE  KeysInv' /\ \A u \in Attempts : Entered(u) => Entered(u)'
  <2>1. /\ attempt[i] = "verify" /\ attempt' = [attempt EXCEPT ![i] = "ended"]
        /\ session' = i /\ timer' = TRUE
        /\ keys' = [j \in Attempts |-> IF j = session THEN "zeroed" ELSE keys[j]]
    BY <1>4 DEF StoreSession, Await, SetSession, Zeroed
  <2>2. i # session /\ keys[i] = "live"
    BY <2>1 DEF KeysInv, Awaiting
  <2>3. \A j \in Attempts : attempt[j] # "ended" => j # session
    BY DEF KeysInv
  <2> QED BY <2>1, <2>2, <2>3 DEF KeysInv, Entered, AttemptPc, KeyState, Awaiting
<1>5. ASSUME NEW i \in Attempts, LoginFails(i)
      PROVE  KeysInv' /\ \A u \in Attempts : Entered(u) => Entered(u)'
  <2>1. /\ attempt[i] \in {"blob", "derive", "challenge", "verify"}
        /\ attempt' = [attempt EXCEPT ![i] = "ended"]
        /\ keys' = [keys EXCEPT ![i] = IF @ = "live" THEN "lost" ELSE @]
        /\ UNCHANGED <<session, timer>>
    BY <1>5 DEF LoginFails
  <2>2. i # session
    BY <2>1 DEF KeysInv
  <2> QED BY <2>1, <2>2 DEF KeysInv, Entered, AttemptPc, KeyState, Awaiting
<1>6. CASE LogOut \/ IdleTimeout
  BY <1>6, Cleared DEF LogOut, IdleTimeout
<1>7. CASE ChangeLifecycle
  BY <1>7, <1>0, Cleared DEF ChangeLifecycle
<1>8. CASE OpenDetail
  BY <1>8 DEF OpenDetail, KeysInv, Entered
<1>9. CASE Frame \/ FirstPage \/ Scroll \/ MorePage \/ GetShared \/ ShowPlaintext
           \/ ShowError \/ PopDetail \/ UNCHANGED vars
  BY <1>9, <1>0 DEF Frame, FirstPage, Scroll, MorePage, GetShared, ShowPlaintext,
                    ShowError, PopDetail, vars
<1> QED BY <1>1, <1>2, <1>3, <1>4, <1>5, <1>6, <1>7, <1>8, <1>9 DEF Next

-----------------------------------------------------------------------------

LEMMA AfterPages == \A n \in 0..Pages : After(n) \in 0..Pages
BY PagesAssumption DEF After

\* The steps of the list, whoever is signed in.
LEMMA ListSteps ==
    ASSUME Inv, FirstPage \/ Scroll \/ MorePage
    PROVE  ListKept(list') /\ list'.user = list.user /\ list'.pc # "none" /\ list.pc # "none"
<1>l. /\ ListKept(list)
      /\ list \in [pc : {"none", "first", "ready", "more", "error"}, user : 0..MaxAttempts,
                   shown : Seq(1..Pages), next : 0..Pages]
      /\ Len(list.shown) \in Nat
  BY DEF Inv, ScreensInv, ListKept, List
<1>1. CASE FirstPage
  <2>1. 1 \in 1..Pages
    BY PagesAssumption
  <2>2. list.pc = "first"
    BY <1>1 DEF FirstPage
  <2>3. CASE list' = [list EXCEPT !.pc = "ready", !.shown = <<1>>, !.next = After(1)]
    <3> DEFINE shown == <<1>>
    <3>1. /\ shown \in Seq(1..Pages) /\ Len(shown) = 1
          /\ \A n \in 1..Len(shown) : shown[n] = n
      BY <2>1
    <3>2. After(1) \in 0..Pages /\ 1 <= Pages
      BY <2>1, AfterPages
    <3> HIDE DEF shown
    <3>3. list' = [list EXCEPT !.pc = "ready", !.shown = shown, !.next = After(1)]
      BY <2>3 DEF shown
    <3>4. /\ list'.pc = "ready" /\ list'.shown = shown /\ list'.next = After(1)
          /\ list'.user = list.user
      BY <1>l, <3>3
    <3>5. list' \in List
      BY <1>l, <3>1, <3>2, <3>3 DEF List
    <3> QED BY <2>2, <3>1, <3>2, <3>4, <3>5 DEF ListKept
  <2>4. CASE list' = [list EXCEPT !.pc = "error"]
    BY <1>l, <2>2, <2>4 DEF ListKept, List
  <2> QED BY <1>1, <2>3, <2>4 DEF FirstPage
<1>2. CASE Scroll
  BY <1>l, <1>2 DEF Scroll, ListKept, List
<1>3. CASE MorePage
  <2>1. /\ list.pc = "more" /\ list.next # 0 /\ list.next = After(Len(list.shown))
        /\ Len(list.shown) <= Pages
    BY <1>l, <1>3 DEF MorePage, ListKept
  <2>2. list.next = Len(list.shown) + 1 /\ list.next \in 1..Pages
    BY <1>l, <2>1, PagesAssumption DEF After
  <2>3. CASE list' = [list EXCEPT !.pc = "ready", !.shown = Append(@, list.next),
                                  !.next = After(list.next)]
    <3> DEFINE shown == Append(list.shown, list.next)
    <3>1. /\ shown \in Seq(1..Pages) /\ Len(shown) = list.next
          /\ \A n \in 1..Len(shown) : shown[n] = n
      BY <1>l, <2>2 DEF ListKept
    <3>2. After(list.next) \in 0..Pages
      BY <2>2, AfterPages
    <3> HIDE DEF shown
    <3>3. list' = [list EXCEPT !.pc = "ready", !.shown = shown, !.next = After(list.next)]
      BY <2>3 DEF shown
    <3>4. /\ list'.pc = "ready" /\ list'.shown = shown /\ list'.next = After(list.next)
          /\ list'.user = list.user
      BY <1>l, <3>3
    <3>5. list' \in List
      BY <1>l, <3>1, <3>2, <3>3 DEF List
    <3>6. Len(shown) <= Pages
      BY <2>2, <3>1
    <3> QED BY <2>1, <3>1, <3>4, <3>5, <3>6 DEF ListKept
  <2>4. CASE list' = [list EXCEPT !.pc = "ready"]
    BY <1>l, <2>1, <2>4 DEF ListKept, List
  <2> QED BY <1>3, <2>3, <2>4 DEF MorePage
<1> QED BY <1>1, <1>2, <1>3

LEMMA StepInv == Inv /\ [Next]_vars => Inv'
<1> SUFFICES ASSUME Inv, [Next]_vars PROVE ScreensInv'
  BY KeySteps DEF Inv
<1>k. \A u \in Attempts : Entered(u) => Entered(u)'
  BY KeySteps
<1>u. \A u : Entered(u) => u \in Attempts
  BY DEF Entered
<1>a. \A u \in 0..MaxAttempts : u # NoSession => u \in Attempts
  BY AttemptsAssumption DEF Attempts, NoSession
<1>i. ScreensInv /\ session \in 0..MaxAttempts
  BY DEF Inv, KeysInv
<1>e. session # NoSession => Entered(session)
  BY <1>a, <1>i DEF Inv, KeysInv, Entered
<1>0. ASSUME UNCHANGED <<list, detail>>, app' \in {"resumed", "inactive", "hidden", "paused"},
             root' = root, form' \in Form
      PROVE  ScreensInv'
  BY <1>0, <1>i, <1>k, <1>u DEF ScreensInv
<1>1. ASSUME NEW i \in Attempts,
             Submit(i) \/ LoginBlob(i) \/ Unwrap(i) \/ Challenge(i) \/ StoreSession(i) \/ LoginFails(i)
      PROVE  ScreensInv'
  <2>1. UNCHANGED <<app, root, list, detail>>
    BY <1>1 DEF Submit, LoginBlob, Unwrap, Challenge, StoreSession, LoginFails
  <2>2. form \in Form /\ form.runs \subseteq Attempts
    BY <1>i DEF ScreensInv, Form
  <2>3. CASE form' = [form EXCEPT !.loading = TRUE, !.runs = @ \cup {i}]
    BY <1>0, <1>i, <2>1, <2>2, <2>3 DEF ScreensInv, Form
  <2>4. CASE Ended(i)
    BY <1>0, <1>i, <2>1, <2>2, <2>4 DEF ScreensInv, Ended, Form
  <2>5. CASE form' = form
    BY <1>0, <1>i, <2>1, <2>5 DEF ScreensInv
  <2> QED
    BY <1>1, <2>3, <2>4, <2>5
    DEF Submit, LoginBlob, Unwrap, Challenge, StoreSession, LoginFails
<1>2. CASE LogOut \/ IdleTimeout \/ ChangeLifecycle \/ UNCHANGED vars
  <2>1. /\ UNCHANGED <<root, form, list, detail>>
        /\ app' = app \/ \E j \in 1..Len(Lifecycle) : app' = Lifecycle[j]
    BY <1>2 DEF LogOut, IdleTimeout, ChangeLifecycle, vars
  <2>2. \A j \in 1..Len(Lifecycle) : Lifecycle[j] \in {"resumed", "inactive", "hidden", "paused"}
    BY MobileAssumption DEF Lifecycle
  <2> QED BY <1>0, <1>i, <2>1, <2>2 DEF ScreensInv
<1>3. CASE Frame
  <2>f. form \in Form /\ [form EXCEPT !.button = ~form.loading] \in Form
    BY <1>i DEF ScreensInv, Form
  <2>1. UNCHANGED <<app, detail>> /\ root' \in {"login", "list"}
        /\ form' \in Form
    BY <1>3, <1>i, <2>f, NewFormTyped DEF Frame, DrawForm, ScreensInv
  <2>2. CASE list' = NoList
    BY <1>i, <1>k, <1>u, <2>1, <2>2, NoListKept DEF ScreensInv, NoList
  <2>3. CASE list' = [NoList EXCEPT !.pc = "first", !.user = session] /\ session # NoSession
    <3>1. ListKept(list') /\ list'.user = session
      BY <1>i, <2>3, NoListKept DEF ListKept, NoList, List
    <3> QED BY <1>i, <1>k, <1>u, <1>e, <2>1, <2>3, <3>1 DEF ScreensInv
  <2>4. CASE list' = [list EXCEPT !.user = session] /\ session # NoSession
    <3>1. ListKept(list') /\ list'.user = session
      BY <1>i, <2>4 DEF ScreensInv, ListKept, List
    <3> QED BY <1>i, <1>k, <1>u, <1>e, <2>1, <2>4, <3>1 DEF ScreensInv
  <2>5. CASE list' = list
    BY <1>i, <1>k, <1>u, <2>1, <2>5 DEF ScreensInv
  <2> QED BY <1>3, <2>2, <2>3, <2>4, <2>5 DEF Frame
<1>4. CASE FirstPage \/ Scroll \/ MorePage
  <2>1. UNCHANGED <<app, root, form, detail>>
    BY <1>4 DEF FirstPage, Scroll, MorePage
  <2>2. ListKept(list') /\ list'.user = list.user /\ list.pc # "none"
    BY <1>4, ListSteps
  <2> QED BY <1>i, <1>k, <1>u, <2>1, <2>2 DEF ScreensInv
<1>5. CASE OpenDetail \/ GetShared \/ ShowPlaintext \/ ShowError \/ PopDetail
  <2>1. UNCHANGED <<app, root, form, list>>
    BY <1>5 DEF OpenDetail, GetShared, ShowPlaintext, ShowError, PopDetail
  <2>2. detail' \in Detail /\ (detail'.pc # "none" => Entered(detail'.user))
    <3>1. CASE OpenDetail
      BY <1>i, <3>1 DEF OpenDetail, ScreensInv, ListKept, List, Detail
    <3>2. CASE GetShared \/ ShowPlaintext \/ ShowError
      BY <1>i, <3>2 DEF GetShared, ShowPlaintext, ShowError, ScreensInv, Detail
    <3>3. CASE PopDetail
      BY <3>3, AttemptsAssumption DEF PopDetail, NoDetail, Detail, NoSession
    <3> QED BY <1>5, <3>1, <3>2, <3>3
  <2> QED BY <1>i, <1>k, <1>u, <2>1, <2>2 DEF ScreensInv
<1> QED BY <1>1, <1>2, <1>3, <1>4, <1>5 DEF Next

LEMMA AlwaysInv == Spec => []Inv
BY InitInv, StepInv, PTL DEF Spec

\* The session in force has its keys and its idle timer, and every screen is well typed.
THEOREM TypeCorrect == Spec => []TypeOK
BY InvParts, AlwaysInv, PTL

\* Private keys are held by the session in force or by a login on its way, however many
\* logins overlap; only a login that failed drops them without overwriting.
THEOREM KeysStayHeld == Spec => []KeysAreHeld
BY InvParts, AlwaysInv, PTL

\* Failed requests, scrolling and changes of session leave the list's pages in order.
THEOREM PagesStayInOrder == Spec => []PagesInOrder
BY InvParts, AlwaysInv, PTL

\* A detail screen whose session has ended while its envelope was awaited decrypts
\* nothing: the keys it names have been overwritten.
THEOREM PlaintextHasSession == Spec => PlaintextNeedsSession
<1>1. Inv /\ [Next]_vars =>
        [detail.pc # "plaintext" /\ detail'.pc = "plaintext" => session = detail.user]_vars
  <2> SUFFICES ASSUME Inv, Next, detail.pc # "plaintext", detail'.pc = "plaintext"
               PROVE  session = detail.user
    OBVIOUS
  <2>1. detail \in Detail
    BY DEF Inv, ScreensInv
  <2>2. ShowPlaintext
    <3>1. ~OpenDetail /\ ~GetShared /\ ~ShowError /\ ~PopDetail
      BY <2>1 DEF OpenDetail, GetShared, ShowError, PopDetail, NoDetail, Detail
    <3>2. detail' # detail
      OBVIOUS
    <3> QED
      BY <3>1, <3>2 DEF Next, Submit, LoginBlob, Unwrap, Challenge, StoreSession, LoginFails,
        Frame, FirstPage, Scroll, MorePage, LogOut, IdleTimeout, ChangeLifecycle
  <2>3. detail.pc = "directory" /\ keys[detail.user] # "zeroed"
    BY <2>2 DEF ShowPlaintext
  <2>4. Entered(detail.user)
    BY <2>3 DEF Inv, ScreensInv
  <2> QED BY <2>3, <2>4 DEF Inv, KeysInv, Entered, Awaiting
<1> QED BY <1>1, AlwaysInv, PTL DEF Spec, PlaintextNeedsSession

-----------------------------------------------------------------------------
(***************************************************************************)
(* The refinement: every step is a step of KeyVault or stutters.           *)
(***************************************************************************)

\* The keys of i as KeyVault sees them.
StageOf(i) ==
    IF keys[i] = "none" THEN "locked"
    ELSE IF keys[i] # "live" THEN "gone"
    ELSE IF i = session THEN "open" ELSE "unlocked"

LEMMA StageIs == VaultStage = [i \in Attempts |-> StageOf(i)]
BY DEF VaultStage, StageOf

\* A step that moves the keys of i alone.
LEMMA OneStage ==
    ASSUME NEW i \in Attempts, \A j \in Attempts \ {i} : StageOf(j)' = StageOf(j)
    PROVE  VaultStage' = [VaultStage EXCEPT ![i] = StageOf(i)']
<1>1. VaultStage' = [j \in Attempts |-> StageOf(j)']
  BY DEF VaultStage, StageOf
<1> QED BY <1>1, StageIs

\* A step that moves no keys and shows nothing.
LEMMA VaultRests ==
    ASSUME UNCHANGED <<keys, session>>, OnScreen' = OnScreen
    PROVE  UNCHANGED Vault!vars
BY DEF VaultStage, Vault!vars

\* The end of a session empties the vault.
LEMMA VaultCloses ==
    ASSUME Inv, ClearSession, UNCHANGED detail
    PROVE  Vault!Close
<1>1. /\ session' = NoSession
      /\ \A i \in Attempts : keys'[i] = IF i = session THEN "zeroed" ELSE keys[i]
  BY DEF ClearSession, Zeroed
<1>2. \A i \in Attempts : i # session' /\ (i = session => keys[i] = "live")
  BY <1>1 DEF Inv, KeysInv, Attempts, NoSession
<1>3. \A i \in Attempts : StageOf(i)' = IF StageOf(i) = "open" THEN "gone" ELSE StageOf(i)
  BY <1>1, <1>2 DEF StageOf
<1>4. VaultStage' = [i \in Attempts |-> StageOf(i)']
  BY DEF VaultStage, StageOf
<1>5. VaultStage' = Vault!Emptied
  BY <1>3, <1>4, StageIs DEF Vault!Emptied
<1> QED BY <1>5 DEF Vault!Close, OnScreen

\* A login that is stored opens the vault with its keys.
LEMMA VaultOpens ==
    ASSUME Inv, NEW i \in Attempts, StoreSession(i)
    PROVE  Vault!Open(i)
<1>1. /\ session' = i /\ attempt[i] = "verify" /\ UNCHANGED detail
      /\ \A j \in Attempts : keys'[j] = IF j = session THEN "zeroed" ELSE keys[j]
  BY DEF StoreSession, Await, SetSession, Zeroed
<1>2. keys[i] = "live" /\ i # session
  BY <1>1 DEF Inv, KeysInv, Awaiting, NoSession, Attempts
<1>3. session \in Attempts => keys[session] = "live"
  BY DEF Inv, KeysInv, Attempts, NoSession
<1>4. StageOf(i) = "unlocked" /\ StageOf(i)' = "open"
  BY <1>1, <1>2 DEF StageOf
<1>5. \A j \in Attempts \ {i} :
          StageOf(j)' = IF StageOf(j) = "open" THEN "gone" ELSE StageOf(j)
  BY <1>1, <1>2, <1>3 DEF StageOf
<1>6. VaultStage' = [j \in Attempts |-> StageOf(j)']
  BY DEF VaultStage, StageOf
<1>7. VaultStage' = [Vault!Emptied EXCEPT ![i] = "open"]
  BY <1>4, <1>5, <1>6, StageIs DEF Vault!Emptied
<1> QED BY <1>1, <1>4, <1>7, StageIs DEF Vault!Open, OnScreen

\* A login that fails drops the keys it had unlocked, if it had.
LEMMA VaultDrops ==
    ASSUME Inv, NEW i \in Attempts, LoginFails(i)
    PROVE  Vault!Drop(i) \/ UNCHANGED Vault!vars
<1>1. /\ attempt[i] \in {"blob", "derive", "challenge", "verify"} /\ UNCHANGED <<session, detail>>
      /\ keys' = [keys EXCEPT ![i] = IF @ = "live" THEN "lost" ELSE @]
  BY DEF LoginFails
<1>2. i # session /\ keys \in [Attempts -> KeyState]
  BY <1>1 DEF Inv, KeysInv, Attempts, NoSession
<1>3. CASE keys[i] = "live"
  <2>1. StageOf(i) = "unlocked" /\ StageOf(i)' = "gone"
    BY <1>1, <1>2, <1>3 DEF StageOf
  <2>2. \A j \in Attempts \ {i} : StageOf(j)' = StageOf(j)
    BY <1>1, <1>2 DEF StageOf
  <2> QED BY <1>1, <2>1, <2>2, OneStage, StageIs DEF Vault!Drop, OnScreen
<1>4. CASE keys[i] # "live"
  <2>1. keys' = keys
    BY <1>1, <1>2, <1>4
  <2> QED BY <1>1, <2>1, VaultRests DEF OnScreen
<1> QED BY <1>3, <1>4

\* The password unlocks the keys of a login.
LEMMA VaultUnlocks ==
    ASSUME Inv, NEW i \in Attempts, Unwrap(i)
    PROVE  Vault!Unlock(i)
<1>1. attempt[i] = "derive" /\ keys' = [keys EXCEPT ![i] = "live"] /\ UNCHANGED <<session, detail>>
  BY DEF Unwrap, Await
<1>2. keys[i] = "none" /\ i # session /\ keys \in [Attempts -> KeyState]
  BY <1>1 DEF Inv, KeysInv, Attempts, NoSession
<1>3. StageOf(i) = "locked" /\ StageOf(i)' = "unlocked"
  BY <1>1, <1>2 DEF StageOf
<1>4. \A j \in Attempts \ {i} : StageOf(j)' = StageOf(j)
  BY <1>1, <1>2 DEF StageOf
<1> QED BY <1>1, <1>3, <1>4, OneStage, StageIs DEF Vault!Unlock, OnScreen

\* The detail screen.
LEMMA VaultShows ==
    ASSUME Inv, OpenDetail \/ GetShared \/ ShowPlaintext \/ ShowError \/ PopDetail
    PROVE  (\E i \in Attempts : Vault!Show(i)) \/ Vault!Hide \/ UNCHANGED Vault!vars
<1>0. detail \in Detail /\ UNCHANGED <<keys, session>>
  BY DEF Inv, ScreensInv, OpenDetail, GetShared, ShowPlaintext, ShowError, PopDetail
<1>1. CASE ShowPlaintext
  <2>1. detail.pc = "directory" /\ keys[detail.user] # "zeroed" /\ Entered(detail.user)
    BY <1>1 DEF ShowPlaintext, Inv, ScreensInv
  <2>2. detail.user \in Attempts /\ keys[detail.user] = "live" /\ detail.user = session
    BY <2>1 DEF Entered, Inv, KeysInv, Awaiting
  <2>3. OnScreen' = detail.user
    BY <1>0, <1>1 DEF ShowPlaintext, OnScreen, Detail
  <2>4. VaultStage[detail.user] = "open" /\ VaultStage' = VaultStage
    BY <1>0, <2>2, StageIs DEF StageOf, VaultStage
  <2> QED BY <2>2, <2>3, <2>4 DEF Vault!Show
<1>2. CASE PopDetail
  <2>1. OnScreen' = NoSession
    BY <1>2 DEF PopDetail, NoDetail, OnScreen
  <2> QED BY <1>0, <2>1 DEF Vault!Hide, VaultStage
<1>3. CASE OpenDetail \/ GetShared \/ ShowError
  <2>1. OnScreen = NoSession /\ OnScreen' = NoSession
    BY <1>0, <1>3 DEF OpenDetail, GetShared, ShowError, OnTop, OnScreen, Detail
  <2> QED BY <1>0, <2>1, VaultRests
<1> QED BY <1>1, <1>2, <1>3

LEMMA VaultStep ==
    ASSUME Inv, [Next]_vars
    PROVE  [Vault!Next]_(Vault!vars)
<1>1. ASSUME NEW i \in Attempts, Submit(i) \/ LoginBlob(i) \/ Challenge(i)
      PROVE  [Vault!Next]_(Vault!vars)
  BY <1>1, VaultRests DEF Submit, LoginBlob, Challenge, OnScreen
<1>2. ASSUME NEW i \in Attempts, Unwrap(i) \/ StoreSession(i) \/ LoginFails(i)
      PROVE  [Vault!Next]_(Vault!vars)
  BY <1>2, VaultUnlocks, VaultOpens, VaultDrops DEF Vault!Next
<1>3. CASE Frame \/ FirstPage \/ Scroll \/ MorePage \/ UNCHANGED vars
  BY <1>3, VaultRests DEF Frame, FirstPage, Scroll, MorePage, OnScreen, vars
<1>4. CASE LogOut \/ IdleTimeout
  BY <1>4, VaultCloses DEF LogOut, IdleTimeout, Vault!Next
<1>5. CASE ChangeLifecycle
  BY <1>5, VaultCloses, VaultRests DEF ChangeLifecycle, OnScreen, Vault!Next
<1>6. CASE OpenDetail \/ GetShared \/ ShowPlaintext \/ ShowError \/ PopDetail
  BY <1>6, VaultShows DEF Vault!Next
<1> QED BY <1>1, <1>2, <1>3, <1>4, <1>5, <1>6 DEF Next

\* The wallet implements KeyVault: keys are unlocked once, a session that is replaced or
\* ended destroys its own, none come back, and only the session's open an entry.
THEOREM WalletImplementsVault == Spec => ImplementsVault
<1>1. Init => Vault!Init
  BY DEF Init, Vault!Init, VaultStage, OnScreen, NoDetail
<1>2. Inv /\ [Next]_vars => [Vault!Next]_(Vault!vars)
  BY VaultStep
<1> QED BY <1>1, <1>2, AlwaysInv, PTL DEF Spec, ImplementsVault, Vault!Spec
=============================================================================
