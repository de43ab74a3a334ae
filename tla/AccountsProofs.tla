---------------------------- MODULE AccountsProofs ----------------------------
(***************************************************************************)
(* Theorems about Accounts, for any number of threads, keys and nonces and *)
(* any limits: a nonce opens one session, a lock has its failures behind   *)
(* it, and what passes a lock is bounded by the requests in flight.        *)
(***************************************************************************)
EXTENDS Accounts, FiniteSetTheorems, TLAPS

LEMMA IdleTyped == Idle \in Tx
BY KeysAssumption, NoneAssumption DEF Idle, Tx

\* A thread that verifies answers a challenge that was issued; a lockout row that was
\* read is there.
TxShape ==
    \A t \in Threads :
        /\ tx[t].pc \in {"checked", "accepted", "refused", "failing", "reset"} =>
              tx[t].op = "verify"
        /\ tx[t].pc # "idle" /\ tx[t].op = "verify" => challenges[tx[t].nonce] # None
        /\ tx[t].pc = "failing" /\ tx[t].failures # None => lockout # None

TypeInv == TypeOK /\ TxShape

LEMMA TypeInit == Init => TypeInv
<1> SUFFICES ASSUME Init PROVE TypeInv
  OBVIOUS
<1>1. TypeOK
  BY IdleTyped, KeysAssumption DEF Init, TypeOK, Account, Idle
<1>2. TxShape
  BY DEF Init, TxShape, Idle
<1> QED BY <1>1, <1>2 DEF TypeInv

\* What TypeOK says of tx.
TxTyped ==
    /\ tx \in [Threads -> Tx]
    /\ \A t \in Threads : tx[t].pc # "idle" /\ tx[t].op = "verify" => tx[t].nonce \in Nonces
    /\ \A t \in Threads : tx[t].pc # "idle" /\ tx[t].op # "verify" => tx[t].held \in Keys

LEMMA TxStep ==
  ASSUME TypeOK, NEW t \in Threads, NEW x \in Tx, tx' = [tx EXCEPT ![t] = x],
         x.pc # "idle" /\ x.op = "verify" => x.nonce \in Nonces,
         x.pc # "idle" /\ x.op # "verify" => x.held \in Keys
  PROVE  TxTyped'
<1>1. tx \in [Threads -> Tx]
  BY DEF TypeOK
<1>2. tx'[t] = x /\ \A u \in Threads \ {t} : tx'[u] = tx[u]
  BY <1>1
<1>3. tx' \in [Threads -> Tx]
  BY <1>1
<1> QED BY <1>2, <1>3 DEF TypeOK, TxTyped

LEMMA CountTyped ==
  ASSUME TypeOK, TxShape, NEW t \in Threads, WriteFailure(t) \/ WriteFirstFailure(t)
  PROVE  lockout' \in LockoutRow /\ lockout' # None
<1>1. ASSUME NEW n \in Nat, NEW u \in Nat PROVE Counted(n, u) \in LockoutRow
  BY TimesAssumption DEF Counted, LockoutRow, TypeOK
<1>2. CASE WriteFailure(t)
  <2>1. tx[t] \in Tx /\ lockout \in LockoutRow /\ tx[t].failures # None
    BY <1>2 DEF TypeOK, TxShape, WriteFailure
  <2>2. tx[t].failures + 1 \in Nat /\ lockout.until \in Nat
    BY <2>1 DEF Tx, LockoutRow
  <2> QED BY <1>1, <1>2, <2>2, NoneAssumption DEF WriteFailure, Count
<1>3. CASE WriteFirstFailure(t)
  BY <1>1, <1>3, NoneAssumption DEF WriteFirstFailure, Count
<1> QED BY <1>2, <1>3

LEMMA TypeNext == TypeInv /\ [Next]_vars => TypeOK'
<1> SUFFICES ASSUME TypeOK, TxShape, [Next]_vars PROVE TypeOK'
  BY DEF TypeInv
<1> USE KeysAssumption, NoneAssumption, TimesAssumption, IdleTyped
<1>0. ASSUME NEW t \in Threads
      PROVE  /\ tx[t] \in Tx
             /\ tx[t].pc # "idle" /\ tx[t].op = "verify" => tx[t].nonce \in Nonces
             /\ tx[t].pc # "idle" /\ tx[t].op # "verify" => tx[t].held \in Keys
  BY DEF TypeOK
<1>1. ASSUME NEW n \in Nonces, IssueChallenge(n) PROVE TypeOK'
  BY <1>1 DEF TypeOK, IssueChallenge, Challenge, history
<1>2. ASSUME NEW t \in Threads, NEW n \in Nonces, NEW k \in Keys \cup {None},
             StartVerify(t, n, k)
      PROVE  TypeOK'
  BY <1>2 DEF TypeOK, StartVerify, Idle, Tx, tables, history
<1>3. ASSUME NEW t \in Threads, LoadVerifier(t) PROVE TypeOK'
  <2>1. account.key \in Keys
    BY DEF TypeOK, Account
  <2>2. TxTyped'
    BY <1>3, <1>0, <2>1, TxStep DEF LoadVerifier, Tx
  <2> QED BY <1>3, <2>2 DEF TypeOK, TxTyped, LoadVerifier, tables, history
<1>4. ASSUME NEW t \in Threads, CheckSignature(t) PROVE TypeOK'
  <2> DEFINE x == [tx[t] EXCEPT !.pc = "accepted", !.expires = clock + SessionTtl]
             y == [tx[t] EXCEPT !.pc = "refused"]
  <2>1. clock + SessionTtl \in Nat /\ tx[t].op = "verify" /\ tx[t].pc = "loaded"
    BY <1>4 DEF TypeOK, CheckSignature
  <2>2. x \in Tx /\ x.op = "verify" /\ x.nonce \in Nonces
    BY <1>0, <2>1 DEF Tx
  <2>3. y \in Tx /\ y.op = "verify" /\ y.nonce \in Nonces
    BY <1>0, <2>1 DEF Tx
  <2>4. tx' = [tx EXCEPT ![t] = x] \/ tx' = [tx EXCEPT ![t] = y]
    BY <1>4 DEF CheckSignature
  <2> HIDE DEF x, y
  <2>5. TxTyped'
    BY <2>2, <2>3, <2>4, TxStep
  <2> QED BY <1>4, <2>5 DEF TypeOK, TxTyped, CheckSignature, tables, history
<1>5. ASSUME NEW t \in Threads, RejectNonce(t) PROVE TypeOK'
  BY <1>5 DEF TypeOK, RejectNonce, Idle, tables, history
<1>6. ASSUME NEW t \in Threads, ReadFailures(t) PROVE TypeOK'
  <2>1. lockout # None => lockout.failures \in Nat
    BY DEF TypeOK, LockoutRow
  <2>2. TxTyped'
    BY <1>6, <1>0, <2>1, TxStep DEF ReadFailures, Tx
  <2> QED BY <1>6, <2>2 DEF TypeOK, TxTyped, ReadFailures, tables, history
<1>7. ASSUME NEW t \in Threads, NEW row, Count(t, row), lockout' \in LockoutRow PROVE TypeOK'
  BY <1>7 DEF TypeOK, Count, Idle
<1>8. ASSUME NEW t \in Threads, WriteFailure(t) PROVE TypeOK'
  BY <1>8, <1>7, CountTyped DEF WriteFailure, Count
<1>9. ASSUME NEW t \in Threads, WriteFirstFailure(t) PROVE TypeOK'
  BY <1>9, <1>7, CountTyped DEF WriteFirstFailure, Count
<1>10. ASSUME NEW t \in Threads, FirstFailureConflict(t) PROVE TypeOK'
  BY <1>10 DEF TypeOK, FirstFailureConflict, Idle, tables, history
<1>11. ASSUME NEW t \in Threads, RecordSuccess(t) PROVE TypeOK'
  BY <1>11 DEF TypeOK, RecordSuccess, LockoutRow, Tx
<1>12. ASSUME NEW t \in Threads, CommitLogin(t) PROVE TypeOK'
  <2>1. tx[t] \in Tx
    BY DEF TypeOK
  <2>2. tx[t].nonce \in Nonces /\ tx[t].key \in Keys /\ tx[t].expires \in Nat
    BY <2>1, <1>12 DEF TypeOK, TxShape, CommitLogin, Tx
  <2>3. [nonce |-> tx[t].nonce, key |-> tx[t].key, expires |-> tx[t].expires] \in Session
    BY <2>2 DEF Session
  <2>4. challenges[tx[t].nonce] \in Challenge
    BY <2>2, <1>12 DEF TypeOK, TxShape, CommitLogin
  <2>5. [challenges[tx[t].nonce] EXCEPT !.consumed = TRUE] \in Challenge
    BY <2>4 DEF Challenge
  <2>6. challenges' \in [Nonces -> Challenge \cup {None}]
    BY <1>12, <2>2, <2>5 DEF TypeOK, CommitLogin
  <2> QED
    BY <1>12, <2>2, <2>3, <2>6 DEF TypeOK, CommitLogin, Idle
<1>13. ASSUME NEW t \in Threads, NEW s \in sessions, NEW op \in {"logout", "password", "rotate"},
              Authorize(t, op, s)
       PROVE  TypeOK'
  BY <1>13 DEF TypeOK, Authorize, Session, Idle, Tx, tables, history
<1>14. ASSUME NEW t \in Threads, LoadAccount(t) PROVE TypeOK'
  <2> DEFINE x == [tx[t] EXCEPT !.pc = "loaded", !.key = account.key]
  <2>1. account.key \in Keys
    BY DEF TypeOK, Account
  <2>2. tx[t].pc = "authorized" /\ tx[t].op # "verify"
    BY <1>14 DEF LoadAccount
  <2>3. x \in Tx /\ x.op # "verify" /\ x.held \in Keys
    BY <1>0, <2>1, <2>2 DEF Tx
  <2>4. tx' = [tx EXCEPT ![t] = x] \/ tx' = [tx EXCEPT ![t] = Idle]
    BY <1>14 DEF LoadAccount
  <2>5. Idle.pc = "idle"
    BY DEF Idle
  <2> HIDE DEF x
  <2>6. TxTyped'
    BY <2>3, <2>4, <2>5, TxStep
  <2> QED BY <1>14, <2>6 DEF TypeOK, TxTyped, LoadAccount, tables, history
<1>15. ASSUME NEW t \in Threads, DeleteSessions(t) PROVE TypeOK'
  <2>1. sessions \subseteq Session
    BY DEF TypeOK
  <2>2. TxTyped'
    BY <1>15, <1>0, <2>1, TxStep DEF DeleteSessions, Tx
  <2> QED BY <1>15, <2>2 DEF TypeOK, TxTyped, DeleteSessions, tables, history
<1>16. ASSUME NEW t \in Threads, CommitLogout(t) PROVE TypeOK'
  BY <1>16 DEF TypeOK, CommitLogout, Idle, history
<1>17. ASSUME NEW t \in Threads, NEW k \in Keys, CommitRotation(t, k) PROVE TypeOK'
  BY <1>17 DEF TypeOK, CommitRotation, Account, Idle, Tx, history
<1>18. ASSUME NEW t \in Threads, CommitPassword(t) PROVE TypeOK'
  BY <1>18 DEF TypeOK, CommitPassword, Account, Idle, Tx, history
<1>19. ASSUME NEW t \in Threads, Abort(t) PROVE TypeOK'
  BY <1>19 DEF TypeOK, Abort, Idle, tables, history
<1>20. CASE Tick
  BY <1>20 DEF TypeOK, Tick, tables, history
<1>21. CASE UNCHANGED vars
  BY <1>21 DEF TypeOK, vars
<1> QED
  BY <1>1, <1>2, <1>3, <1>4, <1>5, <1>6, <1>8, <1>9, <1>10, <1>11, <1>12, <1>13, <1>14,
     <1>15, <1>16, <1>17, <1>18, <1>19, <1>20, <1>21
  DEF Next, Verify, Manage, NewKeys

\* A step changes one thread, and challenges and the lockout row stay.
LEMMA ShapeStep ==
  ASSUME TypeInv, NEW t \in Threads, NEW x, tx' = [tx EXCEPT ![t] = x],
         \A n \in Nonces : challenges[n] # None => challenges'[n] # None,
         lockout # None => lockout' # None,
         x.pc \in {"checked", "accepted", "refused", "failing", "reset"} => x.op = "verify",
         x.pc # "idle" /\ x.op = "verify" => x.nonce \in Nonces /\ challenges[x.nonce] # None,
         x.pc = "failing" /\ x.failures # None => lockout # None
  PROVE  TxShape'
<1>1. tx \in [Threads -> Tx]
  BY DEF TypeInv, TypeOK
<1>2. tx'[t] = x /\ \A u \in Threads \ {t} : tx'[u] = tx[u]
  BY <1>1
<1>3. \A u \in Threads : tx[u].pc # "idle" /\ tx[u].op = "verify" => tx[u].nonce \in Nonces
  BY DEF TypeInv, TypeOK
<1> QED BY <1>2, <1>3 DEF TypeInv, TxShape

LEMMA ShapeNext == TypeInv /\ [Next]_vars => TxShape'
<1> SUFFICES ASSUME TypeInv, [Next]_vars PROVE TxShape'
  OBVIOUS
<1>0. ASSUME NEW t \in Threads
      PROVE  /\ tx[t] \in Tx
             /\ tx[t].pc # "idle" /\ tx[t].op = "verify" =>
                   tx[t].nonce \in Nonces /\ challenges[tx[t].nonce] # None
             /\ tx[t].pc \in {"checked", "accepted", "refused", "failing", "reset"} =>
                   tx[t].op = "verify"
  BY DEF TypeInv, TypeOK, TxShape
<1>1. ASSUME NEW n \in Nonces, IssueChallenge(n) PROVE TxShape'
  BY <1>1 DEF TypeInv, TypeOK, TxShape, IssueChallenge
<1>2. ASSUME NEW t \in Threads, NEW n \in Nonces, NEW k \in Keys \cup {None},
             StartVerify(t, n, k)
      PROVE  TxShape'
  BY <1>2, <1>0, ShapeStep DEF StartVerify, Tx, Idle, tables
<1>3. ASSUME NEW t \in Threads, LoadVerifier(t) PROVE TxShape'
  BY <1>3, <1>0, ShapeStep DEF LoadVerifier, Tx, Idle, tables
<1>4. ASSUME NEW t \in Threads, CheckSignature(t) PROVE TxShape'
  <2> DEFINE x == [tx[t] EXCEPT !.pc = "accepted", !.expires = clock + SessionTtl]
             y == [tx[t] EXCEPT !.pc = "refused"]
  <2>1. tx[t].op = "verify" /\ tx[t].pc = "loaded"
    BY <1>4 DEF CheckSignature
  <2>2. x.pc = "accepted" /\ x.op = "verify" /\ x.nonce = tx[t].nonce
    BY <1>0, <2>1 DEF Tx
  <2>3. y.pc = "refused" /\ y.op = "verify" /\ y.nonce = tx[t].nonce
    BY <1>0, <2>1 DEF Tx
  <2>4. tx' = [tx EXCEPT ![t] = x] \/ tx' = [tx EXCEPT ![t] = y]
    BY <1>4 DEF CheckSignature
  <2>5. UNCHANGED <<challenges, lockout>>
    BY <1>4 DEF CheckSignature, tables
  <2> HIDE DEF x, y
  <2>6. CASE tx' = [tx EXCEPT ![t] = x]
    BY <2>6, <2>1, <2>2, <2>5, <1>0, ShapeStep
  <2>7. CASE tx' = [tx EXCEPT ![t] = y]
    BY <2>7, <2>1, <2>3, <2>5, <1>0, ShapeStep
  <2> QED BY <2>4, <2>6, <2>7
<1>5. ASSUME NEW t \in Threads, RejectNonce(t) PROVE TxShape'
  BY <1>5, <1>0, ShapeStep DEF RejectNonce, Tx, Idle, tables
<1>6. ASSUME NEW t \in Threads, ReadFailures(t) PROVE TxShape'
  BY <1>6, <1>0, ShapeStep DEF ReadFailures, Tx, Idle, tables
<1>8. ASSUME NEW t \in Threads, WriteFailure(t) PROVE TxShape'
  <2>1. lockout' # None
    BY <1>8, CountTyped DEF TypeInv
  <2> QED BY <1>8, <2>1, ShapeStep DEF WriteFailure, Count, Idle
<1>9. ASSUME NEW t \in Threads, WriteFirstFailure(t) PROVE TxShape'
  <2>1. lockout' # None
    BY <1>9, CountTyped DEF TypeInv
  <2> QED BY <1>9, <2>1, ShapeStep DEF WriteFirstFailure, Count, Idle
<1>10. ASSUME NEW t \in Threads, FirstFailureConflict(t) PROVE TxShape'
  BY <1>10, <1>0, ShapeStep DEF FirstFailureConflict, Tx, Idle, tables
<1>11. ASSUME NEW t \in Threads, RecordSuccess(t) PROVE TxShape'
  <2>1. lockout # None => lockout' # None
    <3>1. [failures |-> 0, until |-> 0] \in LockoutRow
      BY DEF LockoutRow
    <3> QED BY <1>11, <3>1, NoneAssumption DEF RecordSuccess
  <2> QED BY <1>11, <1>0, <2>1, ShapeStep DEF RecordSuccess, Tx
<1>12. ASSUME NEW t \in Threads, CommitLogin(t) PROVE TxShape'
  <2>1. tx[t].nonce \in Nonces /\ challenges[tx[t].nonce] \in Challenge
    BY <1>0, <1>12 DEF CommitLogin, TypeInv, TypeOK
  <2>2. [challenges[tx[t].nonce] EXCEPT !.consumed = TRUE] \in Challenge
    BY <2>1 DEF Challenge
  <2>3. \A n \in Nonces : challenges[n] # None => challenges'[n] # None
    BY <1>12, <2>1, <2>2, NoneAssumption DEF CommitLogin, TypeInv, TypeOK
  <2> QED BY <1>12, <2>3, ShapeStep DEF CommitLogin, Idle
<1>13. ASSUME NEW t \in Threads, NEW s \in sessions, NEW op \in {"logout", "password", "rotate"},
              Authorize(t, op, s)
       PROVE  TxShape'
  BY <1>13, <1>0, ShapeStep DEF Authorize, Tx, Idle, tables
<1>14. ASSUME NEW t \in Threads, LoadAccount(t) PROVE TxShape'
  BY <1>14, <1>0, ShapeStep DEF LoadAccount, Tx, Idle, tables
<1>15. ASSUME NEW t \in Threads, DeleteSessions(t) PROVE TxShape'
  BY <1>15, <1>0, ShapeStep DEF DeleteSessions, Tx, Idle, tables
<1>16. ASSUME NEW t \in Threads, CommitLogout(t) PROVE TxShape'
  BY <1>16, <1>0, ShapeStep DEF CommitLogout, Tx, Idle, tables
<1>17. ASSUME NEW t \in Threads, NEW k \in Keys, CommitRotation(t, k) PROVE TxShape'
  BY <1>17, <1>0, ShapeStep DEF CommitRotation, Tx, Idle, tables
<1>18. ASSUME NEW t \in Threads, CommitPassword(t) PROVE TxShape'
  BY <1>18, <1>0, ShapeStep DEF CommitPassword, Tx, Idle, tables
<1>19. ASSUME NEW t \in Threads, Abort(t) PROVE TxShape'
  BY <1>19, <1>0, ShapeStep DEF Abort, Tx, Idle, tables
<1>20. CASE Tick
  BY <1>20 DEF TypeInv, TxShape, Tick, tables
<1>21. CASE UNCHANGED vars
  BY <1>21 DEF TypeInv, TxShape, vars
<1> QED
  BY <1>1, <1>2, <1>3, <1>4, <1>5, <1>6, <1>8, <1>9, <1>10, <1>11, <1>12, <1>13, <1>14,
     <1>15, <1>16, <1>17, <1>18, <1>19, <1>20, <1>21
  DEF Next, Verify, Manage, NewKeys

\* Every reachable state of the account, its rows and its requests is well typed.
THEOREM TypeCorrect == Spec => []TypeOK
<1>1. TypeInv => TypeOK
  BY DEF TypeInv
<1>2. TypeInv /\ [Next]_vars => TypeInv'
  BY TypeNext, ShapeNext DEF TypeInv
<1> QED BY <1>1, <1>2, TypeInit, PTL DEF Spec

-----------------------------------------------------------------------------
(***************************************************************************)
(* A nonce opens one session.                                              *)
(***************************************************************************)

\* t holds the row of its nonce.
Holds(t) == tx[t].pc \in {"accepted", "refused", "failing", "reset"}

NonceInv ==
    /\ NonceUsedOnce
    /\ \A t \in Threads : Holds(t) => ~challenges[tx[t].nonce].consumed
    /\ \A t, u \in Threads : Holds(t) /\ Holds(u) /\ tx[t].nonce = tx[u].nonce => t = u

\* A step that changes no challenge and takes no row.
LEMMA NonceQuiet ==
  ASSUME NonceInv, UNCHANGED <<challenges, logins>>,
         \A u \in Threads : Holds(u)' => Holds(u) /\ tx'[u].nonce = tx[u].nonce
  PROVE  NonceInv'
BY DEF NonceInv, NonceUsedOnce

\* The same, by what becomes of the thread that takes it.
LEMMA NonceStep ==
  ASSUME TypeOK, NonceInv, UNCHANGED <<challenges, logins>>,
         NEW t \in Threads, NEW x, tx' = [tx EXCEPT ![t] = x],
         x.pc \in {"accepted", "refused", "failing", "reset"} =>
             Holds(t) /\ x.nonce = tx[t].nonce
  PROVE  NonceInv'
<1>1. tx'[t] = x /\ \A u \in Threads \ {t} : tx'[u] = tx[u]
  BY DEF TypeOK
<1> QED BY <1>1, NonceQuiet DEF Holds

LEMMA NonceNext == TypeInv /\ NonceInv /\ [Next]_vars => NonceInv'
<1> SUFFICES ASSUME TypeInv, NonceInv, [Next]_vars PROVE NonceInv'
  OBVIOUS
<1>0. /\ TypeOK
      /\ \A t \in Threads : tx[t] \in Tx
      /\ \A t \in Threads : Holds(t) =>
             tx[t].nonce \in Nonces /\ challenges[tx[t].nonce] \in Challenge
  BY DEF TypeInv, TypeOK, TxShape, Holds
<1>1. ASSUME NEW n \in Nonces, IssueChallenge(n) PROVE NonceInv'
  <2>1. challenges'[n] \in Challenge /\ ~challenges'[n].consumed
    <3>1. [expires |-> clock + NonceTtl, consumed |-> FALSE] \in Challenge
      BY <1>0, TimesAssumption DEF Challenge, TypeOK
    <3> QED BY <1>0, <1>1, <3>1 DEF IssueChallenge, TypeOK
  <2>2. logins[n] = 0 /\ UNCHANGED <<logins, tx>>
    BY <1>1 DEF IssueChallenge, NonceInv, NonceUsedOnce, history
  <2>3. \A m \in Nonces \ {n} : challenges'[m] = challenges[m]
    BY <1>0, <1>1 DEF IssueChallenge, TypeOK
  <2>4. NonceUsedOnce'
    BY <2>1, <2>2, <2>3 DEF NonceInv, NonceUsedOnce
  <2>5. \A t \in Threads : Holds(t)' => Holds(t) /\ tx[t].nonce # n /\ tx[t].nonce \in Nonces
    BY <1>0, <1>1, <2>2, NoneAssumption DEF IssueChallenge, Holds
  <2> QED BY <2>2, <2>3, <2>4, <2>5 DEF NonceInv
<1>2. ASSUME NEW t \in Threads, NEW n \in Nonces, NEW k \in Keys \cup {None},
             StartVerify(t, n, k)
      PROVE  NonceInv'
  BY <1>2, <1>0, NonceStep DEF StartVerify, Tx, Idle, Holds, tables, history
<1>3. ASSUME NEW t \in Threads, LoadVerifier(t) PROVE NonceInv'
  BY <1>3, <1>0, NonceStep DEF LoadVerifier, Tx, Idle, Holds, tables, history
<1>4. ASSUME NEW t \in Threads, CheckSignature(t) PROVE NonceInv'
  <2>1. \A u \in Threads \ {t} : tx'[u] = tx[u]
    BY <1>4, <1>0 DEF CheckSignature, TypeOK
  <2>2. tx'[t].nonce = tx[t].nonce
    BY <1>4, <1>0 DEF CheckSignature, TypeOK, Tx
  <2>3. \A u \in Threads \ {t} : Holds(u) => tx[u].nonce # tx[t].nonce
    BY <1>4 DEF CheckSignature, ChallengeLocked, Holds
  <2> QED
    BY <1>4, <2>1, <2>2, <2>3 DEF CheckSignature, NonceInv, NonceUsedOnce, Holds, tables
<1>5. ASSUME NEW t \in Threads, RejectNonce(t) PROVE NonceInv'
  BY <1>5, <1>0, NonceStep DEF RejectNonce, Tx, Idle, Holds, tables, history
<1>6. ASSUME NEW t \in Threads, ReadFailures(t) PROVE NonceInv'
  BY <1>6, <1>0, NonceStep DEF ReadFailures, Tx, Idle, Holds, tables, history
<1>8. ASSUME NEW t \in Threads, WriteFailure(t) PROVE NonceInv'
  BY <1>8, <1>0, NonceStep DEF WriteFailure, Count, Tx, Idle, Holds, tables, history
<1>9. ASSUME NEW t \in Threads, WriteFirstFailure(t) PROVE NonceInv'
  BY <1>9, <1>0, NonceStep DEF WriteFirstFailure, Count, Tx, Idle, Holds, tables, history
<1>10. ASSUME NEW t \in Threads, FirstFailureConflict(t) PROVE NonceInv'
  BY <1>10, <1>0, NonceStep DEF FirstFailureConflict, Tx, Idle, Holds, tables, history
<1>11. ASSUME NEW t \in Threads, RecordSuccess(t) PROVE NonceInv'
  BY <1>11, <1>0, NonceStep DEF RecordSuccess, Tx, Idle, Holds, tables, history
<1>12. ASSUME NEW t \in Threads, CommitLogin(t) PROVE NonceInv'
  <2>1. Holds(t) /\ tx'[t].pc = "idle" /\ \A u \in Threads \ {t} : tx'[u] = tx[u]
    BY <1>12, <1>0 DEF CommitLogin, Holds, TypeOK, Idle
  <2>2. challenges'[tx[t].nonce] \in Challenge /\ challenges'[tx[t].nonce].consumed
    BY <1>12, <1>0, <2>1 DEF CommitLogin, TypeOK, Challenge
  <2>3. logins[tx[t].nonce] = 0 /\ logins'[tx[t].nonce] = 1
    BY <1>12, <1>0, <2>1 DEF CommitLogin, NonceInv, NonceUsedOnce, TypeOK
  <2>4. \A n \in Nonces \ {tx[t].nonce} :
           challenges'[n] = challenges[n] /\ logins'[n] = logins[n]
    BY <1>12, <1>0 DEF CommitLogin, TypeOK
  <2>5. NonceUsedOnce'
    BY <2>2, <2>3, <2>4, NoneAssumption DEF NonceInv, NonceUsedOnce
  <2>6. \A u \in Threads : Holds(u)' =>
           u # t /\ Holds(u) /\ tx'[u].nonce = tx[u].nonce /\ tx[u].nonce # tx[t].nonce
    BY <2>1 DEF Holds, NonceInv
  <2> QED BY <2>4, <2>5, <2>6, <1>0 DEF NonceInv
<1>13. ASSUME NEW t \in Threads, NEW s \in sessions, NEW op \in {"logout", "password", "rotate"},
              Authorize(t, op, s)
       PROVE  NonceInv'
  BY <1>13, <1>0, NonceStep DEF Authorize, Tx, Idle, Holds, tables, history
<1>14. ASSUME NEW t \in Threads, LoadAccount(t) PROVE NonceInv'
  BY <1>14, <1>0, NonceStep DEF LoadAccount, Tx, Idle, Holds, tables, history
<1>15. ASSUME NEW t \in Threads, DeleteSessions(t) PROVE NonceInv'
  BY <1>15, <1>0, NonceStep DEF DeleteSessions, Tx, Idle, Holds, tables, history
<1>16. ASSUME NEW t \in Threads, CommitLogout(t) PROVE NonceInv'
  BY <1>16, <1>0, NonceStep DEF CommitLogout, Tx, Idle, Holds, tables, history
<1>17. ASSUME NEW t \in Threads, NEW k \in Keys, CommitRotation(t, k) PROVE NonceInv'
  BY <1>17, <1>0, NonceStep DEF CommitRotation, Tx, Idle, Holds, tables, history
<1>18. ASSUME NEW t \in Threads, CommitPassword(t) PROVE NonceInv'
  BY <1>18, <1>0, NonceStep DEF CommitPassword, Tx, Idle, Holds, tables, history
<1>19. ASSUME NEW t \in Threads, Abort(t) PROVE NonceInv'
  BY <1>19, <1>0, NonceStep DEF Abort, Tx, Idle, Holds, tables, history
<1>20. CASE Tick
  BY <1>20, <1>0, NonceQuiet DEF Tick, Holds, tables, history
<1>21. CASE UNCHANGED vars
  BY <1>21, <1>0, NonceQuiet DEF vars, Holds
<1> QED
  BY <1>1, <1>2, <1>3, <1>4, <1>5, <1>6, <1>8, <1>9, <1>10, <1>11, <1>12, <1>13, <1>14,
     <1>15, <1>16, <1>17, <1>18, <1>19, <1>20, <1>21
  DEF Next, Verify, Manage, NewKeys

\* However many verifications of a nonce overlap, fail or are rolled back, it opens at
\* most one session, and that is what consumes it.
THEOREM NonceOpensOneSession == Spec => []NonceUsedOnce
<1>1. Init => NonceInv
  BY DEF Init, NonceInv, NonceUsedOnce, Holds, Idle
<1>2. TypeInv /\ [Next]_vars => TypeInv'
  BY TypeNext, ShapeNext DEF TypeInv
<1>3. NonceInv => NonceUsedOnce
  BY DEF NonceInv
<1> QED BY <1>1, <1>2, <1>3, TypeInit, NonceNext, PTL DEF Spec

-----------------------------------------------------------------------------
(***************************************************************************)
(* A lock has its failures behind it.                                      *)
(***************************************************************************)

\* t holds the lockout row and has read it.
Counting(t) == tx[t].pc = "failing" /\ tx[t].failures # None

LockInv ==
    /\ LockedOnlyAfterFailures
    /\ \A t \in Threads : Counting(t) => tx[t].failures = lockout.failures
    /\ \A t, u \in Threads : Counting(t) /\ Counting(u) => t = u

\* A step of t that leaves the row alone, after which t does not hold it.
LEMMA LockStep ==
  ASSUME LockInv, UNCHANGED <<lockout, streak>>, NEW t \in Threads,
         \A u \in Threads \ {t} : tx'[u] = tx[u], tx'[t].pc # "failing"
  PROVE  LockInv'
<1>1. \A u \in Threads : Counting(u)' => Counting(u) /\ u # t
  BY DEF Counting
<1>2. LockedOnlyAfterFailures'
  BY DEF LockInv, LockedOnlyAfterFailures
<1> QED BY <1>1, <1>2 DEF LockInv

\* A step of t that writes the row, which nobody else holds.
LEMMA LockWritten ==
  ASSUME LockInv, NEW t \in Threads, ~LockoutLocked(t),
         \A u \in Threads \ {t} : tx'[u] = tx[u], tx'[t].pc # "failing",
         LockedOnlyAfterFailures'
  PROVE  LockInv'
<1>1. \A u \in Threads : ~Counting(u)'
  BY DEF Counting, LockoutLocked
<1> QED BY <1>1 DEF LockInv

LEMMA LockNext == TypeInv /\ LockInv /\ [Next]_vars => LockInv'
<1> SUFFICES ASSUME TypeInv, LockInv, [Next]_vars PROVE LockInv'
  OBVIOUS
<1>0. /\ TypeOK
      /\ tx \in [Threads -> Tx]
      /\ \A t \in Threads : tx[t] \in Tx
      /\ lockout # None => lockout.failures \in Nat /\ lockout.until \in Nat
      /\ streak \in Nat
  BY DEF TypeInv, TypeOK, LockoutRow
<1>00. \A n, u : /\ Counted(n, u).failures = n
                 /\ Counted(n, u).until # u => n >= MaxFailures
  BY DEF Counted
<1>1. ASSUME NEW n \in Nonces, IssueChallenge(n) PROVE LockInv'
  BY <1>1 DEF IssueChallenge, LockInv, LockedOnlyAfterFailures, Counting, history
<1>2. ASSUME NEW t \in Threads, NEW n \in Nonces, NEW k \in Keys \cup {None},
             StartVerify(t, n, k)
      PROVE  LockInv'
  BY <1>2, <1>0, LockStep DEF StartVerify, Tx, Idle, tables, history
<1>3. ASSUME NEW t \in Threads, LoadVerifier(t) PROVE LockInv'
  BY <1>3, <1>0, LockStep DEF LoadVerifier, Tx, Idle, tables, history
<1>4. ASSUME NEW t \in Threads, CheckSignature(t) PROVE LockInv'
  <2>1. \A u \in Threads \ {t} : tx'[u] = tx[u]
    BY <1>4, <1>0 DEF CheckSignature
  <2>2. tx'[t].pc \in {"accepted", "refused"}
    BY <1>4, <1>0 DEF CheckSignature, Tx
  <2> QED BY <1>4, <2>1, <2>2, LockStep DEF CheckSignature, tables
<1>5. ASSUME NEW t \in Threads, RejectNonce(t) PROVE LockInv'
  BY <1>5, <1>0, LockStep DEF RejectNonce, Tx, Idle, tables, history
<1>6. ASSUME NEW t \in Threads, ReadFailures(t) PROVE LockInv'
  <2>1. \A u \in Threads \ {t} : tx'[u] = tx[u] /\ ~Counting(u)
    BY <1>6, <1>0 DEF ReadFailures, TypeOK, LockoutLocked, Counting
  <2>2. tx'[t].failures = IF lockout = None THEN None ELSE lockout.failures
    BY <1>6, <1>0 DEF ReadFailures, TypeOK, Tx
  <2>3. LockedOnlyAfterFailures'
    BY <1>6 DEF ReadFailures, LockInv, LockedOnlyAfterFailures, tables, history
  <2>4. \A u \in Threads : Counting(u)' => u = t
    BY <2>1 DEF Counting
  <2>5. Counting(t)' => tx'[t].failures = lockout'.failures
    BY <1>6, <2>2 DEF ReadFailures, Counting, tables
  <2> QED BY <2>3, <2>4, <2>5 DEF LockInv
<1>8. ASSUME NEW t \in Threads, WriteFailure(t) PROVE LockInv'
  <2>1. Counting(t) /\ ~LockoutLocked(t)
    BY <1>8 DEF WriteFailure, Counting, LockInv, LockoutLocked
  <2>2. lockout # None /\ tx[t].failures = lockout.failures
    BY <1>8, <2>1 DEF LockInv, WriteFailure, TypeInv, TxShape
  <2>3. /\ lockout' = Counted(lockout.failures + 1, lockout.until)
        /\ streak' = streak + 1
        /\ tx' = [tx EXCEPT ![t] = Idle]
    BY <1>8, <2>2 DEF WriteFailure, Count
  <2>4. LockedOnlyAfterFailures'
    BY <1>0, <1>00, <2>2, <2>3, TimesAssumption DEF LockInv, LockedOnlyAfterFailures
  <2> QED BY <1>0, <2>1, <2>3, <2>4, LockWritten DEF Idle
<1>9. ASSUME NEW t \in Threads, WriteFirstFailure(t) PROVE LockInv'
  <2>1. lockout' = Counted(1, 0) /\ streak' = streak + 1 /\ tx' = [tx EXCEPT ![t] = Idle]
    BY <1>9 DEF WriteFirstFailure, Count
  <2>2. LockedOnlyAfterFailures'
    BY <1>0, <1>00, <2>1, TimesAssumption DEF LockedOnlyAfterFailures
  <2> QED BY <1>9, <1>0, <2>1, <2>2, LockWritten DEF WriteFirstFailure, Idle
<1>10. ASSUME NEW t \in Threads, FirstFailureConflict(t) PROVE LockInv'
  BY <1>10, <1>0, LockStep DEF FirstFailureConflict, Tx, Idle, tables, history
<1>11. ASSUME NEW t \in Threads, RecordSuccess(t) PROVE LockInv'
  <2>1. LockedOnlyAfterFailures'
    BY <1>11 DEF RecordSuccess, LockedOnlyAfterFailures
  <2> QED BY <1>11, <1>0, <2>1, LockWritten DEF RecordSuccess, Tx
<1>12. ASSUME NEW t \in Threads, CommitLogin(t) PROVE LockInv'
  BY <1>12, <1>0, LockStep DEF CommitLogin, Tx, Idle, tables, history
<1>13. ASSUME NEW t \in Threads, NEW s \in sessions, NEW op \in {"logout", "password", "rotate"},
              Authorize(t, op, s)
       PROVE  LockInv'
  BY <1>13, <1>0, LockStep DEF Authorize, Tx, Idle, tables, history
<1>14. ASSUME NEW t \in Threads, LoadAccount(t) PROVE LockInv'
  BY <1>14, <1>0, LockStep DEF LoadAccount, Tx, Idle, tables, history
<1>15. ASSUME NEW t \in Threads, DeleteSessions(t) PROVE LockInv'
  BY <1>15, <1>0, LockStep DEF DeleteSessions, Tx, Idle, tables, history
<1>16. ASSUME NEW t \in Threads, CommitLogout(t) PROVE LockInv'
  BY <1>16, <1>0, LockStep DEF CommitLogout, Tx, Idle, tables, history
<1>17. ASSUME NEW t \in Threads, NEW k \in Keys, CommitRotation(t, k) PROVE LockInv'
  BY <1>17, <1>0, LockStep DEF CommitRotation, Tx, Idle, tables, history
<1>18. ASSUME NEW t \in Threads, CommitPassword(t) PROVE LockInv'
  BY <1>18, <1>0, LockStep DEF CommitPassword, Tx, Idle, tables, history
<1>19. ASSUME NEW t \in Threads, Abort(t) PROVE LockInv'
  BY <1>19, <1>0, LockStep DEF Abort, Tx, Idle, tables, history
<1>20. CASE Tick
  BY <1>20 DEF Tick, LockInv, LockedOnlyAfterFailures, Counting, tables, history
<1>21. CASE UNCHANGED vars
  BY <1>21 DEF vars, LockInv, LockedOnlyAfterFailures, Counting
<1> QED
  BY <1>1, <1>2, <1>3, <1>4, <1>5, <1>6, <1>8, <1>9, <1>10, <1>11, <1>12, <1>13, <1>14,
     <1>15, <1>16, <1>17, <1>18, <1>19, <1>20, <1>21
  DEF Next, Verify, Manage, NewKeys

\* Behind a lock there are MaxFailures wrong signatures and no success between them.
THEOREM LocksHaveFailures == Spec => []LockedOnlyAfterFailures
<1>1. Init => LockInv
  BY DEF Init, LockInv, LockedOnlyAfterFailures, Counting, Idle
<1>2. TypeInv /\ [Next]_vars => TypeInv'
  BY TypeNext, ShapeNext DEF TypeInv
<1>3. LockInv => LockedOnlyAfterFailures
  BY DEF LockInv
<1> QED BY <1>1, <1>2, <1>3, TypeInit, LockNext, PTL DEF Spec

-----------------------------------------------------------------------------
(***************************************************************************)
(* What a lock lets through: the verifications that had passed the check   *)
(* when it was set can each cost one signature, and none joins them.       *)
(***************************************************************************)

\* Requests that have passed checkNotLocked and not checked their signature.
Guessing == {t \in Threads : tx[t].pc \in {"checked", "loaded"} /\ tx[t].op = "verify"}

LateInv ==
    /\ LateGuessesBounded
    /\ Locked => late + Cardinality(Guessing) < Cardinality(Threads)

LEMMA GuessingFinite ==
  ASSUME NEW S, S \subseteq Threads
  PROVE  IsFiniteSet(S) /\ Cardinality(S) \in Nat /\ Cardinality(S) <= Cardinality(Threads)
BY ThreadsAssumption, FS_Subset, FS_CardinalityType

\* A step that sets no lock, counts nothing and lets nobody past the check.
LEMMA LateQuiet ==
  ASSUME TypeOK, LateInv, late' = late, Locked' => Locked, Locked' => Guessing' \subseteq Guessing
  PROVE  LateInv'
<1>1. LateGuessesBounded'
  BY DEF LateInv, LateGuessesBounded
<1>2. ASSUME Locked' PROVE late' + Cardinality(Guessing') < Cardinality(Threads)
  <2>1. Guessing' \subseteq Guessing
    BY <1>2
  <2>2. IsFiniteSet(Guessing) /\ Cardinality(Guessing) \in Nat /\ Cardinality(Threads) \in Nat
    BY GuessingFinite DEF Guessing
  <2>3. Cardinality(Guessing') <= Cardinality(Guessing) /\ Cardinality(Guessing') \in Nat
    BY <2>1, <2>2, FS_Subset, FS_CardinalityType
  <2> QED BY <1>2, <2>2, <2>3 DEF LateInv, TypeOK
<1> QED BY <1>1, <1>2 DEF LateInv

\* The same for a step of t.
LEMMA LateStep ==
  ASSUME TypeOK, LateInv, UNCHANGED <<late, lockout, clock>>, NEW t \in Threads,
         \A u \in Threads \ {t} : tx'[u] = tx[u],
         t \in Guessing' => t \in Guessing
  PROVE  LateInv'
<1>1. Guessing' \subseteq Guessing
  BY DEF Guessing
<1> QED BY <1>1, LateQuiet DEF Locked

LEMMA LateCount ==
  ASSUME TypeOK, LateInv, NEW t \in Threads, NEW row, Count(t, row), tx[t].pc = "failing"
  PROVE  LateInv'
<1>1. tx'[t].pc = "idle" /\ \A u \in Threads \ {t} : tx'[u] = tx[u]
  BY DEF Count, TypeOK, Idle
<1>2. CASE Locked
  <2>1. Guessing' \subseteq Guessing
    BY <1>1 DEF Guessing
  <2> QED BY <1>2, <2>1, LateQuiet DEF Count
<1>3. CASE ~Locked
  <2>1. late' = 0 /\ Guessing' \subseteq Threads \ {t}
    BY <1>1, <1>3 DEF Count, Guessing
  <2>2. Cardinality(Threads \ {t}) = Cardinality(Threads) - 1 /\ Cardinality(Threads) \in Nat
    BY ThreadsAssumption, FS_RemoveElement, FS_CardinalityType
  <2>3. IsFiniteSet(Threads \ {t})
    BY GuessingFinite
  <2>4. Cardinality(Guessing') <= Cardinality(Threads \ {t}) /\ Cardinality(Guessing') \in Nat
    BY <2>1, <2>3, FS_Subset, FS_CardinalityType
  <2> QED BY <2>1, <2>2, <2>4 DEF LateInv, LateGuessesBounded
<1> QED BY <1>2, <1>3

LEMMA LateCheck ==
  ASSUME TypeOK, LateInv, NEW t \in Threads, CheckSignature(t)
  PROVE  LateInv'
<1>1. t \in Guessing /\ t \notin Guessing' /\ \A u \in Threads \ {t} : tx'[u] = tx[u]
  BY DEF CheckSignature, Guessing, TypeOK, Tx
<1>2. Guessing' \subseteq Guessing /\ UNCHANGED <<lockout, clock>>
  BY <1>1 DEF Guessing, CheckSignature, tables
<1>3. CASE late' = late
  BY <1>2, <1>3, LateQuiet DEF Locked
<1>4. CASE late' # late
  <2>1. Locked /\ late' = late + 1 /\ Locked'
    BY <1>2, <1>4 DEF CheckSignature, Locked
  <2>2. IsFiniteSet(Guessing) /\ Cardinality(Guessing) \in Nat /\ Cardinality(Threads) \in Nat
    BY GuessingFinite DEF Guessing
  <2>3. IsFiniteSet(Guessing \ {t}) /\ Cardinality(Guessing \ {t}) = Cardinality(Guessing) - 1
    BY <1>1, <2>2, FS_RemoveElement
  <2>4. Cardinality(Guessing') <= Cardinality(Guessing) - 1 /\ Cardinality(Guessing') \in Nat
    BY <1>1, <1>2, <2>3, FS_Subset, FS_CardinalityType
  <2>5. late + Cardinality(Guessing) < Cardinality(Threads) /\ late \in Nat
    BY <2>1 DEF LateInv, TypeOK
  <2>6. late' + Cardinality(Guessing') < Cardinality(Threads)
    BY <2>1, <2>2, <2>4, <2>5
  <2>7. late' < Cardinality(Threads)
    BY <2>1, <2>2, <2>4, <2>5, <2>6
  <2> QED BY <2>6, <2>7 DEF LateInv, LateGuessesBounded
<1> QED BY <1>3, <1>4

LEMMA LateNext == TypeInv /\ LateInv /\ [Next]_vars => LateInv'
<1> SUFFICES ASSUME TypeInv, LateInv, [Next]_vars PROVE LateInv'
  OBVIOUS
<1>0. /\ TypeOK
      /\ tx \in [Threads -> Tx]
      /\ \A t \in Threads : tx[t] \in Tx
      /\ lockout # None => lockout.until \in Nat
      /\ clock \in Nat
  BY DEF TypeInv, TypeOK, LockoutRow
<1>1. ASSUME NEW n \in Nonces, IssueChallenge(n) PROVE LateInv'
  BY <1>1, <1>0, LateQuiet DEF IssueChallenge, Locked, Guessing, history
<1>2. ASSUME NEW t \in Threads, NEW n \in Nonces, NEW k \in Keys \cup {None},
             StartVerify(t, n, k)
      PROVE  LateInv'
  <2>1. ~Locked' /\ late' = late
    BY <1>2 DEF StartVerify, Locked, tables, history
  <2> QED BY <1>0, <2>1, LateQuiet
<1>3. ASSUME NEW t \in Threads, LoadVerifier(t) PROVE LateInv'
  BY <1>3, <1>0, LateStep DEF LoadVerifier, Guessing, Tx, Idle, tables, history
<1>4. ASSUME NEW t \in Threads, CheckSignature(t) PROVE LateInv'
  BY <1>4, <1>0, LateCheck
<1>5. ASSUME NEW t \in Threads, RejectNonce(t) PROVE LateInv'
  BY <1>5, <1>0, LateStep DEF RejectNonce, Guessing, Tx, Idle, tables, history
<1>6. ASSUME NEW t \in Threads, ReadFailures(t) PROVE LateInv'
  BY <1>6, <1>0, LateStep DEF ReadFailures, Guessing, Tx, Idle, tables, history
<1>8. ASSUME NEW t \in Threads, WriteFailure(t) PROVE LateInv'
  BY <1>8, <1>0, LateCount DEF WriteFailure
<1>9. ASSUME NEW t \in Threads, WriteFirstFailure(t) PROVE LateInv'
  BY <1>9, <1>0, LateCount DEF WriteFirstFailure
<1>10. ASSUME NEW t \in Threads, FirstFailureConflict(t) PROVE LateInv'
  BY <1>10, <1>0, LateStep DEF FirstFailureConflict, Guessing, Tx, Idle, tables, history
<1>11. ASSUME NEW t \in Threads, RecordSuccess(t) PROVE LateInv'
  <2>1. ~Locked' /\ late' = late
    BY <1>11, <1>0 DEF RecordSuccess, Locked
  <2> QED BY <1>0, <2>1, LateQuiet
<1>12. ASSUME NEW t \in Threads, CommitLogin(t) PROVE LateInv'
  BY <1>12, <1>0, LateStep DEF CommitLogin, Guessing, Tx, Idle, tables, history
<1>13. ASSUME NEW t \in Threads, NEW s \in sessions, NEW op \in {"logout", "password", "rotate"},
              Authorize(t, op, s)
       PROVE  LateInv'
  BY <1>13, <1>0, LateStep DEF Authorize, Guessing, Tx, Idle, tables, history
<1>14. ASSUME NEW t \in Threads, LoadAccount(t) PROVE LateInv'
  BY <1>14, <1>0, LateStep DEF LoadAccount, Guessing, Tx, Idle, tables, history
<1>15. ASSUME NEW t \in Threads, DeleteSessions(t) PROVE LateInv'
  BY <1>15, <1>0, LateStep DEF DeleteSessions, Guessing, Tx, Idle, tables, history
<1>16. ASSUME NEW t \in Threads, CommitLogout(t) PROVE LateInv'
  BY <1>16, <1>0, LateStep DEF CommitLogout, Guessing, Tx, Idle, tables, history
<1>17. ASSUME NEW t \in Threads, NEW k \in Keys, CommitRotation(t, k) PROVE LateInv'
  BY <1>17, <1>0, LateStep DEF CommitRotation, Guessing, Tx, Idle, tables, history
<1>18. ASSUME NEW t \in Threads, CommitPassword(t) PROVE LateInv'
  BY <1>18, <1>0, LateStep DEF CommitPassword, Guessing, Tx, Idle, tables, history
<1>19. ASSUME NEW t \in Threads, Abort(t) PROVE LateInv'
  BY <1>19, <1>0, LateStep DEF Abort, Guessing, Tx, Idle, tables, history
<1>20. CASE Tick
  BY <1>20, <1>0, LateQuiet DEF Tick, Locked, Guessing, tables, history
<1>21. CASE UNCHANGED vars
  BY <1>21, <1>0, LateQuiet DEF vars, Locked, Guessing
<1> QED
  BY <1>1, <1>2, <1>3, <1>4, <1>5, <1>6, <1>8, <1>9, <1>10, <1>11, <1>12, <1>13, <1>14,
     <1>15, <1>16, <1>17, <1>18, <1>19, <1>20, <1>21
  DEF Next, Verify, Manage, NewKeys

\* The wrong signatures checked under one lock are fewer than the requests that can be
\* in flight.
THEOREM LateGuessesStayBounded == Spec => []LateGuessesBounded
<1>1. Init => LateInv
  <2>1. Cardinality(Threads) \in Nat \ {0}
    BY ThreadsAssumption, FS_EmptySet, FS_CardinalityType
  <2> QED BY <2>1 DEF Init, LateInv, LateGuessesBounded, Locked
<1>2. TypeInv /\ [Next]_vars => TypeInv'
  BY TypeNext, ShapeNext DEF TypeInv
<1>3. LateInv => LateGuessesBounded
  BY DEF LateInv
<1> QED BY <1>1, <1>2, <1>3, TypeInit, LateNext, PTL DEF Spec

-----------------------------------------------------------------------------
(***************************************************************************)
(* Keys that were rotated away stay retired while requests do not overlap: *)
(* with one request in flight, what it has read of the account is what is  *)
(* committed when it writes it back.                                       *)
(***************************************************************************)

\* What a request with the record x has read is what is committed.
Current(x) ==
    /\ x.pc = "authorized" => x.held = account.key
    /\ x.pc \in {"loaded", "accepted", "reset"} => x.key = account.key
    /\ x.pc = "loaded" /\ x.op # "verify" => x.held = account.key
    /\ x.pc = "deleted" => x.doomed = sessions
    /\ x.pc = "deleted" /\ x.op = "rotate" => x.key = account.key

SerialInv ==
    /\ account.blobs = account.key
    /\ account.key \notin pending
    /\ \A s \in sessions : s.key = account.key
    /\ \A t \in Threads : Current(tx[t])

OneRequest == \A t, u \in Threads : t = u

\* A step of the one request that writes nothing.
LEMMA SerialStep ==
  ASSUME TypeOK, SerialInv, OneRequest, UNCHANGED <<account, pending, sessions>>,
         NEW t \in Threads, NEW x, tx' = [tx EXCEPT ![t] = x], Current(x)
  PROVE  SerialInv'
<1>1. tx'[t] = x
  BY DEF TypeOK
<1>2. Current(tx'[t])
  BY <1>1
<1>3. Current(tx[t])'
  BY <1>2 DEF Current
<1>4. \A u \in Threads : Current(tx[u])'
  BY <1>3 DEF OneRequest
<1> QED BY <1>4 DEF SerialInv

\* A step of the one request with which it ends.
LEMMA SerialEnd ==
  ASSUME TypeOK, OneRequest, NEW t \in Threads, tx' = [tx EXCEPT ![t] = Idle],
         account'.blobs = account'.key, account'.key \notin pending',
         \A s \in sessions' : s.key = account'.key
  PROVE  SerialInv'
<1>1. tx'[t].pc = "idle"
  BY DEF TypeOK, Idle
<1>2. Current(tx[t])'
  BY <1>1 DEF Current
<1>3. \A u \in Threads : Current(tx[u])'
  BY <1>2 DEF OneRequest
<1> QED BY <1>3 DEF SerialInv

LEMMA SerialNext == TypeInv /\ OneRequest /\ SerialInv /\ [Next]_vars => SerialInv'
<1> SUFFICES ASSUME TypeInv, OneRequest, SerialInv, [Next]_vars PROVE SerialInv'
  OBVIOUS
<1>0. /\ TypeOK
      /\ \A t \in Threads : tx[t] \in Tx /\ Current(tx[t])
      /\ account.blobs = account.key /\ account.key \notin pending
      /\ \A s \in sessions : s.key = account.key
  BY DEF TypeInv, TypeOK, SerialInv
<1>1. ASSUME NEW n \in Nonces, IssueChallenge(n) PROVE SerialInv'
  BY <1>1 DEF SerialInv, Current, IssueChallenge
<1>2. ASSUME NEW t \in Threads, NEW n \in Nonces, NEW k \in Keys \cup {None},
             StartVerify(t, n, k)
      PROVE  SerialInv'
  BY <1>2, <1>0, SerialStep DEF StartVerify, Current, Idle, Tx, tables
<1>3. ASSUME NEW t \in Threads, LoadVerifier(t) PROVE SerialInv'
  <2>1. tx[t].op = "verify"
    BY <1>3 DEF TypeInv, TxShape, LoadVerifier
  <2> QED BY <1>3, <1>0, <2>1, SerialStep DEF LoadVerifier, Current, Tx, tables
<1>4. ASSUME NEW t \in Threads, CheckSignature(t) PROVE SerialInv'
  <2> DEFINE x == [tx[t] EXCEPT !.pc = "accepted", !.expires = clock + SessionTtl]
             y == [tx[t] EXCEPT !.pc = "refused"]
  <2>1. tx[t].pc = "loaded"
    BY <1>4 DEF CheckSignature
  <2>2. Current(x)
    BY <1>0, <2>1 DEF Current, Tx
  <2>3. Current(y)
    BY <1>0, <2>1 DEF Current, Tx
  <2>4. tx' = [tx EXCEPT ![t] = x] \/ tx' = [tx EXCEPT ![t] = y]
    BY <1>4 DEF CheckSignature
  <2> HIDE DEF x, y
  <2> QED BY <1>4, <1>0, <2>2, <2>3, <2>4, SerialStep DEF CheckSignature, tables
<1>5. ASSUME NEW t \in Threads, RejectNonce(t) PROVE SerialInv'
  BY <1>5, <1>0, SerialEnd DEF RejectNonce, tables
<1>6. ASSUME NEW t \in Threads, ReadFailures(t) PROVE SerialInv'
  BY <1>6, <1>0, SerialStep DEF ReadFailures, Current, Tx, tables
<1>8. ASSUME NEW t \in Threads, WriteFailure(t) PROVE SerialInv'
  BY <1>8, <1>0, SerialEnd DEF WriteFailure, Count
<1>9. ASSUME NEW t \in Threads, WriteFirstFailure(t) PROVE SerialInv'
  BY <1>9, <1>0, SerialEnd DEF WriteFirstFailure, Count
<1>10. ASSUME NEW t \in Threads, FirstFailureConflict(t) PROVE SerialInv'
  BY <1>10, <1>0, SerialEnd DEF FirstFailureConflict, tables
<1>11. ASSUME NEW t \in Threads, RecordSuccess(t) PROVE SerialInv'
  BY <1>11, <1>0, SerialStep DEF RecordSuccess, Current, Tx
<1>12. ASSUME NEW t \in Threads, CommitLogin(t) PROVE SerialInv'
  <2>1. tx[t].key = account.key
    BY <1>12, <1>0 DEF CommitLogin, Current
  <2>2. \A s \in sessions' : s.key = account.key
    BY <1>12, <1>0, <2>1 DEF CommitLogin
  <2>3. tx' = [tx EXCEPT ![t] = Idle] /\ UNCHANGED <<account, pending>>
    BY <1>12 DEF CommitLogin
  <2> QED BY <1>0, <2>2, <2>3, SerialEnd
<1>13. ASSUME NEW t \in Threads, NEW s \in sessions, NEW op \in {"logout", "password", "rotate"},
              Authorize(t, op, s)
       PROVE  SerialInv'
  BY <1>13, <1>0, SerialStep DEF Authorize, Current, Idle, Tx, tables
<1>14. ASSUME NEW t \in Threads, LoadAccount(t) PROVE SerialInv'
  <2> DEFINE x == [tx[t] EXCEPT !.pc = "loaded", !.key = account.key]
  <2>1. Current(x)
    BY <1>14, <1>0 DEF LoadAccount, Current, Tx
  <2>2. tx' = [tx EXCEPT ![t] = x]
    BY <1>14, <1>0 DEF LoadAccount, Current
  <2> HIDE DEF x
  <2> QED BY <1>14, <1>0, <2>1, <2>2, SerialStep DEF LoadAccount, tables
<1>15. ASSUME NEW t \in Threads, DeleteSessions(t) PROVE SerialInv'
  <2> DEFINE x == [tx[t] EXCEPT !.pc = "deleted", !.doomed = sessions]
  <2>1. Current(x)
    BY <1>15, <1>0 DEF DeleteSessions, Current, Tx
  <2>2. tx' = [tx EXCEPT ![t] = x]
    BY <1>15 DEF DeleteSessions
  <2> HIDE DEF x
  <2> QED BY <1>15, <1>0, <2>1, <2>2, SerialStep DEF DeleteSessions, tables
<1>16. ASSUME NEW t \in Threads, CommitLogout(t) PROVE SerialInv'
  BY <1>16, <1>0, SerialEnd DEF CommitLogout
<1>17. ASSUME NEW t \in Threads, NEW k \in NewKeys, CommitRotation(t, k) PROVE SerialInv'
  <2>1. tx[t].key = account.key /\ tx[t].doomed = sessions
    BY <1>17, <1>0 DEF CommitRotation, Current
  <2>2. sessions' = {} /\ pending' = pending \cup {account.key}
    BY <1>17, <2>1 DEF CommitRotation
  <2>3. account'.blobs = account'.key /\ account'.key \notin pending'
    BY <1>17, <2>2 DEF CommitRotation, NewKeys
  <2> QED BY <1>17, <1>0, <2>2, <2>3, SerialEnd DEF CommitRotation
<1>18. ASSUME NEW t \in Threads, CommitPassword(t) PROVE SerialInv'
  <2>1. tx[t].key = account.key /\ tx[t].held = account.key
    BY <1>18, <1>0 DEF CommitPassword, Current
  <2> QED BY <1>18, <1>0, <2>1, SerialEnd DEF CommitPassword
<1>19. ASSUME NEW t \in Threads, Abort(t) PROVE SerialInv'
  BY <1>19, <1>0, SerialEnd DEF Abort, tables
<1>20. CASE Tick
  BY <1>20 DEF SerialInv, Current, Tick, tables
<1>21. CASE UNCHANGED vars
  BY <1>21 DEF SerialInv, Current, vars
<1> QED
  BY <1>1, <1>2, <1>3, <1>4, <1>5, <1>6, <1>8, <1>9, <1>10, <1>11, <1>12, <1>13, <1>14,
     <1>15, <1>16, <1>17, <1>18, <1>19, <1>20, <1>21
  DEF Next, Verify, Manage

\* What the run "retired" finds takes two requests: a verifier that sends one at a time
\* never has a retired key in force again, and no session that was opened with one.
THEOREM SerialRequestsRetireKeys ==
  ASSUME Cardinality(Threads) = 1
  PROVE  Spec => []RetiredKeysStayRetired
<1>1. OneRequest
  <2>1. PICK t : Threads = {t}
    BY ThreadsAssumption, FS_CardinalityType, FS_Singleton
  <2> QED BY <2>1 DEF OneRequest
<1>2. Init => SerialInv
  BY DEF Init, SerialInv, Current, Idle
<1>3. TypeInv /\ [Next]_vars => TypeInv'
  BY TypeNext, ShapeNext DEF TypeInv
<1>4. TypeInv /\ SerialInv /\ [Next]_vars => SerialInv'
  BY <1>1, SerialNext
<1>5. SerialInv => RetiredKeysStayRetired
  BY DEF SerialInv, RetiredKeysStayRetired
<1> QED BY <1>2, <1>3, <1>4, <1>5, TypeInit, PTL DEF Spec

-----------------------------------------------------------------------------
(***************************************************************************)
(* The refinement: every step is a step of LoginTickets or stutters.       *)
(***************************************************************************)

LEMMA TicketIssued ==
  ASSUME TypeOK, NEW n \in Nonces, IssueChallenge(n)
  PROVE  Tickets!Issue(n)
<1> DEFINE row == [expires |-> clock + NonceTtl, consumed |-> FALSE]
<1>1. row \in Challenge /\ ~row.consumed
  BY TimesAssumption DEF TypeOK, Challenge
<1>2. /\ challenges[n] = None /\ UNCHANGED sessions
      /\ challenges' = [challenges EXCEPT ![n] = row]
  BY DEF IssueChallenge
<1> HIDE DEF row
<1>3. challenges'[n] # None /\ ~challenges'[n].consumed
  BY <1>1, <1>2, NoneAssumption DEF TypeOK
<1>4. \A m \in Nonces \ {n} : challenges'[m] = challenges[m]
  BY <1>2 DEF TypeOK
<1>5. n \notin Issued /\ Issued' = Issued \cup {n}
  BY <1>2, <1>3, <1>4 DEF Issued
<1>6. Consumed' = Consumed
  BY <1>3, <1>4, <1>5 DEF Consumed, Issued
<1> QED BY <1>2, <1>5, <1>6 DEF Tickets!Issue

LEMMA TicketUsed ==
  ASSUME TypeInv, NonceInv, NEW t \in Threads, CommitLogin(t)
  PROVE  \E s \in sessions' : Tickets!Login(s)
<1> DEFINE n == tx[t].nonce
           s == [nonce |-> n, key |-> tx[t].key, expires |-> tx[t].expires]
<1>1. /\ sessions' = sessions \cup {s} /\ s.nonce = n
      /\ challenges' = [challenges EXCEPT ![n].consumed = TRUE]
  BY DEF CommitLogin
<1>2. n \in Nonces /\ challenges[n] \in Challenge /\ ~challenges[n].consumed
  BY DEF TypeInv, TypeOK, TxShape, NonceInv, Holds, CommitLogin
<1> HIDE DEF n, s
<1>3. challenges'[n] \in Challenge /\ challenges'[n].consumed
  BY <1>1, <1>2 DEF TypeInv, TypeOK, Challenge
<1>4. \A m \in Nonces \ {n} : challenges'[m] = challenges[m]
  BY <1>1 DEF TypeInv, TypeOK
<1>5. n \in Issued \ Consumed
  BY <1>2, NoneAssumption DEF Issued, Consumed
<1>6. Issued' = Issued
  BY <1>2, <1>3, <1>4, NoneAssumption DEF Issued
<1>7. Consumed' = Consumed \cup {n}
  BY <1>3, <1>4, <1>5, <1>6 DEF Consumed, Issued
<1> QED BY <1>1, <1>5, <1>6, <1>7 DEF Tickets!Login

\* The other steps insert no session and consume no challenge.
LEMMA TicketsRest ==
  ASSUME UNCHANGED challenges, sessions' \subseteq sessions
  PROVE  Tickets!Next
<1>1. UNCHANGED <<Issued, Consumed>>
  BY DEF Issued, Consumed
<1> QED BY <1>1 DEF Tickets!Next, Tickets!End

LEMMA TicketStep ==
  ASSUME TypeInv, NonceInv, [Next]_vars
  PROVE  Tickets!Next
<1>1. ASSUME NEW n \in Nonces, IssueChallenge(n) PROVE Tickets!Next
  BY <1>1, TicketIssued DEF TypeInv, Tickets!Next
<1>2. ASSUME NEW t \in Threads, Verify(t) PROVE Tickets!Next
  <2>1. CASE CommitLogin(t)
    BY <2>1, TicketUsed DEF Tickets!Next
  <2>2. CASE ~CommitLogin(t)
    <3>1. UNCHANGED <<challenges, sessions>>
      BY <1>2, <2>2
      DEF Verify, StartVerify, LoadVerifier, CheckSignature, RejectNonce, ReadFailures,
          WriteFailure, WriteFirstFailure, FirstFailureConflict, RecordSuccess, Count, tables
    <3> QED BY <3>1, TicketsRest
  <2> QED BY <2>1, <2>2
<1>3. ASSUME NEW t \in Threads, Manage(t) \/ Abort(t) PROVE Tickets!Next
  <2>1. UNCHANGED challenges /\ sessions' \subseteq sessions
    BY <1>3
    DEF Manage, Authorize, LoadAccount, DeleteSessions, CommitLogout, CommitRotation,
        CommitPassword, Abort, tables
  <2> QED BY <2>1, TicketsRest
<1>4. CASE Tick \/ UNCHANGED vars
  BY <1>4, TicketsRest DEF Tick, tables, vars
<1> QED BY <1>1, <1>2, <1>3, <1>4 DEF Next

\* The account implements LoginTickets: a session is opened only by an issued nonce that
\* has opened none before, and none comes back after a logout or a rotation, however
\* requests overlap.
THEOREM AccountsImplementTickets == Spec => ImplementsTickets
<1>1. Init => NonceInv
  BY DEF Init, NonceInv, NonceUsedOnce, Holds, Idle
<1>2. Init => Tickets!Init
  BY DEF Init, Tickets!Init, Issued, Consumed
<1>3. TypeInv /\ [Next]_vars => TypeInv'
  BY TypeNext, ShapeNext DEF TypeInv
<1>4. TypeInv /\ NonceInv /\ [Next]_vars => [Tickets!Next]_(Tickets!vars)
  BY TicketStep
<1> QED BY <1>1, <1>2, <1>3, <1>4, TypeInit, NonceNext, PTL DEF Spec, ImplementsTickets, Tickets!Spec

\* So two sessions in force never go back to one nonce, and the nonce of each is consumed.
THEOREM SessionsHaveOwnNonces == Spec => []Tickets!OneSessionPerTicket
<1>1. Tickets!Init => Tickets!OneSessionPerTicket
  BY DEF Tickets!Init, Tickets!OneSessionPerTicket
<1>2. Tickets!OneSessionPerTicket /\ [Tickets!Next]_(Tickets!vars) => Tickets!OneSessionPerTicket'
  BY DEF Tickets!OneSessionPerTicket, Tickets!Next, Tickets!vars, Tickets!Issue, Tickets!Login,
         Tickets!End
<1>3. Tickets!Spec => []Tickets!OneSessionPerTicket
  BY <1>1, <1>2, PTL DEF Tickets!Spec
<1> QED BY <1>3, AccountsImplementTickets DEF ImplementsTickets
=============================================================================
