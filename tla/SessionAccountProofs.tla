------------------------ MODULE SessionAccountProofs ------------------------
(***************************************************************************)
(* Theorems of SessionAccount for every set of threads, window, expiry and *)
(* bound: what its properties rest on is that the guard is held from the   *)
(* lock to the answer, also while the thread is inside block_on.           *)
(***************************************************************************)
EXTENDS SessionAccount, TLAPS

\* The types that the steps below need.
Typed ==
  /\ holder \in Thread \cup {NoThread}
  /\ pc \in [Thread -> Location]
  /\ op \in [Thread -> Method]
  /\ result \in [Thread -> Result]
  /\ execute_before \in [Thread -> Nat]
  /\ nonce \in Nat
  /\ read_nonce \in [Thread -> Nat]
  /\ now \in Nat
  /\ asked \in [Thread -> Nat]

GuardInv == \A t \in Thread : pc[t] \in Critical => holder = t

\* A stamped deadline is a window after the time its caller asked at, until
\* the caller is done with it.
StampInv ==
  \A t \in Thread :
    /\ pc[t] = "parse" => op[t] \in Executions
    /\ pc[t] = "stamp" => op[t] = "execute_from_outside"
    /\ \/ pc[t] \in {"sign", "send"}
       \/ pc[t] = "lock" /\ op[t] = "execute_from_outside"
       => execute_before[t] = asked[t] + Window

\* Whoever was told that the session has expired was told so in time.
ToldInv == told_expired \in BOOLEAN /\ (told_expired => now >= ExpiresAt)

IInv == /\ Typed /\ GuardInv /\ StampInv /\ ToldInv
        /\ NoncesNeverClash /\ AcceptedWithinWindow

\* Where a method goes with the guard in hand.
LEMMA FirstLockedCases ==
  ASSUME NEW m \in Method
  PROVE  /\ FirstLocked(m) \in {"read_nonce", "sign", "local"}
         /\ FirstLocked(m) = "sign" => m = "execute_from_outside"
  BY DEF FirstLocked

\* IInv holds at the start.
LEMMA IInvInit == Init => IInv
<1> SUFFICES ASSUME Init PROVE IInv
  OBVIOUS
<1>1. Typed
  <2>1. "idle" \in Location /\ "getter" \in Method /\ "None" \in Result
    BY DEF Location, Method, Result
  <2>2. QED
    BY <2>1 DEF Init, Typed
<1>2. GuardInv /\ StampInv /\ ToldInv
  BY DEF Init, GuardInv, Critical, StampInv, ToldInv
<1>3. NoncesNeverClash /\ AcceptedWithinWindow
  BY DEF Init, NoncesNeverClash, AcceptedWithinWindow
<1>4. QED
  BY <1>1, <1>2, <1>3 DEF IInv

\* IInv is kept by every step.
LEMMA IInvNext == IInv /\ [Next]_vars => IInv'
<1> SUFFICES ASSUME IInv, [Next]_vars
             PROVE  IInv'
  OBVIOUS
<1> USE SessionAssumption
    DEF IInv, Typed, Goto, Answer, handle, callers, network, times
<1>1. ASSUME NEW t \in Thread, NEW m \in Method, Call(t, m)
      PROVE  IInv'
  <2>1. Typed'
    BY <1>1 DEF Call, Location, Result
  <2>2. GuardInv'
    BY <1>1 DEF Call, GuardInv, Critical
  <2>3. StampInv'
    BY <1>1 DEF Call, StampInv, Executions
  <2>4. NoncesNeverClash'
    BY <1>1 DEF Call, NoncesNeverClash, GuardInv, Critical
  <2>5. AcceptedWithinWindow'
    BY <1>1 DEF Call, AcceptedWithinWindow
  <2>6. ToldInv'
    BY <1>1 DEF Call, ToldInv
  <2>7. QED
    BY <2>1, <2>2, <2>3, <2>4, <2>5, <2>6
<1>2. ASSUME NEW t \in Thread, ParseCalls(t)
      PROVE  IInv'
  <2>1. Typed'
    BY <1>2 DEF ParseCalls, Location, Result
  <2>2. GuardInv'
    BY <1>2 DEF ParseCalls, GuardInv, Critical
  <2>3. StampInv'
    BY <1>2 DEF ParseCalls, StampInv, Executions
  <2>4. NoncesNeverClash'
    BY <1>2 DEF ParseCalls, NoncesNeverClash, GuardInv, Critical
  <2>5. AcceptedWithinWindow'
    BY <1>2 DEF ParseCalls, AcceptedWithinWindow
  <2>6. ToldInv'
    BY <1>2 DEF ParseCalls, ToldInv
  <2>7. QED
    BY <2>1, <2>2, <2>3, <2>4, <2>5, <2>6
<1>3. ASSUME NEW t \in Thread, Stamp(t)
      PROVE  IInv'
  <2>1. Typed'
    BY <1>3 DEF Stamp, Location, Result
  <2>2. GuardInv'
    BY <1>3 DEF Stamp, GuardInv, Critical
  <2>3. StampInv'
    BY <1>3 DEF Stamp, StampInv
  <2>4. NoncesNeverClash'
    BY <1>3 DEF Stamp, NoncesNeverClash, GuardInv, Critical
  <2>5. AcceptedWithinWindow'
    BY <1>3 DEF Stamp, AcceptedWithinWindow
  <2>6. ToldInv'
    BY <1>3 DEF Stamp, ToldInv
  <2>7. QED
    BY <2>1, <2>2, <2>3, <2>4, <2>5, <2>6
<1>4. ASSUME NEW t \in Thread, Lock(t)
      PROVE  IInv'
  <2>1. Typed'
    BY <1>4, FirstLockedCases DEF Lock, Location, Result
  <2>2. GuardInv'
    BY <1>4, FirstLockedCases DEF Lock, GuardInv, Critical
  <2>3. StampInv'
    BY <1>4, FirstLockedCases DEF Lock, StampInv
  <2>4. NoncesNeverClash'
    BY <1>4, FirstLockedCases DEF Lock, NoncesNeverClash, GuardInv, Critical
  <2>5. AcceptedWithinWindow'
    BY <1>4 DEF Lock, AcceptedWithinWindow
  <2>6. ToldInv'
    BY <1>4 DEF Lock, ToldInv
  <2>7. QED
    BY <2>1, <2>2, <2>3, <2>4, <2>5, <2>6
<1>5. ASSUME NEW t \in Thread, ReadNonce(t)
      PROVE  IInv'
  <2>1. Typed'
    BY <1>5 DEF ReadNonce, Location, Result
  <2>2. GuardInv'
    BY <1>5 DEF ReadNonce, GuardInv, Critical
  <2>3. StampInv'
    BY <1>5 DEF ReadNonce, StampInv
  <2>4. NoncesNeverClash'
    BY <1>5 DEF ReadNonce, NoncesNeverClash, GuardInv, Critical
  <2>5. AcceptedWithinWindow'
    BY <1>5 DEF ReadNonce, AcceptedWithinWindow
  <2>6. ToldInv'
    BY <1>5 DEF ReadNonce, ToldInv
  <2>7. QED
    BY <2>1, <2>2, <2>3, <2>4, <2>5, <2>6
<1>6. ASSUME NEW t \in Thread, Submit(t)
      PROVE  IInv'
  <2>1. Typed'
    BY <1>6 DEF Submit, Location, Result
  <2>2. GuardInv'
    BY <1>6 DEF Submit, GuardInv, Critical
  <2>3. StampInv'
    BY <1>6 DEF Submit, StampInv
  <2>4. NoncesNeverClash'
    BY <1>6 DEF Submit, NoncesNeverClash, GuardInv, Critical
  <2>5. AcceptedWithinWindow'
    BY <1>6 DEF Submit, AcceptedWithinWindow
  <2>6. ToldInv'
    BY <1>6 DEF Submit, ToldInv
  <2>7. QED
    BY <2>1, <2>2, <2>3, <2>4, <2>5, <2>6
<1>7. ASSUME NEW t \in Thread, Sign(t)
      PROVE  IInv'
  <2>1. Typed'
    BY <1>7 DEF Sign, Location, Result
  <2>2. GuardInv'
    BY <1>7 DEF Sign, GuardInv, Critical
  <2>3. StampInv'
    BY <1>7 DEF Sign, StampInv
  <2>4. NoncesNeverClash'
    BY <1>7 DEF Sign, NoncesNeverClash, GuardInv, Critical
  <2>5. AcceptedWithinWindow'
    BY <1>7 DEF Sign, AcceptedWithinWindow
  <2>6. ToldInv'
    BY <1>7 DEF Sign, ToldInv
  <2>7. QED
    BY <2>1, <2>2, <2>3, <2>4, <2>5, <2>6
<1>8. ASSUME NEW t \in Thread, Send(t)
      PROVE  IInv'
  <2>1. Typed'
    BY <1>8 DEF Send, Location, Result
  <2>2. GuardInv'
    BY <1>8 DEF Send, GuardInv, Critical
  <2>3. StampInv'
    BY <1>8 DEF Send, StampInv
  <2>4. NoncesNeverClash'
    BY <1>8 DEF Send, NoncesNeverClash, GuardInv, Critical
  <2>5. AcceptedWithinWindow'
    BY <1>8 DEF Send, AcceptedWithinWindow, StampInv
  <2>6. ToldInv'
    BY <1>8 DEF Send, ToldInv
  <2>7. QED
    BY <2>1, <2>2, <2>3, <2>4, <2>5, <2>6
<1>9. ASSUME NEW t \in Thread, SdkFails(t)
      PROVE  IInv'
  <2>1. Typed'
    BY <1>9 DEF SdkFails, Location, Result
  <2>2. GuardInv'
    BY <1>9 DEF SdkFails, GuardInv, Critical, InSdk
  <2>3. StampInv'
    BY <1>9 DEF SdkFails, StampInv, InSdk
  <2>4. NoncesNeverClash'
    BY <1>9 DEF SdkFails, NoncesNeverClash, GuardInv, Critical, InSdk
  <2>5. AcceptedWithinWindow'
    BY <1>9 DEF SdkFails, AcceptedWithinWindow
  <2>6. ToldInv'
    BY <1>9 DEF SdkFails, ToldInv
  <2>7. QED
    BY <2>1, <2>2, <2>3, <2>4, <2>5, <2>6
<1>10. ASSUME NEW t \in Thread, SdkPanics(t)
      PROVE  IInv'
  <2>1. Typed'
    BY <1>10 DEF SdkPanics, Location, Result
  <2>2. GuardInv'
    BY <1>10 DEF SdkPanics, GuardInv, Critical, InSdk
  <2>3. StampInv'
    BY <1>10 DEF SdkPanics, StampInv, InSdk
  <2>4. NoncesNeverClash'
    BY <1>10 DEF SdkPanics, NoncesNeverClash, GuardInv, Critical, InSdk
  <2>5. AcceptedWithinWindow'
    BY <1>10 DEF SdkPanics, AcceptedWithinWindow
  <2>6. ToldInv'
    BY <1>10 DEF SdkPanics, ToldInv
  <2>7. QED
    BY <2>1, <2>2, <2>3, <2>4, <2>5, <2>6
<1>11. ASSUME NEW t \in Thread, RecordError(t)
      PROVE  IInv'
  <2>1. Typed'
    BY <1>11 DEF RecordError, Location, Result
  <2>2. GuardInv'
    BY <1>11 DEF RecordError, GuardInv, Critical
  <2>3. StampInv'
    BY <1>11 DEF RecordError, StampInv
  <2>4. NoncesNeverClash'
    BY <1>11 DEF RecordError, NoncesNeverClash, GuardInv, Critical
  <2>5. AcceptedWithinWindow'
    BY <1>11 DEF RecordError, AcceptedWithinWindow
  <2>6. ToldInv'
    BY <1>11 DEF RecordError, ToldInv
  <2>7. QED
    BY <2>1, <2>2, <2>3, <2>4, <2>5, <2>6
<1>12. ASSUME NEW t \in Thread, Get(t)
      PROVE  IInv'
  <2>1. Typed'
    BY <1>12 DEF Get, Location, Result
  <2>2. GuardInv'
    BY <1>12 DEF Get, GuardInv, Critical
  <2>3. StampInv'
    BY <1>12 DEF Get, StampInv
  <2>4. NoncesNeverClash'
    BY <1>12 DEF Get, NoncesNeverClash, GuardInv, Critical
  <2>5. AcceptedWithinWindow'
    BY <1>12 DEF Get, AcceptedWithinWindow
  <2>6. ToldInv'
    BY <1>12 DEF Get, ToldInv
  <2>7. QED
    BY <2>1, <2>2, <2>3, <2>4, <2>5, <2>6
<1>13. ASSUME NEW t \in Thread, IsExpired(t)
      PROVE  IInv'
  <2>1. Typed'
    BY <1>13 DEF IsExpired, Location, Result
  <2>2. GuardInv'
    BY <1>13 DEF IsExpired, GuardInv, Critical
  <2>3. StampInv'
    BY <1>13 DEF IsExpired, StampInv
  <2>4. NoncesNeverClash'
    BY <1>13 DEF IsExpired, NoncesNeverClash, GuardInv, Critical
  <2>5. AcceptedWithinWindow'
    BY <1>13 DEF IsExpired, AcceptedWithinWindow
  <2>6. ToldInv'
    BY <1>13 DEF IsExpired, ToldInv
  <2>7. QED
    BY <2>1, <2>2, <2>3, <2>4, <2>5, <2>6
<1>14. ASSUME NEW t \in Thread, Unlock(t)
      PROVE  IInv'
  <2>1. Typed'
    BY <1>14 DEF Unlock, Location, Result
  <2>2. GuardInv'
    BY <1>14 DEF Unlock, GuardInv, Critical
  <2>3. StampInv'
    BY <1>14 DEF Unlock, StampInv
  <2>4. NoncesNeverClash'
    BY <1>14 DEF Unlock, NoncesNeverClash, GuardInv, Critical
  <2>5. AcceptedWithinWindow'
    BY <1>14 DEF Unlock, AcceptedWithinWindow
  <2>6. ToldInv'
    BY <1>14 DEF Unlock, ToldInv
  <2>7. QED
    BY <2>1, <2>2, <2>3, <2>4, <2>5, <2>6
<1>15. ASSUME NEW t \in Thread, Return(t)
      PROVE  IInv'
  <2>1. Typed'
    BY <1>15 DEF Return, Location, Result
  <2>2. GuardInv'
    BY <1>15 DEF Return, GuardInv, Critical
  <2>3. StampInv'
    BY <1>15 DEF Return, StampInv
  <2>4. NoncesNeverClash'
    BY <1>15 DEF Return, NoncesNeverClash, GuardInv, Critical
  <2>5. AcceptedWithinWindow'
    BY <1>15 DEF Return, AcceptedWithinWindow
  <2>6. ToldInv'
    BY <1>15 DEF Return, ToldInv
  <2>7. QED
    BY <2>1, <2>2, <2>3, <2>4, <2>5, <2>6
<1>19. ASSUME NEW t \in Thread, Confirm(t)
      PROVE  IInv'
  <2>1. Typed'
    BY <1>19 DEF Confirm, Location, Result
  <2>2. GuardInv'
    BY <1>19 DEF Confirm, GuardInv, Critical
  <2>3. StampInv'
    BY <1>19 DEF Confirm, StampInv
  <2>4. NoncesNeverClash'
    BY <1>19 DEF Confirm, NoncesNeverClash, GuardInv, Critical
  <2>5. AcceptedWithinWindow'
    BY <1>19 DEF Confirm, AcceptedWithinWindow
  <2>6. ToldInv'
    BY <1>19 DEF Confirm, ToldInv
  <2>7. QED
    BY <2>1, <2>2, <2>3, <2>4, <2>5, <2>6
<1>16. CASE Tick
  BY <1>16 DEF Tick, GuardInv, StampInv, ToldInv, NoncesNeverClash, AcceptedWithinWindow
<1>17. CASE UNCHANGED vars
  BY <1>17
  DEF vars, GuardInv, StampInv, ToldInv, NoncesNeverClash,
      AcceptedWithinWindow
<1>18. QED
  BY <1>1, <1>2, <1>3, <1>4, <1>5, <1>6, <1>7, <1>8, <1>9,
     <1>10, <1>11, <1>12, <1>13, <1>14, <1>15, <1>16, <1>17, <1>19
  DEF Next, Step, Finished

\* IInv holds in every reachable state.
THEOREM Invariance == Spec => []IInv
BY IInvInit, IInvNext, PTL DEF Spec

\* Two executes of one handle never race for a nonce.
THEOREM NoncesCorrect == Spec => []NoncesNeverClash
<1>1. IInv => NoncesNeverClash
  BY DEF IInv
<1>2. QED
  BY <1>1, Invariance, PTL

\* No outside execution outlives the window that its caller asked for.
THEOREM WindowCorrect == Spec => []AcceptedWithinWindow
<1>1. IInv => AcceptedWithinWindow
  BY DEF IInv
<1>2. QED
  BY <1>1, Invariance, PTL

\* The threads are told one expiry, and in the order of their answers.
THEOREM ExpiryAgrees == Spec => ExpiryAnswersAgree
<1> DEFINE Agree == \A t \in Thread :
                      told_expired /\ result'[t] = "Valid" => result[t] = "Valid"
<1>1. IInv /\ [Next]_vars => [Agree]_vars
  <2> SUFFICES ASSUME IInv, Next, told_expired,
                      NEW u \in Thread, result'[u] = "Valid"
               PROVE  result[u] = "Valid"
    OBVIOUS
  <2> USE DEF IInv, Typed, Answer, Goto
  <2>1. ASSUME NEW t \in Thread, IsExpired(t)
        PROVE  result[u] = "Valid"
    <3>1. now >= ExpiresAt
      BY DEF ToldInv
    <3>2. QED
      BY <2>1, <3>1 DEF IsExpired
  <2>2. ASSUME NEW t \in Thread, NEW m \in Method, Call(t, m)
        PROVE  result[u] = "Valid"
    BY <2>2 DEF Call
  <2>3. ASSUME NEW t \in Thread,
               \/ ParseCalls(t) \/ Stamp(t) \/ Lock(t) \/ ReadNonce(t)
               \/ Submit(t) \/ Sign(t) \/ Send(t) \/ Confirm(t) \/ SdkFails(t)
               \/ SdkPanics(t) \/ RecordError(t) \/ Get(t) \/ Unlock(t)
               \/ Return(t)
        PROVE  result[u] = "Valid"
    BY <2>3
    DEF ParseCalls, Stamp, Lock, ReadNonce, Submit, Sign, Send, Confirm, SdkFails,
        SdkPanics, RecordError, Get, Unlock, Return
  <2>4. CASE Tick \/ Finished
    BY <2>4 DEF Tick, Finished, vars, callers
  <2>5. QED
    BY <2>1, <2>2, <2>3, <2>4 DEF Next, Step
<1>2. QED
  BY <1>1, Invariance, PTL DEF Spec, ExpiryAnswersAgree

-----------------------------------------------------------------------------
(* Type correctness. *)

\* Only the two executions get to where a failure is recorded, which is what
\* last_error holds.
OpInv ==
  \A t \in Thread :
    pc[t] \in {"parse", "stamp", "read_nonce", "submit", "sign", "send", "taken", "record"}
      => op[t] \in Executions

\* The variables keep their types.
THEOREM TypeCorrect == Spec => []TypeOK
<1>1. Init => TypeOK /\ OpInv
  <2> SUFFICES ASSUME Init PROVE TypeOK /\ OpInv
    OBVIOUS
  <2>1. "idle" \in Location /\ "getter" \in Method /\ "None" \in Result
    BY DEF Location, Method, Result
  <2>2. poisoned \in BOOLEAN /\ told_expired \in BOOLEAN
    BY Zenon DEF Init
  <2> QED
    BY <2>1, <2>2, SessionAssumption DEF Init, TypeOK, OpInv
<1>2. IInv /\ TypeOK /\ OpInv /\ [Next]_vars => TypeOK' /\ OpInv'
  <2> SUFFICES ASSUME IInv, IInv', TypeOK, OpInv, [Next]_vars
               PROVE  TypeOK' /\ OpInv'
    BY IInvNext
  <2> USE SessionAssumption
      DEF Typed, TypeOK, OpInv, Goto, Answer, handle, callers, network, times
  <2>0. Typed /\ Typed' /\ told_expired' \in BOOLEAN
    BY DEF IInv, ToldInv
  <2>1. ASSUME NEW t \in Thread, NEW m \in Method, Call(t, m)
        PROVE  TypeOK' /\ OpInv'
    BY <2>0, <2>1 DEF Call
  <2>2. ASSUME NEW t \in Thread, Lock(t)
        PROVE  TypeOK' /\ OpInv'
    <3>1. FirstLocked(op[t]) \in {"read_nonce", "sign"} => op[t] \in Executions
      BY DEF FirstLocked, Executions, Method
    <3> QED
      BY <2>0, <2>2, <3>1, FirstLockedCases DEF Lock
  <2>3. ASSUME NEW t \in Thread, Send(t)
        PROVE  TypeOK' /\ OpInv'
    BY <2>0, <2>3 DEF Send
  <2>4. ASSUME NEW t \in Thread, SdkPanics(t)
        PROVE  TypeOK' /\ OpInv'
    <3>1. poisoned' \in BOOLEAN
      BY <2>4, Zenon DEF SdkPanics
    <3> QED
      BY <2>0, <2>4, <3>1 DEF SdkPanics
  <2>5. ASSUME NEW t \in Thread,
               \/ ParseCalls(t) \/ Stamp(t) \/ ReadNonce(t) \/ Submit(t)
               \/ Sign(t) \/ Confirm(t) \/ SdkFails(t) \/ RecordError(t)
        PROVE  TypeOK' /\ OpInv'
    BY <2>0, <2>5
    DEF ParseCalls, Stamp, ReadNonce, Submit, Sign, Confirm, SdkFails, RecordError,
        InSdk, Executions
  <2>6. ASSUME NEW t \in Thread,
               \/ Get(t) \/ IsExpired(t) \/ Unlock(t) \/ Return(t)
        PROVE  TypeOK' /\ OpInv'
    BY <2>0, <2>6 DEF Get, IsExpired, Unlock, Return
  <2>7. CASE Tick
    BY <2>0, <2>7 DEF Tick
  <2>8. CASE UNCHANGED vars
    BY <2>8 DEF vars
  <2> QED
    BY <2>1, <2>2, <2>3, <2>4, <2>5, <2>6, <2>7, <2>8 DEF Next, Step, Finished
<1>3. QED
  BY <1>1, <1>2, Invariance, PTL DEF Spec

-----------------------------------------------------------------------------
(* The promise. *)

\* Each method keeps to its own path, and a thread in a critical section finds
\* the handle alive: what was poisoned nobody holds.
PathInv ==
  /\ \A t \in Thread :
       /\ pc[t] \in {"parse", "taken"} => op[t] \in Executions
       /\ pc[t] \in {"read_nonce", "submit"} => op[t] = "execute"
       /\ pc[t] \in {"stamp", "sign", "send"} => op[t] = "execute_from_outside"
  /\ poisoned => holder = NoThread

LEMMA PathStep ==
  ASSUME IInv, PathInv, [Next]_vars
  PROVE  PathInv'
<1> USE SessionAssumption
    DEF IInv, Typed, PathInv, Goto, Answer, handle, callers, network, times
<1>1. ASSUME NEW t \in Thread, NEW m \in Method, Call(t, m)
      PROVE  PathInv'
  BY <1>1 DEF Call
<1>2. ASSUME NEW t \in Thread, ParseCalls(t) \/ Stamp(t) \/ ReadNonce(t) \/ Sign(t)
      PROVE  PathInv'
  BY <1>2 DEF ParseCalls, Stamp, ReadNonce, Sign, Executions
<1>3. ASSUME NEW t \in Thread, Lock(t)
      PROVE  PathInv'
  <2>1. FirstLocked(op[t]) \in {"read_nonce", "sign", "local"}
        /\ (FirstLocked(op[t]) = "read_nonce" => op[t] = "execute")
        /\ (FirstLocked(op[t]) = "sign" => op[t] = "execute_from_outside")
    BY DEF FirstLocked
  <2> QED
    BY <1>3, <2>1 DEF Lock
<1>4. ASSUME NEW t \in Thread, Submit(t) \/ Send(t) \/ Confirm(t)
      PROVE  PathInv'
  BY <1>4 DEF Submit, Send, Confirm, Executions
<1>5. ASSUME NEW t \in Thread, SdkFails(t) \/ SdkPanics(t) \/ RecordError(t)
      PROVE  PathInv'
  BY <1>5 DEF SdkFails, SdkPanics, RecordError
<1>6. ASSUME NEW t \in Thread, Get(t) \/ IsExpired(t) \/ Unlock(t) \/ Return(t)
      PROVE  PathInv'
  BY <1>6 DEF Get, IsExpired, Unlock, Return
<1>7. CASE Tick
  BY <1>7 DEF Tick
<1>8. CASE UNCHANGED vars
  BY <1>8 DEF vars
<1> QED
  BY <1>1, <1>2, <1>3, <1>4, <1>5, <1>6, <1>7, <1>8 DEF Next, Step, Finished

\* The handle acts for one call at a time, and at most once for each: what an
\* execution does to the network lies between its invocation and its return,
\* in its window; an Ok says that it was done, for any number of threads.
THEOREM Refinement == Spec => ActsAtMostOnce
<1>1. Init => Promise!Init
  <2>1. "getter" \in Method
    BY DEF Method
  <2> QED
    BY <2>1 DEF Init, Promise!Init, phase, acted
<1>2. Init => PathInv
  BY DEF Init, PathInv
<1>3. IInv /\ PathInv /\ [Next]_vars => [Promise!Next]_(Promise!vars)
  <2> SUFFICES ASSUME IInv, PathInv, [Next]_vars
               PROVE  [Promise!Next]_(Promise!vars)
    OBVIOUS
  <2> USE SessionAssumption
      DEF IInv, Typed, Goto, Answer, phase, acted, handle, callers, network, times
  <2>0. \A t \in Thread : pc[t] \in Critical =>
          ~poisoned /\ \A u \in Thread : pc[u] \in Critical => u = t
    BY DEF GuardInv, PathInv
  <2>1. ASSUME NEW t \in Thread, NEW m \in Method, Call(t, m)
        PROVE  Promise!Invoke(t, m)
    BY <2>1 DEF Call, Promise!Invoke
  <2>2. ASSUME NEW t \in Thread, ParseCalls(t)
        PROVE  UNCHANGED Promise!vars \/ Promise!Reject(t)
    <3>1. CASE /\ Goto(t, IF op[t] = "execute" THEN "lock" ELSE "stamp")
               /\ UNCHANGED result
      BY <2>2, <3>1 DEF ParseCalls, Promise!vars
    <3>2. CASE Answer(t, "InvalidInput") /\ Goto(t, "return")
      BY <2>2, <3>2 DEF ParseCalls, Promise!Reject, Promise!Finish, PathInv
    <3> QED
      BY <2>2, <3>1, <3>2 DEF ParseCalls
  <2>3. ASSUME NEW t \in Thread, Stamp(t)
        PROVE  Promise!Date(t)
    BY <2>3 DEF Stamp, Promise!Date, PathInv
  <2>4. ASSUME NEW t \in Thread, Lock(t)
        PROVE  UNCHANGED Promise!vars \/ Promise!Refuse(t)
    <3>1. CASE poisoned
      BY <2>4, <3>1 DEF Lock, Promise!Refuse, Promise!Finish
    <3>2. CASE ~poisoned
      BY <2>4, <3>2, FirstLockedCases DEF Lock, Promise!vars
    <3> QED
      BY <3>1, <3>2
  <2>5. ASSUME NEW t \in Thread, ReadNonce(t) \/ Sign(t)
        PROVE  UNCHANGED Promise!vars
    BY <2>5 DEF ReadNonce, Sign, Promise!vars
  <2>6. ASSUME NEW t \in Thread, Submit(t)
        PROVE  Promise!Execute(t)
    BY <2>0, <2>6 DEF Submit, Promise!Execute, Promise!Act, PathInv, Critical
  <2>7. ASSUME NEW t \in Thread, Send(t)
        PROVE  Promise!Relay(t)
    BY <2>0, <2>7 DEF Send, Promise!Relay, Promise!Act, PathInv, Critical, StampInv
  <2>8. ASSUME NEW t \in Thread, Confirm(t)
        PROVE  Promise!Succeed(t)
    BY <2>0, <2>8 DEF Confirm, Promise!Succeed, Promise!Finish, PathInv, Critical,
                      Executions
  <2>9. ASSUME NEW t \in Thread, SdkFails(t)
        PROVE  Promise!Fail(t)
    BY <2>0, <2>9 DEF SdkFails, Promise!Fail, Promise!Finish, PathInv, Critical,
                      InSdk, Executions
  <2>10. ASSUME NEW t \in Thread, SdkPanics(t)
         PROVE  Promise!Break(t)
    BY <2>0, <2>10 DEF SdkPanics, Promise!Break, Promise!Finish, PathInv, Critical,
                       InSdk, Executions
  <2>11. ASSUME NEW t \in Thread, RecordError(t) \/ Unlock(t)
         PROVE  UNCHANGED Promise!vars
    BY <2>11 DEF RecordError, Unlock, Promise!vars
  <2>12. ASSUME NEW t \in Thread, Get(t)
         PROVE  Promise!Succeed(t)
    BY <2>0, <2>12 DEF Get, Promise!Succeed, Promise!Finish, Critical, Executions
  <2>13. ASSUME NEW t \in Thread, IsExpired(t)
         PROVE  Promise!Tell(t)
    BY <2>0, <2>13 DEF IsExpired, Promise!Tell, Promise!Finish, Critical
  <2>14. ASSUME NEW t \in Thread, Return(t)
         PROVE  Promise!Return(t)
    BY <2>14 DEF Return, Promise!Return
  <2>15. ASSUME Tick
         PROVE  Promise!Tick
    BY <2>15 DEF Tick, Promise!Tick
  <2>16. CASE UNCHANGED vars
    BY <2>16 DEF vars, Promise!vars
  <2> QED
    BY <2>1, <2>2, <2>3, <2>4, <2>5, <2>6, <2>7, <2>8, <2>9, <2>10, <2>11,
       <2>12, <2>13, <2>14, <2>15, <2>16
    DEF Next, Step, Finished, Promise!Next
<1>4. IInv /\ PathInv /\ [Next]_vars => PathInv'
  BY PathStep
<1> QED
  BY <1>1, <1>2, <1>3, <1>4, Invariance, PTL DEF Spec, ActsAtMostOnce, Promise!Spec
=============================================================================
