----------------------- MODULE ControllerAccountProofs -----------------------
(***************************************************************************)
(* Theorems of ControllerAccount for every set of threads, every set of    *)
(* messages and every number of calls.                                     *)
(***************************************************************************)
EXTENDS ControllerAccount, TLAPS

(* What a step needs to know of the state beyond its type: the guard and   *)
(* the program counters agree in both directions, a poisoned mutex has no  *)
(* guard, a thread stands only where its method can take it, and one that  *)
(* is about to record a failure holds the text that latest already names.  *)

GuardInv == \A t \in Thread : pc[t] \in Critical <=> holder = t

PoisonInv == poisoned => holder = NoThread

MethodInv ==
  \A t \in Thread :
    /\ pc[t] = "parse" => op[t] \in ParseUnlocked
    /\ pc[t] = "parse_locked" => op[t] \in ParseLocked
    /\ pc[t] = "sdk" => op[t] \in SdkMethods
    /\ pc[t] = "record" => op[t] \in Recorded

RecordInv ==
  /\ \A t \in Thread :
       pc[t] = "record" =>
         /\ latest \in Message
         /\ result[t] = Err(ErrorKind[op[t]], latest)
  /\ LastErrorIsLatestFailure

\* The inductive invariant.
IInv == TypeOK /\ GuardInv /\ PoisonInv /\ MethodInv /\ RecordInv

-----------------------------------------------------------------------------
(* Lemmas about the results and the methods. *)

\* The failures of the SDK methods are results.
LEMMA FailureIsResult ==
  ASSUME NEW m \in SdkMethods, NEW e \in Message
  PROVE  Err(ErrorKind[m], e) \in Result
  BY DEF Err, Result

\* Every other result that a method builds is a result.
LEMMA PlainResults ==
  /\ NoResult \in Result
  /\ Panic \in Result
  /\ \A x \in Message \cup {NoMessage} : Ok(x) \in Result
  /\ \A e \in Message : Err("InvalidInput", e) \in Result
  BY DEF NoResult, Panic, Ok, Err, Result

\* Where a method goes with the guard in hand: to the parser under the lock,
\* to the SDK for an SDK method only, or to a body of its own otherwise.
LEMMA FirstLockedCases ==
  ASSUME NEW m \in Method
  PROVE  \/ FirstLocked(m) = "parse_locked" /\ m \in ParseLocked
         \/ FirstLocked(m) = "sdk" /\ m \in SdkMethods
         \/ FirstLocked(m) = "local" /\ m \notin SdkMethods
  BY DEF FirstLocked, Method, SdkMethods, ParseLocked, ErrorKind

\* The methods that parse or record are SDK methods.
LEMMA MethodSets ==
  /\ ParseUnlocked \subseteq SdkMethods
  /\ ParseLocked \subseteq SdkMethods
  /\ Recorded \subseteq SdkMethods
  /\ SdkMethods \cap {"getter", "error_message", "clear_last_error"} = {}
  BY DEF ParseUnlocked, ParseLocked, Recorded, SdkMethods, ErrorKind

-----------------------------------------------------------------------------
(* The invariant. *)

\* IInv holds in every reachable state: the rest of the module reads the
\* properties of the handle off it.
THEOREM Invariance == Spec => []IInv
<1>1. Init => IInv
  <2> SUFFICES ASSUME Init PROVE IInv
    OBVIOUS
  <2>1. TypeOK
    <3>1. NoResult \in Result
      BY PlainResults
    <3>2. "getter" \in Method /\ "idle" \in Location
      BY DEF Method, Location
    <3>3. 0 \in 0..MaxCalls
      BY CallerAssumption
    <3>4. QED
      BY <3>1, <3>2, <3>3 DEF Init, TypeOK
  <2>2. GuardInv /\ PoisonInv /\ MethodInv /\ RecordInv
    BY CallerAssumption
    DEF Init, GuardInv, Critical, PoisonInv, RecordInv, MethodInv,
        LastErrorIsLatestFailure
  <2>3. QED
    BY <2>1, <2>2 DEF IInv
<1>2. IInv /\ [Next]_vars => IInv'
  <2> SUFFICES ASSUME IInv, [Next]_vars
               PROVE  IInv'
    OBVIOUS
  <2> USE CallerAssumption DEF IInv, Goto, Answer
  <2>1. ASSUME NEW t \in Thread, NEW m \in Method, Call(t, m)
        PROVE  IInv'
    <3>1. TypeOK'
      BY <2>1, PlainResults DEF Call, TypeOK, Location
    <3>2. GuardInv' /\ PoisonInv'
      BY <2>1 DEF Call, TypeOK, GuardInv, Critical, PoisonInv
    <3>3. MethodInv'
      BY <2>1 DEF Call, TypeOK, MethodInv, ParseUnlocked
    <3>4. RecordInv'
      BY <2>1 DEF Call, TypeOK, RecordInv, LastErrorIsLatestFailure
    <3>5. QED
      BY <3>1, <3>2, <3>3, <3>4
  <2>2. ASSUME NEW t \in Thread, ParseArguments(t)
        PROVE  IInv'
    <3>1. TypeOK'
      BY <2>2, PlainResults DEF ParseArguments, TypeOK, Location
    <3>2. GuardInv' /\ PoisonInv'
      BY <2>2 DEF ParseArguments, TypeOK, GuardInv, Critical, PoisonInv
    <3>3. MethodInv'
      BY <2>2 DEF ParseArguments, TypeOK, MethodInv
    <3>4. RecordInv'
      BY <2>2 DEF ParseArguments, TypeOK, RecordInv, LastErrorIsLatestFailure
    <3>5. QED
      BY <3>1, <3>2, <3>3, <3>4
  <2>3. ASSUME NEW t \in Thread, Lock(t)
        PROVE  IInv'
    <3>1. TypeOK'
      BY <2>3, PlainResults, FirstLockedCases DEF Lock, TypeOK, Location
    <3>2. GuardInv' /\ PoisonInv'
      BY <2>3, FirstLockedCases DEF Lock, TypeOK, GuardInv, Critical, PoisonInv
    <3>3. MethodInv'
      BY <2>3, FirstLockedCases DEF Lock, TypeOK, MethodInv
    <3>4. RecordInv'
      BY <2>3, FirstLockedCases DEF Lock, TypeOK, RecordInv, LastErrorIsLatestFailure
    <3>5. QED
      BY <3>1, <3>2, <3>3, <3>4
  <2>4. ASSUME NEW t \in Thread, ParseUrl(t)
        PROVE  IInv'
    <3>1. TypeOK'
      BY <2>4, PlainResults DEF ParseUrl, TypeOK, Location
    <3>2. GuardInv' /\ PoisonInv'
      BY <2>4 DEF ParseUrl, TypeOK, GuardInv, Critical, PoisonInv
    <3>3. MethodInv'
      BY <2>4, MethodSets DEF ParseUrl, TypeOK, MethodInv
    <3>4. RecordInv'
      BY <2>4 DEF ParseUrl, TypeOK, RecordInv, LastErrorIsLatestFailure
    <3>5. QED
      BY <3>1, <3>2, <3>3, <3>4
  <2>5. ASSUME NEW t \in Thread, SdkSucceeds(t)
        PROVE  IInv'
    <3>1. TypeOK'
      BY <2>5, PlainResults DEF SdkSucceeds, TypeOK, Location
    <3>2. GuardInv' /\ PoisonInv'
      BY <2>5 DEF SdkSucceeds, TypeOK, GuardInv, Critical, PoisonInv
    <3>3. MethodInv'
      BY <2>5 DEF SdkSucceeds, TypeOK, MethodInv
    <3>4. RecordInv'
      BY <2>5 DEF SdkSucceeds, TypeOK, RecordInv, LastErrorIsLatestFailure
    <3>5. QED
      BY <3>1, <3>2, <3>3, <3>4
  <2>6. ASSUME NEW t \in Thread, NEW e \in Message, SdkFails(t, e)
        PROVE  IInv'
    <3>1. TypeOK'
      BY <2>6, FailureIsResult DEF SdkFails, TypeOK, Location, MethodInv
    <3>2. GuardInv' /\ PoisonInv'
      BY <2>6 DEF SdkFails, TypeOK, GuardInv, Critical, PoisonInv
    <3>3. MethodInv'
      BY <2>6 DEF SdkFails, TypeOK, MethodInv
    <3>4. RecordInv'
      BY <2>6 DEF SdkFails, TypeOK, RecordInv, LastErrorIsLatestFailure, GuardInv, Critical
    <3>5. QED
      BY <3>1, <3>2, <3>3, <3>4
  <2>7. ASSUME NEW t \in Thread, SdkPanics(t)
        PROVE  IInv'
    <3>1. TypeOK'
      BY <2>7, PlainResults DEF SdkPanics, TypeOK, Location
    <3>2. GuardInv' /\ PoisonInv'
      BY <2>7 DEF SdkPanics, TypeOK, GuardInv, Critical, PoisonInv
    <3>3. MethodInv'
      BY <2>7 DEF SdkPanics, TypeOK, MethodInv
    <3>4. RecordInv'
      BY <2>7 DEF SdkPanics, TypeOK, RecordInv, LastErrorIsLatestFailure
    <3>5. QED
      BY <3>1, <3>2, <3>3, <3>4
  <2>8. ASSUME NEW t \in Thread, RecordError(t)
        PROVE  IInv'
    <3>1. TypeOK'
      BY <2>8 DEF RecordError, TypeOK, Location, RecordInv, Err
    <3>2. GuardInv' /\ PoisonInv'
      BY <2>8 DEF RecordError, TypeOK, GuardInv, Critical, PoisonInv
    <3>3. MethodInv'
      BY <2>8 DEF RecordError, TypeOK, MethodInv
    <3>4. RecordInv'
      BY <2>8 DEF RecordError, TypeOK, RecordInv, LastErrorIsLatestFailure, GuardInv, Critical, Err
    <3>5. QED
      BY <3>1, <3>2, <3>3, <3>4
  <2>9. ASSUME NEW t \in Thread, Get(t)
        PROVE  IInv'
    <3>1. TypeOK'
      BY <2>9, PlainResults DEF Get, TypeOK, Location
    <3>2. GuardInv' /\ PoisonInv'
      BY <2>9 DEF Get, TypeOK, GuardInv, Critical, PoisonInv
    <3>3. MethodInv'
      BY <2>9 DEF Get, TypeOK, MethodInv
    <3>4. RecordInv'
      BY <2>9 DEF Get, TypeOK, RecordInv, LastErrorIsLatestFailure
    <3>5. QED
      BY <3>1, <3>2, <3>3, <3>4
  <2>10. ASSUME NEW t \in Thread, ErrorMessage(t)
        PROVE  IInv'
    <3>1. TypeOK'
      BY <2>10, PlainResults DEF ErrorMessage, TypeOK, Location
    <3>2. GuardInv' /\ PoisonInv'
      BY <2>10 DEF ErrorMessage, TypeOK, GuardInv, Critical, PoisonInv
    <3>3. MethodInv'
      BY <2>10 DEF ErrorMessage, TypeOK, MethodInv
    <3>4. RecordInv'
      BY <2>10 DEF ErrorMessage, TypeOK, RecordInv, LastErrorIsLatestFailure
    <3>5. QED
      BY <3>1, <3>2, <3>3, <3>4
  <2>11. ASSUME NEW t \in Thread, ClearLastError(t)
        PROVE  IInv'
    <3>1. TypeOK'
      BY <2>11, PlainResults DEF ClearLastError, TypeOK, Location
    <3>2. GuardInv' /\ PoisonInv'
      BY <2>11 DEF ClearLastError, TypeOK, GuardInv, Critical, PoisonInv
    <3>3. MethodInv'
      BY <2>11 DEF ClearLastError, TypeOK, MethodInv
    <3>4. RecordInv'
      BY <2>11 DEF ClearLastError, TypeOK, RecordInv, LastErrorIsLatestFailure, GuardInv, Critical
    <3>5. QED
      BY <3>1, <3>2, <3>3, <3>4
  <2>12. ASSUME NEW t \in Thread, Unlock(t)
        PROVE  IInv'
    <3>1. TypeOK'
      BY <2>12 DEF Unlock, TypeOK, Location
    <3>2. GuardInv' /\ PoisonInv'
      BY <2>12 DEF Unlock, TypeOK, GuardInv, Critical, PoisonInv
    <3>3. MethodInv'
      BY <2>12 DEF Unlock, TypeOK, MethodInv
    <3>4. RecordInv'
      BY <2>12 DEF Unlock, TypeOK, RecordInv, LastErrorIsLatestFailure
    <3>5. QED
      BY <3>1, <3>2, <3>3, <3>4
  <2>13. ASSUME NEW t \in Thread, Return(t)
        PROVE  IInv'
    <3>1. TypeOK'
      BY <2>13 DEF Return, TypeOK, Location
    <3>2. GuardInv' /\ PoisonInv'
      BY <2>13 DEF Return, TypeOK, GuardInv, Critical, PoisonInv
    <3>3. MethodInv'
      BY <2>13 DEF Return, TypeOK, MethodInv
    <3>4. RecordInv'
      BY <2>13 DEF Return, TypeOK, RecordInv, LastErrorIsLatestFailure
    <3>5. QED
      BY <3>1, <3>2, <3>3, <3>4
  <2>14. CASE UNCHANGED vars
    BY <2>14
    DEF vars, TypeOK, GuardInv, PoisonInv, MethodInv, RecordInv,
        LastErrorIsLatestFailure
  <2>15. QED
    BY <2>1, <2>2, <2>3, <2>4, <2>5, <2>6,
       <2>7, <2>8, <2>9, <2>10, <2>11, <2>12, <2>13, <2>14
    DEF Next, Step, SdkReturns, Finished
<1>3. QED
  BY <1>1, <1>2, PTL DEF Spec

\* Type correctness of the handle and of every caller.
THEOREM TypeCorrect == Spec => []TypeOK
<1>1. IInv => TypeOK
  BY DEF IInv
<1>2. QED
  BY <1>1, Invariance, PTL

\* At most one method at a time is past lock().unwrap(), for any number of
\* threads.
THEOREM MutuallyExclusive == Spec => []MutualExclusion
<1>1. IInv => MutualExclusion
  BY DEF IInv, GuardInv, MutualExclusion
<1>2. QED
  BY <1>1, Invariance, PTL

\* Outside the critical window of a failing method, last_error is what the
\* methods last recorded or cleared.
THEOREM LastErrorCorrect == Spec => []LastErrorIsLatestFailure
<1>1. IInv => LastErrorIsLatestFailure
  BY DEF IInv, RecordInv
<1>2. QED
  BY <1>1, Invariance, PTL

\* No method reaches ControllerInner through a poisoned mutex.
THEOREM PoisonShuts == Spec => []PoisonShutsTheHandle
<1>1. IInv => PoisonShutsTheHandle
  BY CallerAssumption DEF IInv, GuardInv, PoisonInv, PoisonShutsTheHandle
<1>2. QED
  BY <1>1, Invariance, PTL

\* A panic's poison outlives every later step, and freezes last_error.
THEOREM PoisonStays == Spec => PoisonIsForever
<1>1. IInv /\ [Next]_vars
        => [poisoned => poisoned' /\ UNCHANGED <<last_error, holder>>]_vars
  <2> SUFFICES ASSUME IInv, Next, poisoned
               PROVE  poisoned' /\ UNCHANGED <<last_error, holder>>
    OBVIOUS
  <2>1. \A t \in Thread : pc[t] \notin Critical
    BY CallerAssumption DEF IInv, GuardInv, PoisonInv
  <2>2. QED
    BY <2>1
    DEF Critical, Next, Step, SdkReturns, Finished, vars, Call, ParseArguments,
        Lock, ParseUrl, SdkSucceeds, SdkFails, SdkPanics, RecordError, Get,
        ErrorMessage, ClearLastError, Unlock, Return
<1>2. QED
  BY <1>1, Invariance, PTL DEF Spec, PoisonIsForever

-----------------------------------------------------------------------------
(* The refinement. *)

\* The handle implements AtomicAccount: to its callers every method is one
\* atomic step, for any number of threads and calls.
THEOREM Refinement == Spec => IsAtomic
<1>1. Init => Atomic!Init
  BY PlainResults
  DEF Init, Atomic!Init, phase, settledResult, Settled, Method, TypeOK
<1>2. IInv /\ [Next]_vars => [Atomic!Next]_(Atomic!vars)
  <2> SUFFICES ASSUME IInv, [Next]_vars
               PROVE  [Atomic!Next]_(Atomic!vars)
    OBVIOUS
  <2> USE DEF IInv, TypeOK, Goto, Answer, phase, settledResult, Settled
  <2>1. ASSUME NEW t \in Thread, NEW m \in Method, Call(t, m)
        PROVE  Atomic!Invoke(t, m)
    BY <2>1 DEF Call, Atomic!Invoke
  <2>2. ASSUME NEW t \in Thread, ParseArguments(t)
        PROVE  \/ UNCHANGED Atomic!vars
               \/ \E e \in Message : Atomic!Reject(t, e)
    <3>1. CASE Goto(t, "lock") /\ UNCHANGED result
      BY <2>2, <3>1 DEF ParseArguments, Atomic!vars
    <3>2. ASSUME NEW e \in Message,
                 Answer(t, Err("InvalidInput", e)), Goto(t, "return")
          PROVE  Atomic!Reject(t, e)
      BY <2>2, <3>2 DEF ParseArguments, Atomic!Reject, Atomic!Finish, MethodInv
    <3>3. QED
      BY <2>2, <3>1, <3>2 DEF ParseArguments
  <2>3. ASSUME NEW t \in Thread, Lock(t)
        PROVE  UNCHANGED Atomic!vars \/ Atomic!Refuse(t)
    <3>1. CASE poisoned
      BY <2>3, <3>1 DEF Lock, Atomic!Refuse, Atomic!Finish
    <3>2. CASE ~poisoned
      BY <2>3, <3>2, FirstLockedCases DEF Lock, Atomic!vars
    <3>3. QED
      BY <3>1, <3>2
  <2>4. ASSUME NEW t \in Thread, ParseUrl(t)
        PROVE  \/ UNCHANGED Atomic!vars
               \/ \E e \in Message : Atomic!Reject(t, e)
    <3>1. ~poisoned
      BY <2>4, CallerAssumption DEF ParseUrl, GuardInv, PoisonInv, Critical
    <3>2. CASE Goto(t, "sdk") /\ UNCHANGED result
      BY <2>4, <3>2 DEF ParseUrl, Atomic!vars
    <3>3. ASSUME NEW e \in Message,
                 Answer(t, Err("InvalidInput", e)), Goto(t, "unlock")
          PROVE  Atomic!Reject(t, e)
      BY <2>4, <3>1, <3>3 DEF ParseUrl, Atomic!Reject, Atomic!Finish, MethodInv
    <3>4. QED
      BY <2>4, <3>2, <3>3 DEF ParseUrl
  <2>5. ASSUME NEW t \in Thread, SdkSucceeds(t)
        PROVE  Atomic!Succeed(t)
    <3>1. ~poisoned
      BY <2>5, CallerAssumption DEF SdkSucceeds, GuardInv, PoisonInv, Critical
    <3>2. op[t] \notin {"error_message", "clear_last_error"}
      BY <2>5, MethodSets DEF SdkSucceeds, MethodInv
    <3>3. QED
      BY <2>5, <3>1, <3>2 DEF SdkSucceeds, Atomic!Succeed, Atomic!Finish
  <2>6. ASSUME NEW t \in Thread, NEW e \in Message, SdkFails(t, e)
        PROVE  UNCHANGED Atomic!vars \/ Atomic!Fail(t, e)
    <3>1. ~poisoned
      BY <2>6, CallerAssumption DEF SdkFails, GuardInv, PoisonInv, Critical
    <3>2. CASE op[t] \in Recorded
      BY <2>6, <3>2 DEF SdkFails, Atomic!vars
    <3>3. CASE op[t] \notin Recorded
      BY <2>6, <3>1, <3>3
      DEF SdkFails, MethodInv, Atomic!Fail, Atomic!Finish, Atomic!SdkMethods,
          SdkMethods
    <3>4. QED
      BY <3>2, <3>3
  <2>7. ASSUME NEW t \in Thread, SdkPanics(t)
        PROVE  Atomic!Break(t)
    <3>1. ~poisoned
      BY <2>7, CallerAssumption DEF SdkPanics, GuardInv, PoisonInv, Critical
    <3>2. QED
      BY <2>7, <3>1
      DEF SdkPanics, MethodInv, Atomic!Break, Atomic!Finish, Atomic!SdkMethods,
          SdkMethods
  <2>8. ASSUME NEW t \in Thread, RecordError(t)
        PROVE  latest \in Message /\ Atomic!Fail(t, latest)
    <3>1. ~poisoned
      BY <2>8, CallerAssumption DEF RecordError, GuardInv, PoisonInv, Critical
    <3>2. /\ latest \in Message
          /\ result[t] = Err(ErrorKind[op[t]], latest)
          /\ result[t].text = latest
      BY <2>8 DEF RecordError, RecordInv, Err
    <3>3. op[t] \in Recorded /\ op[t] \in SdkMethods
      BY <2>8, MethodSets DEF RecordError, MethodInv
    <3>4. QED
      BY <2>8, <3>1, <3>2, <3>3
      DEF RecordError, Atomic!Fail, Atomic!Finish, Atomic!SdkMethods, SdkMethods
  <2>9. ASSUME NEW t \in Thread, Get(t)
        PROVE  Atomic!Succeed(t)
    <3>1. ~poisoned
      BY <2>9, CallerAssumption DEF Get, GuardInv, PoisonInv, Critical
    <3>2. QED
      BY <2>9, <3>1 DEF Get, Atomic!Succeed, Atomic!Finish
  <2>10. ASSUME NEW t \in Thread, ErrorMessage(t)
         PROVE  Atomic!Report(t)
    <3>1. ~poisoned
      BY <2>10, CallerAssumption DEF ErrorMessage, GuardInv, PoisonInv, Critical
    <3>2. QED
      BY <2>10, <3>1 DEF ErrorMessage, Atomic!Report, Atomic!Finish
  <2>11. ASSUME NEW t \in Thread, ClearLastError(t)
         PROVE  Atomic!Clear(t)
    <3>1. ~poisoned
      BY <2>11, CallerAssumption
      DEF ClearLastError, GuardInv, PoisonInv, Critical
    <3>2. QED
      BY <2>11, <3>1 DEF ClearLastError, Atomic!Clear, Atomic!Finish
  <2>12. ASSUME NEW t \in Thread, Unlock(t)
         PROVE  UNCHANGED Atomic!vars
    BY <2>12 DEF Unlock, Atomic!vars
  <2>13. ASSUME NEW t \in Thread, Return(t)
         PROVE  Atomic!Return(t)
    BY <2>13 DEF Return, Atomic!Return
  <2>14. CASE UNCHANGED vars
    BY <2>14 DEF vars, Atomic!vars
  <2>15. QED
    BY <2>1, <2>2, <2>3, <2>4, <2>5, <2>6, <2>7, <2>8, <2>9, <2>10, <2>11,
       <2>12, <2>13, <2>14
    DEF Next, Step, SdkReturns, Finished, Atomic!Next
<1>3. QED
  BY <1>1, <1>2, Invariance, PTL DEF Spec, IsAtomic, Atomic!Spec

-----------------------------------------------------------------------------
(* Why every call returns. *)

\* A body that needs no SDK call is one of the three that there are.
LocalInv == \A t \in Thread : pc[t] = "local" => op[t] \notin SdkMethods

\* Thread t is in a call, and may take its next step whatever others do.
MayGoOn(t) ==
  /\ pc[t] # "idle"
  /\ pc[t] = "lock" => holder = NoThread
  /\ pc[t] = "local" => op[t] \in {"getter", "error_message", "clear_last_error"}

\* A thread that waits for the mutex waits for another that has its guard and
\* may go on: nobody waits for a guard that a panic, an early return or the end
\* of a method has left behind.
NobodyWaitsInVain ==
  \A t \in Thread : pc[t] # "idle" =>
    \/ MayGoOn(t)
    \/ \E u \in Thread \ {t} : holder = u /\ pc[u] \in Critical /\ MayGoOn(u)

\* How much of a method is left at each location.
Left(l) == CASE l = "idle" -> 0
             [] l = "return" -> 1
             [] l = "unlock" -> 2
             [] l = "record" -> 3
             [] l = "local" -> 3
             [] l = "sdk" -> 4
             [] l = "parse_locked" -> 5
             [] l = "lock" -> 6
             [] l = "parse" -> 7

\* No step of a call takes it back, and no step of one thread moves another.
CallsAdvance ==
  [][\A t \in Thread : pc[t] # "idle" /\ pc'[t] # pc[t] =>
       /\ Left(pc'[t]) < Left(pc[t])
       /\ \A u \in Thread \ {t} : pc'[u] = pc[u]]_vars

LEMMA LocalStep ==
  ASSUME IInv, LocalInv, [Next]_vars
  PROVE  LocalInv'
<1> USE DEF IInv, TypeOK, LocalInv, Goto
<1>1. ASSUME NEW t \in Thread, Lock(t)
      PROVE  LocalInv'
  BY <1>1, FirstLockedCases DEF Lock
<1>2. ASSUME NEW t \in Thread, \E m \in Method : Call(t, m)
      PROVE  LocalInv'
  BY <1>2 DEF Call
<1>3. ASSUME NEW t \in Thread, Step(t) \/ SdkReturns(t), ~Lock(t)
      PROVE  LocalInv'
  BY <1>3 DEF Step, SdkReturns, ParseArguments, ParseUrl, RecordError, Get,
              ErrorMessage, ClearLastError, Unlock, Return, SdkSucceeds, SdkFails,
              SdkPanics
<1>4. CASE UNCHANGED vars
  BY <1>4 DEF vars
<1> QED
  BY <1>1, <1>2, <1>3, <1>4 DEF Next, Finished

\* The halves of EveryCallReturns that need no fairness: as long as a call is
\* under way, some thread that it depends on may go on, and each step it takes
\* brings its own call nearer to its end.
THEOREM WaitingCorrect == Spec => []NobodyWaitsInVain /\ CallsAdvance
<1>1. Init => LocalInv
  BY DEF Init, LocalInv
<1>2. IInv /\ LocalInv /\ [Next]_vars => LocalInv'
  BY LocalStep
<1>3. IInv /\ LocalInv => NobodyWaitsInVain
  <2> SUFFICES ASSUME IInv, LocalInv, NEW t \in Thread, pc[t] # "idle", ~MayGoOn(t)
               PROVE  \E u \in Thread \ {t} :
                        holder = u /\ pc[u] \in Critical /\ MayGoOn(u)
    BY DEF NobodyWaitsInVain
  <2>1. \A u \in Thread : pc[u] = "local" =>
           op[u] \in {"getter", "error_message", "clear_last_error"}
    BY DEF LocalInv, IInv, TypeOK, Method
  <2>2. pc[t] = "lock" /\ holder # NoThread
    BY <2>1 DEF MayGoOn
  <2>3. holder \in Thread /\ pc[holder] \in Critical
    BY <2>2 DEF IInv, TypeOK, GuardInv
  <2> QED
    BY <2>1, <2>2, <2>3 DEF MayGoOn, Critical
<1>4. IInv /\ [Next]_vars =>
        [\A t \in Thread : pc[t] # "idle" /\ pc'[t] # pc[t] =>
           /\ Left(pc'[t]) < Left(pc[t])
           /\ \A u \in Thread \ {t} : pc'[u] = pc[u]]_vars
  <2> SUFFICES ASSUME IInv, Next, NEW t \in Thread, pc[t] # "idle", pc'[t] # pc[t]
               PROVE  /\ Left(pc'[t]) < Left(pc[t])
                      /\ \A u \in Thread \ {t} : pc'[u] = pc[u]
    OBVIOUS
  <2> USE DEF IInv, TypeOK, Goto
  <2>1. ASSUME NEW v \in Thread, \/ \E m \in Method : Call(v, m)
                                 \/ Step(v) \/ SdkReturns(v)
        PROVE  \A u \in Thread \ {v} : pc'[u] = pc[u]
    BY <2>1
    DEF Call, Step, SdkReturns, ParseArguments, Lock, ParseUrl, RecordError, Get,
        ErrorMessage, ClearLastError, Unlock, Return, SdkSucceeds, SdkFails, SdkPanics
  <2>2. Step(t) \/ SdkReturns(t)
    BY <2>1 DEF Next, Finished, vars, Call
  <2>3. CASE Lock(t)
    BY <2>3, FirstLockedCases DEF Lock, Left
  <2>4. CASE ~Lock(t)
    BY <2>2, <2>4
    DEF Left, Step, SdkReturns, ParseArguments, ParseUrl, RecordError, Get,
        ErrorMessage, ClearLastError, Unlock, Return, SdkSucceeds, SdkFails, SdkPanics
  <2> QED
    BY <2>1, <2>2, <2>3, <2>4
<1> QED
  BY <1>1, <1>2, <1>3, <1>4, Invariance, PTL DEF Spec, CallsAdvance

=============================================================================
