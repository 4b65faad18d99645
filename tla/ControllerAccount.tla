------------------------- MODULE ControllerAccount -------------------------
(***************************************************************************)
(* One ControllerAccount handle of src/src/controller.rs, shared by        *)
(* several foreign threads.  UniFFI hands every caller the same Arc, and   *)
(* each method works on ControllerInner through one std::sync::Mutex.      *)
(* The SDK controller behind the handle is external: its calls end with    *)
(* success, with an error or, a panic being caught only by the FFI         *)
(* scaffolding, by unwinding through the live guard.                       *)
(***************************************************************************)
EXTENDS Naturals

CONSTANTS
  Thread,    \* the foreign threads that hold the handle
  NoThread,  \* no guard is live
  Message,   \* the texts of SDK and parse errors
  NoMessage, \* Option::None, and the text of a result without one
  MaxCalls   \* bound: how many calls each thread makes

ASSUME CallerAssumption ==
  /\ NoThread \notin Thread
  /\ NoMessage \notin Message
  /\ MaxCalls \in Nat

VARIABLES
  holder,      \* the thread whose MutexGuard is live
  poisoned,    \* the mutex's poison flag
  last_error,  \* ControllerInner::last_error
  pc,          \* where each thread stands in its method
  op,          \* the method each thread is in, or was last in
  result,      \* what each method returns
  calls,       \* the calls each thread has made
  latest       \* history: the text of the last SDK failure that methods
               \* record, unless a clear_last_error came after it

vars == <<holder, poisoned, last_error, pc, op, result, calls, latest>>

-----------------------------------------------------------------------------
(* The methods.  "getter" is address, username, app_id and chain_id, which *)
(* only read the SDK controller.                                           *)

ErrorKind == [signup           |-> "SignupError",
              execute          |-> "ExecutionError",
              transfer         |-> "ExecutionError",
              switch_chain     |-> "NetworkError",
              delegate_account |-> "NetworkError",
              disconnect       |-> "DisconnectError"]

SdkMethods == DOMAIN ErrorKind
Method == SdkMethods \cup {"getter", "error_message", "clear_last_error"}

\* The methods that convert their arguments before they lock, and the one
\* that parses its argument under the lock.
ParseUnlocked == {"execute", "transfer"}
ParseLocked == {"switch_chain"}

\* The methods that leave their SDK failure in last_error.
Recorded == SdkMethods \ {"delegate_account"}

Result == [kind : {"None", "Ok", "InvalidInput", "Panic"}
                    \cup {ErrorKind[m] : m \in SdkMethods},
           text : Message \cup {NoMessage}]

NoResult == [kind |-> "None", text |-> NoMessage]
Ok(text) == [kind |-> "Ok", text |-> text]
Err(kind, text) == [kind |-> kind, text |-> text]
Panic == [kind |-> "Panic", text |-> NoMessage]

\* The first thing a method does with the guard in hand.
FirstLocked(m) ==
  CASE m \in ParseLocked -> "parse_locked"
    [] m \in SdkMethods \ ParseLocked -> "sdk"
    [] OTHER -> "local"

Location == {"idle", "parse", "lock", "parse_locked", "sdk", "record",
             "local", "unlock", "return"}

\* The locations where a thread's guard is live.
Critical == {"parse_locked", "sdk", "record", "local", "unlock"}

TypeOK ==
  /\ holder \in Thread \cup {NoThread}
  /\ poisoned \in BOOLEAN
  /\ last_error \in Message \cup {NoMessage}
  /\ pc \in [Thread -> Location]
  /\ op \in [Thread -> Method]
  /\ result \in [Thread -> Result]
  /\ calls \in [Thread -> 0..MaxCalls]
  /\ latest \in Message \cup {NoMessage}

Init ==
  /\ holder = NoThread
  /\ poisoned = FALSE
  /\ last_error = NoMessage
  /\ pc = [t \in Thread |-> "idle"]
  /\ op = [t \in Thread |-> "getter"]
  /\ result = [t \in Thread |-> NoResult]
  /\ calls = [t \in Thread |-> 0]
  /\ latest = NoMessage

-----------------------------------------------------------------------------
Goto(t, l) == pc' = [pc EXCEPT ![t] = l]
Answer(t, r) == result' = [result EXCEPT ![t] = r]

-----------------------------------------------------------------------------
(* Mutations: each is what a plausible slip would make of the action named *)
(* in its comment, to show that the property named there can fail.         *)

\* Lock without waiting for the guard (MutualExclusion).
LockUnguarded(t) ==
  /\ pc[t] = "lock"
  /\ IF poisoned
       THEN Answer(t, Panic) /\ Goto(t, "return") /\ UNCHANGED holder
       ELSE holder' = t /\ Goto(t, FirstLocked(op[t])) /\ UNCHANGED result
  /\ UNCHANGED <<poisoned, last_error, op, calls, latest>>

\* Lock with unwrap_or_else(PoisonError::into_inner) (PoisonShutsTheHandle).
LockIntoInner(t) ==
  /\ pc[t] = "lock"
  /\ holder = NoThread
  /\ holder' = t
  /\ Goto(t, FirstLocked(op[t]))
  /\ UNCHANGED <<poisoned, last_error, op, result, calls, latest>>

\* Lock with clear_poison() on the way in (PoisonIsForever).
LockClearPoison(t) ==
  /\ pc[t] = "lock"
  /\ holder = NoThread
  /\ holder' = t
  /\ poisoned' = FALSE
  /\ Goto(t, FirstLocked(op[t]))
  /\ UNCHANGED <<last_error, op, result, calls, latest>>

\* SdkPanics with a guard that the panic does not drop (EveryCallReturns).
SdkPanicsLeakGuard(t) ==
  /\ pc[t] = "sdk"
  /\ Answer(t, Panic)
  /\ Goto(t, "return")
  /\ UNCHANGED <<holder, poisoned, last_error, op, calls, latest>>

\* RecordError with get_or_insert (LastErrorIsLatestFailure).
RecordFirstError(t) ==
  /\ pc[t] = "record"
  /\ last_error' = IF last_error = NoMessage THEN result[t].text ELSE last_error
  /\ Goto(t, "unlock")
  /\ UNCHANGED <<holder, poisoned, op, result, calls, latest>>

\* RecordError with the name of the error variant (TypeOK).
RecordKind(t) ==
  /\ pc[t] = "record"
  /\ last_error' = result[t].kind
  /\ Goto(t, "unlock")
  /\ UNCHANGED <<holder, poisoned, op, result, calls, latest>>

\* ErrorMessage with last_error.take() (IsAtomic).
ErrorMessageTake(t) ==
  /\ pc[t] = "local" /\ op[t] = "error_message"
  /\ Answer(t, Ok(last_error))
  /\ last_error' = NoMessage
  /\ Goto(t, "unlock")
  /\ UNCHANGED <<holder, poisoned, op, calls, latest>>

-----------------------------------------------------------------------------
(* The steps of a method. *)

\* A foreign thread calls method m.
Call(t, m) ==
  /\ pc[t] = "idle"
  /\ calls[t] < MaxCalls
  /\ calls' = [calls EXCEPT ![t] = @ + 1]
  /\ op' = [op EXCEPT ![t] = m]
  /\ Answer(t, NoResult)
  /\ Goto(t, IF m \in ParseUnlocked THEN "parse" ELSE "lock")
  /\ UNCHANGED <<holder, poisoned, last_error, latest>>

\* execute and transfer convert their arguments first; a bad one returns
\* InvalidInput without the lock and without a trace in last_error.
ParseArguments(t) ==
  /\ pc[t] = "parse"
  /\ \/ Goto(t, "lock") /\ UNCHANGED result
     \/ \E e \in Message : Answer(t, Err("InvalidInput", e)) /\ Goto(t, "return")
  /\ UNCHANGED <<holder, poisoned, last_error, op, calls, latest>>

\* self.inner.lock().unwrap() once the mutex is free: the guard of a healthy
\* mutex is kept, the one inside a PoisonError is dropped by the panic.
Lock(t) ==
  /\ pc[t] = "lock"
  /\ holder = NoThread
  /\ IF poisoned
       THEN Answer(t, Panic) /\ Goto(t, "return") /\ UNCHANGED holder
       ELSE holder' = t /\ Goto(t, FirstLocked(op[t])) /\ UNCHANGED result
  /\ UNCHANGED <<poisoned, last_error, op, calls, latest>>

\* switch_chain parses its URL with the guard in hand.
ParseUrl(t) ==
  /\ pc[t] = "parse_locked"
  /\ \/ Goto(t, "sdk") /\ UNCHANGED result
     \/ \E e \in Message : Answer(t, Err("InvalidInput", e)) /\ Goto(t, "unlock")
  /\ UNCHANGED <<holder, poisoned, last_error, op, calls, latest>>

\* The SDK call, under block_on for all but disconnect, ends well.
SdkSucceeds(t) ==
  /\ pc[t] = "sdk"
  /\ Answer(t, Ok(NoMessage))
  /\ Goto(t, "unlock")
  /\ UNCHANGED <<holder, poisoned, last_error, op, calls, latest>>

\* The SDK call fails with text e: the method still has to record it.
SdkFails(t, e) ==
  /\ pc[t] = "sdk"
  /\ Answer(t, Err(ErrorKind[op[t]], e))
  /\ IF op[t] \in Recorded
       THEN Goto(t, "record") /\ latest' = e
       ELSE Goto(t, "unlock") /\ UNCHANGED latest
  /\ UNCHANGED <<holder, poisoned, last_error, op, calls>>

\* The SDK call panics: the guard is dropped while the thread unwinds, which
\* poisons the mutex, and the scaffolding turns the panic into an error.
SdkPanics(t) ==
  /\ pc[t] = "sdk"
  /\ poisoned' = TRUE
  /\ holder' = NoThread
  /\ Answer(t, Panic)
  /\ Goto(t, "return")
  /\ UNCHANGED <<last_error, op, calls, latest>>

\* inner.last_error = Some(err_msg.clone())
RecordError(t) ==
  /\ pc[t] = "record"
  /\ last_error' = result[t].text
  /\ Goto(t, "unlock")
  /\ UNCHANGED <<holder, poisoned, op, result, calls, latest>>

\* The bodies that touch nothing but the handle.
Get(t) ==
  /\ pc[t] = "local" /\ op[t] = "getter"
  /\ Answer(t, Ok(NoMessage))
  /\ Goto(t, "unlock")
  /\ UNCHANGED <<holder, poisoned, last_error, op, calls, latest>>

ErrorMessage(t) ==
  /\ pc[t] = "local" /\ op[t] = "error_message"
  /\ Answer(t, Ok(last_error))
  /\ Goto(t, "unlock")
  /\ UNCHANGED <<holder, poisoned, last_error, op, calls, latest>>

ClearLastError(t) ==
  /\ pc[t] = "local" /\ op[t] = "clear_last_error"
  /\ last_error' = NoMessage
  /\ latest' = NoMessage
  /\ Answer(t, Ok(NoMessage))
  /\ Goto(t, "unlock")
  /\ UNCHANGED <<holder, poisoned, op, calls>>

\* The guard goes out of scope, the method's value crosses the FFI.
Unlock(t) ==
  /\ pc[t] = "unlock"
  /\ holder' = NoThread
  /\ Goto(t, "return")
  /\ UNCHANGED <<poisoned, last_error, op, result, calls, latest>>

Return(t) ==
  /\ pc[t] = "return"
  /\ Goto(t, "idle")
  /\ UNCHANGED <<holder, poisoned, last_error, op, result, calls, latest>>

SdkReturns(t) ==
  \/ SdkSucceeds(t)
  \/ \E e \in Message : SdkFails(t, e)
  \/ SdkPanics(t)

Step(t) ==
  \/ ParseArguments(t) \/ Lock(t) \/ ParseUrl(t) \/ RecordError(t)
  \/ Get(t) \/ ErrorMessage(t) \/ ClearLastError(t)
  \/ Unlock(t) \/ Return(t)

\* No call in progress and no call left to make.
Finished ==
  /\ \A t \in Thread : pc[t] = "idle" /\ calls[t] = MaxCalls
  /\ UNCHANGED vars

Next ==
  \/ \E t \in Thread :
       \/ \E m \in Method : Call(t, m)
       \/ Step(t)
       \/ SdkReturns(t)
  \/ Finished

Spec == Init /\ [][Next]_vars

\* A running thread is scheduled, a free mutex is granted, and the SDK's
\* future resolves (it ends, fails or panics).  Nothing makes a thread call.
Fairness ==
  \A t \in Thread : WF_vars(Step(t)) /\ WF_vars(SdkReturns(t))

FairSpec == Spec /\ Fairness

-----------------------------------------------------------------------------
(* Safety. *)

\* At most one thread works on ControllerInner, so the SDK never sees two
\* calls on one controller and no method reads last_error while another
\* writes it (the lock().unwrap() at the head of every method).
MutualExclusion ==
  \A t \in Thread : pc[t] \in Critical => holder = t

\* Between methods, last_error is the latest failure of a recording method,
\* or nothing when a clear_last_error came later: no parse error, no failure
\* of delegate_account, no success and no panic has changed it.
LastErrorIsLatestFailure ==
  (\A t \in Thread : pc[t] # "record") => last_error = latest

\* Once a panic has poisoned the mutex no method reaches ControllerInner
\* again: every later lock().unwrap() panics in its turn.
PoisonShutsTheHandle ==
  poisoned => \A t \in Thread : pc[t] \notin Critical

\* A poisoned mutex stays so, and what ControllerInner held stays in it.
PoisonIsForever ==
  [][poisoned => poisoned' /\ UNCHANGED <<last_error, holder>>]_vars

-----------------------------------------------------------------------------
(* The handle as its callers see it: a call takes effect when its result   *)
(* is settled, or, for a failure that is recorded, when it is.             *)

Settled(t) == pc[t] \in {"unlock", "return", "idle"}

phase == [t \in Thread |-> IF pc[t] = "idle" THEN "ready"
                           ELSE IF Settled(t) THEN "done" ELSE "called"]

settledResult == [t \in Thread |-> IF Settled(t) THEN result[t] ELSE NoResult]

Atomic == INSTANCE AtomicAccount
  WITH dead <- poisoned, method <- op, result <- settledResult,
       Rejecting <- ParseUnlocked \cup ParseLocked,
       RejectingDead <- ParseUnlocked

\* Every method is atomic for its callers: what it returns and what it leaves
\* in last_error are those of one step of AtomicAccount.
IsAtomic == Atomic!Spec

-----------------------------------------------------------------------------
(* Liveness. *)

\* Every call returns, also those that wait for a mutex that a panicking
\* method held, provided that the SDK's futures resolve.
EveryCallReturns ==
  \A t \in Thread : pc[t] # "idle" ~> pc[t] = "idle"

=============================================================================
