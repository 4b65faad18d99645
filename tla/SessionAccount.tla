--------------------------- MODULE SessionAccount ---------------------------
(***************************************************************************)
(* One SessionAccount handle of src/src/session.rs, shared by several      *)
(* foreign threads, with the clock and the network it works against.       *)
(*                                                                         *)
(* execute hands its calls to the SDK, which reads the account's nonce     *)
(* from the chain and submits a transaction with it, all inside one        *)
(* block_on under the lock.  execute_from_outside stamps its calls with a  *)
(* deadline before it asks for the lock, then signs them and hands them to *)
(* the paymaster.  Chain and paymaster are external.                       *)
(***************************************************************************)
EXTENDS Naturals

CONSTANTS
  Thread,    \* the foreign threads that hold the handle
  NoThread,  \* no guard is live
  Window,    \* 600 in the code: how long an outside execution is valid
  ExpiresAt, \* SessionAccountInner::expires_at
  MaxCalls,  \* bound: how many calls each thread makes
  MaxTime    \* bound: the clock stops there

ASSUME SessionAssumption ==
  /\ NoThread \notin Thread
  /\ Window \in Nat \ {0}
  /\ ExpiresAt \in Nat
  /\ MaxCalls \in Nat
  /\ MaxTime \in Nat

VARIABLES
  holder,         \* the thread whose MutexGuard is live
  poisoned,       \* the mutex's poison flag
  last_error,     \* the method whose failure last_error holds, if any
  pc, op, result, calls,
  execute_before, \* the deadline each thread's outside execution carries
  nonce,          \* external: the account's nonce on the chain
  read_nonce,     \* external: the nonce each SDK call has read
  now,            \* the clock
  asked,          \* history: when each thread called, or stamped its calls
  accepted,       \* history: the outside executions the paymaster accepted
  told_expired    \* history: some is_expired has answered true

handle == <<holder, poisoned, last_error>>
callers == <<pc, op, result, calls>>
network == <<nonce, read_nonce, accepted>>
times == <<execute_before, now, asked>>
vars == <<handle, callers, network, times, told_expired>>

-----------------------------------------------------------------------------
(* "getter" is address, chain_id, owner_guid, expires_at, session_id,      *)
(* username, app_id and is_revoked.                                        *)
Executions == {"execute", "execute_from_outside"}
Method == Executions \cup {"getter", "is_expired"}

Result == {"None", "Ok", "Expired", "Valid",
           "InvalidInput", "ExecutionError", "Panic"}

Location == {"idle", "parse", "stamp", "lock", "read_nonce", "submit", "sign",
             "send", "taken", "record", "local", "unlock", "return"}

\* The locations where a thread's guard is live.
Critical == {"read_nonce", "submit", "sign", "send", "taken", "record", "local",
             "unlock"}

\* The locations inside block_on, where the SDK may fail or panic.
InSdk == {"read_nonce", "submit", "sign", "send", "taken"}

FirstLocked(m) ==
  CASE m = "execute" -> "read_nonce"
    [] m = "execute_from_outside" -> "sign"
    [] OTHER -> "local"

TypeOK ==
  /\ holder \in Thread \cup {NoThread}
  /\ poisoned \in BOOLEAN
  /\ last_error \in Executions \cup {"none"}
  /\ pc \in [Thread -> Location]
  /\ op \in [Thread -> Method]
  /\ result \in [Thread -> Result]
  /\ calls \in [Thread -> 0..MaxCalls]
  /\ execute_before \in [Thread -> Nat]
  /\ nonce \in Nat
  /\ read_nonce \in [Thread -> Nat]
  /\ now \in Nat
  /\ asked \in [Thread -> Nat]
  /\ accepted \subseteq [asked : Nat, at : Nat]
  /\ told_expired \in BOOLEAN

Init ==
  /\ holder = NoThread
  /\ poisoned = FALSE
  /\ last_error = "none"
  /\ pc = [t \in Thread |-> "idle"]
  /\ op = [t \in Thread |-> "getter"]
  /\ result = [t \in Thread |-> "None"]
  /\ calls = [t \in Thread |-> 0]
  /\ execute_before = [t \in Thread |-> 0]
  /\ nonce = 0
  /\ read_nonce = [t \in Thread |-> 0]
  /\ now = 0
  /\ asked = [t \in Thread |-> 0]
  /\ accepted = {}
  /\ told_expired = FALSE

Goto(t, l) == pc' = [pc EXCEPT ![t] = l]
Answer(t, r) == result' = [result EXCEPT ![t] = r]

-----------------------------------------------------------------------------
(* Mutations, each a plausible slip in the action named. *)

\* Lock that does not wait for the guard (NoncesNeverClash).
LockUnguarded(t) ==
  /\ pc[t] = "lock"
  /\ holder' = t
  /\ Goto(t, FirstLocked(op[t]))
  /\ UNCHANGED <<poisoned, last_error, op, result, calls, network, times, told_expired>>

\* Lock followed by the stamping of the deadline (ActsAtMostOnce).
LockThenStamp(t) ==
  /\ pc[t] = "lock"
  /\ holder = NoThread /\ ~poisoned
  /\ holder' = t
  /\ Goto(t, FirstLocked(op[t]))
  /\ execute_before' = [execute_before EXCEPT ![t] = now + Window]
  /\ UNCHANGED <<poisoned, last_error, op, result, calls, network, now, asked, told_expired>>

\* SdkFails that sends an outside execution again (ActsAtMostOnce).
SdkFailsAndRetries(t) ==
  /\ pc[t] \in InSdk
  /\ IF pc[t] = "taken" /\ op[t] = "execute_from_outside"
       THEN Goto(t, "send") /\ UNCHANGED result
       ELSE Answer(t, "ExecutionError") /\ Goto(t, "record")
  /\ UNCHANGED <<handle, op, calls, network, times, told_expired>>

\* IsExpired with the clock read before the lock (ExpiryAnswersAgree).
IsExpiredReadEarly(t) ==
  /\ pc[t] = "local" /\ op[t] = "is_expired"
  /\ Answer(t, IF asked[t] >= ExpiresAt THEN "Expired" ELSE "Valid")
  /\ told_expired' = (told_expired \/ asked[t] >= ExpiresAt)
  /\ Goto(t, "unlock")
  /\ UNCHANGED <<handle, op, calls, network, times>>

\* RecordError with what the method returns (TypeOK).
RecordResult(t) ==
  /\ pc[t] = "record"
  /\ last_error' = result[t]
  /\ Goto(t, "unlock")
  /\ UNCHANGED <<holder, poisoned, op, result, calls, network, times, told_expired>>

-----------------------------------------------------------------------------
(* The steps of a method. *)

Call(t, m) ==
  /\ pc[t] = "idle"
  /\ calls[t] < MaxCalls
  /\ calls' = [calls EXCEPT ![t] = @ + 1]
  /\ op' = [op EXCEPT ![t] = m]
  /\ Answer(t, "None")
  /\ asked' = [asked EXCEPT ![t] = now]
  /\ Goto(t, IF m \in Executions THEN "parse" ELSE "lock")
  /\ UNCHANGED <<handle, network, execute_before, now, told_expired>>

\* Both executions convert their calls before anything else.
ParseCalls(t) ==
  /\ pc[t] = "parse"
  /\ \/ /\ Goto(t, IF op[t] = "execute" THEN "lock" ELSE "stamp")
        /\ UNCHANGED result
     \/ Answer(t, "InvalidInput") /\ Goto(t, "return")
  /\ UNCHANGED <<handle, op, calls, network, times, told_expired>>

\* let now = Utc::now(); execute_before: now + 600.  The lock comes next.
Stamp(t) ==
  /\ pc[t] = "stamp"
  /\ execute_before' = [execute_before EXCEPT ![t] = now + Window]
  /\ asked' = [asked EXCEPT ![t] = now]
  /\ Goto(t, "lock")
  /\ UNCHANGED <<handle, op, result, calls, network, now, told_expired>>

\* self.inner.lock().unwrap(), as in ControllerAccount.
Lock(t) ==
  /\ pc[t] = "lock"
  /\ holder = NoThread
  /\ IF poisoned
       THEN Answer(t, "Panic") /\ Goto(t, "return") /\ UNCHANGED holder
       ELSE holder' = t /\ Goto(t, FirstLocked(op[t])) /\ UNCHANGED result
  /\ UNCHANGED <<poisoned, last_error, op, calls, network, times, told_expired>>

\* External: execute_v3(..).send() asks the chain for the account's nonce ...
ReadNonce(t) ==
  /\ pc[t] = "read_nonce"
  /\ read_nonce' = [read_nonce EXCEPT ![t] = nonce]
  /\ Goto(t, "submit")
  /\ UNCHANGED <<handle, op, result, calls, nonce, accepted, times, told_expired>>

\* ... and submits the transaction, which the chain takes if the nonce is
\* the account's still.
Submit(t) ==
  /\ pc[t] = "submit"
  /\ read_nonce[t] = nonce
  /\ nonce' = nonce + 1
  /\ Goto(t, "taken")
  /\ UNCHANGED <<handle, op, result, calls, read_nonce, accepted, times, told_expired>>

\* sign_outside_execution
Sign(t) ==
  /\ pc[t] = "sign"
  /\ Goto(t, "send")
  /\ UNCHANGED <<handle, op, result, calls, network, times, told_expired>>

\* add_execute_outside_transaction: the paymaster takes what has not expired.
Send(t) ==
  /\ pc[t] = "send"
  /\ now < execute_before[t]
  /\ accepted' = accepted \cup {[asked |-> asked[t], at |-> now]}
  /\ Goto(t, "taken")
  /\ UNCHANGED <<handle, op, result, calls, nonce, read_nonce, times, told_expired>>

\* The answer to what was taken arrives: Ok(transaction_hash).
Confirm(t) ==
  /\ pc[t] = "taken"
  /\ Answer(t, "Ok")
  /\ Goto(t, "unlock")
  /\ UNCHANGED <<handle, op, calls, network, times, told_expired>>

\* Any of them ends in an error, a refused nonce or deadline included, and
\* so does a call that was taken and whose answer is lost.
SdkFails(t) ==
  /\ pc[t] \in InSdk
  /\ Answer(t, "ExecutionError")
  /\ Goto(t, "record")
  /\ UNCHANGED <<handle, op, calls, network, times, told_expired>>

SdkPanics(t) ==
  /\ pc[t] \in InSdk
  /\ poisoned' = TRUE
  /\ holder' = NoThread
  /\ Answer(t, "Panic")
  /\ Goto(t, "return")
  /\ UNCHANGED <<last_error, op, calls, network, times, told_expired>>

\* inner.last_error = Some(err_msg.clone()): no method of the handle reads it.
RecordError(t) ==
  /\ pc[t] = "record"
  /\ last_error' = op[t]
  /\ Goto(t, "unlock")
  /\ UNCHANGED <<holder, poisoned, op, result, calls, network, times, told_expired>>

Get(t) ==
  /\ pc[t] = "local" /\ op[t] = "getter"
  /\ Answer(t, "Ok")
  /\ Goto(t, "unlock")
  /\ UNCHANGED <<handle, op, calls, network, times, told_expired>>

\* is_expired reads the clock with the guard in hand.
IsExpired(t) ==
  /\ pc[t] = "local" /\ op[t] = "is_expired"
  /\ Answer(t, IF now >= ExpiresAt THEN "Expired" ELSE "Valid")
  /\ told_expired' = (told_expired \/ now >= ExpiresAt)
  /\ Goto(t, "unlock")
  /\ UNCHANGED <<handle, op, calls, network, times>>

Unlock(t) ==
  /\ pc[t] = "unlock"
  /\ holder' = NoThread
  /\ Goto(t, "return")
  /\ UNCHANGED <<poisoned, last_error, op, result, calls, network, times, told_expired>>

Return(t) ==
  /\ pc[t] = "return"
  /\ Goto(t, "idle")
  /\ UNCHANGED <<handle, op, result, calls, network, times, told_expired>>

\* Time passes wherever the threads stand, also inside block_on.
Tick ==
  /\ now < MaxTime
  /\ now' = now + 1
  /\ UNCHANGED <<handle, callers, network, execute_before, asked, told_expired>>

Finished ==
  /\ \A t \in Thread : pc[t] = "idle" /\ calls[t] = MaxCalls
  /\ UNCHANGED vars

Step(t) ==
  \/ ParseCalls(t) \/ Stamp(t) \/ Lock(t)
  \/ ReadNonce(t) \/ Submit(t) \/ Sign(t) \/ Send(t) \/ Confirm(t)
  \/ SdkFails(t) \/ SdkPanics(t) \/ RecordError(t)
  \/ Get(t) \/ IsExpired(t) \/ Unlock(t) \/ Return(t)

Next ==
  \/ \E t \in Thread :
       \/ \E m \in Method : Call(t, m)
       \/ Step(t)
  \/ Tick
  \/ Finished

Spec == Init /\ [][Next]_vars

-----------------------------------------------------------------------------
(* Properties. *)

\* The nonce an execute has read is still the account's when it submits:
\* two executes of one handle never race for a nonce, because the lock is
\* held across the whole of send().  (No other wallet spends the account's
\* nonces in the model.)
NoncesNeverClash ==
  \A t \in Thread : pc[t] = "submit" => read_nonce[t] = nonce

\* However long the handle was busy, what the paymaster takes was asked for
\* less than a window ago: a call that waits longer fails instead of acting
\* on a request its user may have given up.
AcceptedWithinWindow ==
  \A x \in accepted : x.at < x.asked + Window

\* The threads agree on the expiry: none is told that the session is valid
\* after another was told that it has expired.
ExpiryAnswersAgree ==
  [][\A t \in Thread : told_expired /\ result'[t] = "Valid" => result[t] = "Valid"]_vars

-----------------------------------------------------------------------------
(* The handle as its callers see it.  A call has acted from when the chain *)
(* or the paymaster took it, and is done when its result is settled.       *)

phase == [t \in Thread |->
            IF pc[t] = "idle" THEN "ready"
            ELSE IF pc[t] \in {"record", "unlock", "return"} THEN "done"
            ELSE "called"]

acted == [t \in Thread |-> pc[t] = "taken"]

Promise == INSTANCE AtMostOnceSession
  WITH dead <- poisoned, method <- op

\* What an execution does to the network it does once, under the lock and in
\* its window; an Ok says that it was done, a rejection that it was not, and an
\* is_expired is true of a moment of the call.
ActsAtMostOnce == Promise!Spec

=============================================================================
