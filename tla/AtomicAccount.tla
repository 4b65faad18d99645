--------------------------- MODULE AtomicAccount ---------------------------
(***************************************************************************)
(* What a ControllerAccount handle promises to the threads that share it:  *)
(* a call does all it does to the handle in one step between its           *)
(* invocation and its return, whatever the other threads do.  It says      *)
(* nothing of locks: ControllerAccount is shown to implement it.           *)
(***************************************************************************)
CONSTANTS
  Thread, Method, Result, Message, NoMessage,
  NoResult,            \* what a call that has not taken effect returns
  Ok(_), Err(_, _), Panic,
  ErrorKind,           \* the error a failing SDK method returns
  Recorded,            \* the SDK methods that record their failures
  Rejecting,           \* the methods that may refuse their arguments
  RejectingDead        \* those that do so even when the handle is dead

VARIABLES
  dead,        \* an SDK panic has made the handle unusable
  last_error,
  phase,       \* "ready", "called" or "done", for each thread
  method,
  result

vars == <<dead, last_error, phase, method, result>>

SdkMethods == DOMAIN ErrorKind

Init ==
  /\ dead = FALSE
  /\ last_error = NoMessage
  /\ phase = [t \in Thread |-> "ready"]
  /\ method \in [Thread -> Method]
  /\ result = [t \in Thread |-> NoResult]

Invoke(t, m) ==
  /\ phase[t] = "ready"
  /\ phase' = [phase EXCEPT ![t] = "called"]
  /\ method' = [method EXCEPT ![t] = m]
  /\ result' = [result EXCEPT ![t] = NoResult]
  /\ UNCHANGED <<dead, last_error>>

Finish(t, r) ==
  /\ phase[t] = "called"
  /\ phase' = [phase EXCEPT ![t] = "done"]
  /\ result' = [result EXCEPT ![t] = r]
  /\ UNCHANGED method

\* Bad arguments: an error that leaves the handle as it is.
Reject(t, e) ==
  /\ method[t] \in (IF dead THEN RejectingDead ELSE Rejecting)
  /\ Finish(t, Err("InvalidInput", e))
  /\ UNCHANGED <<dead, last_error>>

\* A dead handle answers every call with a panic.
Refuse(t) ==
  /\ dead
  /\ Finish(t, Panic)
  /\ UNCHANGED <<dead, last_error>>

Succeed(t) ==
  /\ ~dead
  /\ method[t] \notin {"error_message", "clear_last_error"}
  /\ Finish(t, Ok(NoMessage))
  /\ UNCHANGED <<dead, last_error>>

\* A failure that is returned is, for most methods, recorded as well.
Fail(t, e) ==
  /\ ~dead
  /\ method[t] \in SdkMethods
  /\ Finish(t, Err(ErrorKind[method[t]], e))
  /\ last_error' = IF method[t] \in Recorded THEN e ELSE last_error
  /\ UNCHANGED dead

Break(t) ==
  /\ ~dead
  /\ method[t] \in SdkMethods
  /\ dead' = TRUE
  /\ Finish(t, Panic)
  /\ UNCHANGED last_error

Report(t) ==
  /\ ~dead
  /\ method[t] = "error_message"
  /\ Finish(t, Ok(last_error))
  /\ UNCHANGED <<dead, last_error>>

Clear(t) ==
  /\ ~dead
  /\ method[t] = "clear_last_error"
  /\ Finish(t, Ok(NoMessage))
  /\ last_error' = NoMessage
  /\ UNCHANGED dead

Return(t) ==
  /\ phase[t] = "done"
  /\ phase' = [phase EXCEPT ![t] = "ready"]
  /\ UNCHANGED <<dead, last_error, method, result>>

Next ==
  \E t \in Thread :
    \/ \E m \in Method : Invoke(t, m)
    \/ \E e \in Message : Reject(t, e) \/ Fail(t, e)
    \/ Refuse(t) \/ Succeed(t) \/ Break(t) \/ Report(t) \/ Clear(t)
    \/ Return(t)

Spec == Init /\ [][Next]_vars
=============================================================================
