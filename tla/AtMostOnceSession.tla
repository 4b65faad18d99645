------------------------- MODULE AtMostOnceSession -------------------------
(***************************************************************************)
(* What a SessionAccount handle promises to the threads that share it.  A  *)
(* call acts on the network at most once, between its invocation and its   *)
(* return, and while no other call of the handle is acting; one that is    *)
(* answered Ok has acted, one that is rejected or refused has not, and of  *)
(* one that fails its caller cannot tell.  SessionAccount implements it.   *)
(***************************************************************************)
EXTENDS Naturals

CONSTANTS Thread, Method, Executions, Window, ExpiresAt

VARIABLES
  now,       \* the clock
  dead,      \* an SDK panic has made the handle unusable
  nonce,     \* how many transactions the chain has taken of the handle
  accepted,  \* the outside executions taken: when asked for, and when taken
  phase,     \* "ready", "called" or "done", for each thread
  method,
  result,    \* "None" until the call is done
  asked,     \* when the call was made, or dated itself
  acted      \* the call has acted, and is not yet done

vars == <<now, dead, nonce, accepted, phase, method, result, asked, acted>>

Init ==
  /\ now = 0
  /\ dead = FALSE
  /\ nonce = 0
  /\ accepted = {}
  /\ phase = [t \in Thread |-> "ready"]
  /\ method \in [Thread -> Method]
  /\ result = [t \in Thread |-> "None"]
  /\ asked = [t \in Thread |-> 0]
  /\ acted = [t \in Thread |-> FALSE]

Tick ==
  /\ now' = now + 1
  /\ UNCHANGED <<dead, nonce, accepted, phase, method, result, asked, acted>>

Invoke(t, m) ==
  /\ phase[t] = "ready"
  /\ phase' = [phase EXCEPT ![t] = "called"]
  /\ method' = [method EXCEPT ![t] = m]
  /\ result' = [result EXCEPT ![t] = "None"]
  /\ asked' = [asked EXCEPT ![t] = now]
  /\ UNCHANGED <<now, dead, nonce, accepted, acted>>

\* An outside execution is dated, at the latest before it acts.
Date(t) ==
  /\ phase[t] = "called" /\ ~acted[t]
  /\ method[t] = "execute_from_outside"
  /\ asked' = [asked EXCEPT ![t] = now]
  /\ UNCHANGED <<now, dead, nonce, accepted, phase, method, result, acted>>

Act(t, m) ==
  /\ phase[t] = "called" /\ method[t] = m
  /\ ~dead
  /\ \A u \in Thread : ~acted[u]
  /\ acted' = [acted EXCEPT ![t] = TRUE]
  /\ UNCHANGED <<now, dead, phase, method, result, asked>>

\* The chain takes a transaction.
Execute(t) ==
  /\ Act(t, "execute")
  /\ nonce' = nonce + 1
  /\ UNCHANGED accepted

\* The paymaster takes an outside execution in its window.
Relay(t) ==
  /\ Act(t, "execute_from_outside")
  /\ now < asked[t] + Window
  /\ accepted' = accepted \cup {[asked |-> asked[t], at |-> now]}
  /\ UNCHANGED nonce

Finish(t, r) ==
  /\ phase[t] = "called"
  /\ phase' = [phase EXCEPT ![t] = "done"]
  /\ result' = [result EXCEPT ![t] = r]
  /\ acted' = [acted EXCEPT ![t] = FALSE]
  /\ UNCHANGED <<now, nonce, accepted, method, asked>>

\* Bad calls are rejected, by a dead handle too.
Reject(t) ==
  /\ method[t] \in Executions /\ ~acted[t]
  /\ Finish(t, "InvalidInput")
  /\ UNCHANGED dead

\* A dead handle answers every call with a panic.
Refuse(t) ==
  /\ dead /\ ~acted[t]
  /\ Finish(t, "Panic")
  /\ UNCHANGED dead

Succeed(t) ==
  /\ ~dead
  /\ method[t] # "is_expired"
  /\ method[t] \in Executions => acted[t]
  /\ Finish(t, "Ok")
  /\ UNCHANGED dead

\* Whether it has acted or not.
Fail(t) ==
  /\ ~dead
  /\ method[t] \in Executions
  /\ Finish(t, "ExecutionError")
  /\ UNCHANGED dead

Break(t) ==
  /\ ~dead
  /\ method[t] \in Executions
  /\ Finish(t, "Panic")
  /\ dead' = TRUE

\* The answer is that of one moment between invocation and return.
Tell(t) ==
  /\ ~dead
  /\ method[t] = "is_expired"
  /\ Finish(t, IF now >= ExpiresAt THEN "Expired" ELSE "Valid")
  /\ UNCHANGED dead

Return(t) ==
  /\ phase[t] = "done"
  /\ phase' = [phase EXCEPT ![t] = "ready"]
  /\ UNCHANGED <<now, dead, nonce, accepted, method, result, asked, acted>>

Next ==
  \/ Tick
  \/ \E t \in Thread :
       \/ \E m \in Method : Invoke(t, m)
       \/ Date(t) \/ Execute(t) \/ Relay(t)
       \/ Reject(t) \/ Refuse(t) \/ Succeed(t) \/ Fail(t) \/ Break(t) \/ Tell(t)
       \/ Return(t)

Spec == Init /\ [][Next]_vars
=============================================================================
