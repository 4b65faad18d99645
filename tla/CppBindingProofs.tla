-------------------------- MODULE CppBindingProofs --------------------------
(***************************************************************************)
(* Theorems of CppBinding for every set of threads and of objects, every   *)
(* set of functions and every number of calls.                             *)
(***************************************************************************)
EXTENDS CppBinding, TLAPS

(* What a step needs to know of the state beyond its type.  A thread that   *)
(* is in a call of a method or has an object among its arguments holds a   *)
(* shared_ptr to that object, which keeps the C++ object, and with it one  *)
(* count of the Arc, in being.  The destructor runs on one thread, when    *)
(* nobody holds the object.                                                *)

\* The stretch of a call, and that of it in which it counts for its object.
InCall(t) ==
  pc[t] \in {"cloning", "lowering", "calling", "inside", "leaving", "returned"}
HasClone(t) ==
  \/ pc[t] \in {"calling", "inside", "leaving"}
  \/ pc[t] = "lowering" /\ Sig(t).method
Counts(t, o) == (o = call[t].uses /\ HasClone(t)) \/ o = call[t].made

\* What the call of a thread looks like where the thread stands.
CallInv ==
  \A t \in Thread :
    /\ pc[t] = "idle" => call[t] = Idle
    /\ pc[t] = "terminated" => call[t] \in {Idle, Panicked}
    /\ InCall(t) => call[t].fn \in Function /\ calls[t] \in 1..MaxCalls
    /\ pc[t] = "cloning" => Sig(t).method /\ call[t].uses \in Object
    /\ pc[t] = "destroying" => call[t].uses \in Object
    /\ pc[t] \notin {"leaving", "returned"} => call[t].made = NoObject
    /\ pc[t] \in {"leaving", "returned"} => call[t].reply # "none"
    /\ call[t].reply # "value" => call[t].made = NoObject

\* Nothing of the library is reached, or exists, before the check.
OnceInv ==
  /\ once => differs \notin Checked
  /\ born # {} => once
  /\ \A t \in Thread : pc[t] \in {"inside", "leaving", "returned"} => once

\* Who holds an object, and what that keeps.
HeldInv ==
  /\ \A o \in Object : held[o] # {} => o \in born /\ Instance \in arcs[o]
  /\ \A t \in Thread : InCall(t) /\ call[t].uses # NoObject
                         => t \in held[call[t].uses]
  /\ \A t \in Thread : pc[t] = "destroying" =>
       /\ call[t].uses \in born /\ held[call[t].uses] = {}
       /\ Instance \in arcs[call[t].uses]
  /\ \A t, u \in Thread :
       pc[t] = "destroying" /\ pc[u] = "destroying"
         /\ call[t].uses = call[u].uses => t = u

\* Who counts for an object, in both directions.
CloneInv ==
  /\ \A o \in Object : \A w \in arcs[o] :
       \/ w = Instance
       \/ w \in lost
       \/ \E t \in Thread : w = This(t) /\ Counts(t, o)
  /\ \A t \in Thread, o \in Object : Counts(t, o) => This(t) \in arcs[o]
  /\ \A o \in Object \ born : arcs[o] = {}
  /\ \A t \in Thread : call[t].made # NoObject =>
       /\ call[t].made \in born /\ held[call[t].made] = {}
       /\ arcs[call[t].made] = {This(t)}

\* The buffers each stretch of a call has.
Owns(t, b) ==
  /\ b[1] = This(t)
  /\ b[2] = "arguments" => pc[t] = "calling"
  /\ b[2] = "value" => pc[t] \in {"leaving", "returned"}
                       /\ call[t].reply = "value"
  /\ b[2] = "error" => pc[t] \in {"leaving", "returned"}
                       /\ call[t].reply \in {"error", "panic"}
BufferInv == \A b \in buffers : b[1] \in lost \/ \E t \in Thread : Owns(t, b)

\* The inductive invariant.
Inv == TypeOK /\ CallInv /\ OnceInv /\ HeldInv /\ CloneInv /\ BufferInv

-----------------------------------------------------------------------------
(* Type correctness. *)

LEMMA IdleIsCall == Idle \in Call /\ Panicked \in Call
BY DEF Idle, Panicked, Call, Reply

\* The values that the steps build.
LEMMA OwnerTypes ==
  ASSUME TypeOK, NEW t \in Thread
  PROVE  /\ Instance \in Owner
         /\ calls[t] # 0 => This(t) \in Calls /\ This(t) \in Owner
         /\ calls[t] # 0 => \A k \in {"arguments", "value", "error"} :
                               MyBuffer(t, k) \in Buffer
         /\ This(t) # Instance
BY BindingAssumption
DEF TypeOK, Owner, Calls, This, Instance, Buffer, MyBuffer

\* The variables keep their types in every step.
LEMMA TypeStep ==
  ASSUME TypeOK, CallInv, [Next]_vars
  PROVE  TypeOK'
<1> USE BindingAssumption, IdleIsCall DEF TypeOK, Goto
<1>1. ASSUME NEW t \in Thread, NEW f \in Function,
             NEW o \in Object \cup {NoObject}, Invoke(t, f, o)
      PROVE  TypeOK'
  <2>1. [Idle EXCEPT !.fn = f, !.uses = o] \in Call
    BY <1>1 DEF Idle, Call
  <2>2. calls' \in [Thread -> 0..MaxCalls]
    BY <1>1 DEF Invoke
  <2> QED
    BY <1>1, <2>1, <2>2 DEF Invoke
<1>2. ASSUME NEW t \in Thread, NEW o \in Object, Release(t, o)
      PROVE  TypeOK'
  <2>1. [Idle EXCEPT !.fn = Nothing, !.uses = o] \in Call
        /\ [Idle EXCEPT !.uses = o] \in Call
    BY DEF Idle, Call
  <2> QED
    BY <1>2, <2>1 DEF Release
<1>3. ASSUME NEW t \in Thread, NEW u \in Thread, NEW o \in Object, Share(t, u, o)
      PROVE  TypeOK'
  BY <1>3 DEF Share
<1>4. ASSUME NEW t \in Thread, Initialize(t)
      PROVE  TypeOK'
  BY <1>4, Zenon DEF Initialize
<1>5. ASSUME NEW t \in Thread, InitializeThrows(t)
      PROVE  TypeOK'
  <2>1. lost' \subseteq Calls
    BY <1>5, OwnerTypes DEF InitializeThrows, CallInv, InCall
  <2> QED
    BY <1>5, <2>1 DEF InitializeThrows
<1>6. ASSUME NEW t \in Thread, CloneReceiver(t)
      PROVE  TypeOK'
  BY <1>6, OwnerTypes DEF CloneReceiver, Clone, CallInv, InCall
<1>7. ASSUME NEW t \in Thread, Lower(t)
      PROVE  TypeOK'
  <2>1. This(t) \in Owner /\ MyBuffer(t, "arguments") \in Buffer
    BY <1>7, OwnerTypes DEF Lower, CallInv, InCall
  <2>2. arcs' \in [Object -> SUBSET Owner] /\ buffers' \subseteq Buffer
    BY <1>7, <2>1 DEF Lower, Clone
  <2> QED
    BY <1>7, <2>2 DEF Lower
<1>8. ASSUME NEW t \in Thread, LowerThrows(t)
      PROVE  TypeOK'
  <2>1. /\ This(t) \in Owner /\ MyBuffer(t, "arguments") \in Buffer
        /\ This(t) \in Calls
    BY <1>8, OwnerTypes DEF LowerThrows, CallInv, InCall
  <2>2. arcs' \in [Object -> SUBSET Owner] /\ buffers' \subseteq Buffer
    BY <1>8, <2>1 DEF LowerThrows, Clone
  <2> QED
    BY <1>8, <2>1, <2>2 DEF LowerThrows
<1>9. ASSUME NEW t \in Thread, EnterRust(t)
      PROVE  TypeOK'
  BY <1>9 DEF EnterRust
<1>10. ASSUME NEW t \in Thread, LeaveRust(t)
       PROVE  TypeOK'
  <2>1. arcs' \in [Object -> SUBSET Owner]
    BY <1>10 DEF LeaveRust, Free
  <2> QED
    BY <1>10, <2>1 DEF LeaveRust
<1>11. ASSUME NEW t \in Thread, LiftValue(t)
       PROVE  TypeOK'
  <2>1. arcs' \in [Object -> SUBSET Owner] /\ held' \in [Object -> SUBSET Thread]
    BY <1>11, OwnerTypes DEF LiftValue
  <2> QED
    BY <1>11, <2>1 DEF LiftValue
<1>12. ASSUME NEW t \in Thread, ThrowError(t) \/ CloneFails(t)
       PROVE  TypeOK'
  BY <1>12 DEF ThrowError, CloneFails
<1>13. ASSUME NEW t \in Thread, Destroy(t)
       PROVE  TypeOK'
  <2>1. arcs' \in [Object -> SUBSET Owner]
    BY <1>13 DEF Destroy, Free
  <2>2. call' \in [Thread -> Call]
    BY <1>13 DEF Destroy
  <2>3. pc' = [pc EXCEPT ![t] = "idle"] \/ pc' = [pc EXCEPT ![t] = "terminated"]
    BY <1>13 DEF Destroy
  <2> QED
    BY <1>13, <2>1, <2>2, <2>3 DEF Destroy
<1>14. ASSUME NEW t \in Thread, RustFails(t)
       PROVE  TypeOK'
  <2>1. MyBuffer(t, "error") \in Buffer
    BY <1>14, OwnerTypes DEF RustFails, CallInv, InCall
  <2>2. buffers' \subseteq Buffer
    BY <1>14, <2>1 DEF RustFails
  <2>3. call' \in [Thread -> Call]
    <3>1. PICK r \in {"error", "panic"} : call' = [call EXCEPT ![t].reply = r]
      BY <1>14 DEF RustFails
    <3>2. [call[t] EXCEPT !.reply = r] \in Call
      BY DEF Call, Reply
    <3> QED
      BY <3>1, <3>2
  <2> QED
    BY <1>14, <2>2, <2>3 DEF RustFails
<1>15. ASSUME NEW t \in Thread, NEW o \in Object \cup {NoObject}, RustReturns(t, o)
       PROVE  TypeOK'
  <2>1. MyBuffer(t, "value") \in Buffer /\ This(t) \in Owner
    BY <1>15, OwnerTypes DEF RustReturns, CallInv, InCall
  <2>2. buffers' \subseteq Buffer
    BY <1>15, <2>1 DEF RustReturns
  <2>3. arcs' \in [Object -> SUBSET Owner] /\ born' \subseteq Object
    BY <1>15, <2>1 DEF RustReturns, Clone
  <2>4. call' \in [Thread -> Call]
    <3>1. [call[t] EXCEPT !.made = o, !.reply = "value"] \in Call
      BY DEF Call, Reply
    <3> QED
      BY <1>15, <3>1 DEF RustReturns
  <2> QED
    BY <1>15, <2>2, <2>3, <2>4 DEF RustReturns
<1>16. CASE UNCHANGED vars
  BY <1>16 DEF vars
<1> QED
  BY <1>1, <1>2, <1>3, <1>4, <1>5, <1>6, <1>7, <1>8, <1>9, <1>10, <1>11,
     <1>12, <1>13, <1>14, <1>15, <1>16
  DEF Next, Program, Step, Library

-----------------------------------------------------------------------------
(* The parts of the invariant, one by one. *)

\* The calls look like calls wherever a step leads.
LEMMA CallStep ==
  ASSUME Inv, [Next]_vars
  PROVE  CallInv'
<1> USE BindingAssumption DEF Inv, TypeOK, CallInv, InCall, Sig, Call, Idle, Panicked, Goto
<1>1. ASSUME NEW t \in Thread, NEW f \in Function,
             NEW o \in Object \cup {NoObject}, Invoke(t, f, o)
      PROVE  CallInv'
  BY <1>1 DEF Invoke
<1>2. ASSUME NEW t \in Thread, NEW o \in Object, Release(t, o)
      PROVE  CallInv'
  BY <1>2 DEF Release
<1>3. ASSUME NEW t \in Thread, NEW u \in Thread, NEW o \in Object, Share(t, u, o)
      PROVE  CallInv'
  BY <1>3 DEF Share
<1>4. ASSUME NEW t \in Thread, Initialize(t)
      PROVE  CallInv'
  BY <1>4 DEF Initialize
<1>5. ASSUME NEW t \in Thread, InitializeThrows(t)
      PROVE  CallInv'
  BY <1>5 DEF InitializeThrows
<1>6. ASSUME NEW t \in Thread, CloneReceiver(t)
      PROVE  CallInv'
  BY <1>6 DEF CloneReceiver
<1>7. ASSUME NEW t \in Thread, Lower(t)
      PROVE  CallInv'
  BY <1>7 DEF Lower
<1>8. ASSUME NEW t \in Thread, LowerThrows(t)
      PROVE  CallInv'
  BY <1>8 DEF LowerThrows
<1>9. ASSUME NEW t \in Thread, EnterRust(t)
      PROVE  CallInv'
  BY <1>9 DEF EnterRust
<1>10. ASSUME NEW t \in Thread, LeaveRust(t)
       PROVE  CallInv'
  BY <1>10 DEF LeaveRust
<1>11. ASSUME NEW t \in Thread, LiftValue(t)
       PROVE  CallInv'
  BY <1>11 DEF LiftValue
<1>12. ASSUME NEW t \in Thread, ThrowError(t) \/ CloneFails(t)
       PROVE  CallInv'
  BY <1>12 DEF ThrowError, CloneFails
<1>13. ASSUME NEW t \in Thread, Destroy(t)
       PROVE  CallInv'
  BY <1>13 DEF Destroy
<1>14. ASSUME NEW t \in Thread, RustFails(t)
       PROVE  CallInv'
  BY <1>14 DEF RustFails
<1>15. ASSUME NEW t \in Thread, NEW o \in Object \cup {NoObject}, RustReturns(t, o)
       PROVE  CallInv'
  BY <1>15 DEF RustReturns
<1>16. CASE UNCHANGED vars
  BY <1>16 DEF vars
<1> QED
  BY <1>1, <1>2, <1>3, <1>4, <1>5, <1>6, <1>7, <1>8, <1>9, <1>10, <1>11,
     <1>12, <1>13, <1>14, <1>15, <1>16
  DEF Next, Program, Step, Library

\* The check has been made before anything that needs it.
LEMMA OnceStep ==
  ASSUME Inv, [Next]_vars
  PROVE  OnceInv'
<1> USE BindingAssumption DEF Inv, TypeOK, OnceInv, CallInv, HeldInv, InCall, Goto
<1>1. ASSUME NEW t \in Thread, NEW f \in Function,
             NEW o \in Object \cup {NoObject}, Invoke(t, f, o)
      PROVE  OnceInv'
  BY <1>1 DEF Invoke
<1>2. ASSUME NEW t \in Thread, NEW o \in Object, Release(t, o)
      PROVE  OnceInv'
  BY <1>2 DEF Release
<1>3. ASSUME NEW t \in Thread, NEW u \in Thread, NEW o \in Object, Share(t, u, o)
      PROVE  OnceInv'
  BY <1>3 DEF Share
<1>4. ASSUME NEW t \in Thread, Initialize(t)
      PROVE  OnceInv'
  BY <1>4 DEF Initialize
<1>5. ASSUME NEW t \in Thread, InitializeThrows(t)
      PROVE  OnceInv'
  BY <1>5 DEF InitializeThrows
<1>6. ASSUME NEW t \in Thread, CloneReceiver(t)
      PROVE  OnceInv'
  BY <1>6 DEF CloneReceiver
<1>7. ASSUME NEW t \in Thread, Lower(t)
      PROVE  OnceInv'
  BY <1>7 DEF Lower
<1>8. ASSUME NEW t \in Thread, LowerThrows(t)
      PROVE  OnceInv'
  BY <1>8 DEF LowerThrows
<1>9. ASSUME NEW t \in Thread, EnterRust(t)
      PROVE  OnceInv'
  BY <1>9 DEF EnterRust
<1>10. ASSUME NEW t \in Thread, LeaveRust(t)
       PROVE  OnceInv'
  BY <1>10 DEF LeaveRust
<1>11. ASSUME NEW t \in Thread, LiftValue(t)
       PROVE  OnceInv'
  BY <1>11 DEF LiftValue
<1>12. ASSUME NEW t \in Thread, ThrowError(t) \/ CloneFails(t)
       PROVE  OnceInv'
  BY <1>12 DEF ThrowError, CloneFails
<1>13. ASSUME NEW t \in Thread, Destroy(t)
       PROVE  OnceInv'
  BY <1>13 DEF Destroy
<1>14. ASSUME NEW t \in Thread, RustFails(t)
       PROVE  OnceInv'
  BY <1>14 DEF RustFails
<1>15. ASSUME NEW t \in Thread, NEW o \in Object \cup {NoObject}, RustReturns(t, o)
       PROVE  OnceInv'
  BY <1>15 DEF RustReturns
<1>16. CASE UNCHANGED vars
  BY <1>16 DEF vars
<1> QED
  BY <1>1, <1>2, <1>3, <1>4, <1>5, <1>6, <1>7, <1>8, <1>9, <1>10, <1>11,
     <1>12, <1>13, <1>14, <1>15, <1>16
  DEF Next, Program, Step, Library

\* A step of thread t that gives no shared_ptr up, frees no C++ object and
\* enters no destructor keeps everybody's objects.
LEMMA HeldFrame ==
  ASSUME Inv, NEW t \in Thread, UNCHANGED held, born \subseteq born',
         \A u \in Thread \ {t} : pc'[u] = pc[u] /\ call'[u] = call[u],
         \A o \in Object : Instance \in arcs[o] => Instance \in arcs'[o],
         pc'[t] = "destroying" => pc[t] = "destroying" /\ call'[t] = call[t],
         InCall(t)' /\ call'[t].uses # NoObject => t \in held[call'[t].uses]
  PROVE  HeldInv'
<1>1. \A o \in Object : held'[o] # {} => o \in born' /\ Instance' \in arcs'[o]
  BY DEF Inv, HeldInv, Instance
<1>2. \A u \in Thread : InCall(u)' /\ call'[u].uses # NoObject
                          => u \in held'[call'[u].uses]
  BY DEF Inv, HeldInv, InCall
<1>3. \A u \in Thread : pc'[u] = "destroying" =>
         pc[u] = "destroying" /\ call'[u] = call[u]
  OBVIOUS
<1>4. \A u \in Thread : pc'[u] = "destroying" => call[u].uses \in Object
  BY <1>3 DEF Inv, CallInv
<1>5. \A u \in Thread : pc'[u] = "destroying" =>
         /\ call'[u].uses \in born' /\ held'[call'[u].uses] = {}
         /\ Instance' \in arcs'[call'[u].uses]
  BY <1>3, <1>4 DEF Inv, HeldInv, Instance
<1>6. \A u, v \in Thread :
         pc'[u] = "destroying" /\ pc'[v] = "destroying"
           /\ call'[u].uses = call'[v].uses => u = v
  BY <1>3 DEF Inv, HeldInv
<1> QED
  BY <1>1, <1>2, <1>5, <1>6 DEF HeldInv

\* Who holds an object, and what that keeps.
LEMMA HeldStep ==
  ASSUME Inv, [Next]_vars
  PROVE  HeldInv'
<1> USE BindingAssumption DEF Goto, TypeOK
<1>1. ASSUME NEW t \in Thread, NEW f \in Function,
             NEW o \in Object \cup {NoObject}, Invoke(t, f, o)
      PROVE  HeldInv'
  <2>1. call'[t].uses # NoObject => t \in held[call'[t].uses]
    BY <1>1 DEF Invoke, Inv, Idle
  <2> QED
    BY <1>1, <2>1, HeldFrame DEF Invoke, Inv
<1>2. ASSUME NEW t \in Thread, NEW o \in Object, Release(t, o)
      PROVE  HeldInv'
  <2>1. /\ held' = [held EXCEPT ![o] = @ \ {t}] /\ pc[t] = "idle"
        /\ UNCHANGED <<arcs, born>>
        /\ \A u \in Thread \ {t} : pc'[u] = pc[u] /\ call'[u] = call[u]
        /\ held[o] # {} /\ o \in born /\ Instance \in arcs[o]
    BY <1>2 DEF Release, Inv, HeldInv
  <2>2. \A p \in Object : held'[p] # {} => p \in born' /\ Instance' \in arcs'[p]
    BY <2>1 DEF Inv, HeldInv, Instance
  <2>3. pc'[t] \in {"idle", "destroying"}
    BY <1>2 DEF Release, Inv
  <2>4. \A u \in Thread : InCall(u)' /\ call'[u].uses # NoObject
                            => u \in held'[call'[u].uses]
    \* only the idle thread t lets go
    BY <2>1, <2>3 DEF Inv, HeldInv, InCall, Call
  <2>5. pc'[t] = "destroying" => call'[t].uses = o /\ held'[o] = {}
    BY <1>2, <2>1 DEF Release, Inv, Idle
  <2>6. \A u \in Thread \ {t} : pc'[u] = "destroying" =>
           call[u].uses \in Object /\ call[u].uses # o
    \* whoever runs the destructor of an object finds nobody holding it
    BY <2>1 DEF Inv, HeldInv, CallInv
  <2>7. \A u \in Thread : pc'[u] = "destroying" =>
           /\ call'[u].uses \in born' /\ held'[call'[u].uses] = {}
           /\ Instance' \in arcs'[call'[u].uses]
    BY ZenonT(40), <2>1, <2>5, <2>6 DEF Inv, HeldInv, Instance
  <2>8. \A u, v \in Thread :
           pc'[u] = "destroying" /\ pc'[v] = "destroying"
             /\ call'[u].uses = call'[v].uses => u = v
    BY <2>1, <2>5, <2>6 DEF Inv, HeldInv
  <2> QED
    BY <2>2, <2>4, <2>7, <2>8 DEF HeldInv
<1>3. ASSUME NEW t \in Thread, NEW u \in Thread, NEW o \in Object, Share(t, u, o)
      PROVE  HeldInv'
  <2>1. /\ held' = [held EXCEPT ![o] = @ \cup {u}] /\ held[o] # {}
        /\ UNCHANGED <<arcs, born, pc, call>>
    BY <1>3 DEF Share
  <2>2. \A p \in Object : held'[p] # {} => p \in born' /\ Instance' \in arcs'[p]
    BY <2>1 DEF Inv, HeldInv, Instance
  <2>3. \A v \in Thread : InCall(v)' /\ call'[v].uses # NoObject
                            => v \in held'[call'[v].uses]
    BY <2>1 DEF Inv, HeldInv, InCall, Call
  <2>4. \A v \in Thread : pc'[v] = "destroying" =>
           /\ call'[v].uses \in born' /\ held'[call'[v].uses] = {}
           /\ Instance' \in arcs'[call'[v].uses]
    BY <2>1 DEF Inv, HeldInv, CallInv, Instance
  <2> QED
    BY <2>1, <2>2, <2>3, <2>4 DEF HeldInv, Inv
<1>4. ASSUME NEW t \in Thread, Initialize(t)
      PROVE  HeldInv'
  BY <1>4, HeldFrame DEF Initialize, Inv, HeldInv, InCall
<1>5. ASSUME NEW t \in Thread, InitializeThrows(t)
      PROVE  HeldInv'
  BY <1>5, HeldFrame DEF InitializeThrows, Inv, InCall
<1>6. ASSUME NEW t \in Thread, CloneReceiver(t)
      PROVE  HeldInv'
  BY <1>6, HeldFrame DEF CloneReceiver, Clone, Inv, HeldInv, InCall
<1>7. ASSUME NEW t \in Thread, Lower(t)
      PROVE  HeldInv'
  BY <1>7, HeldFrame DEF Lower, Clone, Inv, HeldInv, InCall
<1>8. ASSUME NEW t \in Thread, LowerThrows(t)
      PROVE  HeldInv'
  BY <1>8, HeldFrame DEF LowerThrows, Clone, Inv, InCall
<1>9. ASSUME NEW t \in Thread, EnterRust(t)
      PROVE  HeldInv'
  BY <1>9, HeldFrame DEF EnterRust, Inv, HeldInv, InCall
<1>10. ASSUME NEW t \in Thread, LeaveRust(t)
       PROVE  HeldInv'
  BY <1>10, HeldFrame, OwnerTypes DEF LeaveRust, Free, Inv, HeldInv, InCall
<1>11. ASSUME NEW t \in Thread, LiftValue(t)
       PROVE  HeldInv'
  <2>1. /\ pc' = [pc EXCEPT ![t] = "idle"]
        /\ call' = [call EXCEPT ![t] = Idle] /\ UNCHANGED born
        /\ pc[t] = "returned"
    BY <1>11 DEF LiftValue
  <2>2. CASE call[t].made = NoObject
    BY <1>11, <2>1, <2>2, HeldFrame DEF LiftValue, Inv, InCall
  <2>3. CASE call[t].made # NoObject
    <3> DEFINE o == call[t].made
    <3>1. /\ o \in Object /\ o \in born /\ held[o] = {}
          /\ Instance \notin arcs[o]
      BY <2>3, OwnerTypes DEF Inv, CloneInv, Call
    <3>2. held' = [held EXCEPT ![o] = {t}]
          /\ arcs' = [arcs EXCEPT ![o] = (@ \ {This(t)}) \cup {Instance}]
      BY <1>11, <2>3 DEF LiftValue
    <3> HIDE DEF o
    <3>3. \A p \in Object : held'[p] # {} => p \in born' /\ Instance' \in arcs'[p]
      BY <2>1, <3>1, <3>2 DEF Inv, HeldInv, Instance
    <3>4. \A u \in Thread : InCall(u)' /\ call'[u].uses # NoObject
                              => u \in held'[call'[u].uses]
      BY <2>1, <3>1, <3>2 DEF Inv, HeldInv, InCall, Call
    <3>5. \A u \in Thread : pc'[u] = "destroying" =>
             /\ pc[u] = "destroying" /\ call'[u] = call[u]
             /\ call[u].uses \in Object /\ call[u].uses # o
      BY <2>1, <3>1 DEF Inv, HeldInv, CallInv
    <3>6. \A u \in Thread : pc'[u] = "destroying" =>
             /\ call'[u].uses \in born' /\ held'[call'[u].uses] = {}
             /\ Instance' \in arcs'[call'[u].uses]
      BY <2>1, <3>1, <3>2, <3>5 DEF Inv, HeldInv, Instance
    <3> QED
      BY <3>3, <3>4, <3>5, <3>6 DEF HeldInv, Inv
  <2> QED
    BY <2>2, <2>3
<1>12. ASSUME NEW t \in Thread, ThrowError(t) \/ CloneFails(t)
       PROVE  HeldInv'
  BY <1>12, HeldFrame DEF ThrowError, CloneFails, Inv, InCall
<1>13. ASSUME NEW t \in Thread, Destroy(t)
       PROVE  HeldInv'
  <2> DEFINE o == call[t].uses
  <2>1. /\ o \in Object /\ held[o] = {}
        /\ arcs' = [arcs EXCEPT ![o] = @ \ {Instance}]
        /\ pc[t] = "destroying" /\ UNCHANGED <<born, held>>
    BY <1>13 DEF Destroy, Free, Inv, HeldInv, CallInv
  <2>0. /\ pc'[t] \in {"idle", "terminated"}
        /\ \A u \in Thread \ {t} : pc'[u] = pc[u] /\ call'[u] = call[u]
    BY <1>13 DEF Destroy, Inv
  <2>2. \A u \in Thread : pc'[u] = "destroying" =>
           /\ pc[u] = "destroying" /\ call'[u] = call[u]
           /\ call[u].uses \in Object /\ call[u].uses # o
    \* one thread runs the destructor
    BY <2>0, <2>1 DEF Inv, HeldInv, CallInv
  <2> HIDE DEF o
  <2>3. \A p \in Object : held'[p] # {} => p \in born' /\ Instance' \in arcs'[p]
    BY <2>1 DEF Inv, HeldInv, Instance
  <2>4. \A u \in Thread : InCall(u)' /\ call'[u].uses # NoObject
                            => u \in held'[call'[u].uses]
    BY <2>0, <2>1 DEF Inv, HeldInv, InCall, Call
  <2>5. \A u \in Thread : pc'[u] = "destroying" =>
           /\ call'[u].uses \in born' /\ held'[call'[u].uses] = {}
           /\ Instance' \in arcs'[call'[u].uses]
    BY ZenonT(40), <2>1, <2>2 DEF Inv, HeldInv, Instance
  <2> QED
    BY <2>2, <2>3, <2>4, <2>5 DEF HeldInv, Inv
<1>14. ASSUME NEW t \in Thread, RustFails(t)
       PROVE  HeldInv'
  BY <1>14, HeldFrame DEF RustFails, Inv, HeldInv, InCall
<1>15. ASSUME NEW t \in Thread, NEW o \in Object \cup {NoObject}, RustReturns(t, o)
       PROVE  HeldInv'
  <2>1. /\ \A p \in Object : Instance \in arcs[p] => Instance \in arcs'[p]
        /\ born \subseteq born'
    BY <1>15 DEF RustReturns, Clone, Inv
  <2>2. /\ UNCHANGED held /\ pc[t] = "inside"
        /\ pc' = [pc EXCEPT ![t] = "leaving"]
        /\ call'[t].uses = call[t].uses
        /\ \A u \in Thread \ {t} : call'[u] = call[u]
    BY <1>15 DEF RustReturns, Inv, Call
  <2> QED
    BY <2>1, <2>2, HeldFrame DEF Inv, HeldInv, InCall
<1>16. CASE UNCHANGED vars
  BY <1>16 DEF vars, HeldInv, Inv, InCall, Instance
<1> QED
  BY <1>1, <1>2, <1>3, <1>4, <1>5, <1>6, <1>7, <1>8, <1>9, <1>10, <1>11,
     <1>12, <1>13, <1>14, <1>15, <1>16
  DEF Next, Program, Step, Library

\* An object that a call has just made is nobody's yet.
LEMMA MadeIsApart ==
  ASSUME Inv, NEW u \in Thread, call[u].made # NoObject
  PROVE  /\ call[u].made \in Object /\ call[u].made \in born
         /\ held[call[u].made] = {} /\ arcs[call[u].made] = {This(u)}
         /\ \A t \in Thread : InCall(t) \/ pc[t] = "destroying"
                                => call[t].uses # call[u].made
         /\ \A t \in Thread \ {u} : call[t].made # call[u].made
<1>1. /\ call[u].made \in Object /\ call[u].made \in born
      /\ held[call[u].made] = {} /\ arcs[call[u].made] = {This(u)}
  BY DEF Inv, CloneInv, TypeOK, Call
<1>0. call[u].made # NoObject
  BY <1>1, BindingAssumption
<1>2. \A t \in Thread : InCall(t) => call[t].uses # call[u].made
  BY <1>0, <1>1 DEF Inv, HeldInv
<1>3. \A t \in Thread : pc[t] = "destroying" => call[t].uses # call[u].made
  BY <1>1, OwnerTypes DEF Inv, HeldInv
<1>4. \A t \in Thread \ {u} : call[t].made # call[u].made
  <2> SUFFICES ASSUME NEW t \in Thread, call[t].made = call[u].made
               PROVE  t = u
    OBVIOUS
  <2>1. This(t) \in arcs[call[t].made]
    BY <1>0 DEF Inv, CloneInv
  <2>2. This(t) = This(u)
    BY <1>1, <2>1
  <2> QED
    BY <2>2 DEF This
<1> QED
  BY <1>1, <1>2, <1>3, <1>4

\* The object of a call exists, beside those that are just being made.
LEMMA UsedIsHeld ==
  ASSUME Inv, NEW t \in Thread, InCall(t), call[t].uses # NoObject
  PROVE  /\ call[t].uses \in Object /\ call[t].uses \in born
         /\ held[call[t].uses] # {} /\ Instance \in arcs[call[t].uses]
BY DEF Inv, HeldInv, TypeOK, Call

\* A step of thread t adds its own clone only while it counts, and leaves the
\* clones of other threads and the objects just made alone.
LEMMA CloneFrame ==
  ASSUME Inv, NEW t \in Thread, lost \subseteq lost', born \subseteq born',
         \A u \in Thread \ {t} :
            pc'[u] = pc[u] /\ call'[u] = call[u] /\ calls'[u] = calls[u],
         \A o \in Object : \A w \in arcs'[o] :
            \/ w \in arcs[o] \/ w = Instance \/ w \in lost'
            \/ w = This(t)' /\ Counts(t, o)',
         \A o \in Object : Counts(t, o) =>
            \/ This(t) \in lost' \/ This(t) \notin arcs'[o]
            \/ Counts(t, o)' /\ This(t)' = This(t),
         \A o \in Object : Counts(t, o)' => This(t)' \in arcs'[o],
         \A o \in Object : \A u \in Thread \ {t} :
            This(u) \in arcs[o] => This(u) \in arcs'[o],
         \A o \in Object \ born' : arcs'[o] = arcs[o],
         \A u \in Thread \ {t} : call[u].made # NoObject =>
            /\ arcs'[call[u].made] = arcs[call[u].made]
            /\ held'[call[u].made] = held[call[u].made],
         call'[t].made # NoObject =>
            /\ call'[t].made \in born' /\ held'[call'[t].made] = {}
            /\ arcs'[call'[t].made] = {This(t)'}
  PROVE  CloneInv'
<1>1. \A u \in Thread \ {t} : This(u)' = This(u)
                              /\ \A o \in Object : Counts(u, o)' <=> Counts(u, o)
  BY DEF This, Counts, HasClone, Sig
<1>2. \A o \in Object : \A w \in arcs'[o] :
         \/ w = Instance'
         \/ w \in lost'
         \/ \E u \in Thread : w = This(u)' /\ Counts(u, o)'
  <2> SUFFICES ASSUME NEW o \in Object, NEW w \in arcs'[o], w # Instance,
                      w \notin lost'
               PROVE  \E u \in Thread : w = This(u)' /\ Counts(u, o)'
    BY DEF Instance
  <2>1. CASE w = This(t)' /\ Counts(t, o)'
    BY <2>1
  <2>2. CASE w \in arcs[o]
    <3>1. PICK u \in Thread : w = This(u) /\ Counts(u, o)
      BY <2>2 DEF Inv, CloneInv
    <3> QED
      BY <1>1, <3>1
  <2> QED
    BY <2>1, <2>2
<1>3. \A u \in Thread, o \in Object : Counts(u, o)' => This(u)' \in arcs'[o]
  BY <1>1 DEF Inv, CloneInv
<1>4. \A o \in Object \ born' : arcs'[o] = {}
  BY DEF Inv, CloneInv
<1>5. \A u \in Thread : call'[u].made # NoObject =>
         /\ call'[u].made \in born' /\ held'[call'[u].made] = {}
         /\ arcs'[call'[u].made] = {This(u)'}
  BY <1>1 DEF Inv, CloneInv
<1> QED
  BY <1>2, <1>3, <1>4, <1>5 DEF CloneInv

\* Who counts for an object.
LEMMA CloneStep ==
  ASSUME Inv, [Next]_vars
  PROVE  CloneInv'
<1> USE BindingAssumption DEF Goto, TypeOK
<1>0. \A t \in Thread, o \in Object :
        pc[t] \in {"idle", "terminated", "destroying"} => ~Counts(t, o)
  BY DEF Inv, CallInv, Counts, HasClone, Idle, Panicked
<1>1. ASSUME NEW t \in Thread, NEW f \in Function,
             NEW o \in Object \cup {NoObject}, Invoke(t, f, o)
      PROVE  CloneInv'
  <2>1. /\ pc[t] = "idle" /\ pc'[t] \in {"cloning", "lowering"}
        /\ call'[t] = [Idle EXCEPT !.fn = f, !.uses = o]
        /\ pc'[t] = "lowering" => ~Api[f].method
        /\ UNCHANGED <<arcs, born, held, lost>>
        /\ \A u \in Thread \ {t} : pc'[u] = pc[u] /\ call'[u] = call[u]
                                   /\ calls'[u] = calls[u]
    BY <1>1 DEF Invoke, Inv
  <2>2. \A p \in Object : ~Counts(t, p)'
    BY <2>1 DEF Counts, HasClone, Sig, Idle
  <2>3. call'[t].made = NoObject
    BY <2>1 DEF Idle
  <2> QED
    BY <1>0, <2>1, <2>2, <2>3, CloneFrame
<1>2. ASSUME NEW t \in Thread, NEW o \in Object, Release(t, o)
      PROVE  CloneInv'
  <2>1. /\ pc[t] = "idle" /\ pc'[t] \in {"idle", "destroying"}
        /\ call'[t].made = NoObject /\ t \in held[o]
        /\ held' = [held EXCEPT ![o] = @ \ {t}]
        /\ UNCHANGED <<arcs, born, lost, calls>>
        /\ \A u \in Thread \ {t} : pc'[u] = pc[u] /\ call'[u] = call[u]
    BY <1>2 DEF Release, Inv, Idle, CallInv
  <2>2. \A p \in Object : ~Counts(t, p)'
    BY <2>1 DEF Counts, HasClone
  <2>3. \A u \in Thread \ {t} : call[u].made # NoObject => call[u].made # o
    BY <2>1, MadeIsApart
  <2> QED
    BY <1>0, <2>1, <2>2, <2>3, CloneFrame DEF Inv
<1>3. ASSUME NEW t \in Thread, NEW u \in Thread, NEW o \in Object, Share(t, u, o)
      PROVE  CloneInv'
  <2>1. /\ held' = [held EXCEPT ![o] = @ \cup {u}] /\ t \in held[o]
        /\ UNCHANGED <<arcs, born, lost, pc, call, calls>>
    BY <1>3 DEF Share
  <2>2. \A v \in Thread : call[v].made # NoObject => call[v].made # o
    BY <2>1, MadeIsApart
  <2>3. \A v \in Thread, p \in Object :
          (Counts(v, p)' <=> Counts(v, p)) /\ This(v)' = This(v)
    BY <2>1 DEF Counts, HasClone, Sig, This
  <2> QED
    BY <2>1, <2>2, <2>3 DEF Inv, CloneInv, Instance
<1>4. ASSUME NEW t \in Thread, Initialize(t)
      PROVE  CloneInv'
  BY <1>4 DEF Initialize, Inv, CloneInv, Counts, HasClone, Sig, This, Instance
<1>5. ASSUME NEW t \in Thread, InitializeThrows(t)
      PROVE  CloneInv'
  \* nothing exists yet
  <2>1. born = {} /\ \A o \in Object : arcs[o] = {}
    BY <1>5 DEF InitializeThrows, Inv, OnceInv, CloneInv
  <2>2. \A u \in Thread : call[u].made = NoObject
    BY <2>1 DEF Inv, CloneInv
  <2>3. \A u \in Thread, o \in Object : ~Counts(u, o)
    BY <2>1 DEF Inv, CloneInv
  <2>4. /\ call'[t] = Idle /\ UNCHANGED <<arcs, born, held, calls>>
        /\ lost \subseteq lost'
        /\ \A u \in Thread \ {t} : pc'[u] = pc[u] /\ call'[u] = call[u]
    BY <1>5 DEF InitializeThrows, Inv
  <2>5. \A o \in Object : ~Counts(t, o)'
    BY <2>4 DEF Counts, Idle, HasClone, InitializeThrows
  <2>6. call'[t].made = NoObject
    BY <2>4 DEF Idle
  <2> QED
    BY <2>1, <2>3, <2>4, <2>5, <2>6, CloneFrame
<1>6. ASSUME NEW t \in Thread, CloneReceiver(t)
      PROVE  CloneInv'
  <2> DEFINE o == call[t].uses
  <2>1. /\ pc[t] = "cloning" /\ InCall(t) /\ o # NoObject /\ Sig(t).method
        /\ call[t].made = NoObject
    BY <1>6 DEF CloneReceiver, Inv, CallInv, InCall
  <2>2. /\ arcs' = [arcs EXCEPT ![o] = @ \cup {This(t)}]
        /\ pc' = [pc EXCEPT ![t] = "lowering"]
        /\ UNCHANGED <<born, held, call, calls, lost>>
    BY <1>6 DEF CloneReceiver, Clone
  <2>3. /\ This(t)' = This(t)
        /\ \A p \in Object : Counts(t, p)' <=> p = o
        /\ \A p \in Object : ~Counts(t, p)
    BY <2>1, <2>2 DEF This, Counts, HasClone, Sig, Inv
  <2>4. \A u \in Thread \ {t} : call[u].made # NoObject => call[u].made # o
    BY <2>1, MadeIsApart
  <2>5. o \in Object /\ o \in born
    BY <2>1, UsedIsHeld
  <2> HIDE DEF o
  <2> QED
    BY <2>1, <2>2, <2>3, <2>4, <2>5, CloneFrame DEF Inv
<1>7. ASSUME NEW t \in Thread, Lower(t)
      PROVE  CloneInv'
  <2> DEFINE o == call[t].uses
  <2>1. /\ pc[t] = "lowering" /\ InCall(t) /\ call[t].made = NoObject
        /\ pc' = [pc EXCEPT ![t] = "calling"]
        /\ UNCHANGED <<born, held, call, calls, lost>>
        /\ IF o # NoObject /\ ~Sig(t).method
           THEN arcs' = [arcs EXCEPT ![o] = @ \cup {This(t)}]
           ELSE UNCHANGED arcs
    BY <1>7 DEF Lower, PassesObject, Clone, Inv, CallInv, InCall
  <2>2. /\ This(t)' = This(t)
        /\ \A p \in Object : Counts(t, p)' <=> p = o
        /\ \A p \in Object : Counts(t, p) <=> p = o /\ Sig(t).method
    BY <2>1 DEF This, Counts, HasClone, Sig, Inv
  <2>3. \A p \in Object : p = o /\ Sig(t).method => This(t) \in arcs[p]
    BY <2>2 DEF Inv, CloneInv
  <2>4. \A u \in Thread \ {t} : call[u].made # NoObject => call[u].made # o
    BY <2>1, MadeIsApart
  <2>5. o # NoObject => o \in Object /\ o \in born
    BY <2>1, UsedIsHeld
  <2>6. \A u \in Thread \ {t} : pc'[u] = pc[u]
    BY <2>1 DEF Inv
  <2> HIDE DEF o
  <2>7. CASE o # NoObject /\ ~Sig(t).method
    <3>1. \A p \in Object : p # o => arcs'[p] = arcs[p]
      BY <2>1, <2>5, <2>7 DEF Inv
    <3>2. \A p \in Object : p = o => arcs'[p] = arcs[p] \cup {This(t)}
      BY <2>1, <2>5, <2>7 DEF Inv
    <3>3. \A p \in Object : \A w \in arcs'[p] :
             w \in arcs[p] \/ (w = This(t)' /\ Counts(t, p)')
      BY <2>2, <3>1, <3>2
    <3>4. \A p \in Object : ~Counts(t, p)
      BY <2>2, <2>7
    <3>5. \A p \in Object : Counts(t, p)' => This(t)' \in arcs'[p]
      BY <2>2, <3>2
    <3>6. \A p \in Object : \A u \in Thread \ {t} :
             This(u) \in arcs[p] => This(u) \in arcs'[p]
      BY <3>1, <3>2
    <3>7. \A p \in Object \ born' : arcs'[p] = arcs[p]
      BY <2>1, <2>5, <3>1
    <3>8. \A u \in Thread \ {t} : call[u].made # NoObject =>
             arcs'[call[u].made] = arcs[call[u].made]
      BY <2>4, <3>1, MadeIsApart
    <3> QED
      BY <2>1, <2>6, <3>3, <3>4, <3>5, <3>6, <3>7, <3>8, CloneFrame
  <2>8. CASE ~(o # NoObject /\ ~Sig(t).method)
    BY <2>1, <2>2, <2>3, <2>6, <2>8, CloneFrame DEF Inv
  <2> QED
    BY <2>7, <2>8
<1>8. ASSUME NEW t \in Thread, LowerThrows(t)
      PROVE  CloneInv'
  <2> DEFINE o == call[t].uses
  <2>1. /\ pc[t] = "lowering" /\ InCall(t)
        /\ pc' = [pc EXCEPT ![t] = "idle"]
        /\ call' = [call EXCEPT ![t] = Idle] /\ lost' = lost \cup {This(t)}
        /\ UNCHANGED <<born, held, calls>>
        /\ \/ UNCHANGED arcs
           \/ o # NoObject /\ arcs' = [arcs EXCEPT ![o] = @ \cup {This(t)}]
    BY <1>8 DEF LowerThrows, PassesObject, Clone, InCall
  <2>2. /\ \A p \in Object : ~Counts(t, p)'
        /\ call'[t].made = NoObject
    BY <2>1 DEF Counts, HasClone, Idle, Inv
  <2>3. \A u \in Thread \ {t} : call[u].made # NoObject => call[u].made # o
    BY <2>1, MadeIsApart
  <2>4. o # NoObject => o \in Object /\ o \in born
    BY <2>1, UsedIsHeld
  <2>5. \A u \in Thread \ {t} : pc'[u] = pc[u] /\ call'[u] = call[u]
    BY <2>1 DEF Inv
  <2> HIDE DEF o
  <2>6. \A p \in Object : arcs[p] \subseteq arcs'[p]
                          /\ arcs'[p] \subseteq arcs[p] \cup {This(t)}
    BY <2>1, <2>4 DEF Inv
  <2>7. \A p \in Object \ born' : arcs'[p] = arcs[p]
    BY <2>1, <2>4 DEF Inv
  <2>8. \A u \in Thread \ {t} :
           call[u].made # NoObject => arcs'[call[u].made] = arcs[call[u].made]
    BY <2>1, <2>3, <2>4, MadeIsApart DEF Inv
  <2> QED
    BY <2>1, <2>2, <2>5, <2>6, <2>7, <2>8, CloneFrame
<1>9. ASSUME NEW t \in Thread, EnterRust(t)
      PROVE  CloneInv'
  <2>1. /\ pc[t] = "calling" /\ pc' = [pc EXCEPT ![t] = "inside"]
        /\ call[t].made = NoObject
        /\ UNCHANGED <<arcs, born, held, call, calls, lost>>
    BY <1>9 DEF EnterRust, Inv, CallInv
  <2>2. \A u \in Thread, p \in Object :
          (Counts(u, p)' <=> Counts(u, p)) /\ This(u)' = This(u)
    BY <2>1 DEF Counts, HasClone, Sig, This, Inv
  <2> QED
    BY <2>1, <2>2 DEF Inv, CloneInv, Instance
<1>10. ASSUME NEW t \in Thread, LeaveRust(t)
       PROVE  CloneInv'
  <2> DEFINE o == call[t].uses
  <2>1. /\ pc[t] = "leaving" /\ InCall(t)
        /\ pc' = [pc EXCEPT ![t] = "returned"]
        /\ UNCHANGED <<born, held, call, calls, lost>>
        /\ IF o # NoObject
           THEN arcs' = [arcs EXCEPT ![o] = @ \ {This(t)}]
           ELSE UNCHANGED arcs
    BY <1>10 DEF LeaveRust, Free, InCall
  <2>2. /\ This(t)' = This(t)
        /\ \A p \in Object : Counts(t, p)' <=> p = call[t].made
        /\ \A p \in Object : Counts(t, p) <=> p = o \/ p = call[t].made
    BY <2>1 DEF This, Counts, HasClone, Sig, Inv
  <2>3. \A u \in Thread : call[u].made # NoObject => call[u].made # o
    BY <2>1, MadeIsApart
  <2>4. o # NoObject => o \in Object /\ o \in born
    BY <2>1, UsedIsHeld
  <2>5. \A u \in Thread \ {t} : pc'[u] = pc[u] /\ This(u) # This(t)
    BY <2>1 DEF Inv, This
  <2>6. \A u \in Thread : call[u].made # NoObject =>
           /\ call[u].made \in Object /\ call[u].made \in born
           /\ held[call[u].made] = {} /\ arcs[call[u].made] = {This(u)}
    BY MadeIsApart
  <2> HIDE DEF o
  <2>7. \A p \in Object : p # o => arcs'[p] = arcs[p]
    BY <2>1, <2>4 DEF Inv
  <2>8. \A p \in Object : p = o => arcs'[p] = arcs[p] \ {This(t)}
    BY <2>1, <2>4 DEF Inv
  <2>9. \A u \in Thread : call[u].made # NoObject =>
           arcs'[call[u].made] = {This(u)}
    BY <2>3, <2>6, <2>7
  <2>10. \A p \in Object : arcs'[p] \subseteq arcs[p]
    BY <2>7, <2>8
  <2>11. \A p \in Object : Counts(t, p) =>
            This(t) \notin arcs'[p] \/ Counts(t, p)'
    BY <2>2, <2>8
  <2>12. \A p \in Object : Counts(t, p)' => This(t) \in arcs'[p]
    BY <2>2, <2>9, BindingAssumption
  <2>13. \A p \in Object : \A u \in Thread \ {t} :
            This(u) \in arcs[p] => This(u) \in arcs'[p]
    BY <2>5, <2>7, <2>8
  <2>14. \A p \in Object \ born' : arcs'[p] = arcs[p]
    BY <2>1, <2>4, <2>7, BindingAssumption
  <2>15. \A u \in Thread \ {t} : call[u].made # NoObject =>
            /\ arcs'[call[u].made] = arcs[call[u].made]
            /\ held'[call[u].made] = held[call[u].made]
    BY <2>1, <2>6, <2>9
  <2>16. call'[t].made # NoObject =>
            /\ call'[t].made \in born' /\ held'[call'[t].made] = {}
            /\ arcs'[call'[t].made] = {This(t)'}
    BY <2>1, <2>2, <2>6, <2>9
  <2>17. \A p \in Object : \A w \in arcs'[p] : w \in arcs[p]
    BY <2>10
  <2>18. \A u \in Thread \ {t} :
            pc'[u] = pc[u] /\ call'[u] = call[u] /\ calls'[u] = calls[u]
    BY <2>1, <2>5
  <2>19. /\ lost \subseteq lost' /\ born \subseteq born'
         /\ \A p \in Object : Counts(t, p)' => This(t)' \in arcs'[p]
    BY <2>1, <2>2, <2>12
  <2>20. \A p \in Object : Counts(t, p) =>
            \/ This(t) \in lost' \/ This(t) \notin arcs'[p]
            \/ Counts(t, p)' /\ This(t)' = This(t)
    BY <2>2, <2>11
  <2> QED
    BY <2>13, <2>14, <2>15, <2>16, <2>17, <2>18, <2>19, <2>20, CloneFrame
<1>11. ASSUME NEW t \in Thread, LiftValue(t)
       PROVE  CloneInv'
  <2> DEFINE o == call[t].made
  <2>1. /\ pc[t] = "returned" /\ pc' = [pc EXCEPT ![t] = "idle"]
        /\ call' = [call EXCEPT ![t] = Idle]
        /\ UNCHANGED <<born, calls, lost>>
        /\ IF o # NoObject
           THEN /\ arcs' = [arcs EXCEPT ![o] = (@ \ {This(t)}) \cup {Instance}]
                /\ held' = [held EXCEPT ![o] = {t}]
           ELSE UNCHANGED <<arcs, held>>
    BY <1>11 DEF LiftValue
  <2>2. /\ \A p \in Object : ~Counts(t, p)'
        /\ \A p \in Object : Counts(t, p) <=> p = o
        /\ call'[t].made = NoObject
    BY <2>1 DEF Counts, HasClone, Idle, Inv
  <2>3. \A u \in Thread \ {t} : call[u].made # NoObject =>
           call[u].made # o /\ call[u].made \in Object
    BY MadeIsApart
  <2>4. o # NoObject => o \in Object /\ o \in born /\ arcs[o] = {This(t)}
    BY MadeIsApart
  <2>5. \A u \in Thread \ {t} : /\ pc'[u] = pc[u] /\ call'[u] = call[u]
                                /\ This(u) # This(t)
    BY <2>1 DEF Inv, This
  <2>6. This(t) # Instance
    BY OwnerTypes DEF Inv
  <2> HIDE DEF o
  <2>7. \A p \in Object : p # o => arcs'[p] = arcs[p] /\ held'[p] = held[p]
    BY <2>1, <2>4 DEF Inv
  <2>8. \A p \in Object : p = o => arcs'[p] = {Instance}
    BY <2>1, <2>4 DEF Inv
  <2> QED
    BY <2>1, <2>2, <2>3, <2>4, <2>5, <2>6, <2>7, <2>8, CloneFrame
<1>12. ASSUME NEW t \in Thread, ThrowError(t) \/ CloneFails(t)
       PROVE  CloneInv'
  <2>1. /\ pc[t] \in {"returned", "cloning"} /\ pc' = [pc EXCEPT ![t] = "idle"]
        /\ call' = [call EXCEPT ![t] = Idle] /\ call[t].made = NoObject
        /\ UNCHANGED <<arcs, born, held, calls, lost>>
    BY <1>12 DEF ThrowError, CloneFails, Inv, CallInv
  <2>2. /\ \A p \in Object : ~Counts(t, p)' /\ ~Counts(t, p)
        /\ call'[t].made = NoObject
    BY <2>1 DEF Counts, HasClone, Idle, Inv
  <2>3. \A u \in Thread \ {t} : pc'[u] = pc[u] /\ call'[u] = call[u]
    BY <2>1 DEF Inv
  <2> QED
    BY <2>1, <2>2, <2>3, CloneFrame
<1>13. ASSUME NEW t \in Thread, Destroy(t)
       PROVE  CloneInv'
  <2> DEFINE o == call[t].uses
  <2>1. /\ pc[t] = "destroying" /\ pc'[t] \in {"idle", "terminated"}
        /\ call'[t] \in {Idle, Panicked}
        /\ arcs' = [arcs EXCEPT ![o] = @ \ {Instance}]
        /\ UNCHANGED <<born, held, calls, lost>>
        /\ \A u \in Thread \ {t} : pc'[u] = pc[u] /\ call'[u] = call[u]
    BY <1>13 DEF Destroy, Free, Inv
  <2>2. \A p \in Object : ~Counts(t, p)'
    BY <2>1 DEF Counts, HasClone, Idle, Panicked
  <2>3. \A u \in Thread \ {t} : call[u].made # NoObject =>
           call[u].made # o /\ call[u].made \in Object
    BY <2>1, MadeIsApart
  <2>4. o \in Object /\ o \in born
    BY <2>1 DEF Inv, CallInv, HeldInv
  <2>5. \A u \in Thread : This(u) # Instance
    BY OwnerTypes DEF Inv
  <2>6. call'[t].made = NoObject
    BY <2>1 DEF Idle, Panicked
  <2> HIDE DEF o
  <2>7. \A p \in Object : p # o => arcs'[p] = arcs[p]
    BY <2>1, <2>4 DEF Inv
  <2>8. \A p \in Object : p = o => arcs'[p] = arcs[p] \ {Instance}
    BY <2>1, <2>4 DEF Inv
  <2> QED
    BY <1>0, <2>1, <2>2, <2>3, <2>4, <2>5, <2>6, <2>7, <2>8, CloneFrame
<1>14. ASSUME NEW t \in Thread, RustFails(t)
       PROVE  CloneInv'
  <2>1. /\ pc[t] = "inside" /\ pc' = [pc EXCEPT ![t] = "leaving"]
        /\ UNCHANGED <<arcs, born, held, calls, lost>>
        /\ call[t].made = NoObject
        /\ \E r \in {"error", "panic"} : call' = [call EXCEPT ![t].reply = r]
    BY <1>14 DEF RustFails, Inv, CallInv
  <2>2. \A u \in Thread : /\ call'[u].fn = call[u].fn
                          /\ call'[u].uses = call[u].uses
                          /\ call'[u].made = call[u].made
    BY <2>1 DEF Inv, Call
  <2>3. \A u \in Thread, p \in Object :
          (Counts(u, p)' <=> Counts(u, p)) /\ This(u)' = This(u)
    BY <2>1, <2>2 DEF Counts, HasClone, Sig, This, Inv
  <2> QED
    BY <2>1, <2>2, <2>3 DEF Inv, CloneInv, Instance
<1>15. ASSUME NEW t \in Thread, NEW o \in Object \cup {NoObject}, RustReturns(t, o)
       PROVE  CloneInv'
  <2>1. /\ pc[t] = "inside" /\ pc' = [pc EXCEPT ![t] = "leaving"]
        /\ call[t].made = NoObject
        /\ call'[t].uses = call[t].uses /\ call'[t].made = o
        /\ UNCHANGED <<held, calls, lost>>
        /\ \A u \in Thread \ {t} : pc'[u] = pc[u] /\ call'[u] = call[u]
    BY <1>15 DEF RustReturns, Inv, CallInv, Call
  <2>2. /\ This(t)' = This(t)
        /\ \A p \in Object : Counts(t, p)' <=> p = call[t].uses \/ p = o
        /\ \A p \in Object : Counts(t, p) <=> p = call[t].uses
    BY <2>1 DEF This, Counts, HasClone, Sig, Inv
  <2>3. CASE o = NoObject
    <3>1. UNCHANGED <<arcs, born>>
      BY <1>15, <2>3 DEF RustReturns
    <3> QED
      BY <2>1, <2>2, <2>3, <3>1, CloneFrame DEF Inv, CloneInv
  <2>4. CASE o # NoObject
    <3>1. /\ o \in Object \ born /\ born' = born \cup {o}
          /\ arcs' = [arcs EXCEPT ![o] = @ \cup {This(t)}]
      BY <1>15, <2>4 DEF RustReturns, Clone
    <3>2. arcs[o] = {} /\ held[o] = {}
      BY <3>1 DEF Inv, CloneInv, HeldInv
    <3>3. \A p \in Object : p # o => arcs'[p] = arcs[p]
      BY <3>1 DEF Inv
    <3>4. arcs'[o] = {This(t)}
      BY <3>1, <3>2 DEF Inv
    <3>5. \A u \in Thread \ {t} : call[u].made # NoObject =>
             call[u].made # o /\ call[u].made \in Object
      BY <3>1, MadeIsApart
    <3>6. \A p \in Object : p = call[t].uses => This(t) \in arcs[p]
      BY <2>2 DEF Inv, CloneInv
    <3>7. \A p \in Object \ born' : arcs'[p] = arcs[p]
      BY <3>1, <3>3
    <3>8. born \subseteq born' /\ o \in born'
      BY <3>1
    <3>9. \A p \in Object : \A w \in arcs'[p] :
             w \in arcs[p] \/ (w = This(t)' /\ Counts(t, p)')
      BY <2>2, <3>3, <3>4
    <3>10. \A p \in Object : Counts(t, p)' => This(t)' \in arcs'[p]
      BY <2>2, <3>3, <3>4, <3>6
    <3>11. \A p \in Object : \A u \in Thread \ {t} :
              This(u) \in arcs[p] => This(u) \in arcs'[p]
      BY <3>2, <3>3
    <3> QED
      BY <2>1, <2>2, <3>2, <3>3, <3>4, <3>5, <3>7, <3>8, <3>9, <3>10, <3>11,
         CloneFrame
  <2> QED
    BY <2>3, <2>4
<1>16. CASE UNCHANGED vars
  BY <1>16 DEF vars, Inv, CloneInv, Counts, HasClone, Sig, This, Instance
<1> QED
  BY <1>1, <1>2, <1>3, <1>4, <1>5, <1>6, <1>7, <1>8, <1>9, <1>10, <1>11,
     <1>12, <1>13, <1>14, <1>15, <1>16
  DEF Next, Program, Step, Library

\* A step of thread t brings a buffer that belongs to t, and takes away those
\* that no longer do.
LEMMA BufferFrame ==
  ASSUME Inv, NEW t \in Thread, lost \subseteq lost',
         \A u \in Thread \ {t} :
            pc'[u] = pc[u] /\ call'[u] = call[u] /\ calls'[u] = calls[u],
         \A b \in buffers' : b \in buffers \/ b[1] \in lost' \/ Owns(t, b)',
         \A b \in buffers' : b \in buffers /\ Owns(t, b) =>
            b[1] \in lost' \/ Owns(t, b)'
  PROVE  BufferInv'
<1>1. \A u \in Thread \ {t} : \A b : Owns(u, b) => Owns(u, b)'
  BY DEF Owns, This
<1> SUFFICES ASSUME NEW b \in buffers', b[1] \notin lost'
             PROVE  \E u \in Thread : Owns(u, b)'
  BY DEF BufferInv
<1>2. CASE b \in buffers
  <2>1. PICK u \in Thread : Owns(u, b)
    BY <1>2 DEF Inv, BufferInv
  <2> QED
    BY <1>1, <1>2, <2>1
<1>3. CASE Owns(t, b)'
  BY <1>3
<1> QED
  BY <1>2, <1>3

\* A buffer is its call and its kind, and is one of no thread outside a call.
LEMMA BufferIsOfACall ==
  ASSUME TypeOK, NEW b \in buffers
  PROVE  /\ b = <<b[1], b[2]>> /\ b[2] \in {"arguments", "value", "error"}
         /\ \A t \in Thread :
              /\ b[1] = This(t) => b = MyBuffer(t, b[2])
              /\ Owns(t, b) => pc[t] \in {"calling", "leaving", "returned"}
<1>1. b = <<b[1], b[2]>> /\ b[2] \in {"arguments", "value", "error"}
  BY DEF TypeOK, Buffer
<1> QED
  BY <1>1 DEF MyBuffer, Owns

\* Every buffer stays accounted for.
LEMMA BufferStep ==
  ASSUME Inv, [Next]_vars
  PROVE  BufferInv'
<1> USE DEF Goto
<1>0. /\ TypeOK
      /\ pc \in [Thread -> {"idle", "cloning", "lowering", "calling", "inside",
                            "leaving", "returned", "destroying", "terminated"}]
      /\ call \in [Thread -> Call] /\ calls \in [Thread -> 0..MaxCalls]
  BY DEF Inv, TypeOK
<1>1. ASSUME NEW t \in Thread, NEW f \in Function,
             NEW o \in Object \cup {NoObject}, Invoke(t, f, o)
      PROVE  BufferInv'
  <2>1. /\ UNCHANGED buffers /\ lost \subseteq lost'
        /\ pc[t] \notin {"calling", "leaving", "returned"}
        /\ \A u \in Thread \ {t} :
             pc'[u] = pc[u] /\ call'[u] = call[u] /\ calls'[u] = calls[u]
    BY <1>0, <1>1 DEF Invoke
  <2> QED
    BY <1>0, <2>1, BufferFrame, BufferIsOfACall
<1>2. ASSUME NEW t \in Thread, NEW o \in Object, Release(t, o)
      PROVE  BufferInv'
  <2>1. /\ UNCHANGED buffers /\ lost \subseteq lost'
        /\ pc[t] \notin {"calling", "leaving", "returned"}
        /\ \A u \in Thread \ {t} :
             pc'[u] = pc[u] /\ call'[u] = call[u] /\ calls'[u] = calls[u]
    BY <1>0, <1>2 DEF Release
  <2> QED
    BY <1>0, <2>1, BufferFrame, BufferIsOfACall
<1>3. ASSUME NEW t \in Thread, NEW u \in Thread, NEW o \in Object, Share(t, u, o)
      PROVE  BufferInv'
  BY <1>3 DEF Share, Inv, BufferInv, Owns, This
<1>4. ASSUME NEW t \in Thread, Initialize(t)
      PROVE  BufferInv'
  BY <1>4 DEF Initialize, Inv, BufferInv, Owns, This
<1>5. ASSUME NEW t \in Thread, InitializeThrows(t)
      PROVE  BufferInv'
  <2>1. /\ UNCHANGED buffers /\ lost \subseteq lost'
        /\ pc[t] = "calling" => This(t) \in lost'
        /\ pc[t] \notin {"leaving", "returned"}
        /\ \A u \in Thread \ {t} :
             pc'[u] = pc[u] /\ call'[u] = call[u] /\ calls'[u] = calls[u]
    BY <1>0, <1>5 DEF InitializeThrows, AtRustCall
  <2>2. \A b \in buffers' : b \in buffers /\ Owns(t, b) => b[1] \in lost'
    BY <1>0, <2>1, BufferIsOfACall DEF Owns
  <2> QED
    BY <2>1, <2>2, BufferFrame
<1>6. ASSUME NEW t \in Thread, CloneReceiver(t) \/ CloneFails(t)
      PROVE  BufferInv'
  <2>1. /\ UNCHANGED buffers /\ lost \subseteq lost'
        /\ pc[t] \notin {"calling", "leaving", "returned"}
        /\ \A u \in Thread \ {t} :
             pc'[u] = pc[u] /\ call'[u] = call[u] /\ calls'[u] = calls[u]
    BY <1>0, <1>6 DEF CloneReceiver, CloneFails
  <2> QED
    BY <1>0, <2>1, BufferFrame, BufferIsOfACall
<1>7. ASSUME NEW t \in Thread, Lower(t)
      PROVE  BufferInv'
  <2>1. /\ pc[t] = "lowering" /\ pc'[t] = "calling" /\ UNCHANGED lost
        /\ buffers' \subseteq buffers \cup {MyBuffer(t, "arguments")}
        /\ \A u \in Thread \ {t} :
             pc'[u] = pc[u] /\ call'[u] = call[u] /\ calls'[u] = calls[u]
        /\ This(t)' = This(t)
    BY <1>0, <1>7 DEF Lower, This
  <2>2. Owns(t, MyBuffer(t, "arguments"))'
    BY <2>1 DEF Owns, MyBuffer
  <2>3. \A b \in buffers : ~Owns(t, b)
    BY <1>0, <2>1, BufferIsOfACall
  <2>4. \A b \in buffers' : b \in buffers \/ b = MyBuffer(t, "arguments")'
    BY <2>1 DEF MyBuffer
  <2> QED
    BY <2>1, <2>2, <2>3, <2>4, BufferFrame
<1>8. ASSUME NEW t \in Thread, LowerThrows(t)
      PROVE  BufferInv'
  <2>1. /\ pc[t] = "lowering" /\ lost' = lost \cup {This(t)}
        /\ buffers' \subseteq buffers \cup {MyBuffer(t, "arguments")}
        /\ \A u \in Thread \ {t} :
             pc'[u] = pc[u] /\ call'[u] = call[u] /\ calls'[u] = calls[u]
    BY <1>0, <1>8 DEF LowerThrows
  <2>2. \A b \in buffers' : b \in buffers \/ b[1] \in lost'
    BY <2>1 DEF MyBuffer
  <2>3. \A b \in buffers : ~Owns(t, b)
    BY <1>0, <2>1, BufferIsOfACall
  <2> QED
    BY <2>1, <2>2, <2>3, BufferFrame
<1>9. ASSUME NEW t \in Thread, EnterRust(t)
      PROVE  BufferInv'
  <2>1. /\ pc[t] = "calling" /\ UNCHANGED lost
        /\ buffers' = buffers \ {MyBuffer(t, "arguments")}
        /\ \A u \in Thread \ {t} :
             pc'[u] = pc[u] /\ call'[u] = call[u] /\ calls'[u] = calls[u]
    BY <1>0, <1>9 DEF EnterRust
  <2>2. \A b \in buffers : Owns(t, b) => b = MyBuffer(t, "arguments")
    BY <1>0, <2>1, BufferIsOfACall DEF Owns
  <2> QED
    BY <2>1, <2>2, BufferFrame
<1>10. ASSUME NEW t \in Thread, LeaveRust(t)
       PROVE  BufferInv'
  <2>1. /\ pc[t] = "leaving" /\ pc'[t] = "returned"
        /\ UNCHANGED <<lost, buffers, call, calls>>
        /\ \A u \in Thread \ {t} : pc'[u] = pc[u]
    BY <1>0, <1>10 DEF LeaveRust
  <2>2. \A b \in buffers : Owns(t, b) => Owns(t, b)'
    BY <2>1 DEF Owns, This
  <2> QED
    BY <2>1, <2>2, BufferFrame
<1>11. ASSUME NEW t \in Thread, LiftValue(t)
       PROVE  BufferInv'
  <2>1. /\ pc[t] = "returned" /\ call[t].reply \in {"value"} /\ UNCHANGED lost
        /\ buffers' = buffers \ {MyBuffer(t, "value")}
        /\ \A u \in Thread \ {t} :
             pc'[u] = pc[u] /\ call'[u] = call[u] /\ calls'[u] = calls[u]
    BY <1>0, <1>11 DEF LiftValue
  <2>2. \A b \in buffers : Owns(t, b) => b = MyBuffer(t, "value")
    BY <1>0, <2>1, BufferIsOfACall DEF Owns
  <2> QED
    BY <2>1, <2>2, BufferFrame
<1>12. ASSUME NEW t \in Thread, ThrowError(t)
       PROVE  BufferInv'
  <2>1. /\ pc[t] = "returned" /\ call[t].reply \in {"error", "panic"} /\ UNCHANGED lost
        /\ buffers' = buffers \ {MyBuffer(t, "error")}
        /\ \A u \in Thread \ {t} :
             pc'[u] = pc[u] /\ call'[u] = call[u] /\ calls'[u] = calls[u]
    BY <1>0, <1>12 DEF ThrowError
  <2>2. \A b \in buffers : Owns(t, b) => b = MyBuffer(t, "error")
    BY <1>0, <2>1, BufferIsOfACall DEF Owns
  <2> QED
    BY <2>1, <2>2, BufferFrame
<1>13. ASSUME NEW t \in Thread, Destroy(t)
       PROVE  BufferInv'
  <2>1. /\ UNCHANGED buffers /\ lost \subseteq lost'
        /\ pc[t] \notin {"calling", "leaving", "returned"}
        /\ \A u \in Thread \ {t} :
             pc'[u] = pc[u] /\ call'[u] = call[u] /\ calls'[u] = calls[u]
    BY <1>0, <1>13 DEF Destroy
  <2> QED
    BY <1>0, <2>1, BufferFrame, BufferIsOfACall
<1>14. ASSUME NEW t \in Thread, RustFails(t)
       PROVE  BufferInv'
  <2>1. /\ pc[t] = "inside" /\ pc'[t] = "leaving" /\ UNCHANGED lost
        /\ buffers' \subseteq buffers \cup {MyBuffer(t, "error")}
        /\ \A u \in Thread \ {t} :
             pc'[u] = pc[u] /\ call'[u] = call[u] /\ calls'[u] = calls[u]
        /\ This(t)' = This(t)
    BY <1>0, <1>14 DEF RustFails, This
  <2>2. call'[t].reply \in {"error", "panic"}
    BY <1>0, <1>14 DEF RustFails, Call
  <2>3. Owns(t, MyBuffer(t, "error"))'
    BY <2>1, <2>2 DEF Owns, MyBuffer
  <2>4. \A b \in buffers : ~Owns(t, b)
    BY <1>0, <2>1, BufferIsOfACall
  <2>5. \A b \in buffers' : b \in buffers \/ b = MyBuffer(t, "error")'
    BY <2>1 DEF MyBuffer
  <2> QED
    BY <2>1, <2>3, <2>4, <2>5, BufferFrame
<1>15. ASSUME NEW t \in Thread,
              NEW o \in Object \cup {NoObject}, RustReturns(t, o)
       PROVE  BufferInv'
  <2>1. /\ pc[t] = "inside" /\ pc'[t] = "leaving" /\ UNCHANGED lost
        /\ buffers' \subseteq buffers \cup {MyBuffer(t, "value")}
        /\ \A u \in Thread \ {t} :
             pc'[u] = pc[u] /\ call'[u] = call[u] /\ calls'[u] = calls[u]
        /\ This(t)' = This(t)
    BY <1>0, <1>15 DEF RustReturns, This
  <2>2. call'[t].reply \in {"value"}
    BY <1>0, <1>15 DEF RustReturns, Call
  <2>3. Owns(t, MyBuffer(t, "value"))'
    BY <2>1, <2>2 DEF Owns, MyBuffer
  <2>4. \A b \in buffers : ~Owns(t, b)
    BY <1>0, <2>1, BufferIsOfACall
  <2>5. \A b \in buffers' : b \in buffers \/ b = MyBuffer(t, "value")'
    BY <2>1 DEF MyBuffer
  <2> QED
    BY <2>1, <2>3, <2>4, <2>5, BufferFrame
<1>16. CASE UNCHANGED vars
  BY <1>16 DEF vars, Inv, BufferInv, Owns, This
<1> QED
  BY <1>1, <1>2, <1>3, <1>4, <1>5, <1>6, <1>7, <1>8, <1>9, <1>10, <1>11,
     <1>12, <1>13, <1>14, <1>15, <1>16
  DEF Next, Program, Step, Library

-----------------------------------------------------------------------------
(* The theorems. *)

LEMMA InitInv == Init => Inv
<1> SUFFICES ASSUME Init
             PROVE  Inv
  OBVIOUS
<1>1. TypeOK
  <2>1. once \in BOOLEAN
    BY Zenon DEF Init
  <2>2. call \in [Thread -> Call]
    BY IdleIsCall DEF Init
  <2> QED
    BY <2>1, <2>2, BindingAssumption DEF Init, TypeOK
<1>2. CallInv
  BY DEF Init, CallInv, InCall, Idle
<1>3. OnceInv
  BY DEF Init, OnceInv
<1>4. HeldInv
  BY DEF Init, HeldInv, InCall
<1>5. CloneInv
  BY BindingAssumption DEF Init, CloneInv, Counts, HasClone, Idle
<1>6. BufferInv
  BY DEF Init, BufferInv
<1> QED
  BY <1>1, <1>2, <1>3, <1>4, <1>5, <1>6 DEF Inv

LEMMA NextInv == Inv /\ [Next]_vars => Inv'
BY TypeStep, CallStep, OnceStep, HeldStep, CloneStep, BufferStep DEF Inv

\* The inductive invariant holds throughout.
THEOREM Invariance == Spec => []Inv
BY InitInv, NextInv, PTL DEF Spec

\* The variables keep their types.
THEOREM TypeCorrect == Spec => []TypeOK
<1>1. Inv => TypeOK
  BY DEF Inv
<1> QED
  BY <1>1, Invariance, PTL

\* rust_call leaks nothing, for any number of threads, objects and calls, and
\* whichever functions the binding has: what is still counted or allocated
\* belongs to a call under way or to one that never reached the library.
THEOREM NothingLeaksCorrect == Spec => []NothingLeaks
<1>1. Inv => ClonesAreAccounted
  <2> SUFFICES ASSUME Inv, NEW o \in Object, NEW t \in Thread, Counts(t, o)
               PROVE  InProgress(t, This(t)) /\ o \in {call[t].uses, call[t].made}
    BY DEF Inv, CloneInv, ClonesAreAccounted
  <2>1. pc[t] \notin {"idle", "terminated"}
    BY BindingAssumption DEF Inv, CallInv, Counts, HasClone, Idle, Panicked
  <2> QED
    BY <2>1 DEF Counts, InProgress
<1>2. Inv => BuffersAreAccounted
  BY BufferIsOfACall DEF Inv, BufferInv, Owns, BuffersAreAccounted, InProgress
<1> QED
  BY <1>1, <1>2, Invariance, PTL DEF NothingLeaks

\* The object a call works on is there, whoever releases it meanwhile: the
\* shared_ptr of the caller keeps the Arc's count above zero until the
\* library has dropped the clone it was given.
THEOREM NoUseAfterFreeCorrect == Spec => []NoUseAfterFree
<1>1. Inv => NoUseAfterFree
  <2> SUFFICES ASSUME Inv, NEW t \in Thread, call[t].uses # NoObject,
                      pc[t] # "returned"
               PROVE  arcs[call[t].uses] # {}
    BY DEF NoUseAfterFree
  <2>1. InCall(t) \/ pc[t] = "destroying"
    BY DEF Inv, TypeOK, CallInv, Idle, Panicked, InCall
  <2> QED
    BY <2>1, UsedIsHeld DEF Inv, HeldInv
<1> QED
  BY <1>1, Invariance, PTL

\* If ensure_initialized compares every function, a library in which one has
\* changed is never entered at it, on whichever thread.
THEOREM StaleCorrect ==
  ASSUME Function \subseteq Checked
  PROVE  Spec => []StaleLibraryIsNeverEntered
<1>1. Inv => StaleLibraryIsNeverEntered
  BY DEF Inv, OnceInv, CallInv, InCall, StaleLibraryIsNeverEntered
<1> QED
  BY <1>1, Invariance, PTL

\* The only exception that reaches the noexcept of a destructor is a panic of
\* the library in freeing the object: ensure_initialized cannot throw there,
\* whichever functions it compares, since there is no object to destroy before
\* a call of its constructor has made the check.
THEOREM DestructorCorrect == Spec => []EndsOnlyByAPanic
<1>1. Init => EndsOnlyByAPanic
  BY DEF Init, EndsOnlyByAPanic
<1>2. Inv /\ EndsOnlyByAPanic /\ [Next]_vars => EndsOnlyByAPanic'
  <2> SUFFICES ASSUME Inv, EndsOnlyByAPanic, [Next]_vars
               PROVE  EndsOnlyByAPanic'
    OBVIOUS
  <2>1. ASSUME NEW t \in Thread, InitializeThrows(t)
        PROVE  EndsOnlyByAPanic'
    <3>1. pc[t] # "destroying"
      BY <2>1 DEF InitializeThrows, Inv, OnceInv, HeldInv
    <3> QED
      BY <2>1, <3>1 DEF InitializeThrows, EndsOnlyByAPanic, Goto, Inv, TypeOK
  <2>2. ASSUME NEW t \in Thread, Program(t) \/ Library(t)
        PROVE  EndsOnlyByAPanic'
    <3>1. ASSUME NEW f \in Function, NEW o \in Object \cup {NoObject},
                 Invoke(t, f, o)
          PROVE  EndsOnlyByAPanic'
      BY <3>1 DEF Invoke, EndsOnlyByAPanic, Goto, Inv, TypeOK
    <3>2. ASSUME NEW o \in Object, Release(t, o)
          PROVE  EndsOnlyByAPanic'
      BY <3>2 DEF Release, EndsOnlyByAPanic, Goto, Inv, TypeOK
    <3>3. ASSUME NEW o \in Object, NEW u \in Thread, Share(t, u, o)
          PROVE  EndsOnlyByAPanic'
      BY <3>3 DEF Share, EndsOnlyByAPanic
    <3>4. CASE RustFails(t)
      BY <3>4 DEF RustFails, EndsOnlyByAPanic, Goto, Inv, TypeOK
    <3>5. ASSUME NEW o \in Object \cup {NoObject}, RustReturns(t, o)
          PROVE  EndsOnlyByAPanic'
      BY <3>5 DEF RustReturns, EndsOnlyByAPanic, Goto, Inv, TypeOK
    <3> QED
      BY <2>2, <3>1, <3>2, <3>3, <3>4, <3>5 DEF Program, Library
  <2>5. ASSUME NEW t \in Thread, Destroy(t)
        PROVE  EndsOnlyByAPanic'
    BY <2>5 DEF Destroy, Panicked, Idle, EndsOnlyByAPanic, Goto, Inv, TypeOK
  <2>3. ASSUME NEW t \in Thread, Step(t), ~InitializeThrows(t), ~Destroy(t)
        PROVE  EndsOnlyByAPanic'
    BY <2>3
    DEF Step, Initialize, CloneReceiver, CloneFails, Lower, LowerThrows, EnterRust,
        LeaveRust, LiftValue, ThrowError, EndsOnlyByAPanic, Goto, Inv, TypeOK
  <2>4. CASE UNCHANGED vars
    BY <2>4 DEF vars, EndsOnlyByAPanic
  <2> QED
    BY <2>1, <2>2, <2>3, <2>4, <2>5 DEF Next
<1> QED
  BY <1>1, <1>2, Invariance, PTL DEF Spec

-----------------------------------------------------------------------------
(* What becomes of an object that nobody holds. *)

\* Some thread runs the destructor of the object that the last shared_ptr left.
Destroying(t, o) == pc[t] = "destroying" /\ call[t].uses = o
DestroyerInv ==
  \A o \in Object : Instance \in arcs[o] /\ held[o] = {}
                      => \E t \in Thread : Destroying(t, o)

\* A step that lets no destructor end, puts no object into C++ and takes no
\* shared_ptr away keeps that.
LEMMA DestroyerFrame ==
  ASSUME DestroyerInv,
         \A o \in Object : Instance' \in arcs'[o] => Instance \in arcs[o],
         \A o \in Object : held'[o] = {} => held[o] = {},
         \A t \in Thread : pc[t] = "destroying"
                             => pc'[t] = "destroying" /\ call'[t] = call[t]
  PROVE  DestroyerInv'
BY DEF DestroyerInv, Destroying

LEMMA DestroyerStep ==
  ASSUME Inv, DestroyerInv, [Next]_vars
  PROVE  DestroyerInv'
<1> USE BindingAssumption DEF Goto, TypeOK
<1>0. Inv /\ DestroyerInv /\ \A t \in Thread : This(t) # Instance
  BY DEF This, Instance
<1>1. ASSUME NEW t \in Thread, NEW f \in Function,
             NEW o \in Object \cup {NoObject}, Invoke(t, f, o)
      PROVE  DestroyerInv'
  BY <1>0, <1>1, DestroyerFrame DEF Invoke, Inv, Instance
<1>2. ASSUME NEW t \in Thread, NEW o \in Object, Release(t, o)
      PROVE  DestroyerInv'
  <2>1. /\ held' = [held EXCEPT ![o] = @ \ {t}] /\ pc[t] = "idle"
        /\ arcs' = arcs
        /\ \A u \in Thread \ {t} : pc'[u] = pc[u] /\ call'[u] = call[u]
    BY <1>2 DEF Release, Inv
  <2>2. held'[o] = {} => Destroying(t, o)'
    BY <1>2 DEF Release, Destroying, Inv, Idle
  <2> QED
    BY <1>0, <2>1, <2>2 DEF DestroyerInv, Destroying, Instance, Inv
<1>3. ASSUME NEW t \in Thread, NEW u \in Thread, NEW o \in Object, Share(t, u, o)
      PROVE  DestroyerInv'
  BY <1>0, <1>3, DestroyerFrame DEF Share, Inv, Instance
<1>4. ASSUME NEW t \in Thread, Initialize(t)
      PROVE  DestroyerInv'
  BY <1>0, <1>4, DestroyerFrame DEF Initialize, Inv, Instance
<1>5. ASSUME NEW t \in Thread, InitializeThrows(t)
      PROVE  DestroyerInv'
  <2>1. pc[t] # "destroying"
    \* an object was made, so that the check has passed
    BY <1>5 DEF InitializeThrows, Inv, OnceInv, HeldInv
  <2> QED
    BY <1>0, <1>5, <2>1, DestroyerFrame DEF InitializeThrows, Inv, Instance
<1>6. ASSUME NEW t \in Thread,
             CloneReceiver(t) \/ Lower(t) \/ LowerThrows(t)
      PROVE  DestroyerInv'
  <2>1. \A o \in Object : Instance' \in arcs'[o] => Instance \in arcs[o]
    BY <1>0, <1>6 
    DEF CloneReceiver, Lower, LowerThrows, PassesObject, Clone, Inv, Instance
  <2> QED
    BY <1>0, <1>6, <2>1, DestroyerFrame DEF CloneReceiver, Lower, LowerThrows, Inv
<1>7. ASSUME NEW t \in Thread, EnterRust(t) \/ ThrowError(t) \/ CloneFails(t)
      PROVE  DestroyerInv'
  BY <1>0, <1>7, DestroyerFrame
  DEF EnterRust, ThrowError, CloneFails, Inv, Instance
<1>8. ASSUME NEW t \in Thread, LeaveRust(t)
      PROVE  DestroyerInv'
  BY <1>0, <1>8, DestroyerFrame DEF LeaveRust, Free, Inv, Instance
<1>9. ASSUME NEW t \in Thread, LiftValue(t)
      PROVE  DestroyerInv'
  <2>1. /\ pc[t] = "returned"
        /\ \A u \in Thread \ {t} : pc'[u] = pc[u] /\ call'[u] = call[u]
    BY <1>9 DEF LiftValue, Inv
  <2>2. \A o \in Object : o # call[t].made => arcs'[o] = arcs[o] /\ held'[o] = held[o]
    BY <1>9 DEF LiftValue, Inv
  <2>3. \A o \in Object : o = call[t].made => held'[o] = {t}
    BY <1>9 DEF LiftValue, Inv
  <2> SUFFICES ASSUME NEW o \in Object, Instance' \in arcs'[o], held'[o] = {}
               PROVE  \E u \in Thread : Destroying(u, o)'
    BY DEF DestroyerInv
  <2>4. Instance \in arcs[o] /\ held[o] = {}
    BY <2>2, <2>3 DEF Instance
  <2>5. PICK u \in Thread : Destroying(u, o)
    BY <1>0, <2>4 DEF DestroyerInv
  <2> QED
    BY <2>1, <2>5 DEF Destroying
<1>10. ASSUME NEW t \in Thread, Destroy(t)
       PROVE  DestroyerInv'
  <2>1. /\ held' = held /\ arcs' = [arcs EXCEPT ![call[t].uses] = @ \ {Instance}]
        /\ \A u \in Thread \ {t} : pc'[u] = pc[u] /\ call'[u] = call[u]
    BY <1>10 DEF Destroy, Free, Inv
  <2>2. \A o \in Object : o = call[t].uses => Instance \notin arcs'[o]
    BY <2>1 DEF Inv
  <2>3. \A o \in Object : o # call[t].uses => arcs'[o] = arcs[o]
    BY <2>1 DEF Inv
  <2> QED
    BY <1>0, <2>1, <2>2, <2>3 DEF DestroyerInv, Destroying, Instance
<1>11. ASSUME NEW t \in Thread, RustFails(t)
       PROVE  DestroyerInv'
  BY <1>0, <1>11, DestroyerFrame DEF RustFails, Inv, Instance
<1>12. ASSUME NEW t \in Thread, NEW o \in Object \cup {NoObject}, RustReturns(t, o)
       PROVE  DestroyerInv'
  <2>1. \A p \in Object : Instance' \in arcs'[p] => Instance \in arcs[p]
    BY <1>0, <1>12 DEF RustReturns, Clone, Inv, Instance
  <2> QED
    BY <1>0, <1>12, <2>1, DestroyerFrame DEF RustReturns, Inv
<1>13. CASE UNCHANGED vars
  BY <1>0, <1>13, DestroyerFrame DEF vars, Instance
<1> QED
  BY <1>1, <1>2, <1>3, <1>4, <1>5, <1>6, <1>7, <1>8, <1>9, <1>10, <1>11,
     <1>12, <1>13
  DEF Next, Program, Step, Library

LEMMA DestroyerInvariance == Spec => []DestroyerInv
<1>1. Init => DestroyerInv
  BY DEF Init, DestroyerInv
<1>2. Inv /\ DestroyerInv /\ [Next]_vars => DestroyerInv'
  BY DestroyerStep
<1> QED
  BY <1>1, <1>2, Invariance, PTL DEF Spec

\* An object that nobody holds is one a call has just made and not handed out,
\* one whose destructor some thread is in and, while the process runs, may go
\* on with (Destroy(t)), or one that is gone but for lost calls.
UnheldObjectsGo ==
  \A o \in born : held[o] = {} =>
    \/ \E t \in Thread : pc[t] \in {"leaving", "returned"} /\ call[t].made = o
    \/ once /\ \E t \in Thread : Destroying(t, o) /\ Instance \in arcs[o]
    \/ arcs[o] \subseteq lost

\* The half of LastReleaseFrees that needs no fairness: the destructor of an
\* object nobody holds is never owed to a thread that is not in it, nor stuck.
THEOREM ReleaseCorrect == Spec => []UnheldObjectsGo
<1>1. Inv /\ DestroyerInv => UnheldObjectsGo
  <2> SUFFICES ASSUME Inv, DestroyerInv, NEW o \in born, held[o] = {},
                      Instance \notin arcs[o],
                      NEW w \in arcs[o], w \notin lost
               PROVE  \E t \in Thread : pc[t] \in {"leaving", "returned"}
                                          /\ call[t].made = o
    BY DEF UnheldObjectsGo, DestroyerInv, Inv, OnceInv, TypeOK
  <2>1. PICK t \in Thread : Counts(t, o)
    BY DEF Inv, CloneInv, TypeOK
  <2>2. ~(o = call[t].uses /\ HasClone(t))
    BY BindingAssumption DEF HasClone, Inv, HeldInv, InCall, TypeOK
  <2> QED
    BY <2>1, <2>2, BindingAssumption DEF Counts, Inv, CallInv, TypeOK
<1> QED
  BY <1>1, Invariance, DestroyerInvariance, PTL

-----------------------------------------------------------------------------
(* The refinement. *)

\* What RustObject sees of an object and of a thread.
Life == [o \in Object |-> IF o \notin born THEN "absent"
                          ELSE IF arcs[o] = {} THEN "dropped" ELSE "alive"]
Given(t) == IF pc[t] = "inside" /\ call[t].uses # NoObject
            THEN {call[t].uses} ELSE {}
Inside == [t \in Thread |-> Given(t)]

\* A step that empties no count, and makes no object, is not seen.
LEMMA LifeStays ==
  ASSUME UNCHANGED born, \A o \in Object : arcs'[o] = {} <=> arcs[o] = {}
  PROVE  Life' = Life
BY DEF Life

\* A step outside the library is not seen.
LEMMA InsideStays ==
  ASSUME NEW t \in Thread, pc[t] # "inside", pc'[t] # "inside",
         \A u \in Thread \ {t} : pc'[u] = pc[u] /\ call'[u] = call[u]
  PROVE  Inside' = Inside
BY DEF Inside, Given

\* The binding keeps what is owed to the objects of the library: no call
\* enters an object that is not alive, and an object is dropped once, while
\* no call is inside it.
THEOREM Refinement == Spec => KeepsThePromise
<1>1. Init => Promise!Init
  BY DEF Init, Promise!Init
<1>2. Inv /\ [Next]_vars => [Promise!Next]_(Promise!vars)
  <2> SUFFICES ASSUME Inv, [Next]_vars
               PROVE  [Promise!Next]_(Promise!vars)
    OBVIOUS
  <2> USE DEF Goto
  <2>0. /\ arcs \in [Object -> SUBSET Owner]
        /\ pc \in [Thread -> {"idle", "cloning", "lowering", "calling", "inside",
                              "leaving", "returned", "destroying", "terminated"}]
        /\ call \in [Thread -> Call]
    BY DEF Inv, TypeOK
  <2>1. ASSUME Life' = Life, Inside' = Inside
        PROVE  UNCHANGED Promise!vars
    BY <2>1 DEF Promise!vars, Life, Inside, Given
  <2>2. \A t \in Thread : InCall(t) /\ call[t].uses # NoObject =>
          /\ call[t].uses \in Object /\ call[t].uses \in born
          /\ Instance \in arcs[call[t].uses]
    BY UsedIsHeld
  <2>3. ASSUME NEW t \in Thread, NEW f \in Function,
               NEW o \in Object \cup {NoObject}, Invoke(t, f, o)
        PROVE  UNCHANGED Promise!vars
    BY <2>0, <2>1, <2>3, LifeStays, InsideStays DEF Invoke
  <2>4. ASSUME NEW t \in Thread, NEW o \in Object, Release(t, o)
        PROVE  UNCHANGED Promise!vars
    BY <2>0, <2>1, <2>4, LifeStays, InsideStays DEF Release
  <2>5. ASSUME NEW t \in Thread, NEW u \in Thread, NEW o \in Object, Share(t, u, o)
        PROVE  UNCHANGED Promise!vars
    BY <2>5 DEF Share, Promise!vars
  <2>6. ASSUME NEW t \in Thread, Initialize(t)
        PROVE  UNCHANGED Promise!vars
    BY <2>6 DEF Initialize, Promise!vars
  <2>7. ASSUME NEW t \in Thread, InitializeThrows(t)
        PROVE  UNCHANGED Promise!vars
    BY <2>0, <2>1, <2>7, LifeStays, InsideStays DEF InitializeThrows, AtRustCall
  <2>8. ASSUME NEW t \in Thread, CloneReceiver(t) \/ Lower(t) \/ LowerThrows(t)
        PROVE  UNCHANGED Promise!vars
    <3>1. /\ pc[t] \in {"cloning", "lowering"} /\ pc'[t] # "inside"
          /\ \A u \in Thread \ {t} : pc'[u] = pc[u] /\ call'[u] = call[u]
          /\ UNCHANGED born
      BY <2>0, <2>8 DEF CloneReceiver, Lower, LowerThrows
    <3>2. \/ UNCHANGED arcs
          \/ arcs' = [arcs EXCEPT ![call[t].uses] = @ \cup {This(t)}]
      BY <2>8 DEF CloneReceiver, Lower, LowerThrows, PassesObject, Clone
    <3>3. arcs' # arcs => call[t].uses # NoObject
      BY <2>8, BindingAssumption
      DEF CloneReceiver, Lower, LowerThrows, PassesObject, Inv, CallInv
    <3>4. \A o \in Object : arcs'[o] = {} <=> arcs[o] = {}
      BY <2>0, <2>2, <3>1, <3>2, <3>3 DEF InCall
    <3> QED
      BY <2>1, <3>1, <3>4, LifeStays, InsideStays
  <2>9. ASSUME NEW t \in Thread, EnterRust(t)
        PROVE  \E given \in SUBSET Object : Promise!Enter(t, given)
    <3>0. PICK given \in SUBSET Object :
            given = IF call[t].uses # NoObject THEN {call[t].uses} ELSE {}
      BY <2>0 DEF Call
    <3>1. /\ pc[t] = "calling" /\ pc' = [pc EXCEPT ![t] = "inside"]
          /\ UNCHANGED <<arcs, born, call>>
      BY <2>9 DEF EnterRust
    <3>2. Inside[t] = {}
      BY <3>1 DEF Inside, Given
    <3>3. \A o \in given : Life[o] = "alive"
      BY <2>2, <3>0, <3>1 DEF Life, InCall
    <3>4. Inside' = [Inside EXCEPT ![t] = given] /\ Life' = Life
      BY <2>0, <3>0, <3>1 DEF Inside, Given, Life
    <3>5. Promise!Enter(t, given)
      BY <3>2, <3>3, <3>4 DEF Promise!Enter, Inside, Given, Life
    <3> QED
      BY <3>5
  <2>10. ASSUME NEW t \in Thread, NEW o \in Object \cup {NoObject}, RustReturns(t, o)
         PROVE  \E made \in SUBSET Object : Promise!Leave(t, made)
    <3> DEFINE made == IF o = NoObject THEN {} ELSE {o}
    <3>1. /\ pc[t] = "inside" /\ pc' = [pc EXCEPT ![t] = "leaving"]
          /\ \A u \in Thread \ {t} : call'[u] = call[u]
          /\ IF o # NoObject
             THEN /\ o \in Object \ born /\ born' = born \cup {o}
                  /\ arcs' = [arcs EXCEPT ![o] = @ \cup {This(t)}]
             ELSE UNCHANGED <<arcs, born>>
      BY <2>0, <2>10, BindingAssumption DEF RustReturns, Clone
    <3>2. \A p \in made : Life[p] = "absent"
      BY <3>1 DEF Life
    <3>3. Inside' = [Inside EXCEPT ![t] = {}]
      BY <2>0, <3>1 DEF Inside, Given
    <3>4. Life' = [p \in Object |-> IF p \in made THEN "alive" ELSE Life[p]]
      <4>1. CASE o = NoObject
        BY <3>1, <4>1 DEF Life
      <4>2. CASE o # NoObject
        <5>1. \A p \in Object : p # o => arcs'[p] = arcs[p]
          BY <2>0, <3>1, <4>2
        <5>2. arcs'[o] # {}
          BY <2>0, <3>1, <4>2
        <5> QED
          BY <3>1, <4>2, <5>1, <5>2 DEF Life
      <4> QED
        BY <4>1, <4>2
    <3>5. made \in SUBSET Object
      OBVIOUS
    <3>6. Promise!Leave(t, made)
      BY <3>2, <3>3, <3>4 DEF Promise!Leave, Inside, Given, Life
    <3> HIDE DEF made
    <3> QED
      BY <3>5, <3>6
  <2>11. ASSUME NEW t \in Thread, RustFails(t)
         PROVE  \E made \in SUBSET Object : Promise!Leave(t, made)
    <3>1. /\ pc[t] = "inside" /\ pc' = [pc EXCEPT ![t] = "leaving"]
          /\ \A u \in Thread \ {t} : call'[u] = call[u]
          /\ UNCHANGED <<arcs, born>>
      BY <2>0, <2>11 DEF RustFails
    <3>2. Inside' = [Inside EXCEPT ![t] = {}]
      BY <2>0, <3>1 DEF Inside, Given
    <3>3. Life' = [p \in Object |-> IF p \in {} THEN "alive" ELSE Life[p]]
      BY <3>1 DEF Life
    <3>4. Promise!Leave(t, {})
      BY <3>2, <3>3 DEF Promise!Leave, Inside, Given, Life
    <3> QED
      BY <3>4
  <2>12. ASSUME NEW t \in Thread, LeaveRust(t)
         PROVE  UNCHANGED Promise!vars
    <3>1. /\ pc[t] = "leaving" /\ pc'[t] # "inside" /\ UNCHANGED <<born, call>>
          /\ \A u \in Thread \ {t} : pc'[u] = pc[u]
          /\ IF call[t].uses # NoObject
             THEN arcs' = [arcs EXCEPT ![call[t].uses] = @ \ {This(t)}]
             ELSE UNCHANGED arcs
      BY <2>0, <2>12 DEF LeaveRust, Free
    <3>2. This(t) # Instance
      BY OwnerTypes DEF Inv
    <3>3. \A o \in Object : arcs'[o] = {} <=> arcs[o] = {}
      BY <2>0, <2>2, <3>1, <3>2 DEF InCall
    <3> QED
      BY <2>1, <3>1, <3>3, LifeStays, InsideStays
  <2>13. ASSUME NEW t \in Thread, LiftValue(t)
         PROVE  UNCHANGED Promise!vars
    <3>1. /\ pc[t] = "returned" /\ pc'[t] # "inside" /\ UNCHANGED born
          /\ \A u \in Thread \ {t} : pc'[u] = pc[u] /\ call'[u] = call[u]
          /\ IF call[t].made # NoObject
             THEN arcs' = [arcs EXCEPT ![call[t].made] =
                             (@ \ {This(t)}) \cup {Instance}]
             ELSE UNCHANGED arcs
      BY <2>0, <2>13 DEF LiftValue
    <3>2. call[t].made # NoObject =>
             call[t].made \in Object /\ arcs[call[t].made] = {This(t)}
      BY MadeIsApart
    <3>3. \A o \in Object : arcs'[o] = {} <=> arcs[o] = {}
      BY <2>0, <3>1, <3>2
    <3> QED
      BY <2>1, <3>1, <3>3, LifeStays, InsideStays
  <2>14. ASSUME NEW t \in Thread, ThrowError(t) \/ CloneFails(t)
         PROVE  UNCHANGED Promise!vars
    BY <2>0, <2>1, <2>14, LifeStays, InsideStays DEF ThrowError, CloneFails
  <2>15. ASSUME NEW t \in Thread, Destroy(t)
         PROVE  \/ UNCHANGED Promise!vars
                \/ \E o \in Object : Promise!Drop(o)
    <3>0. PICK o \in Object : o = call[t].uses
      BY <2>15 DEF Destroy, Inv, CallInv
    <3>1. /\ pc[t] = "destroying" /\ pc'[t] # "inside" /\ UNCHANGED born
          /\ \A u \in Thread \ {t} : pc'[u] = pc[u] /\ call'[u] = call[u]
          /\ arcs' = [arcs EXCEPT ![o] = @ \ {Instance}]
      BY <2>0, <2>15, <3>0 DEF Destroy, Free
    <3>2. /\ o \in Object /\ o \in born /\ held[o] = {} /\ Instance \in arcs[o]
      BY <3>0, <3>1 DEF Inv, HeldInv
    <3>3. \A u \in Thread : o \notin Inside[u]
      BY <3>2 DEF Inside, Given, Inv, HeldInv, InCall
    <3>4. Inside' = Inside
      BY <3>1, InsideStays
    <3>5. \A p \in Object : p # o => arcs'[p] = arcs[p]
      BY <2>0, <3>1, <3>2
    <3>6. CASE arcs'[o] # {}
      BY <2>1, <3>1, <3>2, <3>4, <3>5, <3>6, LifeStays
    <3>7. CASE arcs'[o] = {}
      <4>1. Life[o] = "alive"
        BY <3>2 DEF Life
      <4>2. Life' = [Life EXCEPT ![o] = "dropped"]
        BY <3>1, <3>2, <3>5, <3>7 DEF Life
      <4>3. Promise!Drop(o)
        BY <3>3, <3>4, <4>1, <4>2 DEF Promise!Drop, Life, Inside, Given
      <4> QED
        BY <4>3
    <3> QED
      BY <3>6, <3>7
  <2>16. CASE UNCHANGED vars
    BY <2>16 DEF vars, Promise!vars
  <2>17. ASSUME NEW t \in Thread, Program(t)
         PROVE  UNCHANGED Promise!vars
    BY <2>3, <2>4, <2>5, <2>17 DEF Program
  <2>18. ASSUME NEW t \in Thread, Step(t)
         PROVE  UNCHANGED Promise!vars \/ Promise!Next
    <3>1. CASE EnterRust(t)
      BY <2>9, <3>1 DEF Promise!Next
    <3>2. CASE Destroy(t)
      BY <2>15, <3>2 DEF Promise!Next
    <3> QED
      BY <2>6, <2>7, <2>8, <2>12, <2>13, <2>14, <2>18, <3>1, <3>2 DEF Step
  <2>19. ASSUME NEW t \in Thread, Library(t)
         PROVE  Promise!Next
    BY <2>10, <2>11, <2>19 DEF Library, Promise!Next
  <2> QED
    BY <2>16, <2>17, <2>18, <2>19 DEF Next
<1> QED
  BY <1>1, <1>2, Invariance, PTL DEF Spec, KeepsThePromise, Promise!Spec
=============================================================================
