--------------------------- MODULE JsiBindingProofs ---------------------------
(***************************************************************************)
(* Theorems of JsiBinding for every set of objects, every description of   *)
(* its layers and every number of calls.                                   *)
(***************************************************************************)
EXTENDS JsiLayers, TLAPS

InCall == pc \in {"cloning", "calling", "inside", "leaving", "blessing"}

\* The call, or the destruction, that the JavaScript thread is in: what it
\* works on, what it has made and what counts for that.
CallInv ==
  /\ InCall => calls \in 1..MaxCalls
  /\ pc \in {"freeing", "unblessing"} => call.uses \in owns
  /\ call.uses # NoObject => call.uses \in born
  /\ pc \in {"calling", "inside", "leaving"} /\ call.uses # NoObject
       => This \in arcs[call.uses]
  /\ pc = "cloning" => call.uses # NoObject
  /\ pc = "blessing" => call.made # NoObject
  /\ call.made # NoObject =>
       /\ pc \in {"leaving", "blessing"} /\ call.made \in born
       /\ This \in arcs[call.made]
       /\ guard[call.made] = "none" /\ call.made # call.uses

\* What an instance has, and what its guard has: an instance keeps its guard
\* armed, and what has a guard has been made.
GuardInv ==
  /\ reach \subseteq born
  /\ \A o \in owns : guard[o] = "armed"
  /\ \A o \in Object : guard[o] # "none" => o \in born

\* The inductive invariant.
Inv == TypeOK /\ CallInv /\ GuardInv /\ FreedOnce

-----------------------------------------------------------------------------
(* Type correctness. *)

LEMMA IdleIsCall ==
  Idle \in [fn : DOMAIN ApiCalled \cup {Nothing},
            uses : Object \cup {NoObject}, made : Object \cup {NoObject}]
BY DEF Idle

\* The variables keep their types in every step.
LEMMA TypeStep ==
  ASSUME Inv, [Next]_vars
  PROVE  TypeOK'
<1> USE JsiAssumption, IdleIsCall DEF Inv, TypeOK, Guard
<1>0. InCall => This \in 1..MaxCalls /\ This \in 0..MaxCalls
  BY DEF CallInv, This
<1>1. CASE Initialize
  BY <1>1 DEF Initialize
<1>2. CASE ThrowBeforeClone
  BY <1>2 DEF ThrowBeforeClone
<1>3. CASE ClonePointer
  BY <1>0, <1>3 DEF ClonePointer, Clone, InCall
<1>4. CASE ThrowAfterClone
  BY <1>0, <1>4 DEF ThrowAfterClone, InCall
<1>5. CASE EnterRust
  BY <1>5 DEF EnterRust
<1>6. CASE LeaveRust
  BY <1>6 DEF LeaveRust, Free
<1>7. CASE Bless
  BY <1>7 DEF Bless, CallInv
<1>8. CASE FreePointer
  BY <1>8 DEF FreePointer, Free
<1>9. CASE Unbless
  BY <1>9 DEF Unbless
<1>10. CASE RustFails
  BY <1>10 DEF RustFails
<1>11. ASSUME NEW o \in Object \cup {NoObject}, RustReturns(o)
       PROVE  TypeOK'
  <2>1. [call EXCEPT !.made = o] \in
          [fn : DOMAIN ApiCalled \cup {Nothing},
           uses : Object \cup {NoObject}, made : Object \cup {NoObject}]
    OBVIOUS
  <2>2. arcs' \in [Object -> SUBSET (0..MaxCalls)]
    BY <1>0, <1>11 DEF RustReturns, InCall
  <2> QED
    BY <1>11, <2>1, <2>2 DEF RustReturns
<1>12. ASSUME NEW f \in DOMAIN ApiCalled, NEW o \in Object \cup {NoObject},
              Invoke(f, o)
       PROVE  TypeOK'
  <2>1. [Idle EXCEPT !.fn = f, !.uses = o] \in
          [fn : DOMAIN ApiCalled \cup {Nothing},
           uses : Object \cup {NoObject}, made : Object \cup {NoObject}]
    BY DEF Idle
  <2>2. calls' \in 0..MaxCalls
    BY <1>12 DEF Invoke
  <2> QED
    BY <1>12, <2>1, <2>2 DEF Invoke
<1>13. ASSUME NEW o \in Object, UniffiDestroy(o)
       PROVE  TypeOK'
  <2>1. [Idle EXCEPT !.uses = o] \in
          [fn : DOMAIN ApiCalled \cup {Nothing},
           uses : Object \cup {NoObject}, made : Object \cup {NoObject}]
    BY DEF Idle
  <2> QED
    BY <1>13, <2>1 DEF UniffiDestroy
<1>14. ASSUME NEW o \in Object, Forget(o)
       PROVE  TypeOK'
  BY <1>14 DEF Forget
<1>15. CASE Shutdown
  <2>1. down' \in BOOLEAN
    BY <1>15, Zenon DEF Shutdown
  <2> QED
    BY <1>15, <2>1 DEF Shutdown
<1>16. ASSUME NEW o \in Object, Finalize(o)
       PROVE  TypeOK'
  <2>1. arcs' \in [Object -> SUBSET (0..MaxCalls)]
    BY <1>16 DEF Finalize, Free
  <2> QED
    BY <1>16, <2>1 DEF Finalize
<1>17. CASE UNCHANGED vars
  BY <1>17 DEF vars
<1> QED
  BY <1>1, <1>2, <1>3, <1>4, <1>5, <1>6, <1>7, <1>8, <1>9, <1>10, <1>11,
     <1>12, <1>13, <1>14, <1>15, <1>16, <1>17
  DEF Next, Step, Library, Program, Collector

-----------------------------------------------------------------------------
(* The invariant. *)

LEMMA InitInv == Init => Inv
<1> SUFFICES ASSUME Init
             PROVE  Inv
  OBVIOUS
<1>1. TypeOK
  <2>1. down \in BOOLEAN
    BY Zenon DEF Init
  <2> QED
    BY <2>1, IdleIsCall, JsiAssumption DEF Init, TypeOK
<1> QED
  BY <1>1 DEF Init, Inv, CallInv, GuardInv, FreedOnce, InCall, Idle

\* The rest of the invariant.
LEMMA RestStep ==
  ASSUME Inv, [Next]_vars
  PROVE  CallInv' /\ GuardInv' /\ FreedOnce'
<1> USE JsiAssumption
    DEF Inv, TypeOK, CallInv, GuardInv, FreedOnce, InCall, This, Guard, Idle
<1>1. CASE Initialize
  BY <1>1 DEF Initialize
<1>2. CASE ThrowBeforeClone
  BY <1>2 DEF ThrowBeforeClone
<1>3. CASE ClonePointer
  BY <1>3 DEF ClonePointer, Clone
<1>4. CASE ThrowAfterClone
  BY <1>4 DEF ThrowAfterClone
<1>5. CASE EnterRust
  BY <1>5 DEF EnterRust
<1>6. CASE LeaveRust
  BY <1>6 DEF LeaveRust, Free
<1>7. CASE Bless
  BY <1>7 DEF Bless
<1>8. CASE FreePointer
  BY <1>8 DEF FreePointer, Free
<1>9. CASE Unbless
  BY <1>9 DEF Unbless
<1>10. CASE RustFails
  BY <1>10 DEF RustFails
<1>11. ASSUME NEW o \in Object \cup {NoObject}, RustReturns(o)
       PROVE  CallInv' /\ GuardInv' /\ FreedOnce'
  BY <1>11 DEF RustReturns
<1>12. ASSUME NEW f \in DOMAIN ApiCalled, NEW o \in Object \cup {NoObject},
              Invoke(f, o)
       PROVE  CallInv' /\ GuardInv' /\ FreedOnce'
  BY <1>12 DEF Invoke
<1>13. ASSUME NEW o \in Object, UniffiDestroy(o)
       PROVE  CallInv' /\ GuardInv' /\ FreedOnce'
  BY <1>13 DEF UniffiDestroy
<1>14. ASSUME NEW o \in Object, Forget(o)
       PROVE  CallInv' /\ GuardInv' /\ FreedOnce'
  BY <1>14 DEF Forget
<1>15. CASE Shutdown
  BY <1>15 DEF Shutdown
<1>16. ASSUME NEW o \in Object, Finalize(o)
       PROVE  CallInv' /\ GuardInv' /\ FreedOnce'
  BY <1>16 DEF Finalize, Free, OnTheStack
<1>17. CASE UNCHANGED vars
  BY <1>17 DEF vars
<1> QED
  BY <1>1, <1>2, <1>3, <1>4, <1>5, <1>6, <1>7, <1>8, <1>9, <1>10, <1>11,
     <1>12, <1>13, <1>14, <1>15, <1>16, <1>17
  DEF Next, Step, Library, Program, Collector

LEMMA NextInv == Inv /\ [Next]_vars => Inv'
BY TypeStep, RestStep DEF Inv

-----------------------------------------------------------------------------
(* The theorems. *)

\* The inductive invariant holds throughout.
THEOREM Invariance == Spec => []Inv
BY InitInv, NextInv, PTL DEF Spec

\* The variables keep their types.
THEOREM TypeCorrect == Spec => []TypeOK
<1>1. Inv => TypeOK
  BY DEF Inv
<1> QED
  BY <1>1, Invariance, PTL

\* A guard never frees what uniffiDestroy has freed, whenever the collector
\* comes: only between the two steps of uniffiDestroy is a guard armed in
\* vain, and there the instance is on the JavaScript stack.
THEOREM FreedOnceCorrect == Spec => []FreedOnce
<1>1. Inv => FreedOnce
  BY DEF Inv
<1> QED
  BY <1>1, Invariance, PTL

-----------------------------------------------------------------------------
(* Who counts for an object, and what a teardown leaves of it. *)

\* Between the two steps of uniffiDestroy the guard counts no more.
UnblessInv == pc = "unblessing" => Guard \notin arcs[call.uses]

\* A runtime goes when its thread is in no call, and nothing refers to what it
\* had.
DownInv == down => reach = {} /\ pc \in {"idle", "refused"}

OwnerInv == ClonesAreAccounted /\ UnblessInv /\ DownInv

LEMMA OwnerStep ==
  ASSUME Inv, OwnerInv, [Next]_vars
  PROVE  OwnerInv'
<1> USE JsiAssumption
    DEF Inv, TypeOK, CallInv, GuardInv, InCall, This, Guard, Idle,
        OwnerInv, ClonesAreAccounted, UnblessInv, DownInv, CountsNow
<1>1. CASE Initialize
  BY <1>1 DEF Initialize
<1>2. CASE ThrowBeforeClone
  BY <1>2 DEF ThrowBeforeClone
<1>3. CASE ClonePointer
  BY <1>3 DEF ClonePointer, Clone
<1>4. CASE ThrowAfterClone
  BY <1>4 DEF ThrowAfterClone
<1>5. CASE EnterRust
  BY <1>5 DEF EnterRust
<1>6. CASE LeaveRust
  BY <1>6 DEF LeaveRust, Free
<1>7. CASE Bless
  BY <1>7 DEF Bless
<1>8. CASE FreePointer
  BY <1>8 DEF FreePointer, Free
<1>9. CASE Unbless
  BY <1>9 DEF Unbless
<1>10. CASE RustFails
  BY <1>10 DEF RustFails
<1>11. ASSUME NEW o \in Object \cup {NoObject}, RustReturns(o)
       PROVE  OwnerInv'
  BY <1>11 DEF RustReturns
<1>12. ASSUME NEW f \in DOMAIN ApiCalled, NEW o \in Object \cup {NoObject},
              Invoke(f, o)
       PROVE  OwnerInv'
  BY <1>12 DEF Invoke
<1>13. ASSUME NEW o \in Object, UniffiDestroy(o)
       PROVE  OwnerInv'
  BY <1>13 DEF UniffiDestroy
<1>14. ASSUME NEW o \in Object, Forget(o)
       PROVE  OwnerInv'
  BY <1>14 DEF Forget
<1>15. CASE Shutdown
  BY <1>15 DEF Shutdown
<1>16. ASSUME NEW o \in Object, Finalize(o)
       PROVE  OwnerInv'
  BY <1>16 DEF Finalize, Free, OnTheStack
<1>17. CASE UNCHANGED vars
  BY <1>17 DEF vars
<1> QED
  BY <1>1, <1>2, <1>3, <1>4, <1>5, <1>6, <1>7, <1>8, <1>9, <1>10, <1>11,
     <1>12, <1>13, <1>14, <1>15, <1>16, <1>17
  DEF Next, Step, Library, Program, Collector

LEMMA OwnerInvariance == Spec => []OwnerInv
<1>1. Init => OwnerInv
  BY DEF Init, OwnerInv, ClonesAreAccounted, UnblessInv, DownInv
<1>2. Inv /\ OwnerInv /\ [Next]_vars => OwnerInv'
  BY OwnerStep
<1> QED
  BY <1>1, <1>2, Invariance, PTL DEF Spec

\* Whatever order calls, uniffiDestroy and the collector come in, and however
\* calls end: every count of an Arc has its owner.
THEOREM ClonesCorrect == Spec => []ClonesAreAccounted
<1>1. OwnerInv => ClonesAreAccounted
  BY DEF OwnerInv
<1> QED
  BY <1>1, OwnerInvariance, PTL

\* What Finalize(o) waits for.
CanFinalize(o) ==
  guard[o] # "none" /\ ~OnTheStack(o) /\ (o \notin reach \/ o \notin owns)

\* In a runtime that goes, the destructor of each guard that is left may run;
\* and when they all have, nothing is left but what an exception lost.
TeardownProceeds ==
  down => /\ \A o \in Object : guard[o] # "none" => CanFinalize(o)
          /\ (\A o \in Object : guard[o] = "none")
               => \A o \in Object : arcs[o] \subseteq lost

\* It makes no new guard: each destructor that runs is one less to run.
TeardownMakesNoGuard ==
  [][down => down' /\ \A o \in Object : guard'[o] \in {guard[o], "none"}]_vars

\* The two halves of TeardownFrees that need no fairness: a teardown is never
\* stuck, never goes back, and when it is over it has freed everything.
THEOREM TeardownCorrect == Spec => []TeardownProceeds /\ TeardownMakesNoGuard
<1>1. Inv /\ OwnerInv => TeardownProceeds
  BY DEF Inv, OwnerInv, DownInv, ClonesAreAccounted, CountsNow, TeardownProceeds,
         CanFinalize, OnTheStack
<1>2. Inv /\ OwnerInv /\ [Next]_vars
        => [down => down' /\ \A o \in Object : guard'[o] \in {guard[o], "none"}]_vars
  <2> SUFFICES ASSUME Inv, OwnerInv, Next, down
               PROVE  down' /\ \A o \in Object : guard'[o] \in {guard[o], "none"}
    OBVIOUS
  <2>1. pc \in {"idle", "refused"} /\ guard \in [Object -> {"none", "armed", "marked"}]
    BY DEF OwnerInv, DownInv, Inv, TypeOK
  <2>2. \/ \E o \in Object : Forget(o)
        \/ \E o \in Object : Finalize(o)
    BY <2>1 DEF Next, Step, Library, Program, Collector, Initialize, ThrowBeforeClone,
                ClonePointer, ThrowAfterClone, EnterRust, LeaveRust, Bless, FreePointer,
                Unbless, RustFails, RustReturns, Invoke, UniffiDestroy, Shutdown
  <2> QED
    BY <2>1, <2>2 DEF Forget, Finalize
<1> QED
  BY <1>1, <1>2, Invariance, OwnerInvariance, PTL DEF Spec, TeardownMakesNoGuard

-----------------------------------------------------------------------------
(* The layers. *)

\* A binding that is in a call was let in; the call is of one of the functions
\* of controller.ts, and what it works on is of the type that it is called for.
LayerInv ==
  /\ pc \notin {"unloaded", "refused"} => differs \notin Checked
  /\ pc \in {"cloning", "calling", "inside"} => call.fn \in DOMAIN ApiCalled
  /\ pc = "cloning" => call.uses \in Object /\ Class[call.uses] = TypeUsed(call.fn)

LEMMA LayerStep ==
  ASSUME Inv, LayerInv, [Next]_vars
  PROVE  LayerInv'
<1> USE JsiAssumption DEF LayerInv
<1>0. reach \subseteq Object
  BY DEF Inv, TypeOK
<1>1. CASE Initialize
  BY <1>1 DEF Initialize
<1>2. CASE ThrowBeforeClone
  BY <1>2 DEF ThrowBeforeClone
<1>3. CASE ClonePointer
  BY <1>3 DEF ClonePointer
<1>4. CASE ThrowAfterClone
  BY <1>4 DEF ThrowAfterClone
<1>5. CASE EnterRust
  BY <1>5 DEF EnterRust
<1>6. CASE LeaveRust
  BY <1>6 DEF LeaveRust
<1>7. CASE Bless
  BY <1>7 DEF Bless
<1>8. CASE FreePointer
  BY <1>8 DEF FreePointer
<1>9. CASE Unbless
  BY <1>9 DEF Unbless
<1>10. CASE RustFails
  BY <1>10 DEF RustFails
<1>11. ASSUME NEW o \in Object \cup {NoObject}, RustReturns(o)
       PROVE  LayerInv'
  BY <1>11 DEF RustReturns
<1>12. ASSUME NEW f \in DOMAIN ApiCalled, NEW o \in Object \cup {NoObject},
              Invoke(f, o)
       PROVE  LayerInv'
  <2>1. /\ pc = "idle" /\ UNCHANGED differs
        /\ call'.fn = f /\ call'.uses = o
        /\ pc' = IF UsesHandle(f) THEN "cloning" ELSE "calling"
        /\ UsesHandle(f) => o \in reach /\ Class[o] = TypeUsed(f)
    BY <1>12 DEF Invoke, Idle
  <2>2. TypeUsed(call'.fn) = TypeUsed(f)
    BY <2>1
  <2> QED
    BY <1>0, <2>1, <2>2
<1>13. ASSUME NEW o \in Object, UniffiDestroy(o)
       PROVE  LayerInv'
  BY <1>13 DEF UniffiDestroy
<1>14. ASSUME NEW o \in Object, Forget(o)
       PROVE  LayerInv'
  BY <1>14 DEF Forget
<1>15. CASE Shutdown
  BY <1>15 DEF Shutdown
<1>16. ASSUME NEW o \in Object, Finalize(o)
       PROVE  LayerInv'
  BY <1>16 DEF Finalize
<1>17. CASE UNCHANGED vars
  BY <1>17 DEF vars
<1> QED
  BY <1>1, <1>2, <1>3, <1>4, <1>5, <1>6, <1>7, <1>8, <1>9, <1>10, <1>11,
     <1>12, <1>13, <1>14, <1>15, <1>16, <1>17
  DEF Next, Step, Library, Program, Collector

\* Over layers that fit, every call, clone, bless and free gets through, in
\* whatever order the program and the collector come, and none gets to a
\* function that has changed.
THEOREM FitsCorrect ==
  ASSUME InterfaceFits
  PROVE  Spec => []EveryCallFits
<1>1. Init => LayerInv
  BY DEF Init, LayerInv
<1>2. Inv /\ LayerInv /\ [Next]_vars => LayerInv'
  BY LayerStep
<1>3. Inv /\ LayerInv => EveryCallFits
  <2> SUFFICES ASSUME Inv, LayerInv
               PROVE  EveryCallFits
    OBVIOUS
  <2>1. /\ \A f \in DOMAIN ApiCalled : Answers(f) /\ f \in Checked
        /\ \A t \in Types, what \in {"clone", "bless", "free"} : Answers(<<t, what>>)
    BY InterfaceFits DEF InterfaceFits
  <2>2. \A o \in Object : Class[o] \in Types
    BY JsiAssumption
  <2>3. CASE pc = "cloning"
    <3>1. TypeUsed(call.fn) \in Types
      BY <2>2, <2>3 DEF LayerInv
    <3>2. Answers(<<TypeUsed(call.fn), "clone">>)
      BY <2>1, <3>1
    <3>3. Native = <<TypeUsed(call.fn), "clone">>
      BY <2>3 DEF Native
    <3> QED
      BY <2>3, <3>2, <3>3 DEF EveryCallFits
  <2>4. CASE pc = "calling"
    <3>1. Native = call.fn /\ Answers(call.fn)
      BY <2>1, <2>4 DEF Native, LayerInv
    <3> QED
      BY <2>4, <3>1 DEF EveryCallFits
  <2>5. CASE pc = "blessing"
    <3>1. call.made \in Object
      BY <2>5 DEF Inv, TypeOK, CallInv
    <3>2. Answers(<<Class[call.made], "bless">>)
      BY <2>1, <2>2, <3>1
    <3>3. Native = <<Class[call.made], "bless">>
      BY <2>5 DEF Native
    <3> QED
      BY <2>5, <3>2, <3>3 DEF EveryCallFits
  <2>6. CASE pc = "freeing"
    <3>1. call.uses \in Object
      BY <2>6 DEF Inv, TypeOK, CallInv
    <3>2. Answers(<<Class[call.uses], "free">>)
      BY <2>1, <2>2, <3>1
    <3>3. Native = <<Class[call.uses], "free">>
      BY <2>6 DEF Native
    <3> QED
      BY <2>6, <3>2, <3>3 DEF EveryCallFits
  <2>7. CASE pc = "inside"
    <3>1. call.fn # differs
      BY <2>1, <2>7 DEF LayerInv
    <3> QED
      BY <2>7, <3>1 DEF EveryCallFits, Asking
  <2>8. CASE pc \notin {"cloning", "calling", "blessing", "freeing", "inside"}
    BY <2>8 DEF EveryCallFits, Asking
  <2> QED
    BY <2>3, <2>4, <2>5, <2>6, <2>7, <2>8
<1> QED
  BY <1>1, <1>2, <1>3, Invariance, PTL DEF Spec

-----------------------------------------------------------------------------
(* The present layers, table by table.  The tables of a layer are merges of  *)
(* rows; each row says of its functions what Signature says, so do merges of *)
(* rows, and two tables that do are equal where their domains are.           *)

\* What @@ gives where, and that it is associative.
LEMMA Merge ==
  ASSUME NEW f, NEW g
  PROVE  /\ DOMAIN (f @@ g) = DOMAIN f \cup DOMAIN g
         /\ \A x \in DOMAIN f : (f @@ g)[x] = f[x]
         /\ \A x \in DOMAIN g \ DOMAIN f : (f @@ g)[x] = g[x]
<1>1. /\ DOMAIN Merged(f, g) = DOMAIN f \cup DOMAIN g
      /\ \A x \in DOMAIN f : Merged(f, g)[x] = f[x]
      /\ \A x \in DOMAIN g \ DOMAIN f : Merged(f, g)[x] = g[x]
  BY DEF Merged
<1> QED
  BY <1>1 DEF @@

LEMMA MergeAssoc ==
  ASSUME NEW f, NEW g, NEW h
  PROVE  (f @@ g) @@ h = f @@ (g @@ h)
<1>1. Merged(Merged(f, g), h) = Merged(f, Merged(g, h))
  BY Zenon DEF Merged
<1> QED
  BY <1>1 DEF @@

\* What @@ gives is a function, determined by its values.
LEMMA MergeFunction ==
  ASSUME NEW f, NEW g
  PROVE  f @@ g = [x \in DOMAIN (f @@ g) |-> (f @@ g)[x]]
<1>1. Merged(f, g) = [x \in DOMAIN Merged(f, g) |-> Merged(f, g)[x]]
  BY DEF Merged
<1> QED
  BY Zenon, <1>1 DEF @@

\* What a function of the library takes and gives.
Signature(t, n) ==
  CASE n = "clone" -> [takes |-> <<"handle">>, gives |-> "handle"]
    [] n \in {"free", "clear_last_error", "disconnect"} ->
         [takes |-> <<"handle">>, gives |-> "void"]
    [] n \in {"address", "app_id", "chain_id", "delegate_account",
              "error_message", "username", "owner_guid", "session_id"} ->
         [takes |-> <<"handle">>, gives |-> "buffer"]
    [] n \in {"is_expired", "is_revoked"} ->
         [takes |-> <<"handle">>, gives |-> "i8"]
    [] n = "expires_at" -> [takes |-> <<"handle">>, gives |-> "u64"]
    [] n \in {"execute", "execute_from_outside"} ->
         [takes |-> <<"handle">> \o Buffers(1), gives |-> "buffer"]
    [] n = "switch_chain" ->
         [takes |-> <<"handle">> \o Buffers(1), gives |-> "void"]
    [] n = "transfer" ->
         [takes |-> <<"handle">> \o Buffers(2), gives |-> "buffer"]
    [] n = "signup" ->
         [takes |-> <<"handle">> \o Buffers(3), gives |-> "void"]
    [] n = "from_storage" -> [takes |-> Buffers(1), gives |-> "handle"]
    [] n = "create_from_subscribe" -> [takes |-> Buffers(4), gives |-> "handle"]
    [] n = "new_headless" ->
         [takes |-> Buffers(4) \o <<"handle">> \o Buffers(1), gives |-> "handle"]
    [] n = "new" ->
         [takes |-> CASE t = "controlleraccount" ->
                             Buffers(4) \o <<"handle">> \o Buffers(2)
                      [] t = "sessionaccount" -> Buffers(6) \o <<"u64">>
                      [] t = "owner" -> Buffers(1),
          gives |-> "handle"]
    [] n \in {"controller_has_storage", "validate_felt"} ->
         [takes |-> Buffers(1), gives |-> "i8"]
    [] n \in {"get_controller_class_hash", "get_public_key", "signer_to_guid"} ->
         [takes |-> Buffers(1), gives |-> "buffer"]
    [] n = "create_session_registration_url" ->
         [takes |-> Buffers(4), gives |-> "buffer"]
    [] n = "create_session_registration_url_with_urls" ->
         [takes |-> Buffers(6), gives |-> "buffer"]

\* F describes the functions of type t with these names.
Table(F, t, names) ==
  /\ DOMAIN F = Of(t, names)
  /\ \A n \in names : F[<<t, n>>] = Signature(t, n)

\* A row of a table that agrees.
Signed(t, names, takes, gives) ==
  \A n \in names : Signature(t, n) = [takes |-> takes, gives |-> gives]

\* A row that agrees is a table of its own.
LEMMA RowsTable ==
  ASSUME NEW t, NEW names, NEW takes, NEW gives, Signed(t, names, takes, gives)
  PROVE  Table(Rows(t, names, takes, gives), t, names)
BY DEF Rows, Table, Of, Signed

\* Two tables that agree, of one type, make one.
LEMMA MergeTable ==
  ASSUME NEW t, NEW F, NEW G, NEW M, NEW N, Table(F, t, M), Table(G, t, N)
  PROVE  Table(F @@ G, t, M \cup N)
<1> DEFINE H == F @@ G
<1>1. /\ DOMAIN H = DOMAIN F \cup DOMAIN G
      /\ \A x \in DOMAIN F : H[x] = F[x]
      /\ \A x \in DOMAIN G \ DOMAIN F : H[x] = G[x]
  BY Zenon, Merge
<1> HIDE DEF H
<1>2. Table(H, t, M \cup N)
  BY <1>1 DEF Table, Of
<1> QED
  BY <1>2 DEF H

\* The rows of the layers, each with what Signature says of its names.
LEMMA Signatures ==
  ASSUME NEW t
  PROVE  /\ Signed(t, {"clone"}, <<"handle">>, "handle")
         /\ Signed(t, {"free"}, <<"handle">>, "void")
         /\ Signed(t, {"clear_last_error", "disconnect"}, <<"handle">>, "void")
         /\ Signed(t, {"free", "clear_last_error", "disconnect"},
                   <<"handle">>, "void")
         /\ Signed(t, {"address", "app_id", "chain_id", "delegate_account",
                       "error_message", "username"}, <<"handle">>, "buffer")
         /\ Signed(t, {"address", "app_id", "chain_id", "owner_guid",
                       "session_id", "username"}, <<"handle">>, "buffer")
         /\ Signed(t, {"expires_at"}, <<"handle">>, "u64")
         /\ Signed(t, {"is_expired", "is_revoked"}, <<"handle">>, "i8")
         /\ Signed(t, {"execute"}, <<"handle">> \o Buffers(1), "buffer")
         /\ Signed(t, {"execute", "execute_from_outside"},
                   <<"handle">> \o Buffers(1), "buffer")
         /\ Signed(t, {"switch_chain"}, <<"handle">> \o Buffers(1), "void")
         /\ Signed(t, {"transfer"}, <<"handle">> \o Buffers(2), "buffer")
         /\ Signed(t, {"signup"}, <<"handle">> \o Buffers(3), "void")
         /\ Signed(t, {"from_storage"}, Buffers(1), "handle")
         /\ Signed(t, {"create_from_subscribe"}, Buffers(4), "handle")
         /\ Signed(t, {"new_headless"},
                   Buffers(4) \o <<"handle">> \o Buffers(1), "handle")
         /\ Signed("controlleraccount", {"new"},
                   Buffers(4) \o <<"handle">> \o Buffers(2), "handle")
         /\ Signed("sessionaccount", {"new"}, Buffers(6) \o <<"u64">>, "handle")
         /\ Signed("owner", {"new"}, Buffers(1), "handle")
         /\ Signed(t, {"controller_has_storage", "validate_felt"},
                   Buffers(1), "i8")
         /\ Signed(t, {"create_session_registration_url"}, Buffers(4), "buffer")
         /\ Signed(t, {"create_session_registration_url_with_urls"},
                   Buffers(6), "buffer")
         /\ Signed(t, {"get_controller_class_hash", "get_public_key",
                       "signer_to_guid"}, Buffers(1), "buffer")
BY SMTT(60) DEF Signature, Signed

\* The names of the functions, by where the layers keep them.
FunctionNames ==
  {"controller_has_storage", "create_session_registration_url",
   "create_session_registration_url_with_urls", "get_controller_class_hash",
   "get_public_key", "signer_to_guid", "validate_felt"}
ControllerConstructors == {"from_storage", "new", "new_headless"}
ControllerMethods ==
  {"address", "app_id", "chain_id", "clear_last_error", "delegate_account",
   "disconnect", "error_message", "execute", "signup", "switch_chain",
   "transfer", "username"}
SessionNames ==
  {"create_from_subscribe", "new", "address", "app_id", "chain_id",
   "execute", "execute_from_outside", "expires_at", "is_expired",
   "is_revoked", "owner_guid", "session_id", "username"}

\* Each table of each layer agrees with Signature.
LEMMA DeclaredControllerTable ==
  Table(DeclaredControllerAccount, "controlleraccount",
        {"clone", "free"} \cup ControllerConstructors \cup ControllerMethods)
<1> DEFINE N ==
      {"clone"} \cup {"free", "clear_last_error", "disconnect"}
        \cup {"from_storage"} \cup {"new"} \cup {"new_headless"}
        \cup {"address", "app_id", "chain_id", "delegate_account",
              "error_message", "username"}
        \cup {"execute"} \cup {"signup"} \cup {"switch_chain"} \cup {"transfer"}
<1>1. Table(DeclaredControllerAccount, "controlleraccount", N)
  BY ZenonT(120), RowsTable, MergeTable, Signatures DEF DeclaredControllerAccount
<1>2. N = {"clone", "free"} \cup ControllerConstructors \cup ControllerMethods
  BY DEF ControllerConstructors, ControllerMethods, SessionNames, FunctionNames
<1> HIDE DEF N
<1> QED
  BY Zenon, <1>1, <1>2

LEMMA GlueConstructorsTable ==
  Table(GlueControllerConstructors, "controlleraccount",
        {"clone", "free"} \cup ControllerConstructors)
<1> DEFINE N ==
      {"clone"} \cup {"free"} \cup {"from_storage"} \cup {"new"} \cup {"new_headless"}
<1>1. Table(GlueControllerConstructors, "controlleraccount", N)
  BY ZenonT(120), RowsTable, MergeTable, Signatures DEF GlueControllerConstructors
<1>2. N = {"clone", "free"} \cup ControllerConstructors
  BY DEF ControllerConstructors, ControllerMethods, SessionNames, FunctionNames
<1> HIDE DEF N
<1> QED
  BY Zenon, <1>1, <1>2

LEMMA GlueMethodsTable ==
  Table(GlueControllerMethods, "controlleraccount", ControllerMethods)
<1> DEFINE N ==
      {"address", "app_id", "chain_id", "delegate_account",
              "error_message", "username"}
        \cup {"clear_last_error", "disconnect"} \cup {"execute"}
        \cup {"signup"} \cup {"switch_chain"} \cup {"transfer"}
<1>1. Table(GlueControllerMethods, "controlleraccount", N)
  BY ZenonT(120), RowsTable, MergeTable, Signatures DEF GlueControllerMethods
<1>2. N = ControllerMethods
  BY DEF ControllerConstructors, ControllerMethods, SessionNames, FunctionNames
<1> HIDE DEF N
<1> QED
  BY Zenon, <1>1, <1>2

LEMMA CalledControllerTable ==
  Table(CalledControllerAccount, "controlleraccount",
        ControllerConstructors \cup ControllerMethods)
<1> DEFINE N ==
      {"new"} \cup {"new_headless"} \cup {"from_storage"}
        \cup {"address", "app_id", "chain_id", "delegate_account",
              "error_message", "username"}
        \cup {"clear_last_error", "disconnect"} \cup {"execute"}
        \cup {"signup"} \cup {"switch_chain"} \cup {"transfer"}
<1>1. Table(CalledControllerAccount, "controlleraccount", N)
  BY ZenonT(120), RowsTable, MergeTable, Signatures DEF CalledControllerAccount
<1>2. N = ControllerConstructors \cup ControllerMethods
  BY DEF ControllerConstructors, ControllerMethods, SessionNames, FunctionNames
<1> HIDE DEF N
<1> QED
  BY Zenon, <1>1, <1>2

LEMMA DeclaredSessionTable ==
  Table(DeclaredSessionAccount, "sessionaccount", {"clone", "free"} \cup SessionNames)
<1> DEFINE N ==
      {"clone"} \cup {"free"} \cup {"create_from_subscribe"} \cup {"new"}
        \cup {"address", "app_id", "chain_id", "owner_guid",
              "session_id", "username"}
        \cup {"execute", "execute_from_outside"} \cup {"expires_at"}
        \cup {"is_expired", "is_revoked"}
<1>1. Table(DeclaredSessionAccount, "sessionaccount", N)
  BY ZenonT(120), RowsTable, MergeTable, Signatures DEF DeclaredSessionAccount
<1>2. N = {"clone", "free"} \cup SessionNames
  BY DEF ControllerConstructors, ControllerMethods, SessionNames, FunctionNames
<1> HIDE DEF N
<1> QED
  BY Zenon, <1>1, <1>2

LEMMA CalledSessionTable ==
  Table(CalledSessionAccount, "sessionaccount", SessionNames)
<1> DEFINE N ==
      {"new"} \cup {"create_from_subscribe"}
        \cup {"address", "app_id", "chain_id", "owner_guid",
              "session_id", "username"}
        \cup {"execute", "execute_from_outside"} \cup {"expires_at"}
        \cup {"is_expired", "is_revoked"}
<1>1. Table(CalledSessionAccount, "sessionaccount", N)
  BY ZenonT(120), RowsTable, MergeTable, Signatures DEF CalledSessionAccount
<1>2. N = SessionNames
  BY DEF ControllerConstructors, ControllerMethods, SessionNames, FunctionNames
<1> HIDE DEF N
<1> QED
  BY Zenon, <1>1, <1>2

LEMMA FunctionsTable ==
  Table(DeclaredFunctions, "func", FunctionNames)
<1> DEFINE N ==
      {"controller_has_storage", "validate_felt"}
        \cup {"create_session_registration_url"}
        \cup {"create_session_registration_url_with_urls"}
        \cup {"get_controller_class_hash", "get_public_key", "signer_to_guid"}
<1>1. Table(DeclaredFunctions, "func", N)
  BY ZenonT(120), RowsTable, MergeTable, Signatures DEF DeclaredFunctions
<1>2. N = FunctionNames
  BY DEF ControllerConstructors, ControllerMethods, SessionNames, FunctionNames
<1> HIDE DEF N
<1> QED
  BY Zenon, <1>1, <1>2

LEMMA DeclaredOwnerTable ==
  Table(DeclaredOwner, "owner", {"clone", "free"} \cup {"new"})
<1> DEFINE N ==
      {"clone"} \cup {"free"} \cup {"new"}
<1>1. Table(DeclaredOwner, "owner", N)
  BY ZenonT(120), RowsTable, MergeTable, Signatures DEF DeclaredOwner
<1>2. N = {"clone", "free"} \cup {"new"}
  BY DEF ControllerConstructors, ControllerMethods, SessionNames, FunctionNames
<1> HIDE DEF N
<1> QED
  BY Zenon, <1>1, <1>2

LEMMA CalledOwnerTable == Table(CalledOwner, "owner", {"new"})
BY Zenon, RowsTable, Signatures DEF CalledOwner

LEMMA SameTables ==
  /\ GlueOwner = DeclaredOwner
  /\ GlueSessionAccount = DeclaredSessionAccount
  /\ GlueFunctions = DeclaredFunctions
  /\ CalledFunctions = DeclaredFunctions
BY Zenon DEF GlueOwner, DeclaredOwner, GlueSessionAccount, DeclaredSessionAccount,
     GlueFunctions, DeclaredFunctions, CalledFunctions


Obeys(F) ==
  \A f \in DOMAIN F :
    f[1] \in {"controlleraccount", "owner", "sessionaccount", "func"} /\ f[2] # "bless"
      => F[f] = Signature(f[1], f[2])

LEMMA TableObeys ==
  ASSUME NEW t, NEW F, NEW names, Table(F, t, names)
  PROVE  Obeys(F)
BY DEF Table, Obeys, Of

LEMMA MergeObeys ==
  ASSUME NEW F, NEW G, Obeys(F), Obeys(G)
  PROVE  Obeys(F @@ G)
<1> DEFINE H == F @@ G
<1>1. /\ DOMAIN H = DOMAIN F \cup DOMAIN G
      /\ \A x \in DOMAIN F : H[x] = F[x]
      /\ \A x \in DOMAIN G \ DOMAIN F : H[x] = G[x]
  BY Zenon, Merge
<1> HIDE DEF H
<1>2. Obeys(H)
  BY <1>1 DEF Obeys
<1> QED
  BY <1>2 DEF H

LEMMA RowsObey ==
  ASSUME NEW names, NEW takes, NEW gives
  PROVE  /\ Obeys(Rows("rustbuffer", names, takes, gives))
         /\ Obeys(Rows("string", names, takes, gives))
BY DEF Obeys, Rows, Of

LEMMA FuturesObey == ASSUME NEW types PROVE Obeys(Futures(types))
<1>1. Obeys([f \in {"poll"} \X types |->
        [takes |-> <<"u64", "callback", "u64">>, gives |-> "void"]])
  BY DEF Obeys
<1>2. Obeys([f \in {"cancel", "free"} \X types |->
        [takes |-> <<"u64">>, gives |-> "void"]])
  BY DEF Obeys
<1>3. Obeys([f \in {"complete"} \X types |->
        [takes |-> <<"u64">>, gives |-> f[2]]])
  BY DEF Obeys
<1> QED
  BY Zenon, <1>1, <1>2, <1>3, MergeObeys DEF Futures

\* The three layers that carry a signature carry the same.
LEMMA LayersObey == Obeys(Declared) /\ Obeys(Glue) /\ Obeys(Called)
<1>1. /\ Obeys(DeclaredControllerAccount) /\ Obeys(DeclaredOwner)
      /\ Obeys(DeclaredSessionAccount) /\ Obeys(DeclaredFunctions)
  BY Zenon, TableObeys, DeclaredControllerTable, DeclaredOwnerTable,
     DeclaredSessionTable, FunctionsTable
<1>2. /\ Obeys(GlueOwner) /\ Obeys(GlueSessionAccount) /\ Obeys(GlueFunctions)
      /\ Obeys(CalledFunctions)
  BY Zenon, <1>1, SameTables
<1>3. /\ Obeys(GlueControllerConstructors) /\ Obeys(GlueControllerMethods)
      /\ Obeys(CalledControllerAccount) /\ Obeys(CalledOwner)
      /\ Obeys(CalledSessionAccount)
  BY Zenon, TableObeys, GlueConstructorsTable, GlueMethodsTable,
     CalledControllerTable, CalledOwnerTable, CalledSessionTable
<1>4. Obeys(DeclaredBuffers)
  BY Zenon, RowsObey, MergeObeys DEF DeclaredBuffers
<1>5. Obeys(DeclaredFuturesOfIntegers) /\ Obeys(DeclaredFuturesOfOthers)
  BY Zenon, FuturesObey DEF DeclaredFuturesOfIntegers, DeclaredFuturesOfOthers
<1>6. Obeys(GlueStrings)
  BY Zenon, RowsObey, MergeObeys DEF GlueStrings
<1>7. Obeys(GlueBless)
  BY DEF Obeys, GlueBless
<1>8. Obeys(Declared)
  BY Zenon, <1>1, <1>4, <1>5, MergeObeys DEF Declared
<1>9. Obeys(Glue)
  BY Zenon, <1>2, <1>3, <1>6, <1>7, MergeObeys DEF Glue
<1>10. Obeys(Called)
  BY Zenon, <1>2, <1>3, MergeObeys DEF Called
<1> QED
  BY <1>8, <1>9, <1>10

Interface ==
  Of("controlleraccount", ControllerConstructors \cup ControllerMethods)
  \cup Of("owner", {"new"}) \cup Of("sessionaccount", SessionNames)
  \cup Of("func", FunctionNames)
Lives == Types \X {"clone", "free"}

\* Over sets of names, and over types.
LEMMA OfUnion ==
  ASSUME NEW t, NEW M, NEW N
  PROVE  Of(t, M \cup N) = Of(t, M) \cup Of(t, N)
BY DEF Of

LEMMA LivesOf ==
  Lives = Of("controlleraccount", {"clone", "free"}) \cup Of("owner", {"clone", "free"})
           \cup Of("sessionaccount", {"clone", "free"})
BY DEF Lives, Of, Types

Over(F, keys) == DOMAIN F = keys

\* The domain of a merge from the domains of its parts.
LEMMA OverDomain == ASSUME NEW F PROVE Over(F, DOMAIN F)
BY DEF Over

LEMMA MergeOver ==
  ASSUME NEW F, NEW G, NEW M, NEW N, Over(F, M), Over(G, N)
  PROVE  Over(F @@ G, M \cup N)
<1>1. DOMAIN (F @@ G) = DOMAIN F \cup DOMAIN G
  BY Zenon, Merge
<1> QED
  BY Zenon, <1>1 DEF Over

\* What each layer is a table of.
LEMMA CalledDomain == DOMAIN Called = Interface
<1>1. Over(Called,
        DOMAIN CalledControllerAccount \cup DOMAIN CalledOwner
          \cup DOMAIN CalledSessionAccount \cup DOMAIN CalledFunctions)
  BY Zenon, OverDomain, MergeOver DEF Called
<1> QED
  BY Zenon, <1>1, CalledControllerTable, CalledOwnerTable, CalledSessionTable,
     FunctionsTable, SameTables DEF Table, Over, Interface

LEMMA DeclaredDomain == Interface \cup Lives \subseteq DOMAIN Declared
<1>1. Over(Declared,
        DOMAIN DeclaredControllerAccount \cup DOMAIN DeclaredOwner
          \cup DOMAIN DeclaredSessionAccount \cup DOMAIN DeclaredFunctions
          \cup DOMAIN DeclaredBuffers \cup DOMAIN DeclaredFuturesOfIntegers
          \cup DOMAIN DeclaredFuturesOfOthers)
  BY Zenon, OverDomain, MergeOver DEF Declared
<1>2. /\ DOMAIN DeclaredControllerAccount = Of("controlleraccount",
           {"clone", "free"} \cup ControllerConstructors \cup ControllerMethods)
      /\ DOMAIN DeclaredOwner = Of("owner", {"clone", "free"} \cup {"new"})
      /\ DOMAIN DeclaredSessionAccount
           = Of("sessionaccount", {"clone", "free"} \cup SessionNames)
      /\ DOMAIN DeclaredFunctions = Of("func", FunctionNames)
  BY Zenon, DeclaredControllerTable, DeclaredOwnerTable, DeclaredSessionTable,
     FunctionsTable DEF Table
<1> QED
  BY <1>1, <1>2, LivesOf DEF Over, Interface, Of

LEMMA ExposedTypes ==
  /\ ExposedControllerAccount = Of("controlleraccount",
       {"clone", "free"} \cup ControllerConstructors \cup ControllerMethods)
  /\ ExposedOwner = Of("owner", {"clone", "free"} \cup {"new"})
  /\ ExposedSessionAccount = Of("sessionaccount", {"clone", "free"} \cup SessionNames)
  /\ ExposedFunctions = Of("func", FunctionNames)
<1>1. {"clone", "free"} \cup ControllerConstructors \cup ControllerMethods
        = {"clone", "free", "from_storage", "new", "new_headless", "address",
           "app_id", "chain_id", "clear_last_error", "delegate_account",
           "disconnect", "error_message", "execute", "signup",
           "switch_chain", "transfer", "username"}
  BY DEF ControllerConstructors, ControllerMethods
<1>2. {"clone", "free"} \cup SessionNames
        = {"clone", "free", "create_from_subscribe", "new", "address", "app_id",
           "chain_id", "execute", "execute_from_outside", "expires_at",
           "is_expired", "is_revoked", "owner_guid", "session_id", "username"}
  BY DEF SessionNames
<1>3. {"clone", "free"} \cup {"new"} = {"clone", "free", "new"}
  OBVIOUS
<1> QED
  BY Zenon, <1>1, <1>2, <1>3
  DEF ExposedControllerAccount, ExposedOwner, ExposedSessionAccount,
      ExposedFunctions, FunctionNames

LEMMA GlueDomain == DOMAIN Glue = Exposed
<1>1. Over(Glue,
        DOMAIN GlueStrings \cup DOMAIN GlueControllerConstructors
          \cup DOMAIN GlueControllerMethods \cup DOMAIN GlueOwner
          \cup DOMAIN GlueSessionAccount \cup DOMAIN GlueFunctions
          \cup DOMAIN GlueBless)
  BY Zenon, OverDomain, MergeOver DEF Glue
<1>2. DOMAIN GlueStrings = ExposedStrings
  <2> DEFINE a == Of("string", {"to_byte_length"})
             b == Of("string", {"to_arraybuffer"})
             c == Of("string", {"from_arraybuffer"})
  <2>1. Over(GlueStrings, a \cup b \cup c)
    <3>1. \A takes, gives :
            /\ Over(Rows("string", {"to_byte_length"}, takes, gives), a)
            /\ Over(Rows("string", {"to_arraybuffer"}, takes, gives), b)
            /\ Over(Rows("string", {"from_arraybuffer"}, takes, gives), c)
      BY DEF Over, Rows
    <3> HIDE DEF a, b, c
    <3> QED
      BY Zenon, <3>1, MergeOver DEF GlueStrings
  <2>2. a \cup b \cup c = ExposedStrings
    BY DEF ExposedStrings, Of
  <2> HIDE DEF a, b, c
  <2> QED
    BY <2>1, <2>2 DEF Over
<1>3. DOMAIN GlueControllerConstructors \cup DOMAIN GlueControllerMethods
        = ExposedControllerAccount
  <2>1. /\ DOMAIN GlueControllerConstructors
             = Of("controlleraccount", {"clone", "free"} \cup ControllerConstructors)
        /\ DOMAIN GlueControllerMethods = Of("controlleraccount", ControllerMethods)
    BY Zenon, GlueConstructorsTable, GlueMethodsTable DEF Table
  <2> QED
    BY <2>1, OfUnion, ExposedTypes
<1>4. /\ DOMAIN GlueOwner = ExposedOwner
      /\ DOMAIN GlueSessionAccount = ExposedSessionAccount
      /\ DOMAIN GlueFunctions = ExposedFunctions
  BY Zenon, SameTables, DeclaredOwnerTable, DeclaredSessionTable, FunctionsTable,
     ExposedTypes DEF Table
<1>7. DOMAIN GlueBless = ExposedBless
  BY DEF GlueBless, ExposedBless
<1> QED
  BY <1>1, <1>2, <1>3, <1>4, <1>7 DEF Over, Exposed

\* What the JavaScript side asks for is exposed by name.
LEMMA ExposedNames ==
  /\ Interface \cup Lives \cup Types \X {"bless"} \subseteq Exposed
  /\ CalledStrings \subseteq Exposed
<1>2. Types \X {"bless"} = ExposedBless
  BY DEF Types, ExposedBless
<1>3. Lives \subseteq
        ExposedControllerAccount \cup ExposedOwner \cup ExposedSessionAccount
  BY ExposedTypes, LivesOf DEF Of
<1>4. Interface \subseteq ExposedControllerAccount \cup ExposedOwner
        \cup ExposedSessionAccount \cup ExposedFunctions
  BY ExposedTypes DEF Interface, Of
<1>5. CalledStrings = ExposedStrings
  BY Zenon DEF CalledStrings, ExposedStrings
<1> QED
  BY <1>2, <1>3, <1>4, <1>5 DEF Exposed

\* The checksums that are compared are those of what is called.
LEMMA Checksums ==
  /\ CalledChecksums = Interface /\ DeclaredChecksums = Interface
  /\ ExposedChecksums = Interface /\ GlueChecksums = Interface
  /\ HeaderChecksums = Interface
<1> DEFINE ControllerNames == ControllerConstructors \cup ControllerMethods
           c1 == {"address", "app_id", "chain_id", "clear_last_error",
                  "delegate_account", "disconnect", "error_message", "execute",
                  "signup", "switch_chain", "transfer", "username"}
           c2 == {"from_storage", "new", "new_headless"}
           c3 == {"address", "app_id", "chain_id", "clear_last_error",
                  "delegate_account", "disconnect", "error_message", "execute",
                  "signup", "switch_chain", "transfer", "username",
                  "from_storage", "new", "new_headless"}
           s1 == {"address", "app_id", "chain_id", "execute",
                  "execute_from_outside", "expires_at", "is_expired",
                  "is_revoked", "owner_guid", "session_id", "username",
                  "create_from_subscribe", "new"}
<1>1. c1 = ControllerMethods /\ c2 = ControllerConstructors
  BY Zenon DEF ControllerMethods, ControllerConstructors
<1>2. c3 = ControllerConstructors \cup ControllerMethods
  BY DEF ControllerMethods, ControllerConstructors
<1>3. s1 = SessionNames
  BY DEF SessionNames
<1>4. Of("controlleraccount", ControllerConstructors \cup ControllerMethods)
        = Of("controlleraccount", c1) \cup Of("controlleraccount", c2)
  BY <1>1, OfUnion
<1> HIDE DEF c1, c2, c3, s1
<1>5. /\ CalledChecksums = Interface /\ DeclaredChecksums = Interface
  <2>1. /\ CalledChecksums = Of("func", FunctionNames) \cup Of("controlleraccount", c3)
             \cup Of("owner", {"new"}) \cup Of("sessionaccount", s1)
        /\ DeclaredChecksums = CalledChecksums
    BY Zenon DEF CalledChecksums, DeclaredChecksums, FunctionNames, c3, s1
  <2> QED
    BY <1>2, <1>3, <2>1 DEF Interface
<1>6. /\ ExposedChecksums = Interface /\ GlueChecksums = Interface
  <2>1. /\ ExposedChecksumsOfMethods
             = Of("func", FunctionNames) \cup Of("controlleraccount", c1)
        /\ ExposedChecksumsOfSessions
             = Of("sessionaccount", s1) \cup Of("controlleraccount", c2)
                 \cup Of("owner", {"new"})
        /\ GlueChecksumsOfMethods = ExposedChecksumsOfMethods
        /\ GlueChecksumsOfSessions = ExposedChecksumsOfSessions
    BY Zenon
    DEF ExposedChecksumsOfMethods, ExposedChecksumsOfSessions,
        GlueChecksumsOfMethods, GlueChecksumsOfSessions, FunctionNames, c1, c2, s1
  <2> QED
    BY <1>3, <1>4, <2>1 DEF ExposedChecksums, GlueChecksums, Interface
<1>7. HeaderChecksums = Interface
  <2>1. /\ HeaderChecksumsOfController
             = Of("func", FunctionNames) \cup Of("controlleraccount", c1)
        /\ HeaderChecksumsOfSessions
             = Of("sessionaccount", s1) \cup Of("controlleraccount", c2)
                 \cup Of("owner", {"new"})
    BY Zenon
    DEF HeaderChecksumsOfController, HeaderChecksumsOfSessions,
        FunctionNames, c1, c2, s1
  <2> QED
    BY <1>3, <1>4, <2>1 DEF HeaderChecksums, Interface
<1> QED
  BY <1>5, <1>6, <1>7

\* What a function of an asynchronous call takes and gives.
Future(f) ==
  IF f[1] = "poll" THEN [takes |-> <<"u64", "callback", "u64">>, gives |-> "void"]
  ELSE IF f[1] = "complete" THEN [takes |-> <<"u64">>, gives |-> f[2]]
  ELSE [takes |-> <<"u64">>, gives |-> "void"]

Promises(F, types) ==
  /\ DOMAIN F = {"poll", "cancel", "free", "complete"} \X types
  /\ \A f \in DOMAIN F : F[f] = Future(f)

LEMMA FuturesPromise == ASSUME NEW types PROVE Promises(Futures(types), types)
<1> DEFINE P == [f \in {"poll"} \X types |->
                   [takes |-> <<"u64", "callback", "u64">>, gives |-> "void"]]
           Q == [f \in {"cancel", "free"} \X types |->
                   [takes |-> <<"u64">>, gives |-> "void"]]
           R == [f \in {"complete"} \X types |->
                   [takes |-> <<"u64">>, gives |-> f[2]]]
           H == P @@ Q
           F == H @@ R
<1>1. /\ DOMAIN P = {"poll"} \X types /\ \A f \in DOMAIN P : P[f] = Future(f)
      /\ DOMAIN Q = {"cancel", "free"} \X types
      /\ \A f \in DOMAIN Q : Q[f] = Future(f)
      /\ DOMAIN R = {"complete"} \X types /\ \A f \in DOMAIN R : R[f] = Future(f)
  BY DEF Future
<1>2. Futures(types) = F
  BY Zenon DEF Futures
<1> HIDE DEF P, Q, R
<1>3. /\ DOMAIN H = DOMAIN P \cup DOMAIN Q
      /\ \A x \in DOMAIN P : H[x] = P[x]
      /\ \A x \in DOMAIN Q \ DOMAIN P : H[x] = Q[x]
  BY Zenon, Merge
<1> HIDE DEF H
<1>4. /\ DOMAIN F = DOMAIN H \cup DOMAIN R
      /\ \A x \in DOMAIN H : F[x] = H[x]
      /\ \A x \in DOMAIN R \ DOMAIN H : F[x] = R[x]
  BY Zenon, Merge
<1> HIDE DEF F
<1>5. DOMAIN F = {"poll", "cancel", "free", "complete"} \X types
  BY <1>1, <1>3, <1>4
<1>6. \A f \in DOMAIN F : F[f] = Future(f)
  BY <1>1, <1>3, <1>4
<1> QED
  BY <1>2, <1>5, <1>6 DEF Promises

LEMMA FuturesMerge ==
  ASSUME NEW A, NEW B
  PROVE  Futures(A) @@ Futures(B) = Futures(A \cup B)
<1> DEFINE FA == Futures(A)
           FB == Futures(B)
           FC == Futures(A \cup B)
           H == FA @@ FB
<1>1. Promises(FA, A) /\ Promises(FB, B) /\ Promises(FC, A \cup B)
  BY FuturesPromise
<1>2. H = [x \in DOMAIN H |-> H[x]] /\ FC = [x \in DOMAIN FC |-> FC[x]]
  <2> HIDE DEF FA, FB
  <2> QED
    BY ZenonT(60), MergeFunction DEF Futures
<1> HIDE DEF FA, FB, FC
<1>3. /\ DOMAIN H = DOMAIN FA \cup DOMAIN FB
      /\ \A x \in DOMAIN FA : H[x] = FA[x]
      /\ \A x \in DOMAIN FB \ DOMAIN FA : H[x] = FB[x]
  BY Zenon, Merge
<1> HIDE DEF H
<1>4. DOMAIN H = DOMAIN FC /\ \A x \in DOMAIN H : H[x] = FC[x]
  BY <1>1, <1>3 DEF Promises
<1> QED
  BY <1>2, <1>4 DEF H, FA, FB, FC

\* The C++ module and the Swift header declare one library.
LEMMA SameLibrary == Declared = Header
<1> DEFINE I1 == {"u8", "i8", "u16", "i16", "u32", "i32", "u64", "i64"}
           O1 == {"f32", "f64", "buffer", "void"}
           I2 == {"u8", "i8", "u16", "i16", "u32", "i32"}
           O2 == {"u64", "i64", "f32", "f64", "buffer", "void"}
           F == DeclaredControllerAccount @@ DeclaredOwner
                  @@ DeclaredSessionAccount @@ DeclaredFunctions @@ DeclaredBuffers
<1>1. I1 \cup O1 = I2 \cup O2
  OBVIOUS
<1>2. /\ HeaderControllerAccount = DeclaredControllerAccount
      /\ HeaderOwner = DeclaredOwner
      /\ HeaderSessionAccount = DeclaredSessionAccount
      /\ HeaderFunctions = DeclaredFunctions
      /\ HeaderBuffers = DeclaredBuffers
  BY Zenon
  DEF HeaderControllerAccount, DeclaredControllerAccount, HeaderOwner,
      DeclaredOwner, HeaderSessionAccount, DeclaredSessionAccount,
      HeaderFunctions, DeclaredFunctions, HeaderBuffers, DeclaredBuffers
<1> HIDE DEF I1, O1, I2, O2
<1>3. /\ Declared = (F @@ Futures(I1)) @@ Futures(O1)
      /\ Header = (F @@ Futures(I2)) @@ Futures(O2)
  BY Zenon, <1>2
  DEF Declared, Header, DeclaredFuturesOfIntegers, DeclaredFuturesOfOthers,
      HeaderFuturesOfIntegers, HeaderFuturesOfOthers, I1, O1, I2, O2
<1> HIDE DEF F
<1>4. /\ Declared = F @@ Futures(I1 \cup O1)
      /\ Header = F @@ Futures(I2 \cup O2)
  <2>1. \A g, h : (F @@ g) @@ h = F @@ (g @@ h)
    BY MergeAssoc
  <2>2. /\ Futures(I1) @@ Futures(O1) = Futures(I1 \cup O1)
        /\ Futures(I2) @@ Futures(O2) = Futures(I2 \cup O2)
    BY Zenon, FuturesMerge
  <2> QED
    <3> DEFINE P == Futures(I1)
               Q == Futures(O1)
               R == Futures(I2)
               S == Futures(O2)
    <3>1. (F @@ P) @@ Q = F @@ (P @@ Q)
      <4> HIDE DEF P, Q
      <4> QED
        BY Zenon, <2>1
    <3>2. (F @@ R) @@ S = F @@ (R @@ S)
      <4> HIDE DEF R, S
      <4> QED
        BY Zenon, <2>1
    <3> QED
      BY Zenon, <1>3, <2>2, <3>1, <3>2
<1> QED
  BY Zenon, <1>1, <1>4

\* Over the present layers every function that may be asked for answers.
LEMMA AllAnswer ==
  ASSUME PresentLayers
  PROVE  InterfaceFits
<1> USE DEF PresentLayers
<1>1. ASSUME NEW f \in Interface \cup Lives
      PROVE  /\ f \in Exposed /\ f \in DOMAIN Glue /\ f \in DOMAIN Declared
             /\ Glue[f] = Signature(f[1], f[2]) /\ Declared[f] = Signature(f[1], f[2])
  <2>1. /\ f[1] \in {"controlleraccount", "owner", "sessionaccount", "func"}
        /\ f[2] # "bless"
    BY DEF Interface, Lives, Of, Types, ControllerConstructors, ControllerMethods,
           SessionNames, FunctionNames
  <2> QED
    BY <2>1, ExposedNames, GlueDomain, DeclaredDomain, LayersObey DEF Obeys
<1>2. ASSUME NEW f \in Interface
      PROVE  Called[f] = Signature(f[1], f[2])
  <2>1. /\ f[1] \in {"controlleraccount", "owner", "sessionaccount", "func"}
        /\ f[2] # "bless"
    BY DEF Interface, Of, ControllerConstructors, ControllerMethods,
           SessionNames, FunctionNames
  <2> QED
    BY <2>1, CalledDomain, LayersObey DEF Obeys
<1>3. \A f \in DOMAIN ApiCalled : Answers(f) /\ f \in Checked
  BY <1>1, <1>2, CalledDomain, Checksums DEF Answers
<1>4. \A t \in Types, what \in {"clone", "free"} : Answers(<<t, what>>)
  BY <1>1, <1>2, CalledDomain DEF Answers, Lives
<1>5. \A t \in Types : Answers(<<t, "bless">>)
  <2> SUFFICES ASSUME NEW t \in Types
               PROVE  Answers(<<t, "bless">>)
    OBVIOUS
  <2>1. <<t, "bless">> \in Exposed /\ <<t, "bless">> \in DOMAIN Glue
    BY ExposedNames, GlueDomain
  <2>2. <<t, "bless">> \notin Interface
    BY DEF Interface, Of, ControllerConstructors, ControllerMethods,
           SessionNames, FunctionNames
  <2> QED
    BY <2>1, <2>2, CalledDomain DEF Answers
<1> QED
  BY <1>3, <1>4, <1>5 DEF InterfaceFits

\* The function tables of controller.ts, of the TurboModule, of its glue and
\* of its declarations agree, the Swift header included.
THEOREM FunctionsFit ==
  ASSUME PresentLayers
  PROVE  FunctionsAgree
BY AllAnswer, ExposedNames, GlueDomain, CalledDomain, Checksums, SameLibrary
DEF FunctionsAgree

-----------------------------------------------------------------------------
(* The present callbacks, in the same way. *)

\* What :> gives.
LEMMA Single ==
  ASSUME NEW x, NEW v
  PROVE  DOMAIN (x :> v) = {x} /\ (x :> v)[x] = v
BY Zenon DEF :>

\* F says what S says.
Follows(F, S) == DOMAIN F \subseteq DOMAIN S /\ \A x \in DOMAIN F : F[x] = S[x]

\* A merge of what S says says what S says.
LEMMA MergeFollows ==
  ASSUME NEW F, NEW G, NEW S, Follows(F, S), Follows(G, S)
  PROVE  Follows(F @@ G, S)
<1> DEFINE H == F @@ G
<1>1. /\ DOMAIN H = DOMAIN F \cup DOMAIN G
      /\ \A x \in DOMAIN F : H[x] = F[x]
      /\ \A x \in DOMAIN G \ DOMAIN F : H[x] = G[x]
  BY Zenon, Merge
<1> HIDE DEF H
<1>2. Follows(H, S)
  BY <1>1 DEF Follows
<1> QED
  BY <1>2 DEF H

\* One entry of S says what S says.
LEMMA SingleFollows ==
  ASSUME NEW x, NEW v, NEW S, x \in DOMAIN S, S[x] = v
  PROVE  Follows(x :> v, S) /\ Over(x :> v, {x})
<1> DEFINE H == x :> v
<1>1. DOMAIN H = {x} /\ H[x] = v
  BY Zenon, Single
<1> HIDE DEF H
<1>2. Follows(H, S) /\ Over(H, {x})
  BY <1>1 DEF Follows, Over
<1> QED
  BY <1>2 DEF H

\* What the types of the callbacks say.
CallbackNames == {"continuation", "dropped", "free", "clone"}
CallbackTypes ==
  [k \in {"callback"} \X CallbackNames \cup {"complete"} \X Type |->
     IF k[1] = "complete"
     THEN [takes |-> <<Scalar("u64"), Result(k[2])>>, gives |-> "void"]
     ELSE IF k[2] = "continuation"
     THEN [takes |-> <<Scalar("u64"), Scalar("i8")>>, gives |-> "void"]
     ELSE [takes |-> <<Scalar("u64")>>,
           gives |-> IF k[2] = "clone" THEN "u64" ELSE "void"]]

\* The rows of the callbacks say what the types say.
LEMMA CallbackRows ==
  LET cu == Row("continuation", <<Scalar("u64"), Scalar("i8")>>, "void")
      du == Row("dropped", <<Scalar("u64")>>, "void")
      fu == Row("free", <<Scalar("u64")>>, "void")
      nu == Row("clone", <<Scalar("u64")>>, "u64")
  IN  /\ Follows(cu, CallbackTypes) /\ Over(cu, {Callback("continuation")})
      /\ Follows(du, CallbackTypes) /\ Over(du, {Callback("dropped")})
      /\ Follows(fu, CallbackTypes) /\ Over(fu, {Callback("free")})
      /\ Follows(nu, CallbackTypes) /\ Over(nu, {Callback("clone")})
<1>1. \A n \in CallbackNames : Callback(n) \in DOMAIN CallbackTypes
  BY DEF Callback, CallbackTypes
<1>2. /\ CallbackTypes[Callback("continuation")]
           = [takes |-> <<Scalar("u64"), Scalar("i8")>>, gives |-> "void"]
      /\ CallbackTypes[Callback("dropped")]
           = [takes |-> <<Scalar("u64")>>, gives |-> "void"]
      /\ CallbackTypes[Callback("free")]
           = [takes |-> <<Scalar("u64")>>, gives |-> "void"]
      /\ CallbackTypes[Callback("clone")]
           = [takes |-> <<Scalar("u64")>>, gives |-> "u64"]
  BY DEF Callback, CallbackTypes, CallbackNames
<1>3. /\ "continuation" \in CallbackNames /\ "dropped" \in CallbackNames
      /\ "free" \in CallbackNames /\ "clone" \in CallbackNames
  BY DEF CallbackNames
<1> QED
  BY Zenon, <1>1, <1>2, <1>3, SingleFollows DEF Row

\* And so do the completions.
LEMMA CompletesFollow ==
  ASSUME NEW types, types \subseteq Type
  PROVE  /\ Follows(Completes(types), CallbackTypes)
         /\ Over(Completes(types), {"complete"} \X types)
BY DEF Completes, Follows, Over, CallbackTypes

\* Typedefs, header and wrappers are each all of the types.
LEMMA CallbacksFollow ==
  /\ Follows(Typedefs, CallbackTypes) /\ Over(Typedefs, DOMAIN CallbackTypes)
  /\ Follows(HeaderOfCallbacks, CallbackTypes)
  /\ Over(HeaderOfCallbacks, DOMAIN CallbackTypes)
  /\ Follows(Wrappers, CallbackTypes) /\ Over(Wrappers, DOMAIN CallbackTypes)
<1> DEFINE C == {Callback("continuation")} \cup {Callback("dropped")}
                  \cup {Callback("free")}
           D == {Callback("clone")}
           P(types) == {"complete"} \X types
           I == {"u8", "i8", "u16", "i16", "u32", "i32", "u64", "i64"}
           O == {"f32", "f64", "buffer", "void"}
           W1 == {"u8", "i8"}
           W2 == {"u16", "i16", "u32"}
           W3 == {"i32", "u64", "i64"}
           W4 == {"f32", "f64", "buffer"}
           W5 == {"void"}
<1>1. C \cup D = {"callback"} \X CallbackNames
  BY DEF Callback, CallbackNames
<1>2. /\ I \subseteq Type /\ O \subseteq Type /\ Type \subseteq Type
      /\ W1 \subseteq Type /\ W2 \subseteq Type /\ W3 \subseteq Type
      /\ W4 \subseteq Type /\ W5 \subseteq Type
      /\ I \cup O = Type /\ W1 \cup W2 \cup W3 \cup W4 \cup W5 = Type
  BY DEF Type
<1>3. DOMAIN CallbackTypes = C \cup D \cup P(Type)
  BY <1>1 DEF CallbackTypes
<1>4. P(I) \cup P(O) = P(Type)
      /\ P(W1) \cup P(W2) \cup P(W3) \cup P(W4) \cup P(W5) = P(Type)
  <2> HIDE DEF I, O, W1, W2, W3, W4, W5
  <2> QED
    BY <1>2
<1> HIDE DEF C, D, P, I, O, W1, W2, W3, W4, W5
<1>5. \A types \in SUBSET Type :
        Follows(Completes(types), CallbackTypes) /\ Over(Completes(types), P(types))
  BY CompletesFollow DEF P
<1>6. Follows(TypedefCallbacks, CallbackTypes) /\ Over(TypedefCallbacks, C \cup D)
  BY Zenon, CallbackRows, MergeFollows, MergeOver DEF TypedefCallbacks, C, D
<1>7. /\ Follows(Typedefs, CallbackTypes) /\ Over(Typedefs, C \cup D \cup P(Type))
  <2>1. TypedefCompletes = Completes(Type)
    BY Zenon DEF TypedefCompletes, Type
  <2> QED
    BY Zenon, <1>2, <1>5, <1>6, <2>1, MergeFollows, MergeOver DEF Typedefs
<1>8. /\ Follows(HeaderOfCallbacks, CallbackTypes)
      /\ Over(HeaderOfCallbacks, C \cup D \cup P(I) \cup P(O))
  <2>1. /\ HeaderCompletesOfIntegers = Completes(I)
        /\ HeaderCompletesOfOthers = Completes(O)
        /\ HeaderCallbacks = TypedefCallbacks
    BY Zenon DEF HeaderCompletesOfIntegers, HeaderCompletesOfOthers,
                 HeaderCallbacks, TypedefCallbacks, I, O
  <2> QED
    BY Zenon, <1>2, <1>5, <1>6, <2>1, MergeFollows, MergeOver DEF HeaderOfCallbacks
<1>9. /\ Follows(Wrappers, CallbackTypes)
      /\ Over(Wrappers, C \cup (D \cup P(W1)) \cup P(W2) \cup P(W3)
                         \cup P(W4) \cup P(W5))
  <2>1. Follows(WrapperCallbacks, CallbackTypes) /\ Over(WrapperCallbacks, C)
    BY Zenon, CallbackRows, MergeFollows, MergeOver DEF WrapperCallbacks, C
  <2>2. /\ Follows(WrapperCloneAndCompletes8, CallbackTypes)
        /\ Over(WrapperCloneAndCompletes8, D \cup P(W1))
    BY Zenon, <1>2, <1>5, CallbackRows, MergeFollows, MergeOver
    DEF WrapperCloneAndCompletes8, D, W1
  <2>3. /\ WrapperCompletes16 = Completes(W2) /\ WrapperCompletes64 = Completes(W3)
        /\ WrapperCompletesOfFloats = Completes(W4)
        /\ WrapperCompleteVoid = Completes(W5)
    BY Zenon DEF WrapperCompletes16, WrapperCompletes64, WrapperCompletesOfFloats,
                 WrapperCompleteVoid, W2, W3, W4, W5
  <2>4. /\ Follows(WrapperCompletes16, CallbackTypes)
        /\ Follows(WrapperCompletes64, CallbackTypes)
        /\ Follows(WrapperCompletesOfFloats, CallbackTypes)
        /\ Follows(WrapperCompleteVoid, CallbackTypes)
        /\ Over(WrapperCompletes16, P(W2)) /\ Over(WrapperCompletes64, P(W3))
        /\ Over(WrapperCompletesOfFloats, P(W4)) /\ Over(WrapperCompleteVoid, P(W5))
    BY <1>2, <1>5, <2>3
  <2> QED
    BY Zenon, <2>1, <2>2, <2>4, MergeFollows, MergeOver DEF Wrappers
<1> QED
  BY <1>3, <1>4, <1>7, <1>8, <1>9 DEF Over

\* The namespaces are all of them but the free of a callback.
LEMMA NamespacesFollow ==
  /\ Follows(Namespaces, CallbackTypes)
  /\ Over(Namespaces, DOMAIN CallbackTypes \ {Callback("free")})
<1> DEFINE N1 == {Callback("continuation")}
           N2 == {Callback("dropped")}
           N3 == {Callback("clone")}
           P(t) == {"complete"} \X {t}
           W == N1 \cup N2 \cup N3
           A == W \cup P("u8") \cup P("i8") \cup P("u16") \cup P("i16") \cup P("u32")
                  \cup P("i32") \cup P("u64") \cup P("i64") \cup P("f32") \cup P("f64")
                  \cup P("buffer") \cup P("void") \cup N1 \cup N3
<1>1. A = DOMAIN CallbackTypes \ {Callback("free")}
  BY DEF Callback, CallbackTypes, CallbackNames, Type
<1>2. \A t \in Type :
        Follows(Completes({t}), CallbackTypes) /\ Over(Completes({t}), P(t))
  <2> TAKE t \in Type
  <2>1. {t} \subseteq Type
    OBVIOUS
  <2> QED
    BY <2>1, CompletesFollow
<1>3. /\ "u8" \in Type /\ "i8" \in Type /\ "u16" \in Type /\ "i16" \in Type
      /\ "u32" \in Type /\ "i32" \in Type /\ "u64" \in Type /\ "i64" \in Type
      /\ "f32" \in Type /\ "f64" \in Type /\ "buffer" \in Type /\ "void" \in Type
  BY DEF Type
<1>4. /\ Follows(ContinuationNamespace, CallbackTypes)
      /\ Over(ContinuationNamespace, N1)
      /\ Follows(DroppedNamespace, CallbackTypes) /\ Over(DroppedNamespace, N2)
      /\ Follows(CloneNamespace, CallbackTypes) /\ Over(CloneNamespace, N3)
      /\ Follows(ContinuationAgain, CallbackTypes) /\ Over(ContinuationAgain, N1)
      /\ Follows(CloneAgain, CallbackTypes) /\ Over(CloneAgain, N3)
  BY Zenon, CallbackRows
  DEF ContinuationNamespace, DroppedNamespace, CloneNamespace, ContinuationAgain,
      CloneAgain
<1> HIDE DEF N1, N2, N3, P
<1>5. /\ Follows(CompleteU8Namespace, CallbackTypes)
      /\ Over(CompleteU8Namespace, P("u8"))
      /\ Follows(CompleteI8Namespace, CallbackTypes)
      /\ Over(CompleteI8Namespace, P("i8"))
      /\ Follows(CompleteU16Namespace, CallbackTypes)
      /\ Over(CompleteU16Namespace, P("u16"))
      /\ Follows(CompleteI16Namespace, CallbackTypes)
      /\ Over(CompleteI16Namespace, P("i16"))
      /\ Follows(CompleteU32Namespace, CallbackTypes)
      /\ Over(CompleteU32Namespace, P("u32"))
      /\ Follows(CompleteI32Namespace, CallbackTypes)
      /\ Over(CompleteI32Namespace, P("i32"))
      /\ Follows(CompleteU64Namespace, CallbackTypes)
      /\ Over(CompleteU64Namespace, P("u64"))
      /\ Follows(CompleteI64Namespace, CallbackTypes)
      /\ Over(CompleteI64Namespace, P("i64"))
      /\ Follows(CompleteF32Namespace, CallbackTypes)
      /\ Over(CompleteF32Namespace, P("f32"))
      /\ Follows(CompleteF64Namespace, CallbackTypes)
      /\ Over(CompleteF64Namespace, P("f64"))
      /\ Follows(CompleteRustBufferNamespace, CallbackTypes)
      /\ Over(CompleteRustBufferNamespace, P("buffer"))
      /\ Follows(CompleteVoidNamespace, CallbackTypes)
      /\ Over(CompleteVoidNamespace, P("void"))
  BY Zenon, <1>2, <1>3
  DEF CompleteU8Namespace,
      CompleteI8Namespace,
      CompleteU16Namespace,
      CompleteI16Namespace,
      CompleteU32Namespace,
      CompleteI32Namespace,
      CompleteU64Namespace,
      CompleteI64Namespace,
      CompleteF32Namespace,
      CompleteF64Namespace,
      CompleteRustBufferNamespace,
      CompleteVoidNamespace
<1>6. Follows(Namespaces, CallbackTypes) /\ Over(Namespaces, A)
  <2>1. Follows(Namespaces, CallbackTypes)
    BY Zenon, <1>4, <1>5, MergeFollows DEF Namespaces
  <2>2. Over(Namespaces, A)
    <3> DEFINE X == ContinuationNamespace @@ DroppedNamespace @@ CloneNamespace
                      @@ CompleteU8Namespace @@ CompleteI8Namespace
                      @@ CompleteU16Namespace @@ CompleteI16Namespace
                      @@ CompleteU32Namespace @@ CompleteI32Namespace
               B == N1 \cup N2 \cup N3 \cup P("u8") \cup P("i8") \cup P("u16")
                      \cup P("i16") \cup P("u32") \cup P("i32")
    <3>1. Over(X, B)
      BY ZenonT(40), <1>4, <1>5, MergeOver
    <3> HIDE DEF X, B
    <3>2. Over(X @@ CompleteU64Namespace @@ CompleteI64Namespace
                 @@ CompleteF32Namespace @@ CompleteF64Namespace
                 @@ CompleteRustBufferNamespace @@ CompleteVoidNamespace
                 @@ ContinuationAgain @@ CloneAgain,
               B \cup P("u64") \cup P("i64") \cup P("f32") \cup P("f64")
                 \cup P("buffer") \cup P("void") \cup N1 \cup N3)
      BY ZenonT(40), <1>4, <1>5, <3>1, MergeOver
    <3> QED
      BY Zenon, <3>2 DEF X, B, Namespaces
  <2> QED
    BY <2>1, <2>2
<1> HIDE DEF A
<1> QED
  BY <1>1, <1>6

\* The JavaScript value of each C type.
ScalarTypes ==
  [t \in (Type \ {"void"}) \cup {"status"} |->
     IF t \in {"u64", "i64"} THEN "bigint"
     ELSE IF t = "buffer" THEN "Uint8Array"
     ELSE IF t = "status" THEN "UniffiRustCallStatus"
     ELSE "number"]

LEMMA ScalarsFollow == \A t \in DOMAIN ScalarTypes : Scalars[t] = ScalarTypes[t]
<1> DEFINE S == {"u8"} \cup {"i8"} \cup {"u16"} \cup {"i16"} \cup {"u32"}
                  \cup {"i32"} \cup {"u64"} \cup {"i64"} \cup {"f32"} \cup {"f64"}
                  \cup {"buffer"} \cup {"status"}
<1>1. S = DOMAIN ScalarTypes
  BY DEF ScalarTypes, Type
<1>2. /\ ScalarTypes["u8"] = "number" /\ ScalarTypes["i8"] = "number"
      /\ ScalarTypes["u16"] = "number" /\ ScalarTypes["i16"] = "number"
      /\ ScalarTypes["u32"] = "number" /\ ScalarTypes["i32"] = "number"
      /\ ScalarTypes["u64"] = "bigint" /\ ScalarTypes["i64"] = "bigint"
      /\ ScalarTypes["f32"] = "number" /\ ScalarTypes["f64"] = "number"
      /\ ScalarTypes["buffer"] = "Uint8Array"
      /\ ScalarTypes["status"] = "UniffiRustCallStatus"
  BY DEF ScalarTypes, Type
<1>3. /\ "u8" \in S /\ "i8" \in S /\ "u16" \in S /\ "i16" \in S /\ "u32" \in S
      /\ "i32" \in S /\ "u64" \in S /\ "i64" \in S /\ "f32" \in S /\ "f64" \in S
      /\ "buffer" \in S /\ "status" \in S
  OBVIOUS
<1> HIDE DEF S
<1>4. /\ Follows(Uint8, ScalarTypes) /\ Over(Uint8, {"u8"})
      /\ Follows(Int8, ScalarTypes) /\ Over(Int8, {"i8"})
      /\ Follows(Uint16, ScalarTypes) /\ Over(Uint16, {"u16"})
      /\ Follows(Int16, ScalarTypes) /\ Over(Int16, {"i16"})
      /\ Follows(Uint32, ScalarTypes) /\ Over(Uint32, {"u32"})
      /\ Follows(Int32, ScalarTypes) /\ Over(Int32, {"i32"})
      /\ Follows(Uint64, ScalarTypes) /\ Over(Uint64, {"u64"})
      /\ Follows(Int64, ScalarTypes) /\ Over(Int64, {"i64"})
      /\ Follows(Float32, ScalarTypes) /\ Over(Float32, {"f32"})
      /\ Follows(Float64, ScalarTypes) /\ Over(Float64, {"f64"})
      /\ Follows(Bytes, ScalarTypes) /\ Over(Bytes, {"buffer"})
      /\ Follows(Status, ScalarTypes) /\ Over(Status, {"status"})
  BY Zenon, <1>1, <1>2, <1>3, SingleFollows
  DEF Uint8, Int8, Uint16, Int16, Uint32, Int32, Uint64, Int64, Float32, Float64,
      Bytes, Status
<1>5. Follows(Scalars, ScalarTypes)
  BY ZenonT(60), <1>4, MergeFollows DEF Scalars
<1>6. Over(Scalars, S)
  BY ZenonT(120), <1>4, MergeOver DEF Scalars, S
<1> QED
  BY <1>1, <1>5, <1>6 DEF Follows, Over

TsTypes ==
  [k \in {"callback"} \X CallbackNames |->
     [takes |-> IF k[2] = "continuation" THEN <<"bigint", "number">> ELSE <<"bigint">>,
      gives |-> "void"]]

\* The callbacks of the TypeScript file have the types it declares.
LEMMA TsFollow == Follows(TsCallbacks, TsTypes)
<1>1. \A n \in CallbackNames : Callback(n) \in DOMAIN TsTypes
  BY DEF Callback, TsTypes
<1>2. /\ TsTypes[Callback("continuation")]
           = [takes |-> <<"bigint", "number">>, gives |-> "void"]
      /\ TsTypes[Callback("dropped")] = [takes |-> <<"bigint">>, gives |-> "void"]
      /\ TsTypes[Callback("free")] = [takes |-> <<"bigint">>, gives |-> "void"]
      /\ TsTypes[Callback("clone")] = [takes |-> <<"bigint">>, gives |-> "void"]
  BY DEF Callback, TsTypes, CallbackNames
<1>3. /\ "continuation" \in CallbackNames /\ "dropped" \in CallbackNames
      /\ "free" \in CallbackNames /\ "clone" \in CallbackNames
  BY DEF CallbackNames
<1> QED
  <2>1. /\ Follows(Row("continuation", <<"bigint", "number">>, "void"), TsTypes)
        /\ Follows(Row("dropped", <<"bigint">>, "void"), TsTypes)
        /\ Follows(Row("free", <<"bigint">>, "void"), TsTypes)
        /\ Follows(Row("clone", <<"bigint">>, "void"), TsTypes)
    BY Zenon, <1>1, <1>2, <1>3, SingleFollows DEF Row
  <2> QED
    BY Zenon, <2>1, MergeFollows DEF TsCallbacks

\* JavaScript is called with what its types promise.
LEMMA ParametersAgree ==
  ASSUME NEW k \in DOMAIN TsCallbacks
  PROVE  [i \in DOMAIN Typedefs[k].takes |-> Scalars[Typedefs[k].takes[i][2]]]
           = TsCallbacks[k].takes
<1>1. k \in {"callback"} \X CallbackNames /\ TsCallbacks[k] = TsTypes[k]
  BY TsFollow DEF Follows, TsTypes
<1>2. Typedefs[k] = CallbackTypes[k]
  BY <1>1, CallbacksFollow DEF Follows, Over, CallbackTypes
<1>3. Scalars["u64"] = "bigint" /\ Scalars["i8"] = "number"
  BY ScalarsFollow DEF ScalarTypes, Type
<1>4. CASE k[2] = "continuation"
  <2>1. Typedefs[k].takes = <<Scalar("u64"), Scalar("i8")>>
    BY <1>1, <1>2, <1>4 DEF CallbackTypes, CallbackNames
  <2>2. TsCallbacks[k].takes = <<"bigint", "number">>
    BY <1>1, <1>4 DEF TsTypes
  <2> QED
    BY <1>3, <2>1, <2>2 DEF Scalar
<1>5. CASE k[2] # "continuation"
  <2>1. Typedefs[k].takes = <<Scalar("u64")>>
    BY <1>1, <1>2, <1>5 DEF CallbackTypes, CallbackNames
  <2>2. TsCallbacks[k].takes = <<"bigint">>
    BY <1>1, <1>5 DEF TsTypes
  <2> QED
    BY <1>3, <2>1, <2>2 DEF Scalar
<1> QED
  BY <1>4, <1>5

\* F, and more.
Starts(H, F) == DOMAIN F \subseteq DOMAIN H /\ \A x \in DOMAIN F : H[x] = F[x]

\* A merge begins as its first part.
LEMMA StartsAll == ASSUME NEW F PROVE Starts(F, F)
BY DEF Starts

LEMMA MergeStarts ==
  ASSUME NEW H, NEW F, NEW G, Starts(H, F)
  PROVE  Starts(H @@ G, F)
<1> DEFINE K == H @@ G
<1>1. DOMAIN K = DOMAIN H \cup DOMAIN G /\ \A x \in DOMAIN H : K[x] = H[x]
  BY Zenon, Merge
<1> HIDE DEF K
<1>2. Starts(K, F)
  BY <1>1 DEF Starts
<1> QED
  BY <1>2 DEF K

IsPair(o, p, v, q, w) == p # q /\ o = (p :> v) @@ (q :> w)

\* What an object of two properties is.
LEMMA PairIs ==
  ASSUME NEW p, NEW q, NEW v, NEW w, NEW o, IsPair(o, p, v, q, w)
  PROVE  o = [x \in {p, q} |-> IF x = p THEN v ELSE w]
<1> DEFINE P == p :> v
           Q == q :> w
           R == P @@ Q
<1>1. DOMAIN P = {p} /\ P[p] = v /\ DOMAIN Q = {q} /\ Q[q] = w
  BY Zenon, Single
<1>2. o = R /\ p # q
  BY Zenon DEF IsPair
<1> HIDE DEF P, Q
<1>3. /\ DOMAIN R = DOMAIN P \cup DOMAIN Q
      /\ \A x \in DOMAIN P : R[x] = P[x]
      /\ \A x \in DOMAIN Q \ DOMAIN P : R[x] = Q[x]
  BY Zenon, Merge
<1>4. R = [x \in DOMAIN R |-> R[x]]
  BY Zenon, MergeFunction
<1> HIDE DEF R
<1> QED
  BY <1>1, <1>2, <1>3, <1>4

Present == Struct(Type, "return_value", "call_status")

\* The results that C++ declares, type by type.
LEMMA ResultsArePresent == \A t \in Type : Results[t] = Present[t]
<1> DEFINE T1 == {"u8", "i8", "u16"}
           T2 == {"i16", "u32", "i32"}
           T3 == {"u64", "i64", "f32"}
           T4 == {"f64", "void", "buffer"}
           F == FirstResultsOf8 @@ FirstResultsOf32 @@ FirstResultsOf64
                  @@ FirstResultsOfOthers
<1>1. T1 \cup T2 \cup T3 \cup T4 = Type
  BY DEF Type
<1>2. /\ T1 \subseteq Type /\ T2 \subseteq Type /\ T3 \subseteq Type
      /\ T4 \subseteq Type
  BY <1>1
<1>3. ASSUME NEW types, types \subseteq Type
      PROVE  /\ Follows(Struct(types, "return_value", "call_status"), Present)
             /\ Over(Struct(types, "return_value", "call_status"), types)
  <2> DEFINE V(t) == IF t = "void" THEN "call_status" :> "status"
                     ELSE "return_value" :> t @@ "call_status" :> "status"
  <2>1. /\ Struct(types, "return_value", "call_status") = [t \in types |-> V(t)]
        /\ Present = [t \in Type |-> V(t)]
    BY Zenon DEF Struct, Present
  <2> HIDE DEF V
  <2> QED
    BY <1>3, <2>1 DEF Follows, Over
<1> HIDE DEF T1, T2, T3, T4
<1>4. /\ Follows(FirstResultsOf8, Present) /\ Over(FirstResultsOf8, T1)
      /\ Follows(FirstResultsOf32, Present) /\ Over(FirstResultsOf32, T2)
      /\ Follows(FirstResultsOf64, Present) /\ Over(FirstResultsOf64, T3)
      /\ Follows(FirstResultsOfOthers, Present) /\ Over(FirstResultsOfOthers, T4)
  BY Zenon, <1>2, <1>3
  DEF FirstResultsOf8, FirstResultsOf32, FirstResultsOf64, FirstResultsOfOthers,
      T1, T2, T3, T4
<1>5. Follows(F, Present) /\ Over(F, T1 \cup T2 \cup T3 \cup T4)
  BY Zenon, <1>4, MergeFollows, MergeOver
<1>6. Starts(Results, F)
  <2> DEFINE G == F
  <2>1. Starts(G, F)
    BY StartsAll
  <2>2. Results = G @@ LaterResultsOf8 @@ LaterResultsOf16 @@ LaterResultsOf32
                    @@ LaterResultsOf64 @@ LaterResultsOfFloats @@ LaterResultsOfOthers
    BY Zenon DEF Results
  <2> HIDE DEF G, F
  <2>3. Starts(G @@ LaterResultsOf8 @@ LaterResultsOf16 @@ LaterResultsOf32
                 @@ LaterResultsOf64 @@ LaterResultsOfFloats @@ LaterResultsOfOthers, F)
    BY Zenon, <2>1, MergeStarts
  <2> QED
    BY Zenon, <2>2, <2>3
<1> HIDE DEF F
<1> QED
  BY <1>1, <1>5, <1>6 DEF Follows, Over, Starts

Expected ==
  [t \in Type |->
     IF t = "void" THEN "callStatus" :> "UniffiRustCallStatus"
     ELSE ("returnValue" :> ScalarTypes[t]) @@ ("callStatus" :> "UniffiRustCallStatus")]

\* The results that TypeScript declares, type by type.
LEMMA TsResultsExpected == \A t \in Type : TsResults[t] = Expected[t]
<1> DEFINE N == {"u8", "i8", "u16", "i16", "u32", "i32", "f32", "f64"}
           B == {"u64", "i64"}
           U == "callStatus" :> "UniffiRustCallStatus"
           R(v) == ("returnValue" :> v) @@ U
           F == [t \in N |-> R("number")]
           G == [t \in B |-> R("bigint")]
<1>1. TsResults = F @@ G @@ ("buffer" :> R("Uint8Array")) @@ ("void" :> U)
  BY Zenon DEF TsResults
<1>2. Expected = [t \in Type |-> IF t = "void" THEN U ELSE R(ScalarTypes[t])]
  BY Zenon DEF Expected
<1> HIDE DEF U, R
<1>3. N \cup B \cup {"buffer"} \cup {"void"} = Type
  BY DEF Type
<1>4. /\ \A t \in N : ScalarTypes[t] = "number" /\ t \in Type /\ t # "void"
      /\ \A t \in B : ScalarTypes[t] = "bigint" /\ t \in Type /\ t # "void"
      /\ ScalarTypes["buffer"] = "Uint8Array"
      /\ "buffer" \in Type /\ "void" \in Type
  BY DEF ScalarTypes, Type
<1>5. Follows(F, Expected) /\ Over(F, N)
  BY <1>2, <1>4 DEF Follows, Over
<1>6. Follows(G, Expected) /\ Over(G, B)
  BY <1>2, <1>4 DEF Follows, Over
<1>7. /\ "buffer" \in DOMAIN Expected /\ "void" \in DOMAIN Expected
      /\ Expected["buffer"] = R("Uint8Array") /\ Expected["void"] = U
  BY <1>2, <1>4
<1> HIDE DEF F, G, N, B
<1>8. Follows(TsResults, Expected)
  BY Zenon, <1>1, <1>5, <1>6, <1>7, SingleFollows, MergeFollows
<1>9. Over(TsResults, N \cup B \cup {"buffer"} \cup {"void"})
  BY Zenon, <1>1, <1>5, <1>6, <1>7, SingleFollows, MergeOver
<1> QED
  BY <1>3, <1>8, <1>9 DEF Follows, Over

\* Each result has the same values, as JavaScript sees it, under other names.
LEMMA ResultAgrees ==
  ASSUME NEW t \in Type
  PROVE  /\ DOMAIN Results[t] \cap DOMAIN TsResults[t] = {}
         /\ DOMAIN TsResults[t] = {TsName(p) : p \in DOMAIN Results[t]}
         /\ \A p \in DOMAIN Results[t] :
              TsResults[t][TsName(p)] = Scalars[Results[t][p]]
<1> DEFINE U == "UniffiRustCallStatus"
           C == Results[t]
           X == TsResults[t]
<1>1. Scalars["status"] = U /\ (t # "void" => Scalars[t] = ScalarTypes[t])
  BY ScalarsFollow DEF ScalarTypes, Type
<1>2. CASE t = "void"
  <2>1. C = "call_status" :> "status"
    BY Zenon, <1>2, ResultsArePresent DEF Present, Struct
  <2>2. X = "callStatus" :> U
    BY Zenon, <1>2, TsResultsExpected DEF Expected
  <2>3. DOMAIN C = {"call_status"} /\ C["call_status"] = "status"
    <3> HIDE DEF C
    <3> QED
      BY Zenon, <2>1, Single
  <2>4. DOMAIN X = {"callStatus"} /\ X["callStatus"] = U
    <3> HIDE DEF X
    <3> QED
      BY Zenon, <2>2, Single
  <2> QED
    BY <1>1, <2>3, <2>4 DEF TsName
<1>3. CASE t # "void"
  <2> DEFINE v == ScalarTypes[t]
  <2>1. C = ("return_value" :> t) @@ ("call_status" :> "status")
    BY Zenon, <1>3, ResultsArePresent DEF Present, Struct
  <2>2. X = ("returnValue" :> v) @@ ("callStatus" :> U)
    BY Zenon, <1>3, TsResultsExpected DEF Expected
  <2>3. /\ DOMAIN C = {"return_value", "call_status"}
        /\ C["return_value"] = t /\ C["call_status"] = "status"
    <3> DEFINE p == "return_value"
               q == "call_status"
    <3>1. IsPair(C, p, t, q, "status") /\ p # q
      BY Zenon, <2>1 DEF IsPair
    <3> HIDE DEF C, p, q
    <3>2. C = [x \in {p, q} |-> IF x = p THEN t ELSE "status"]
      BY Zenon, <3>1, PairIs
    <3>3. DOMAIN C = {p, q} /\ C[p] = t /\ C[q] = "status"
      BY <3>1, <3>2
    <3> QED
      BY <3>3 DEF p, q
  <2>4. /\ DOMAIN X = {"returnValue", "callStatus"}
        /\ X["returnValue"] = v /\ X["callStatus"] = U
    <3> DEFINE p == "returnValue"
               q == "callStatus"
    <3>1. IsPair(X, p, v, q, U) /\ p # q
      BY Zenon, <2>2 DEF IsPair
    <3> HIDE DEF X, p, q, v, U
    <3>2. X = [x \in {p, q} |-> IF x = p THEN v ELSE U]
      BY Zenon, <3>1, PairIs
    <3>3. DOMAIN X = {p, q} /\ X[p] = v /\ X[q] = U
      BY <3>1, <3>2
    <3> QED
      BY <3>3 DEF p, q
  <2> HIDE DEF C, X
  <2>5. /\ DOMAIN C \cap DOMAIN X = {}
        /\ DOMAIN X = {TsName(p) : p \in DOMAIN C}
    BY <2>3, <2>4 DEF TsName
  <2>6. \A p \in DOMAIN C : X[TsName(p)] = Scalars[C[p]]
    BY <1>1, <1>3, <2>3, <2>4 DEF TsName
  <2> QED
    BY <2>5, <2>6 DEF C, X
<1> QED
  BY <1>2, <1>3

\* Of the callbacks TypeScript knows, it is the clone whose result it has not.
LEMMA CloneDiffers ==
  {k \in DOMAIN TsCallbacks : TsCallbacks[k].gives # Typedefs[k].gives}
    = {Callback("clone")}
<1>1. Callback("clone") \in DOMAIN TsCallbacks
  <2> DEFINE H == Row("continuation", <<"bigint", "number">>, "void")
                    @@ Row("dropped", <<"bigint">>, "void")
                    @@ Row("free", <<"bigint">>, "void")
             R == Row("clone", <<"bigint">>, "void")
             K == H @@ R
  <2>1. TsCallbacks = K
    BY Zenon DEF TsCallbacks
  <2>2. DOMAIN R = {Callback("clone")}
    BY Zenon, Single DEF Row
  <2> HIDE DEF H, R
  <2>3. DOMAIN K = DOMAIN H \cup DOMAIN R
    BY Zenon, Merge
  <2> HIDE DEF K
  <2> QED
    BY <2>1, <2>2, <2>3
<1>2. ASSUME NEW k \in DOMAIN TsCallbacks
      PROVE  TsCallbacks[k].gives # Typedefs[k].gives <=> k = Callback("clone")
  <2>1. k \in {"callback"} \X CallbackNames /\ TsCallbacks[k] = TsTypes[k]
    BY TsFollow DEF Follows, TsTypes
  <2>2. TsCallbacks[k].gives = "void"
    BY <2>1 DEF TsTypes
  <2>3. Typedefs[k] = CallbackTypes[k]
    BY <2>1, CallbacksFollow DEF Follows, Over, CallbackTypes
  <2>4. Typedefs[k].gives = IF k[2] = "clone" THEN "u64" ELSE "void"
    BY <2>1, <2>3 DEF CallbackTypes, CallbackNames
  <2> QED
    BY <2>1, <2>2, <2>4 DEF Callback, CallbackNames
<1> QED
  BY <1>1, <1>2

\* The layers in C++ and the Swift header declare the same callbacks, with the
\* same parameters and results; controller-ffi.ts names the same parameters,
\* and differs in exactly this: it expects no answer of a clone, and it has
\* other names for every property of a result.
THEOREM CallbacksFit == CallbacksAgree /\ TsDisagrees
<1>1. Typedefs = HeaderOfCallbacks /\ Typedefs = Wrappers
  <2>1. /\ Typedefs = [k \in DOMAIN Typedefs |-> Typedefs[k]]
        /\ HeaderOfCallbacks = [k \in DOMAIN HeaderOfCallbacks |-> HeaderOfCallbacks[k]]
        /\ Wrappers = [k \in DOMAIN Wrappers |-> Wrappers[k]]
    BY Zenon, MergeFunction DEF Typedefs, HeaderOfCallbacks, Wrappers
  <2> QED
    BY <2>1, CallbacksFollow DEF Follows, Over
<1>2. /\ DOMAIN Namespaces = DOMAIN Typedefs \ {Callback("free")}
      /\ \A k \in DOMAIN Namespaces : Namespaces[k] = Typedefs[k]
  BY CallbacksFollow, NamespacesFollow DEF Follows, Over
<1>3. CallbacksAgree
  BY Zenon, <1>1, <1>2, ParametersAgree DEF CallbacksAgree
<1>4. TsDisagrees
  BY Zenon, CloneDiffers, ResultAgrees DEF TsDisagrees
<1> QED
  BY <1>3, <1>4

\* Over the present layers every call, clone, bless and free gets through: what
\* FitsCorrect takes as an assumption is what the generated files say.
THEOREM PresentFits ==
  ASSUME PresentLayers
  PROVE  Spec => []EveryCallFits
BY AllAnswer, FitsCorrect

-----------------------------------------------------------------------------
(* The refinement. *)

\* What RustObject sees of an object and of the JavaScript thread.
Life == [o \in Object |-> IF o \notin born THEN "absent"
                          ELSE IF arcs[o] = {} THEN "dropped" ELSE "alive"]
Given == IF pc = "inside" /\ call.uses # NoObject THEN {call.uses} ELSE {}
Inside == [c \in {"js"} |-> Given]

\* A step that empties no count, and makes no object, is not seen.
LEMMA LifeStays ==
  ASSUME UNCHANGED born, \A o \in Object : arcs'[o] = {} <=> arcs[o] = {}
  PROVE  Life' = Life
BY DEF Life

\* A step that takes one away from those who count for an object drops the
\* object, if that was the last of them and no call is inside the object, or
\* is not seen.
LEMMA FreeOrDrop ==
  ASSUME NEW o \in Object, NEW w, TypeOK, o \in born, w \in arcs[o],
         Free(o, w), UNCHANGED born, Given' = Given,
         arcs'[o] = {} => o \notin Given
  PROVE  UNCHANGED Promise!vars \/ Promise!Drop(o)
<1>1. \A p \in Object : p # o => arcs'[p] = arcs[p]
  BY DEF Free, TypeOK
<1>2. Inside' = Inside
  BY DEF Inside
<1>3. CASE arcs'[o] # {}
  <2>1. Life' = Life
    BY <1>1, <1>3, LifeStays
  <2> QED
    BY <1>2, <2>1 DEF Promise!vars, Life, Inside, Given
<1>4. CASE arcs'[o] = {}
  <2>1. Life[o] = "alive" /\ Life' = [Life EXCEPT ![o] = "dropped"]
    BY <1>1, <1>4 DEF Life
  <2>2. \A c \in {"js"} : o \notin Inside[c]
    BY <1>4 DEF Inside
  <2> QED
    BY <1>2, <2>1, <2>2 DEF Promise!Drop, Life, Inside, Given
<1> QED
  BY <1>3, <1>4

\* The binding keeps what is owed to the objects of the library, with the
\* collector at work beside the JavaScript thread.
THEOREM Refinement == Spec => KeepsThePromise
<1>1. Init => Promise!Init
  BY DEF Init, Promise!Init
<1>2. Inv /\ [Next]_vars => [Promise!Next]_(Promise!vars)
  <2> SUFFICES ASSUME Inv, [Next]_vars
               PROVE  [Promise!Next]_(Promise!vars)
    OBVIOUS
  <2> USE JsiAssumption DEF InCall
  <2>0. /\ TypeOK /\ CallInv /\ GuardInv /\ FreedOnce
        /\ arcs \in [Object -> SUBSET (0..MaxCalls)]
        /\ call \in [fn : DOMAIN ApiCalled \cup {Nothing},
                     uses : Object \cup {NoObject}, made : Object \cup {NoObject}]
        /\ owns \subseteq Object /\ born \subseteq Object
    BY DEF Inv, TypeOK
  <2>1. ASSUME Life' = Life, Given' = Given
        PROVE  UNCHANGED Promise!vars
    BY <2>1 DEF Promise!vars, Life, Given
  <2>2. ASSUME UNCHANGED <<arcs, born>>, pc # "inside", pc' # "inside"
        PROVE  UNCHANGED Promise!vars
    BY <2>1, <2>2 DEF Life, Given
  <2>3. CASE Initialize \/ ThrowBeforeClone \/ ThrowAfterClone \/ Unbless \/ Shutdown
    BY <2>2, <2>3
    DEF Initialize, ThrowBeforeClone, ThrowAfterClone, Unbless, Shutdown
  <2>4. ASSUME NEW f \in DOMAIN ApiCalled, NEW o \in Object \cup {NoObject},
               Invoke(f, o)
        PROVE  UNCHANGED Promise!vars
    BY <2>2, <2>4 DEF Invoke
  <2>5. ASSUME NEW o \in Object, UniffiDestroy(o)
        PROVE  UNCHANGED Promise!vars
    BY <2>2, <2>5 DEF UniffiDestroy
  <2>6. ASSUME NEW o \in Object, Forget(o)
        PROVE  UNCHANGED Promise!vars
    BY <2>1, <2>6 DEF Forget, Life, Given
  <2>7. CASE ClonePointer
    <3>1. /\ call.uses \in Object /\ arcs[call.uses] # {}
          /\ UNCHANGED born /\ pc # "inside" /\ pc' # "inside"
          /\ arcs' = [arcs EXCEPT ![call.uses] = @ \cup {This}]
      BY <2>0, <2>7 DEF ClonePointer, Clone, GuardInv, FreedOnce
    <3>2. \A o \in Object : arcs'[o] = {} <=> arcs[o] = {}
      BY <2>0, <3>1
    <3> QED
      BY <2>1, <3>1, <3>2, LifeStays DEF Given
  <2>8. CASE EnterRust
    <3>1. PICK given \in SUBSET Object :
            given = IF call.uses # NoObject THEN {call.uses} ELSE {}
      BY <2>0
    <3>2. /\ pc = "calling" /\ pc' = "inside" /\ UNCHANGED <<arcs, born, call>>
      BY <2>8 DEF EnterRust
    <3>3. \A o \in given : Life[o] = "alive"
      BY <2>0, <3>1, <3>2 DEF CallInv, Life
    <3>4. Life' = Life /\ Given = {} /\ Given' = given
      BY <3>1, <3>2 DEF Life, Given
    <3>5. Inside["js"] = {} /\ Inside' = [Inside EXCEPT !["js"] = given]
      BY <3>4 DEF Inside
    <3>6. Promise!Enter("js", given)
      BY <3>3, <3>4, <3>5 DEF Promise!Enter, Life, Inside, Given
    <3> QED
      BY <3>6 DEF Promise!Next
  <2>9. ASSUME NEW o \in Object \cup {NoObject}, RustReturns(o)
        PROVE  Promise!Next
    <3> DEFINE made == IF o = NoObject THEN {} ELSE {o}
    <3>1. /\ pc = "inside" /\ pc' = "leaving"
          /\ o # NoObject => o \in Object \ born /\ born' = born \cup {o}
          /\ o = NoObject => UNCHANGED born
          /\ arcs' = [p \in Object |-> IF p = o THEN {This} ELSE arcs[p]]
      BY <2>9 DEF RustReturns
    <3>2. \A p \in made : Life[p] = "absent"
      BY <3>1 DEF Life
    <3>3. Life' = [p \in Object |-> IF p \in made THEN "alive" ELSE Life[p]]
      BY <3>1 DEF Life
    <3>4. Given' = {}
      BY <3>1 DEF Given
    <3>5. Inside' = [Inside EXCEPT !["js"] = {}]
      BY <3>4 DEF Inside
    <3>6. made \in SUBSET Object /\ Promise!Leave("js", made)
      BY <3>2, <3>3, <3>5 DEF Promise!Leave, Life, Inside, Given
    <3> HIDE DEF made
    <3> QED
      BY <3>6 DEF Promise!Next
  <2>10. CASE RustFails
    <3>1. /\ pc = "inside" /\ pc' = "leaving" /\ UNCHANGED <<arcs, born>>
      BY <2>10 DEF RustFails
    <3>2. Life' = [p \in Object |-> IF p \in {} THEN "alive" ELSE Life[p]]
      BY <3>1 DEF Life
    <3>3. Given' = {}
      BY <3>1 DEF Given
    <3>4. Inside' = [Inside EXCEPT !["js"] = {}]
      BY <3>3 DEF Inside
    <3>5. Promise!Leave("js", {})
      BY <3>2, <3>4 DEF Promise!Leave, Life, Inside, Given
    <3> QED
      BY <3>5 DEF Promise!Next
  <2>11. CASE LeaveRust
    <3>1. /\ pc = "leaving" /\ pc' # "inside" /\ UNCHANGED born
          /\ IF call.uses # NoObject THEN Free(call.uses, This) ELSE UNCHANGED arcs
      BY <2>11 DEF LeaveRust
    <3>2. Given = {} /\ Given' = {}
      BY <3>1 DEF Given
    <3>3. CASE call.uses = NoObject
      BY <2>2, <3>1, <3>3
    <3>4. CASE call.uses # NoObject
      <4>1. PICK o \in Object : o = call.uses
        BY <2>0, <3>4
      <4>2. o \in born /\ This \in arcs[o]
        BY <2>0, <3>1, <3>4, <4>1 DEF CallInv
      <4>3. arcs' = [arcs EXCEPT ![o] = @ \ {This}]
        BY <3>1, <3>4, <4>1 DEF Free
      <4>4. PICK w \in 0..MaxCalls : w = This
        BY <2>0, <4>2
      <4>5. Free(o, w)
        BY <4>3, <4>4 DEF Free
      <4>6. UNCHANGED Promise!vars \/ Promise!Drop(o)
        BY <2>0, <3>1, <3>2, <4>2, <4>4, <4>5, FreeOrDrop
      <4> QED
        BY <4>6 DEF Promise!Next
    <3> QED
      BY <3>3, <3>4
  <2>12. CASE Bless
    <3>1. /\ pc = "blessing" /\ pc' = "idle" /\ UNCHANGED born
          /\ arcs' = [arcs EXCEPT ![call.made] = (@ \ {This}) \cup {Guard}]
      BY <2>12 DEF Bless
    <3>2. call.made \in Object /\ arcs[call.made] # {}
      BY <2>0, <3>1 DEF CallInv
    <3>3. \A o \in Object : arcs'[o] = {} <=> arcs[o] = {}
      BY <2>0, <3>1, <3>2
    <3> QED
      BY <2>1, <3>1, <3>3, LifeStays DEF Given
  <2>13. CASE FreePointer
    <3>1. PICK o \in Object : o = call.uses
      BY <2>0, <2>13 DEF FreePointer, CallInv
    <3>2. /\ pc = "freeing" /\ pc' = "unblessing" /\ UNCHANGED born
          /\ Free(o, Guard)
      BY <2>13, <3>1 DEF FreePointer, Free
    <3>3. o \in born /\ Guard \in arcs[o]
      BY <2>0, <3>1, <3>2 DEF CallInv, GuardInv, FreedOnce
    <3>4. Given = {} /\ Given' = {}
      BY <3>2 DEF Given
    <3>5. UNCHANGED Promise!vars \/ Promise!Drop(o)
      BY <2>0, <3>2, <3>3, <3>4, FreeOrDrop
    <3> QED
      BY <3>5 DEF Promise!Next
  <2>14. ASSUME NEW o \in Object, Finalize(o)
         PROVE  UNCHANGED Promise!vars \/ Promise!Next
    <3>1. UNCHANGED <<born, pc, call>> /\ Given' = Given
      BY <2>14 DEF Finalize, Given
    <3>2. CASE guard[o] # "armed"
      BY <2>1, <2>14, <3>1, <3>2 DEF Finalize, Life
    <3>3. CASE guard[o] = "armed"
      <4>1. Free(o, Guard) /\ o \in born /\ Guard \in arcs[o]
        BY <2>0, <2>14, <3>3
        DEF Finalize, OnTheStack, GuardInv, FreedOnce
      \* a call that is inside the object counts for it too
      <4>2. o \in Given => This \in arcs'[o]
        BY <2>0, <4>1 DEF Given, CallInv, Free, This, Guard
      <4>3. UNCHANGED Promise!vars \/ Promise!Drop(o)
        BY <2>0, <3>1, <4>1, <4>2, FreeOrDrop
      <4> QED
        BY <4>3 DEF Promise!Next
    <3> QED
      BY <3>2, <3>3
  <2>15. CASE UNCHANGED vars
    BY <2>15 DEF vars, Promise!vars
  <2> QED
    BY <2>3, <2>4, <2>5, <2>6, <2>7, <2>8, <2>9, <2>10, <2>11, <2>12, <2>13,
       <2>14, <2>15
    DEF Next, Step, Library, Program, Collector
<1> QED
  BY <1>1, <1>2, Invariance, PTL DEF Spec, KeepsThePromise, Promise!Spec
=============================================================================
