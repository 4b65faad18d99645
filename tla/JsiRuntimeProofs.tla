-------------------------- MODULE JsiRuntimeProofs --------------------------
(***************************************************************************)
(* JsiRuntime's type invariant, NoLambdaOutlivesItsRuntime and             *)
(* FirstInstallIsTrue, for any number of futures and of runtimes.          *)
(***************************************************************************)
EXTENDS JsiRuntime, TLAPS

\* Only a runtime that is up runs a script, and the bindings are initialized
\* only where the host object is.
ScriptInv ==
  /\ script = "none" <=> runtime = None
  /\ script = "ready" => runtime \in global

\* A lambda is of the runtime that is up, which has the host object whose
\* destructor nulls it.
LambdaInv ==
  \A k \in Kind : rsLambda[k] # None =>
                    rsLambda[k] = runtime /\ runtime \in global

\* The inductive invariant.
Inv == TypeOK /\ ScriptInv /\ LambdaInv

\* The first state.
LEMMA InitInv == Init => Inv
<1> SUFFICES ASSUME Init
             PROVE  Inv
  OBVIOUS
<1>1. answer \in BOOLEAN /\ jsiInstalled \in BOOLEAN
      /\ isInstalled \in BOOLEAN /\ aborted \in BOOLEAN
  BY Zenon DEF Init
<1>2. polls \in [Future -> Poll]
  BY DEF Init, Poll, None
<1>3. TypeOK
  BY <1>1, <1>2, RuntimeAssumption DEF Init, TypeOK, None, Runtimes
<1> QED
  BY <1>3 DEF Init, Inv, ScriptInv, LambdaInv, None

\* NativeInstall keeps the types, and takes no host object away.
LEMMA NativeInstallKeeps ==
  ASSUME NativeInstall, global \subseteq Runtimes, runtime \in Runtimes,
         isInstalled \in BOOLEAN
  PROVE  /\ global' \subseteq Runtimes /\ global \subseteq global'
         /\ jsiInstalled' \in BOOLEAN /\ isInstalled' \in BOOLEAN
<1>1. global' \subseteq Runtimes /\ global \subseteq global'
  BY DEF NativeInstall, RegisterModule
<1>2. jsiInstalled' \in BOOLEAN /\ isInstalled' \in BOOLEAN
  BY Zenon DEF NativeInstall
<1> QED
  BY <1>1, <1>2

\* What is left of a step that only moves the script of a runtime.
LEMMA ScriptStep ==
  ASSUME Inv, runtime # None,
         UNCHANGED <<platform, started, runtime, rsLambda, polls, aborted>>,
         global' \subseteq Runtimes, global \subseteq global',
         script' \in {"booting", "loading", "installed", "ready", "failed"},
         script' = "ready" => runtime \in global',
         answer' \in BOOLEAN, jsiInstalled' \in BOOLEAN, isInstalled' \in BOOLEAN
  PROVE  Inv'
BY DEF Inv, TypeOK, ScriptInv, LambdaInv, None

\* No step disturbs the invariant.
LEMMA NextInv == Inv /\ [Next]_vars => Inv'
<1> SUFFICES ASSUME Inv, [Next]_vars
             PROVE  Inv'
  OBVIOUS
<1> USE RuntimeAssumption
<1>0. runtime # None => runtime \in Runtimes
  BY DEF Inv, TypeOK, None, Runtimes
<1>1. CASE StartRuntime
  <2>1. answer' \in BOOLEAN
    BY <1>1, Zenon DEF StartRuntime
  <2>2. started' \in 0..MaxRuntimes /\ runtime' = started' /\ runtime' # None
    BY <1>1 DEF StartRuntime, Inv, TypeOK, None
  <2> QED
    BY <1>1, <2>1, <2>2 DEF StartRuntime, Inv, TypeOK, ScriptInv, LambdaInv
<1>2. CASE EndRuntime
  <2>1. answer' \in BOOLEAN
    BY <1>2, Zenon DEF EndRuntime
  <2>2. polls' \in [Future -> Poll]
    BY <1>2 DEF EndRuntime, Inv, TypeOK, Poll
  <2>3. rsLambda' = [k \in Kind |-> None]
    \* a runtime without the host object has made no lambda
    BY <1>2 DEF EndRuntime, Cleanup, Inv, TypeOK, LambdaInv
  <2> QED
    BY <1>2, <2>1, <2>2, <2>3
    DEF EndRuntime, Inv, TypeOK, ScriptInv, LambdaInv, None
<1>3. CASE InitializeModule
  <2>1. runtime # None /\ runtime \in Runtimes
    BY <1>3, <1>0 DEF InitializeModule, Inv, ScriptInv
  <2>2. CASE NativeInstall
    BY <1>3, <2>1, <2>2, NativeInstallKeeps, ScriptStep
    DEF InitializeModule, Inv, TypeOK
  <2>3. CASE UNCHANGED <<jsiInstalled, isInstalled, global>>
    BY <1>3, <2>1, <2>3, ScriptStep DEF InitializeModule, Inv, TypeOK
  <2> QED
    BY <1>3, <2>2, <2>3, Zenon DEF InitializeModule, Refuse
<1>4. CASE InstallRustCrate
  <2>1. runtime # None /\ runtime \in Runtimes
    BY <1>4, <1>0 DEF InstallRustCrate, Inv, ScriptInv
  <2>2. answer' \in BOOLEAN
    BY <1>4, Zenon DEF InstallRustCrate, Refuse
  <2>3. CASE RegisterModule /\ UNCHANGED <<jsiInstalled, isInstalled>>
    BY <1>4, <2>1, <2>2, <2>3, ScriptStep
    DEF InstallRustCrate, RegisterModule, Inv, TypeOK
  <2>4. CASE UNCHANGED <<jsiInstalled, isInstalled, global>>
    BY <1>4, <2>1, <2>2, <2>4, ScriptStep DEF InstallRustCrate, Inv, TypeOK
  <2>5. CASE NativeInstall
    BY <1>4, <2>1, <2>2, <2>5, NativeInstallKeeps, ScriptStep
    DEF InstallRustCrate, Inv, TypeOK
  <2> QED
    BY <1>4, <2>3, <2>4, <2>5, Zenon DEF InstallRustCrate, Refuse
<1>5. CASE InitializeBindings
  <2>1. runtime # None
    BY <1>5 DEF InitializeBindings, Inv, ScriptInv
  <2> QED
    BY <1>5, <2>1, ScriptStep DEF InitializeBindings, Inv, TypeOK
<1>6. ASSUME NEW f \in Future, PollFuture(f)
      PROVE  Inv'
  <2>1. runtime \in global /\ runtime \in Runtimes
    BY <1>6 DEF PollFuture, Inv, TypeOK, ScriptInv
  <2>2. polls' \in [Future -> Poll]
    BY <1>6, <2>1 DEF PollFuture, Inv, TypeOK, Poll
  <2>3. /\ rsLambda' \in [Kind -> Runtimes \cup {None}]
        /\ \A k \in Kind : rsLambda'[k] \in {rsLambda[k], runtime}
    BY <1>6, <2>1
    DEF PollFuture, MakeCallbackFunction, Inv, TypeOK, Kind
  <2> QED
    BY <1>6, <2>1, <2>2, <2>3
    DEF PollFuture, loader, Inv, TypeOK, ScriptInv, LambdaInv
<1>7. ASSUME NEW f \in Future, EnterCallback(f)
      PROVE  Inv'
  <2>1. polls' \in [Future -> Poll]
    BY <1>7 DEF EnterCallback, Inv, TypeOK, Poll
  <2> QED
    BY <1>7, <2>1 DEF EnterCallback, loader, Inv, TypeOK, ScriptInv, LambdaInv
<1>8. ASSUME NEW f \in Future, CallLambda(f)
      PROVE  Inv'
  <2>1. polls' \in [Future -> Poll]
    BY <1>8 DEF CallLambda, Inv, TypeOK, Poll
  <2>2. aborted' \in BOOLEAN
    BY <1>8, Zenon DEF CallLambda, Inv, TypeOK
  <2> QED
    BY <1>8, <2>1, <2>2
    DEF CallLambda, loader, Inv, TypeOK, ScriptInv, LambdaInv
<1>9. ASSUME NEW f \in Future, RunCallback(f)
      PROVE  Inv'
  <2>1. polls' \in [Future -> Poll]
    BY <1>9 DEF RunCallback, Inv, TypeOK, Poll
  <2> QED
    BY <1>9, <2>1 DEF RunCallback, loader, Inv, TypeOK, ScriptInv, LambdaInv
<1>10. CASE UNCHANGED vars
  BY <1>10 DEF vars, Inv, TypeOK, ScriptInv, LambdaInv
<1> QED
  BY <1>1, <1>2, <1>3, <1>4, <1>5, <1>6, <1>7, <1>8, <1>9, <1>10
  DEF Next, Script, Callback

\* The inductive invariant holds throughout.
THEOREM Invariance == Spec => []Inv
BY InitInv, NextInv, PTL DEF Spec

\* The variables keep their types, over any number of reloads.
THEOREM TypeCorrect == Spec => []TypeOK
<1>1. Inv => TypeOK
  BY DEF Inv
<1> QED
  BY <1>1, Invariance, PTL

\* ~NativeController is enough: however the runtimes follow each other, and
\* whichever of them got the host object, no lambda is left behind.
THEOREM LambdasCorrect == Spec => []NoLambdaOutlivesItsRuntime
<1>1. Inv => NoLambdaOutlivesItsRuntime
  BY DEF Inv, LambdaInv, NoLambdaOutlivesItsRuntime
<1> QED
  BY <1>1, Invariance, PTL

-----------------------------------------------------------------------------
(* Who is told that it is installed. *)

\* Until the first runtime ends, the flags say what it has; and no answer of
\* an earlier runtime is left.
FirstInv ==
  /\ started = 0 => ~jsiInstalled /\ ~isInstalled
  /\ platform = "android" /\ started = 1 /\ runtime # None
       => (jsiInstalled \/ isInstalled => runtime \in global)
  /\ answer => script \in {"installed", "ready", "failed"}
  /\ FirstInstallIsTrue

LEMMA FirstStep ==
  ASSUME Inv, FirstInv, [Next]_vars
  PROVE  FirstInv'
<1> USE DEF FirstInv, FirstInstallIsTrue
<1>0. /\ started \in Nat /\ runtime \in {None, started} /\ None = 0
      /\ script = "none" <=> runtime = None
  BY RuntimeAssumption DEF Inv, TypeOK, ScriptInv, None
<1>1. CASE StartRuntime
  BY <1>0, <1>1 DEF StartRuntime
<1>2. CASE EndRuntime
  BY <1>0, <1>2 DEF EndRuntime
<1>3. CASE InitializeModule
  BY <1>0, <1>3
  DEF InitializeModule, NativeInstall, RegisterModule, Refuse
<1>4. CASE InstallRustCrate
  <2>1. /\ script' = "installed" /\ runtime # None
        /\ UNCHANGED <<platform, started, runtime>>
    BY <1>0, <1>4 DEF InstallRustCrate
  <2>2. \/ RegisterModule /\ UNCHANGED <<jsiInstalled, isInstalled>>
        \/ jsiInstalled /\ platform # "ios"
             /\ UNCHANGED <<jsiInstalled, isInstalled, global>>
        \/ NativeInstall /\ platform # "ios"
        \/ ~answer' /\ UNCHANGED <<jsiInstalled, isInstalled, global>>
    BY <1>4, Zenon DEF InstallRustCrate, Refuse
  <2>3. platform \in {"android", "ios"}
    BY DEF Inv, TypeOK
  <2> QED
    BY <1>0, <2>1, <2>2, <2>3 DEF NativeInstall, RegisterModule
<1>5. CASE InitializeBindings
  BY <1>0, <1>5 DEF InitializeBindings
<1>6. ASSUME NEW f \in Future, PollFuture(f) \/ Callback(f)
      PROVE  FirstInv'
  BY <1>6 DEF PollFuture, Callback, EnterCallback, CallLambda, RunCallback, loader
<1>7. CASE UNCHANGED vars
  BY <1>7 DEF vars
<1> QED
  BY <1>1, <1>2, <1>3, <1>4, <1>5, <1>6, <1>7 DEF Next, Script

\* However often the module is refused, and by whichever of its two entries it
\* gets in: the first runtime on Android, and each one on iOS, is told so only
\* when it has got its NativeController.
THEOREM FirstInstallCorrect == Spec => []FirstInstallIsTrue
<1>1. Init => FirstInv
  BY DEF Init, FirstInv, FirstInstallIsTrue
<1>2. Inv /\ FirstInv /\ [Next]_vars => FirstInv'
  BY FirstStep
<1>3. FirstInv => FirstInstallIsTrue
  BY DEF FirstInv
<1> QED
  BY <1>1, <1>2, <1>3, Invariance, PTL DEF Spec

-----------------------------------------------------------------------------
(* What a polled future waits for. *)

\* A future belongs to a runtime that there has been once it is polled.
PollerInv ==
  \A f \in Future : /\ polls[f].by <= started
                    /\ polls[f].at = "none" => polls[f].by = None

\* As long as the runtime that polled a future runs, the callback has the
\* lambda of that runtime: it is neither ignored nor throws.
PolledIsServed ==
  \A f \in Future :
    runtime # None /\ polls[f].by = runtime =>
      /\ polls[f].at \in {"polled", "entered", "queued", "continued"}
      /\ rsLambda["continuation"] = runtime
      /\ ~aborted

LEMMA ServedStep ==
  ASSUME Inv, PollerInv, PolledIsServed, [Next]_vars
  PROVE  PollerInv' /\ PolledIsServed'
<1> USE RuntimeAssumption DEF PollerInv, PolledIsServed
<1>0. /\ polls \in [Future -> Poll] /\ rsLambda \in [Kind -> Runtimes \cup {None}]
      /\ started \in Nat /\ runtime \in {None, started} /\ None = 0
      /\ "continuation" \in Kind
      /\ \A f \in Future : polls[f].by \in Nat
  BY DEF Inv, TypeOK, Kind, None, Poll, Runtimes
<1>1. CASE StartRuntime
  BY <1>0, <1>1 DEF StartRuntime
<1>2. CASE EndRuntime
  <2>1. \A f \in Future : polls'[f].by = polls[f].by
                          /\ (polls'[f].at = "none" => polls[f].at = "none")
    BY <1>0, <1>2 DEF EndRuntime, Poll
  <2> QED
    BY <1>2, <2>1 DEF EndRuntime
<1>3. CASE Script
  BY <1>3 DEF Script, InitializeModule, InstallRustCrate, InitializeBindings
<1>4. ASSUME NEW f \in Future, PollFuture(f)
      PROVE  PollerInv' /\ PolledIsServed'
  <2>1. runtime = started /\ runtime # None
    BY <1>0, <1>4 DEF PollFuture, Inv, ScriptInv
  <2>2. rsLambda'["continuation"] = runtime
    BY <1>0, <1>4 DEF PollFuture, MakeCallbackFunction, Inv, LambdaInv
  <2>3. ~aborted' /\ runtime' = runtime /\ started' = started
    BY <1>4 DEF PollFuture, loader
  <2>4. /\ polls'[f] = [at |-> "polled", by |-> runtime]
        /\ \A g \in Future : g # f => polls'[g] = polls[g]
    BY <1>0, <1>4 DEF PollFuture
  <2> QED
    BY <1>0, <2>1, <2>2, <2>3, <2>4
<1>5. ASSUME NEW f \in Future, EnterCallback(f)
      PROVE  PollerInv' /\ PolledIsServed'
  BY <1>0, <1>5 DEF EnterCallback, loader, Poll
<1>6. ASSUME NEW f \in Future, CallLambda(f)
      PROVE  PollerInv' /\ PolledIsServed'
  <2>1. UNCHANGED <<started, runtime, rsLambda>>
    BY <1>6 DEF CallLambda
  <2>2. CASE rsLambda["continuation"] = None
    BY <1>0, <1>6, <2>1, <2>2 DEF CallLambda
  <2>3. CASE rsLambda["continuation"] # None
    BY <1>0, <1>6, <2>1, <2>3 DEF CallLambda, Poll
  <2> QED
    BY <2>2, <2>3
<1>7. ASSUME NEW f \in Future, RunCallback(f)
      PROVE  PollerInv' /\ PolledIsServed'
  BY <1>0, <1>7 DEF RunCallback, loader, Poll
<1>8. CASE UNCHANGED vars
  BY <1>8 DEF vars
<1> QED
  BY <1>1, <1>2, <1>3, <1>4, <1>5, <1>6, <1>7, <1>8 DEF Next, Callback

\* The half of PolledFutureContinues that needs no fairness: neither a reload
\* before, nor a callback that is late from an earlier runtime, takes the
\* lambda from a future that waits, or ends the process under it.
THEOREM ServedCorrect == Spec => []PolledIsServed
<1>1. Init => PollerInv /\ PolledIsServed
  BY DEF Init, PollerInv, PolledIsServed, None
<1>2. Inv /\ PollerInv /\ PolledIsServed /\ [Next]_vars
        => PollerInv' /\ PolledIsServed'
  BY ServedStep
<1> QED
  BY <1>1, <1>2, Invariance, PTL DEF Spec

=============================================================================
