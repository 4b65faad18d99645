----------------------------- MODULE JsiRuntime -----------------------------
(***************************************************************************)
(* The life of the React Native module in one process, over the JavaScript *)
(* runtimes that follow each other in it: a reload of the program destroys *)
(* the runtime and makes a new one, while the statics of the C++ library   *)
(* and of ControllerModule.kt stay.  Each runtime installs the module and  *)
(* initializes the bindings; from then on Rust may call back into it.      *)
(*                                                                         *)
(* The interface has no asynchronous function today.  The futures of this  *)
(* module are the environment the callbacks are generated for: a function  *)
(* that JavaScript polls, and that Rust wakes once, on a thread of its     *)
(* own, through the continuation callback.                                 *)
(***************************************************************************)
EXTENDS Naturals

CONSTANTS
  Future,      \* the futures JavaScript may poll
  MaxRuntimes  \* bound: how many runtimes the process sees

ASSUME RuntimeAssumption == MaxRuntimes \in Nat \ {0}

\* The callbacks that ~NativeController knows of.
Kind == {"continuation", "clone"}
None == 0
Runtimes == 1..MaxRuntimes

VARIABLES
  platform,      \* "android" or "ios"
  started,       \* how many runtimes there have been
  runtime,       \* the one that runs now
  script,        \* how far its index.tsx has come
  answer,        \* what installRustCrate answered it
  jsiInstalled,  \* static of ControllerModule.kt
  isInstalled,   \* static of cpp-adapter.cpp
  global,        \* the runtimes that have a NativeController
  rsLambda,      \* the runtime each callback's lambda points to
  polls,         \* of each future: where it stands, and who polled it
  aborted        \* the process has ended on an exception

loader == <<script, answer, jsiInstalled, isInstalled>>
vars == <<platform, started, runtime, script, answer, jsiInstalled,
          isInstalled, global, rsLambda, polls, aborted>>

Poll == [at : {"none", "polled", "entered", "queued", "ignored", "continued"},
         by : Runtimes \cup {None}]

Init ==
  /\ platform \in {"android", "ios"}
  /\ started = 0 /\ runtime = None /\ script = "none" /\ answer = FALSE
  /\ jsiInstalled = FALSE /\ isInstalled = FALSE
  /\ global = {}
  /\ rsLambda = [k \in Kind |-> None]
  /\ polls = [f \in Future |-> [at |-> "none", by |-> None]]
  /\ aborted = FALSE

-----------------------------------------------------------------------------
\* A runtime comes up; the module of the one before is gone.
StartRuntime ==
  /\ runtime = None /\ started < MaxRuntimes /\ ~aborted
  /\ started' = started + 1 /\ runtime' = started + 1
  /\ script' = "booting" /\ answer' = FALSE
  /\ UNCHANGED <<platform, jsiInstalled, isInstalled, global, rsLambda,
                 polls, aborted>>

\* Mutant: the runtime of a context that has none yet.
RegisterUnchecked ==
  global' = global \cup {IF script = "booting" THEN None ELSE runtime}

\* installRustCrate of controller.cpp.
RegisterModule == global' = global \cup {runtime}

\* nativeInstallRustCrate, once the runtime is there to be installed in.
NativeInstall ==
  /\ IF isInstalled THEN UNCHANGED global ELSE RegisterModule
  /\ isInstalled' = TRUE /\ jsiInstalled' = TRUE

\* ControllerModule cannot install: the JavaScript context is not there yet, or
\* the native call throws.
Refuse == UNCHANGED <<jsiInstalled, isInstalled, global>>

\* Mutant: a module that takes any end of installJSIBindings for a success.
InitializeModuleAnyway ==
  /\ script = "booting" /\ ~aborted
  /\ script' = "loading"
  /\ IF platform = "ios" \/ jsiInstalled
     THEN UNCHANGED <<jsiInstalled, isInstalled, global>>
     ELSE \/ NativeInstall
          \/ jsiInstalled' = TRUE /\ UNCHANGED <<isInstalled, global>>
  /\ UNCHANGED <<platform, started, runtime, answer, rsLambda, polls, aborted>>

\* ControllerModule.initialize(): on Android it installs unless that has been
\* done, and leaves it to installRustCrate when it cannot.
InitializeModule ==
  /\ script = "booting" /\ ~aborted
  /\ script' = "loading"
  /\ IF platform = "ios" \/ jsiInstalled
     THEN UNCHANGED <<jsiInstalled, isInstalled, global>>
     ELSE NativeInstall \/ Refuse
  /\ UNCHANGED <<platform, started, runtime, answer, rsLambda, polls, aborted>>

\* index.tsx calls installRustCrate, logs what it answers, and goes on.
InstallRustCrate ==
  /\ script = "loading" /\ ~aborted
  /\ script' = "installed"
  /\ IF platform = "ios"
     THEN RegisterModule /\ answer' = TRUE /\ UNCHANGED <<jsiInstalled, isInstalled>>
     ELSE IF jsiInstalled
     THEN answer' = TRUE /\ UNCHANGED <<jsiInstalled, isInstalled, global>>
     ELSE \/ NativeInstall /\ answer' = TRUE
          \/ Refuse /\ answer' = FALSE
  /\ UNCHANGED <<platform, started, runtime, rsLambda, polls, aborted>>

\* It goes on to initialize the bindings, which asks the global for its
\* first checksum.
InitializeBindings ==
  /\ script = "installed" /\ ~aborted
  /\ script' = IF runtime \in global THEN "ready" ELSE "failed"
  /\ UNCHANGED <<platform, started, runtime, answer, jsiInstalled,
                 isInstalled, global, rsLambda, polls, aborted>>

\* Mutant: a destructor that forgets the continuation callback.
CleanupCloneOnly == rsLambda' = [rsLambda EXCEPT !["clone"] = None]

\* ~NativeController nulls the lambdas.
Cleanup == rsLambda' = [k \in Kind |-> None]

\* The runtime goes, with its queue and its host objects.
EndRuntime ==
  /\ runtime # None /\ ~aborted
  /\ runtime' = None /\ script' = "none" /\ answer' = FALSE
  /\ global' = global \ {runtime}
  /\ IF runtime \in global THEN Cleanup ELSE UNCHANGED rsLambda
  /\ polls' = [f \in Future |-> IF polls[f].at = "queued"
                                THEN [polls[f] EXCEPT !.at = "ignored"]
                                ELSE polls[f]]
  /\ UNCHANGED <<platform, started, jsiInstalled, isInstalled, aborted>>

-----------------------------------------------------------------------------
\* Mutant: a lambda that is only made for the first runtime.
MakeCallbackOnce(k) ==
  rsLambda' = IF runtime = 1 THEN [rsLambda EXCEPT ![k] = runtime] ELSE rsLambda

\* makeCallbackFunction: the lambda is made unless there is one.
MakeCallbackFunction(k) ==
  rsLambda' = IF rsLambda[k] # None THEN rsLambda
              ELSE [rsLambda EXCEPT ![k] = runtime]

\* JavaScript polls a future, and passes the continuation callback along.
PollFuture(f) ==
  /\ script = "ready" /\ polls[f].at = "none" /\ ~aborted
  /\ MakeCallbackFunction("continuation")
  /\ polls' = [polls EXCEPT ![f] = [at |-> "polled", by |-> runtime]]
  /\ UNCHANGED <<platform, started, runtime, loader, global, aborted>>

\* A thread of Rust enters the callback: without a lambda there is no
\* runtime to call into.
EnterCallback(f) ==
  /\ polls[f].at = "polled" /\ ~aborted
  /\ polls' = [polls EXCEPT ![f].at =
       IF rsLambda["continuation"] = None THEN "ignored" ELSE "entered"]
  /\ UNCHANGED <<platform, started, runtime, loader, global, rsLambda, aborted>>

\* It calls the lambda, which it reads once more.  On iOS the call is queued
\* for the thread of the runtime, SyncCallInvoker makes it at once; an empty
\* std::function throws, into Rust, which ends the process.
CallLambda(f) ==
  /\ polls[f].at = "entered" /\ ~aborted
  /\ IF rsLambda["continuation"] = None
     THEN aborted' = TRUE /\ UNCHANGED polls
     ELSE /\ polls' = [polls EXCEPT ![f].at =
               IF platform = "ios" THEN "queued" ELSE "continued"]
          /\ UNCHANGED aborted
  /\ UNCHANGED <<platform, started, runtime, loader, global, rsLambda>>

\* Mutant: a queue that only the first poll gets into.
RunCallbackOfFirst(f) ==
  /\ polls[f].at = "queued" /\ runtime = 1 /\ ~aborted
  /\ polls' = [polls EXCEPT ![f].at = "continued"]
  /\ UNCHANGED <<platform, started, runtime, loader, global, rsLambda, aborted>>

\* The thread of the runtime takes the call from its queue: "body" calls the
\* JavaScript function, which continues the future.
RunCallback(f) ==
  /\ polls[f].at = "queued" /\ ~aborted
  /\ polls' = [polls EXCEPT ![f].at = "continued"]
  /\ UNCHANGED <<platform, started, runtime, loader, global, rsLambda, aborted>>

Script == InitializeModule \/ InstallRustCrate \/ InitializeBindings

Callback(f) == EnterCallback(f) \/ CallLambda(f) \/ RunCallback(f)

Next ==
  \/ StartRuntime \/ EndRuntime \/ Script
  \/ \E f \in Future : PollFuture(f) \/ Callback(f)

\* The threads of JavaScript and of Rust run; nobody needs to reload.
Fairness ==
  /\ WF_vars(Script)
  /\ \A f \in Future : WF_vars(Callback(f))

Spec == Init /\ [][Next]_vars /\ Fairness

-----------------------------------------------------------------------------
\* The variables keep their types.
TypeOK ==
  /\ platform \in {"android", "ios"}
  /\ started \in 0..MaxRuntimes /\ runtime \in {None, started}
  /\ script \in {"none", "booting", "loading", "installed", "ready", "failed"}
  /\ answer \in BOOLEAN /\ jsiInstalled \in BOOLEAN
  /\ isInstalled \in BOOLEAN /\ aborted \in BOOLEAN
  /\ global \subseteq Runtimes
  /\ rsLambda \in [Kind -> Runtimes \cup {None}]
  /\ polls \in [Future -> Poll]

\* "The lambda holds a reference to the Runtime, so when this is nulled out,
\* then the pointer will no longer be left dangling": no lambda outlives the
\* runtime it points to, and none is kept for the next.
NoLambdaOutlivesItsRuntime ==
  \A k \in Kind : rsLambda[k] # None => rsLambda[k] = runtime

\* A future that a runtime has polled goes on, unless the runtime goes.
PolledFutureContinues ==
  \A f \in Future : \A r \in Runtimes :
    (polls[f].at = "polled" /\ polls[f].by = r /\ runtime = r)
      ~> (polls[f].at = "continued" \/ runtime # r)

\* What initialize() could not install, because it came before the JavaScript
\* context, installRustCrate does install: the first runtime of the process on
\* Android, and every one on iOS, is told that it is installed only when it has
\* its NativeController.
FirstInstallIsTrue ==
  answer /\ (platform = "ios" \/ started = 1) => runtime \in global

\* index.tsx: "Controller Rust crate installed successfully", the boolean
\* flag "ensures this loads exactly once, even if the JS code is reloaded":
\* a runtime that was told so has its NativeController.
InstalledIsTrue == answer => runtime \in global
=============================================================================
