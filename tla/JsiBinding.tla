----------------------------- MODULE JsiBinding -----------------------------
(***************************************************************************)
(* The React Native binding in one JavaScript runtime.  JavaScript runs on *)
(* one thread, but the garbage collector finalizes its objects whenever it *)
(* likes, on a thread of its choice.  What an instance of ControllerAccount,*)
(* Owner or SessionAccount owns of the Rust library is freed either by     *)
(* uniffiDestroy() or by the destructor of its guard, a host object.       *)
(*                                                                         *)
(* As in CppBinding the strong count of an Arc is the set of those who     *)
(* count for it.  The buffers JavaScript lowers its arguments into are     *)
(* collected with the rest, and those of the Rust heap are made and freed  *)
(* within one host function, so that buffers are not modelled.             *)
(***************************************************************************)
EXTENDS Naturals, Sequences

CONSTANTS
  Object,     \* the objects the program may make
  NoObject,   \* the call works on no object
  Class,      \* the type of each object
  ApiCalled,  \* the layers of the binding, as JsiApi describes them
  ApiExposed,
  ApiGlue,
  ApiDeclared,
  Checked,    \* the functions whose checksums initialize() compares
  Nothing,    \* no function of the library differs
  MaxCalls    \* bound: how many calls the program makes

Types == {"controlleraccount", "owner", "sessionaccount"}

ASSUME JsiAssumption ==
  /\ NoObject \notin Object /\ MaxCalls \in Nat
  /\ Class \in [Object -> Types]
  /\ Nothing \notin DOMAIN ApiCalled

VARIABLES
  arcs,     \* who counts for each Rust object: its guard, and calls
  born,     \* the Rust objects made so far
  guard,    \* the host object of each: none, armed, or marked destroyed
  owns,     \* the instances that still have their guard
  reach,    \* the instances the program still refers to
  differs,  \* the function whose checksum in the library is another
  pc,       \* where the JavaScript thread stands
  call,     \* the call it is in
  calls,    \* the calls it has made
  lost,     \* history: the calls an exception left before Rust was entered
  down      \* the runtime is being torn down

vars == <<arcs, born, guard, owns, reach, differs, pc, call, calls, lost, down>>

-----------------------------------------------------------------------------
\* The guard as an owner of the Arc; a call is its number.
Guard == 0
This == calls

Idle == [fn |-> Nothing, uses |-> NoObject, made |-> NoObject]
Takes(f) == ApiCalled[f].takes
IsLowered(kind) == kind # "handle"

\* A call of f works on an object of type t: its receiver, or an argument.
UsesHandle(f) == \E i \in DOMAIN Takes(f) : Takes(f)[i] = "handle"
IsMethod(f) == Takes(f)[1] = "handle"
TypeUsed(f) == IF IsMethod(f) THEN f[1] ELSE "owner"

\* f lowers an argument after it clones its pointer.
LowersAfter(f) ==
  \E i \in DOMAIN Takes(f) :
    /\ IsLowered(Takes(f)[i])
    /\ \A j \in DOMAIN Takes(f) : Takes(f)[j] = "handle" => j < i

\* The host function that JavaScript is about to ask the module for.
Native ==
  CASE pc = "cloning"  -> <<TypeUsed(call.fn), "clone">>
    [] pc = "calling"  -> call.fn
    [] pc = "blessing" -> <<Class[call.made], "bless">>
    [] pc = "freeing"  -> <<Class[call.uses], "free">>

Asking ==
  /\ pc \in {"cloning", "calling", "blessing", "freeing"}
  /\ pc = "cloning" => call.uses \in owns

\* It is there, it converts what it is passed, and what it passes on is what
\* the library takes.
Answers(f) ==
  /\ f \in ApiExposed /\ f \in DOMAIN ApiGlue
  /\ f \in DOMAIN ApiCalled => ApiGlue[f] = ApiCalled[f]
  /\ f[2] # "bless" => f \in DOMAIN ApiDeclared /\ ApiDeclared[f] = ApiGlue[f]

\* All that controller.ts may ask for is answered, and whatever it calls of the
\* library's own is among what initialize() compares.
InterfaceFits ==
  /\ \A f \in DOMAIN ApiCalled : Answers(f) /\ f \in Checked
  /\ \A t \in Types, what \in {"clone", "bless", "free"} : Answers(<<t, what>>)

Clone(o, w) == arcs' = [arcs EXCEPT ![o] = @ \cup {w}]
Free(o, w) == arcs' = [arcs EXCEPT ![o] = @ \ {w}]

Init ==
  /\ arcs = [o \in Object |-> {}]
  /\ born = {} /\ owns = {} /\ reach = {} /\ lost = {}
  /\ guard = [o \in Object |-> "none"]
  /\ differs \in DOMAIN ApiCalled \cup {Nothing}
  /\ pc = "unloaded" /\ call = Idle /\ calls = 0
  /\ down = FALSE

-----------------------------------------------------------------------------
\* Mutant: the mismatch is logged, not thrown.
InitializeLogging ==
  /\ pc = "unloaded"
  /\ pc' = "idle"
  /\ UNCHANGED <<arcs, born, guard, owns, reach, differs, call, calls, lost, down>>

\* initialize(), as index.tsx does when it is loaded: the import of the
\* module fails if a checksum differs.
Initialize ==
  /\ pc = "unloaded"
  /\ pc' = IF differs \in Checked THEN "refused" ELSE "idle"
  /\ UNCHANGED <<arcs, born, guard, owns, reach, differs, call, calls, lost, down>>

\* The program calls f, on an instance it refers to if f works on one.
Invoke(f, o) ==
  /\ pc = "idle" /\ ~down /\ calls < MaxCalls
  /\ IF UsesHandle(f) THEN o \in reach /\ Class[o] = TypeUsed(f)
     ELSE o = NoObject
  /\ calls' = calls + 1
  /\ call' = [Idle EXCEPT !.fn = f, !.uses = o]
  /\ pc' = IF UsesHandle(f) THEN "cloning" ELSE "calling"
  /\ UNCHANGED <<arcs, born, guard, owns, reach, differs, lost, down>>

\* The instance has been destroyed (UnexpectedNullPointer), an argument before
\* the pointer cannot be lowered, or the rustCall of clonePointer throws:
\* nothing was cloned.
ThrowBeforeClone ==
  /\ pc = "cloning"
  /\ pc' = "idle" /\ call' = Idle
  /\ UNCHANGED <<arcs, born, guard, owns, reach, differs, calls, lost, down>>

\* Mutant: the pointer itself, instead of a clone.
PassPointer ==
  /\ pc = "cloning" /\ call.uses \in owns /\ Answers(Native)
  /\ pc' = "calling"
  /\ UNCHANGED <<arcs, born, guard, owns, reach, differs, call, calls, lost, down>>

\* clonePointer: of the receiver, or of an owner among the arguments.
ClonePointer ==
  /\ pc = "cloning" /\ call.uses \in owns /\ Answers(Native)
  /\ Clone(call.uses, This)
  /\ pc' = "calling"
  /\ UNCHANGED <<born, guard, owns, reach, differs, call, calls, lost, down>>

\* An argument after the pointer cannot be lowered: nobody frees the clone.
ThrowAfterClone ==
  /\ pc = "calling" /\ LowersAfter(call.fn)
  /\ lost' = lost \cup {This}
  /\ pc' = "idle" /\ call' = Idle
  /\ UNCHANGED <<arcs, born, guard, owns, reach, differs, calls, down>>

\* The host function copies the arguments to the Rust heap and calls.
EnterRust ==
  /\ pc = "calling" /\ Answers(Native)
  /\ pc' = "inside"
  /\ UNCHANGED <<arcs, born, guard, owns, reach, differs, call, calls, lost, down>>

\* The function gives a value, or the pointer of a new Arc, which counts for
\* the call until a guard has it.
RustReturns(o) ==
  /\ pc = "inside"
  /\ IF ApiCalled[call.fn].gives = "handle"
     THEN /\ o \in Object \ born /\ Class[o] = call.fn[1]
          /\ born' = born \cup {o}
     ELSE o = NoObject /\ UNCHANGED born
  /\ arcs' = [p \in Object |-> IF p = o THEN {This} ELSE arcs[p]]
  /\ call' = [call EXCEPT !.made = o]
  /\ pc' = "leaving"
  /\ UNCHANGED <<guard, owns, reach, differs, calls, lost, down>>

\* It fails, or panics; rustCall throws once the status is lifted.
RustFails ==
  /\ pc = "inside"
  /\ pc' = "leaving"
  /\ UNCHANGED <<arcs, born, guard, owns, reach, differs, call, calls, lost, down>>

\* Mutant: a status that nothing lifts.
LeaveRustUnlifted ==
  /\ pc = "leaving"
  /\ pc' = "unlifted"
  /\ UNCHANGED <<arcs, born, guard, owns, reach, differs, call, calls, lost, down>>

\* The scaffolding drops the clone; the host function copies the status and
\* the value to JavaScript, and frees their buffers.
LeaveRust ==
  /\ pc = "leaving"
  /\ IF call.uses # NoObject THEN Free(call.uses, This) ELSE UNCHANGED arcs
  /\ IF call.made # NoObject THEN pc' = "blessing" /\ UNCHANGED call
     ELSE pc' = "idle" /\ call' = Idle
  /\ UNCHANGED <<born, guard, owns, reach, differs, calls, lost, down>>

\* Mutant: the guard has a clone of the pointer that the call was given.
BlessCloning ==
  /\ pc = "blessing" /\ Answers(Native)
  /\ Clone(call.made, Guard)
  /\ guard' = [guard EXCEPT ![call.made] = "armed"]
  /\ owns' = owns \cup {call.made} /\ reach' = reach \cup {call.made}
  /\ pc' = "idle" /\ call' = Idle
  /\ UNCHANGED <<born, differs, calls, lost, down>>

\* create(), or the constructor: the instance gets its pointer and its guard.
Bless ==
  /\ pc = "blessing" /\ Answers(Native)
  /\ arcs' = [arcs EXCEPT ![call.made] = (@ \ {This}) \cup {Guard}]
  /\ guard' = [guard EXCEPT ![call.made] = "armed"]
  /\ owns' = owns \cup {call.made} /\ reach' = reach \cup {call.made}
  /\ pc' = "idle" /\ call' = Idle
  /\ UNCHANGED <<born, differs, calls, lost, down>>

-----------------------------------------------------------------------------
\* uniffiDestroy(): nothing if the guard is gone already.
UniffiDestroy(o) ==
  /\ pc = "idle" /\ ~down /\ o \in reach /\ o \in owns
  /\ call' = [Idle EXCEPT !.uses = o]
  /\ pc' = "freeing"
  /\ UNCHANGED <<arcs, born, guard, owns, reach, differs, calls, lost, down>>

\* The library is taken to free without a panic: no type of src/src has a Drop
\* of its own.
FreePointer ==
  /\ pc = "freeing" /\ Answers(Native)
  /\ Free(call.uses, Guard)
  /\ pc' = "unblessing"
  /\ UNCHANGED <<born, guard, owns, reach, differs, call, calls, lost, down>>

\* Mutant: the guard is forgotten as it is, armed.
UnblessByDelete ==
  /\ pc = "unblessing"
  /\ owns' = owns \ {call.uses}
  /\ pc' = "idle" /\ call' = Idle
  /\ UNCHANGED <<arcs, born, guard, reach, differs, calls, lost, down>>

\* markDestroyed(), and the instance lets go of its guard.
Unbless ==
  /\ pc = "unblessing"
  /\ guard' = [guard EXCEPT ![call.uses] = "marked"]
  /\ owns' = owns \ {call.uses}
  /\ pc' = "idle" /\ call' = Idle
  /\ UNCHANGED <<arcs, born, reach, differs, calls, lost, down>>

\* The JavaScript stack still needs the instance: until its pointer is
\* cloned, or while uniffiDestroy works on it.
OnTheStack(o) ==
  o = call.uses /\ pc \in {"cloning", "freeing", "unblessing"}

\* The last reference to the instance goes; a call may still be inside Rust.
Forget(o) ==
  /\ o \in reach /\ ~OnTheStack(o)
  /\ reach' = reach \ {o}
  /\ UNCHANGED <<arcs, born, guard, owns, differs, pc, call, calls, lost, down>>

\* Mutant: a guard that leaves the freeing to uniffiDestroy.
FinalizeOnlyMarked(o) ==
  /\ guard[o] = "marked"
  /\ guard' = [guard EXCEPT ![o] = "none"]
  /\ UNCHANGED <<arcs, born, owns, reach, differs, pc, call, calls, lost, down>>

\* The garbage collector finds the guard unreachable, and its destructor
\* frees the pointer unless uniffiDestroy did.
Finalize(o) ==
  /\ guard[o] # "none" /\ ~OnTheStack(o)
  /\ o \notin reach \/ o \notin owns
  /\ guard' = [guard EXCEPT ![o] = "none"]
  /\ IF guard[o] = "armed" THEN Free(o, Guard) ELSE UNCHANGED arcs
  /\ owns' = owns \ {o}
  /\ UNCHANGED <<born, reach, differs, pc, call, calls, lost, down>>

\* The runtime goes, when its thread is in no call: all is unreachable.
Shutdown ==
  /\ pc \in {"idle", "refused"} /\ ~down
  /\ down' = TRUE /\ reach' = {}
  /\ UNCHANGED <<arcs, born, guard, owns, differs, pc, call, calls, lost>>

-----------------------------------------------------------------------------
\* What the JavaScript thread does of itself.
Step ==
  \/ Initialize \/ ThrowBeforeClone \/ ClonePointer \/ ThrowAfterClone
  \/ EnterRust \/ LeaveRust \/ Bless \/ FreePointer \/ Unbless

Library == RustFails \/ \E o \in Object \cup {NoObject} : RustReturns(o)

Program ==
  \/ \E f \in DOMAIN ApiCalled, o \in Object \cup {NoObject} : Invoke(f, o)
  \/ \E o \in Object : UniffiDestroy(o) \/ Forget(o)
  \/ Shutdown

Collector == \E o \in Object : Finalize(o)

Next == Step \/ Library \/ Program \/ Collector

\* The thread runs, and a runtime that goes finalizes everything it has; a
\* collection at any other time is a matter of luck.
Fairness == WF_vars(Step) /\ WF_vars(down /\ Collector)

Spec == Init /\ [][Next]_vars /\ Fairness

-----------------------------------------------------------------------------
\* The variables keep their types.
TypeOK ==
  /\ arcs \in [Object -> SUBSET (0..MaxCalls)]
  /\ born \subseteq Object /\ owns \subseteq Object /\ reach \subseteq Object
  /\ guard \in [Object -> {"none", "armed", "marked"}]
  /\ differs \in DOMAIN ApiCalled \cup {Nothing}
  /\ pc \in {"unloaded", "refused", "idle", "cloning", "calling", "inside",
             "leaving", "blessing", "freeing", "unblessing"}
  /\ call \in [fn : DOMAIN ApiCalled \cup {Nothing},
               uses : Object \cup {NoObject}, made : Object \cup {NoObject}]
  /\ calls \in 0..MaxCalls /\ lost \subseteq 1..MaxCalls
  /\ down \in BOOLEAN

\* Every call of controller.ts gets to the function of the library that it
\* was generated for: the four layers agree on it, and a library in which it
\* has changed was refused.
EveryCallFits ==
  /\ Asking => Answers(Native)
  /\ pc = "inside" => call.fn # differs

\* The call under way counts for the object that it works on, or has made.
CountsNow(o) ==
  \/ o = call.uses /\ pc \in {"calling", "inside", "leaving"}
  \/ o = call.made /\ pc \in {"leaving", "blessing"}

\* Whatever order calls, uniffiDestroy and the collector come in, no Arc is
\* kept by nobody: an armed guard counts for its object, the call under way for
\* what it works on and what it has made, and beside them only a call that an
\* exception left between clonePointer and the library.
ClonesAreAccounted ==
  \A o \in Object : \A w \in arcs[o] :
    \/ w = Guard /\ guard[o] = "armed"
    \/ w = This /\ CountsNow(o)
    \/ w \in lost

\* The guard and uniffiDestroy never free the same pointer twice, whenever
\* the collector comes: an armed guard has something to free, but between
\* the two steps of uniffiDestroy.
FreedOnce ==
  \A o \in Object :
    guard[o] = "armed" =>
      Guard \in arcs[o] \/ (pc = "unblessing" /\ call.uses = o)

\* When a runtime has been torn down, nothing it made is left, but what an
\* exception lost a clone of.
TeardownFrees == down ~> \A o \in Object : arcs[o] \subseteq lost

\* The binding keeps what is owed to the objects of the library.
Promise == INSTANCE RustObject WITH
  Caller <- {"js"},
  life <- [o \in Object |-> IF o \notin born THEN "absent"
                            ELSE IF arcs[o] = {} THEN "dropped" ELSE "alive"],
  inside <- [c \in {"js"} |-> IF pc = "inside" /\ call.uses # NoObject
                              THEN {call.uses} ELSE {}]

KeepsThePromise == Promise!Spec
=============================================================================
