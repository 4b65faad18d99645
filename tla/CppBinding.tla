----------------------------- MODULE CppBinding -----------------------------
(***************************************************************************)
(* The C++ binding, bindings/cpp/controller.cpp, used by several threads   *)
(* that share its objects through std::shared_ptr.  Every method clones    *)
(* the Arc behind its object, lowers its arguments into buffers of the     *)
(* Rust heap, and makes one rust_call; the first rust_call of the process  *)
(* checks that the library is the one the binding was generated for.       *)
(*                                                                         *)
(* The strong count of an Arc is the set of those who count for it, and    *)
(* the Rust heap the set of its live buffers, so that each leak has a      *)
(* name.  The argument buffers of one call are one buffer here, which is   *)
(* leaked when any of them is.  A caller holds a shared_ptr to every       *)
(* object it passes, for as long as the call takes.                        *)
(***************************************************************************)
EXTENDS Naturals

CONSTANTS
  Thread,     \* the threads of the program
  NoThread,   \* stands for the C++ object itself among an Arc's owners
  Object,     \* the objects the program may make
  NoObject,   \* the call works on no object
  Class,      \* the class of each object
  Api,        \* the functions of the binding, as CppApi describes them
  Checked,    \* those whose checksum ensure_initialized compares
  Nothing,    \* no function of the library differs
  MaxCalls    \* bound: how many calls each thread makes

ClassName == {"Controller", "Owner", "SessionAccount"}
Function == DOMAIN Api

ASSUME BindingAssumption ==
  /\ NoThread \notin Thread /\ NoObject \notin Object
  /\ Nothing \notin Function /\ MaxCalls \in Nat
  /\ Class \in [Object -> ClassName]
  /\ Api \in [Function ->
       [method : BOOLEAN, uses : ClassName \cup {"nothing"}, buffers : BOOLEAN,
        gives : ClassName \cup {"buffer", "scalar", "void"}, throws : BOOLEAN]]
  /\ \A f \in Function : Api[f].method => Api[f].uses # "nothing"

VARIABLES
  arcs,     \* who counts for each Rust object: its C++ object, and calls
  born,     \* the Rust objects made so far
  buffers,  \* the live buffers of the Rust heap
  held,     \* the threads that have a shared_ptr to each C++ object
  once,     \* whether ensure_initialized has returned
  differs,  \* the function whose checksum in the library is another
  pc,       \* where each thread stands
  call,     \* the call each thread is in, or was last in
  calls,    \* the calls each thread has made
  lost      \* history: the calls an exception left before Rust was entered

vars == <<arcs, born, buffers, held, once, differs, pc, call, calls, lost>>

-----------------------------------------------------------------------------
\* The C++ object, as an owner of the Arc: the field "instance".
Instance == <<NoThread, 0>>

\* The call thread t is in, as an owner of a clone and of buffers.
This(t) == <<t, calls[t]>>
Calls == Thread \X (1..MaxCalls)
Owner == Calls \cup {Instance}
Buffer == Calls \X {"arguments", "value", "error"}

Reply == {"none", "value", "error", "panic"}
Call == [fn : Function \cup {Nothing}, uses : Object \cup {NoObject},
         made : Object \cup {NoObject}, reply : Reply]
Idle == [fn |-> Nothing, uses |-> NoObject, made |-> NoObject, reply |-> "none"]

Sig(t) == Api[call[t].fn]
MyBuffer(t, kind) == <<This(t), kind>>
Goto(t, l) == pc' = [pc EXCEPT ![t] = l]

\* Rust counts one more owner, or one less, for object o.
Clone(o, w) == arcs' = [arcs EXCEPT ![o] = @ \cup {w}]
Free(o, w) == arcs' = [arcs EXCEPT ![o] = @ \ {w}]

Init ==
  /\ arcs = [o \in Object |-> {}]
  /\ born = {} /\ buffers = {} /\ lost = {}
  /\ held = [o \in Object |-> {}]
  /\ once = FALSE
  /\ differs \in Function \cup {Nothing}
  /\ pc = [t \in Thread |-> "idle"]
  /\ call = [t \in Thread |-> Idle]
  /\ calls = [t \in Thread |-> 0]

-----------------------------------------------------------------------------
\* Thread t calls function f, on an object it holds if f works on one.
Invoke(t, f, o) ==
  /\ pc[t] = "idle" /\ calls[t] < MaxCalls
  /\ IF Api[f].uses = "nothing" THEN o = NoObject
     ELSE o \in Object /\ Class[o] = Api[f].uses /\ t \in held[o]
  /\ calls' = [calls EXCEPT ![t] = @ + 1]
  /\ call' = [call EXCEPT ![t] = [Idle EXCEPT !.fn = f, !.uses = o]]
  /\ Goto(t, IF Api[f].method THEN "cloning" ELSE "lowering")
  /\ UNCHANGED <<arcs, born, buffers, held, once, differs, lost>>

\* A thread about to make a rust_call.  The lowering makes one when it
\* clones the pointer of an argument.
AtRustCall(t) ==
  \/ pc[t] \in {"cloning", "calling", "destroying"}
  \/ pc[t] = "lowering" /\ call[t].uses # NoObject

\* initialize(): call_once lets one thread in; a check that throws leaves
\* the flag as it was, so that the next rust_call checks again.
Initialize(t) ==
  /\ AtRustCall(t) /\ ~once
  /\ differs \notin Checked
  /\ once' = TRUE
  /\ UNCHANGED <<arcs, born, buffers, held, differs, pc, call, calls, lost>>

\* The exception leaves the call, or meets the noexcept of a destructor.
\* Arguments that were lowered stay on the Rust heap.  (A destructor has an
\* object, and so comes after the check: it is EndsOnlyByAPanic that says so.)
InitializeThrows(t) ==
  /\ AtRustCall(t) /\ ~once
  /\ differs \in Checked
  /\ Goto(t, IF pc[t] = "destroying" THEN "terminated" ELSE "idle")
  /\ lost' = IF pc[t] = "calling" THEN lost \cup {This(t)} ELSE lost
  /\ call' = [call EXCEPT ![t] = Idle]
  /\ UNCHANGED <<arcs, born, buffers, held, once, differs, calls>>

\* _uniffi_internal_clone_pointer of the receiver.  It is a rust_call too: if
\* the library reports a panic, nothing was counted and check_rust_call throws
\* out of the method (CloneFails).
CloneReceiver(t) ==
  /\ pc[t] = "cloning" /\ once
  /\ Clone(call[t].uses, This(t))
  /\ Goto(t, "lowering")
  /\ UNCHANGED <<born, buffers, held, once, differs, call, calls, lost>>

CloneFails(t) ==
  /\ pc[t] = "cloning" /\ once
  /\ call' = [call EXCEPT ![t] = Idle]
  /\ Goto(t, "idle")
  /\ UNCHANGED <<arcs, born, buffers, held, once, differs, calls, lost>>

\* One of the arguments is an object, whose pointer is cloned.
PassesObject(t) == call[t].uses # NoObject /\ ~Sig(t).method

\* The arguments of rust_call are evaluated, in no particular order.
Lower(t) ==
  /\ pc[t] = "lowering"
  /\ call[t].uses # NoObject => once
  /\ IF PassesObject(t)
     THEN Clone(call[t].uses, This(t)) ELSE UNCHANGED arcs
  /\ buffers' = IF Sig(t).buffers
                THEN buffers \cup {MyBuffer(t, "arguments")} ELSE buffers
  /\ Goto(t, "calling")
  /\ UNCHANGED <<born, held, once, differs, call, calls, lost>>

\* One of them throws (a string beyond the 2^31 - 1 bytes of ForeignBytes,
\* an enum without such a variant, the clone of an object that the library
\* fails): nobody releases those lowered before.
LowerThrows(t) ==
  /\ pc[t] = "lowering" /\ (Sig(t).buffers \/ PassesObject(t))
  /\ call[t].uses # NoObject => once
  /\ \/ UNCHANGED arcs
     \/ PassesObject(t) /\ Clone(call[t].uses, This(t))
  /\ \/ UNCHANGED buffers
     \/ buffers' = buffers \cup {MyBuffer(t, "arguments")}
  /\ lost' = lost \cup {This(t)}
  /\ call' = [call EXCEPT ![t] = Idle]
  /\ Goto(t, "idle")
  /\ UNCHANGED <<born, held, once, differs, calls>>

-----------------------------------------------------------------------------
\* Mutant: a rust_call that does not initialize first.
EnterRustUnchecked(t) ==
  /\ pc[t] = "calling"
  /\ buffers' = buffers \ {MyBuffer(t, "arguments")}
  /\ Goto(t, "inside")
  /\ UNCHANGED <<arcs, born, held, once, differs, call, calls, lost>>

\* The function of the library takes over the argument buffers.
EnterRust(t) ==
  /\ pc[t] = "calling" /\ once
  /\ buffers' = buffers \ {MyBuffer(t, "arguments")}
  /\ Goto(t, "inside")
  /\ UNCHANGED <<arcs, born, held, once, differs, call, calls, lost>>

\* It ends with a value: a scalar, a buffer, or the pointer of a new Arc,
\* which counts for the call until an object is made of it.
RustReturns(t, o) ==
  /\ pc[t] = "inside"
  /\ IF Sig(t).gives \in ClassName
     THEN /\ o \in Object \ born /\ Class[o] = Sig(t).gives
          /\ born' = born \cup {o} /\ Clone(o, This(t))
     ELSE o = NoObject /\ UNCHANGED <<arcs, born>>
  /\ buffers' = IF Sig(t).gives = "buffer"
                THEN buffers \cup {MyBuffer(t, "value")} ELSE buffers
  /\ call' = [call EXCEPT ![t].made = o, ![t].reply = "value"]
  /\ Goto(t, "leaving")
  /\ UNCHANGED <<held, once, differs, calls, lost>>

\* It ends with an error, or with a panic the scaffolding catches; a panic
\* need not come with a message.
RustFails(t) ==
  /\ pc[t] = "inside"
  /\ \E r \in {"error", "panic"} :
       /\ r = "error" => Sig(t).throws
       /\ call' = [call EXCEPT ![t].reply = r]
       /\ \/ buffers' = buffers \cup {MyBuffer(t, "error")}
          \/ r = "panic" /\ UNCHANGED buffers
  /\ Goto(t, "leaving")
  /\ UNCHANGED <<arcs, born, held, once, differs, calls, lost>>

\* Mutant: a clone for a function that only borrows its pointer.
LeaveRustBorrowed(t) ==
  /\ pc[t] = "leaving"
  /\ Goto(t, "returned")
  /\ UNCHANGED <<arcs, born, buffers, held, once, differs, call, calls, lost>>

\* The scaffolding drops the clone it was given.
LeaveRust(t) ==
  /\ pc[t] = "leaving"
  /\ IF call[t].uses # NoObject
     THEN Free(call[t].uses, This(t)) ELSE UNCHANGED arcs
  /\ Goto(t, "returned")
  /\ UNCHANGED <<born, buffers, held, once, differs, call, calls, lost>>

\* Mutant: the object of a constructor clones the pointer it was given.
LiftValueCloning(t) ==
  /\ pc[t] = "returned" /\ call[t].reply = "value"
  /\ buffers' = buffers \ {MyBuffer(t, "value")}
  /\ IF call[t].made # NoObject
     THEN /\ Clone(call[t].made, Instance)
          /\ held' = [held EXCEPT ![call[t].made] = {t}]
     ELSE UNCHANGED <<arcs, held>>
  /\ call' = [call EXCEPT ![t] = Idle]
  /\ Goto(t, "idle")
  /\ UNCHANGED <<born, once, differs, calls, lost>>

\* check_rust_call passes code 0; the value is lifted, which frees its
\* buffer, or becomes the object of a new shared_ptr.
LiftValue(t) ==
  /\ pc[t] = "returned" /\ call[t].reply = "value"
  /\ buffers' = buffers \ {MyBuffer(t, "value")}
  /\ IF call[t].made # NoObject
     THEN /\ arcs' = [arcs EXCEPT ![call[t].made] =
                        (@ \ {This(t)}) \cup {Instance}]
          /\ held' = [held EXCEPT ![call[t].made] = {t}]
     ELSE UNCHANGED <<arcs, held>>
  /\ call' = [call EXCEPT ![t] = Idle]
  /\ Goto(t, "idle")
  /\ UNCHANGED <<born, once, differs, calls, lost>>

\* Mutant: a status that is thrown without being lifted.
ThrowWithoutLift(t) ==
  /\ pc[t] = "returned" /\ call[t].reply \in {"error", "panic"}
  /\ call' = [call EXCEPT ![t] = Idle]
  /\ Goto(t, "idle")
  /\ UNCHANGED <<arcs, born, buffers, held, once, differs, calls, lost>>

\* Mutant: an exception no caller can name.
ThrowUnknown(t) ==
  /\ pc[t] = "returned" /\ call[t].reply \in {"error", "panic"}
  /\ Goto(t, "unknown")
  /\ UNCHANGED <<arcs, born, buffers, held, once, differs, call, calls, lost>>

\* check_rust_call lifts the error, or the message of the panic, which
\* frees its buffer, and throws.
ThrowError(t) ==
  /\ pc[t] = "returned" /\ call[t].reply \in {"error", "panic"}
  /\ buffers' = buffers \ {MyBuffer(t, "error")}
  /\ call' = [call EXCEPT ![t] = Idle]
  /\ Goto(t, "idle")
  /\ UNCHANGED <<arcs, born, held, once, differs, calls, lost>>

-----------------------------------------------------------------------------
\* A thread hands a copy of its shared_ptr to another.
Share(t, u, o) ==
  /\ pc[t] = "idle" /\ t \in held[o] /\ u \notin held[o]
  /\ held' = [held EXCEPT ![o] = @ \cup {u}]
  /\ UNCHANGED <<arcs, born, buffers, once, differs, pc, call, calls, lost>>

\* Mutant: a copy of the shared_ptr that is not counted.
ReleaseUncounted(t, o) ==
  /\ pc[t] = "idle" /\ t \in held[o]
  /\ held' = [held EXCEPT ![o] = @ \ {t}]
  /\ call' = [call EXCEPT ![t] = [Idle EXCEPT !.uses = o]]
  /\ Goto(t, "destroying")
  /\ UNCHANGED <<arcs, born, buffers, once, differs, calls, lost>>

\* A thread gives its shared_ptr up; the last one runs the destructor.
Release(t, o) ==
  /\ pc[t] = "idle" /\ t \in held[o]
  /\ held' = [held EXCEPT ![o] = @ \ {t}]
  /\ IF held[o] = {t}
     THEN /\ call' = [call EXCEPT ![t] = [Idle EXCEPT !.uses = o]]
          /\ Goto(t, "destroying")
     ELSE UNCHANGED <<call, pc>>
  /\ UNCHANGED <<arcs, born, buffers, once, differs, calls, lost>>

\* What is left of a call when a destructor has thrown.
Panicked == [Idle EXCEPT !.reply = "panic"]

\* The destructor's rust_call gives up the count of the object.  If dropping
\* what is behind it panics, check_rust_call throws, out of a destructor.
Destroy(t) ==
  /\ pc[t] = "destroying" /\ once
  /\ Free(call[t].uses, Instance)
  /\ \/ Goto(t, "idle") /\ call' = [call EXCEPT ![t] = Idle]
     \/ Goto(t, "terminated") /\ call' = [call EXCEPT ![t] = Panicked]
  /\ UNCHANGED <<born, buffers, held, once, differs, calls, lost>>

-----------------------------------------------------------------------------
\* What the binding does once thread t is in a call, or in a destructor.
Step(t) ==
  \/ Initialize(t) \/ InitializeThrows(t)
  \/ CloneReceiver(t) \/ CloneFails(t) \/ Lower(t) \/ LowerThrows(t)
  \/ EnterRust(t) \/ LeaveRust(t)
  \/ LiftValue(t) \/ ThrowError(t) \/ Destroy(t)

\* What the library decides.
Library(t) ==
  RustFails(t) \/ \E o \in Object \cup {NoObject} : RustReturns(t, o)

\* What the program decides.
Program(t) ==
  \/ \E f \in Function, o \in Object \cup {NoObject} : Invoke(t, f, o)
  \/ \E o \in Object : Release(t, o) \/ \E u \in Thread : Share(t, u, o)

\* An exception that leaves a destructor ends the process.
Running == \A t \in Thread : pc[t] # "terminated"

Next == Running /\ \E t \in Thread : Program(t) \/ Step(t) \/ Library(t)

\* The scheduler runs every thread.  A function of the library may wait for
\* ever, and a program need not make another call.
Fairness == \A t \in Thread : WF_vars(Running /\ Step(t))

Spec == Init /\ [][Next]_vars /\ Fairness

-----------------------------------------------------------------------------
\* The variables keep their types.
TypeOK ==
  /\ arcs \in [Object -> SUBSET Owner]
  /\ born \subseteq Object
  /\ buffers \subseteq Buffer
  /\ held \in [Object -> SUBSET Thread]
  /\ once \in BOOLEAN
  /\ differs \in Function \cup {Nothing}
  /\ pc \in [Thread -> {"idle", "cloning", "lowering", "calling", "inside",
                        "leaving", "returned", "destroying", "terminated"}]
  /\ call \in [Thread -> Call]
  /\ calls \in [Thread -> 0..MaxCalls]
  /\ lost \subseteq Calls

\* Thread t is in a call that w stands for.
InProgress(t, w) == w = This(t) /\ pc[t] \notin {"idle", "terminated"}

\* Whoever still counts for an object is the C++ object, a call under way on
\* it, or a call an exception left before Rust was entered.
ClonesAreAccounted ==
  \A o \in Object : \A w \in arcs[o] :
    \/ w = Instance
    \/ w \in lost
    \/ \E t \in Thread : InProgress(t, w) /\ o \in {call[t].uses, call[t].made}

\* A live buffer of the Rust heap is of a call under way, or of one an
\* exception left before Rust was entered.
BuffersAreAccounted ==
  \A b \in buffers : b[1] \in lost \/ \E t \in Thread : InProgress(t, b[1])

\* Whichever way a function of the library ends, rust_call leaks neither the
\* clone of its object nor a buffer: only an exception before Rust was
\* entered can.
NothingLeaks == ClonesAreAccounted /\ BuffersAreAccounted

\* Whatever other threads release meanwhile, the object a call works on, or a
\* destructor frees, is still there.
NoUseAfterFree ==
  \A t \in Thread :
    call[t].uses # NoObject /\ pc[t] # "returned" => arcs[call[t].uses] # {}

\* A library in which a function has changed since the binding was generated
\* is never entered at that function: ensure_initialized refuses it first, on
\* every thread and every time.
StaleLibraryIsNeverEntered ==
  \A t \in Thread : pc[t] = "inside" => call[t].fn # differs

\* The rust_call of a destructor, which must not throw, does so for no other
\* reason than a panic of the library in freeing the object: a library that
\* ensure_initialized refuses does not end the process there.
EndsOnlyByAPanic ==
  \A t \in Thread : pc[t] = "terminated" => call[t].reply = "panic"

\* The object goes when its last shared_ptr does, unless a lost call still
\* counts for it, or the process ends before.
LastReleaseFrees ==
  \A o \in Object : (o \in born /\ held[o] = {} /\ Instance \in arcs[o])
                        ~> (arcs[o] \subseteq lost \/ ~Running)

\* The binding keeps what is owed to the objects of the library.
Promise == INSTANCE RustObject WITH
  Caller <- Thread,
  life <- [o \in Object |-> IF o \notin born THEN "absent"
                            ELSE IF arcs[o] = {} THEN "dropped" ELSE "alive"],
  inside <- [t \in Thread |-> IF pc[t] = "inside" /\ call[t].uses # NoObject
                              THEN {call[t].uses} ELSE {}]

KeepsThePromise == Promise!Spec
=============================================================================
