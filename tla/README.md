# Specifications of controller.c

TLA+ modules, TLC configurations and TLAPS proofs for `controller.c`: the Rust
library that exposes Cartridge Controller accounts and session accounts to
other languages through UniFFI, the C++ and React Native bindings generated
for it, and the mobile examples that drive it.

    tlc -config ControllerAccount.cfg ControllerAccount     # model-check
    tlapm ControllerAccountProofs.tla                       # check the proofs

`PROJECT.json` lists the components, the runs, the hazards of the code line by
line with the properties that cover them, the source lines of each definition,
and the theorems.

## 1. The system

| Part | State it keeps | Operations | Hard because |
|---|---|---|---|
| **ControllerAccount** (`src/controller.rs`) | `Mutex<ControllerInner>`: SDK controller, `last_error` | signup, execute, transfer, switch_chain, delegate_account, disconnect, four getters, error_message, clear_last_error | several foreign threads share one handle; the SDK runs under the lock in `block_on`; a panic poisons the mutex |
| **SessionAccount** (`src/session.rs`) | `Mutex<SessionAccountInner>`: SDK session account, `last_error`, metadata | execute, execute_from_outside, is_expired, getters | nonces, a deadline stamped before the lock, a clock that runs on |
| **Session registration** (`src/session.rs`) | none between calls | create_session_registration_url(_with_urls), create_from_subscribe, new | two calls list the policies separately; shortener, user and backend answer late, wrongly or never |
| **Session policies** (`src/types.rs`) | none | canonicalize_session_policies, conversion to SDK policies | a sort that must not depend on the given order, comparison of padded text |
| **C++ binding** (`bindings/cpp`) | a pointer per object, a `once_flag` | 25 functions and 3 destructors, each a `rust_call` | threads share objects; a clone and several buffers per call, each with an owner on every way out; a library of another version |
| **Wire format** (`bindings/cpp`) | none | converters: size, write, read | three functions per type must agree with each other and with Rust |
| **React Native binding** (`bindings/react-native`) | a guard per instance | the same functions, `uniffiDestroy`, initialize | four generated layers with no common type check; a garbage collector that frees on another thread |
| **React Native native module** (`examples/react-native/modules/controller`) | installed flags, the host object, pointers to lambdas in C++ statics | install, cleanup, reload, callbacks from Rust | statics that survive the JavaScript runtime, callbacks that arrive after a reload |
| **iOS SessionManager** (`examples/ios-app/SessionAccountApp/controller/controller`) | published UI state, session, subscription task, polling task | register, subscribe, cancel, reset, deep link, execute, poll, cards | main actor reentrancy, cooperative cancellation, blocking FFI calls |
| React Native hook (`examples/react-native/hooks`) | React state, timers in refs | the same with a JS event loop | stale closures, timers that cannot cancel a synchronous call |
| iOS ControllerDemo, controller storage | handle; what the SDK persists | has_storage, from_storage, calls on the main actor | check-then-act |
| Runtime, Owner, utilities, errors, other bindings, command line examples, scripts | - | - | stateless, generated alike or straight-line |

**How they interact.** A foreign program calls a binding, which clones the `Arc`
of the object, lowers the arguments into buffers of the Rust heap and enters
the library; there the method takes the handle's mutex and, for all SDK calls
but disconnect, blocks its thread on the global Tokio runtime until the SDK's
future resolves. The result comes back as a scalar, a buffer or the pointer
of a new object, beside a status that says whether the call failed or
panicked. A session begins as a registration URL (shortened by an external
service), is approved by the user in the keychain, and is picked up by
`create_from_subscribe`, which waits for the backend and builds a handle from
the application's own policies. The iOS example runs these calls from Swift
tasks: the URL and the subscription on global queues, a deep link's
subscription and every transaction on the main actor. In React Native a
native module first installs a host object that holds all functions in each
JavaScript runtime.

**What makes each part correct**, and which property says it, is in section 3.

## 2. Modules

| Module | Models | State and actions |
|---|---|---|
| `AtomicAccount` | what a handle promises: a call does all it does in one step between invocation and return | `last_error`, `dead`, per thread phase, method, result |
| `ControllerAccount` | `controller.rs` 25-271 | `holder` and `poisoned` are the mutex; `pc` walks each thread through argument parsing, `lock().unwrap()`, the SDK call, the record of its failure, the guard's drop and the return. `switch_chain` parses under the lock, `execute` and `transfer` before it; `delegate_account` records nothing |
| `AtMostOnceSession` | what a session handle promises: a call acts on the network at most once, in its window, between invocation and return, and alone; `Ok` says that it acted, a rejection that it did not, an `ExecutionError` neither | the clock, what the network has taken, per thread phase, method, result and whether it has acted |
| `SessionAccount` | `session.rs` 305-394, 485-538 | the same skeleton as `ControllerAccount`, with `execute_before`, the clock `now`, the chain's `nonce`, and the paymaster's `accepted`; between what the network has taken and its answer (`taken`) the SDK may fail or panic |
| `SessionPolicies` | `types.rs` 71-120 | operators only; recursion is a recursive function, so the module can be proved about |
| `PolicyLists` | what an application may list, and what `canonicalize_session_policies` promises of it | `listed`, to which a policy is added or in which two trade places |
| `PolicyBuffers` | what of it crosses the C++ binding, both ways | operators: each list as the values and buffers of `WireFormat` |
| `SessionRegistration` | `session.rs` 39-222, 242-303, 396-483 | the URL call, the subscription call and its four stages, the handle in the making; shortener, user and backend as external actions. It uses `SessionPolicies` for both lists |
| `RustObject` | what any binding owes the library's objects: only living ones are entered, each is dropped once and under no call | `life` of each object, who is `inside` it |
| `CppApi` | the functions of `bindings/cpp/controller.cpp` | data: receiver, argument buffers, result, error lifting, checksum |
| `CppBinding` | their path: clone, lower, `rust_call`, lift, throw; `shared_ptr` copies and the destructor; `ensure_initialized` | an Arc's strong count is the *set* of its owners and the Rust heap the set of its buffers, so that each leak has a name |
| `WireFormat` | the converters of `bindings/cpp/controller.cpp`, and what Rust reads and writes | operators over sequences of bytes, with big-endian integers as `RustStream` writes and reads them |
| `JsiApi` | every function of the library as five files declare, expose, glue and call it | data, one function per layer |
| `JsiCallbacks` | the callback and async half of the React Native binding | data: what each layer makes of each argument |
| `Tables` | no code: functions as tables, `@@` and `:>` with the definitions of the module TLC, which the provers can then expand | operators |
| `JsiLayers` | the agreement of `JsiApi`, `JsiCallbacks` and the interface that `JsiBinding` works over | formulas about data |
| `JsiBinding` | one JavaScript runtime: calls, `uniffiDestroy`, the guard's destructor, the collector, teardown | the Arc's owners, the guard of each instance (armed, marked), what JavaScript still refers to |
| `JsiRuntime` | `cpp-adapter.cpp`, `ControllerModule.kt`, `Controller.mm`, `index.tsx`, and the lambdas in `controller.cpp` | the runtimes of one process, the statics that outlive them, futures polled and woken |
| `SessionManager` | `SessionManager.swift` 70-374, 516-570 and the views that drive it | one action for each stretch of the main actor between two suspensions; the look at `isCancelled` is a step of its own because it happens off the main actor; `apiCall` is the main actor blocked in the FFI |
| `TransactionCard` | `SessionManager.swift` 414-494, `ExecuteView`, `TransactionStatusCard` | sheet, queued taps, the blocking `executeFromOutside`, one poll for each transaction, the card |

`SessionAccountMC`, `SessionPoliciesMC`, `SessionRegistrationMC`, `CppBindingMC`, `JsiBindingMC` and
`JsiRuntimeMC` are the instances that TLC checks; a `...Proofs` module holds the
theorems about the module it is named after (`SessionRegistrationProofs` also
those about the policies and the wire format).

Each module names its mutations: variants of an action that a plausible slip
would produce, with the property that then fails. They are no part of `Next`.

**Composition.** `SessionRegistration` and `PolicyLists` extend
`SessionPolicies`; `PolicyBuffers` composes `PolicyLists` with `WireFormat`: what
is canonicalized is what the binding lowers. `CppBinding` and `JsiBinding` both
implement `RustObject`, over the interfaces `CppApi` and `JsiApi` as constants.
`ControllerAccount` implements `AtomicAccount`, and `SessionAccount` implements
`AtMostOnceSession`.

**Abstractions.** Addresses, hashes, URLs and texts are model values or short
digit sequences. Felts of 64 hexadecimal digits are numbers of `Width` digits
in base `Base`. Entrypoint names are their ranks in byte order with their
lower-case rank. Wording and logging are left out. An SDK call is external: it
succeeds, fails or panics. In `SessionAccount` the chain accepts a transaction
whose nonce is the account's, and no other wallet spends its nonces; the
paymaster accepts what has not expired. In `SessionRegistration`, an https
answer with the shortener's host comes from the shortener, which answers with
a code for what was posted. The backend reports sessions that a user approved
for the key. In the bindings a call that clones may fail, and the argument
buffers of one call are one buffer; in C++ a destructor may meet a panic,
which ends the process, while `JsiBinding` takes the library to free without
one (no type of `src/src` has a `Drop` of its own); on Android the module may
be refused for want of a JavaScript context; a caller holds a `shared_ptr` to
what it passes; a JavaScript runtime calls on one thread, finalizes everything
when it goes, and runtimes follow each other without overlap. In `WireFormat`
a string is the sequence of its bytes, and no length or count exceeds
`MaxInt32`: the code casts a `size_t` to `int32_t` (controller.cpp:285) and
does not look.

Two readings of Swift matter. `MainActor.run` is a nonisolated async function,
so a main actor method that awaits it leaves the main actor and comes back:
`startBackgroundSubscriptionDetached` is three actions. And a method without an
await keeps the main actor to its end: `executeTransaction`, FFI call included,
is never interleaved with other main actor work.

## 3. Runs

| Run | Bounds |
|---|---|
| `account` | 2 threads, 2 calls each of any method, 2 texts |
| `session_account` | 2 threads, which are interchangeable, 2 calls each, window 1, expiry 1, time to 2 |
| `session_policies` | lists of up to 3 policies, 4 spellings of 3 addresses, 3 names two of which differ by case |
| `session_registration` | 5 lists, 2 URLs, 2 subscriptions, list reordered at any time |
| `cpp_binding` | 2 threads, 2 calls each of 6 functions, one of every shape; an Owner and a Controller; any one function differing |
| `jsi_binding` | 3 calls of any function of the interface; 2 owners, a controller, a session account; any one function differing |
| `jsi_runtime` | 3 runtimes on either platform, 2 futures |
| `manager` | 2 taps on Register, 1 edit, 1 deep link, 2 policy sets |
| `card` | 3 taps on Execute |
| `manager_overlap`, `manager_policies`, `jsi_reload` | the smallest that shows it: a statement of a comment or guide that the code does not keep (section 4) |

Passing properties, by module:

* `ControllerAccount`: `MutualExclusion` (one thread in the SDK controller),
  `LastErrorIsLatestFailure` (between methods, `last_error` is the latest failure
  that methods record, unless cleared since), `PoisonShutsTheHandle` (after a
  panic no method reaches the inner state), `IsAtomic` (refinement of
  `AtomicAccount`), `EveryCallReturns`.
* `SessionAccount`: `NoncesNeverClash` (the lock spans the SDK's read of the
  nonce and its submission), `ActsAtMostOnce` (refinement of `AtMostOnceSession`; it
  implies `AcceptedWithinWindow`: a call that waited too long for the handle
  fails), `ExpiryAnswersAgree` (nobody is told "valid" after
  somebody was told "expired": the clock is read under the lock).
* `PolicyLists`: `CanonicalIsSorted` (textual order is numerical order),
  `CanonicalKeepsPolicies`, `CanonicalIgnoresOrder` (the comparison leaves no tie
  between different policies, so the stable sort adds nothing).
* `PolicyBuffers`: `BuffersMatchTheLibrary` (what a converter asks for is what it
  writes, what it writes is what Rust reads, and it reads what Rust writes, for
  every record, option, sequence and error of the interface).
* `SessionRegistration`: `SessionIsWhatWasApproved` (the session lists the
  approved policies although URL and session were made from differently
  ordered lists), `LinkLeadsToThePolicies`, `SessionsAreAuthorized`,
  `UrlCallEnds`.
* `CppBinding`: `NothingLeaks` (however the library's function ends, clone and
  buffers are given back; only an exception before Rust was entered loses
  some), `StaleLibraryIsNeverEntered` (a function that has changed is refused on
  every thread and every time), `LastReleaseFrees` (the object goes with its last
  `shared_ptr`, unless a destructor ends the process), `KeepsThePromise`
  (refinement of `RustObject`).
* `JsiBinding`: `EveryCallFits` (what `controller.ts` calls is exposed, converts
  what it is passed, and is what the library declares), `ClonesAreAccounted`
  (every count of an Arc belongs to an armed guard, to the call under way, or to a
  call that an exception left after its clone), `FreedOnce` (guard and
  `uniffiDestroy` never free one pointer twice, whenever the collector comes),
  `TeardownFrees`, `KeepsThePromise`. Where the tables of the layers agree and where
  they do not is no matter of behaviour: `JsiBindingMC` has TLC evaluate it as an
  assumption (`TablesAssumption`), and section 5 proves it.
* `JsiRuntime`: `NoLambdaOutlivesItsRuntime` (`~NativeController` leaves no
  lambda into a runtime that is gone), `FirstInstallIsTrue` (what `initialize()`
  could not install for want of a JavaScript context, `installRustCrate` does:
  the first runtime on Android, and each on iOS, is told that it is installed
  only when it is), `PolledFutureContinues`.
* `SessionManager`: `LoadingHasACause` (Register is never left disabled),
  `AnswerReachesTheUser` (an answer that was not cancelled ends in the card,
  unless a deep link took the main thread).
* `TransactionCard`: `OthersAreCancelled` (a poll that has not ended, asleep or
  about to confirm, has been told to stop, unless it is that of the transaction
  on the card), `CardSettles`. It does not say that a poll that was told so will
  not confirm: it may, if it had looked at `isCancelled` before, and
  `TransactionCardOvertaken.cfg` has TLC show it (section 4).

Each state machine has one `TypeOK` besides.

**Why the bounds are enough.** Each race above needs two actors and one repeated
operation: two threads with two calls each give every pair of methods in every
order with a call before or after (a poisoned, then re-entered handle; an error
recorded, then read; an object made by one thread, shared, used and released).
Window and expiry of 1 within a time of 2 cover before, at and after the
boundary. Three policies are the least that make an unstable or partial order
visible, two digits the least that have a leading zero. Three JSI calls make
an owner, a controller from it, and a call on that. Three runtimes give a
reload after a reload. Two taps give every overlap of registrations, and with
the third tap of `card` a poll can be overtaken twice. What is proved (section
5) holds without any of these bounds.

**Deadlock** is checked where the model can always step (handles end in
`Finished`; registration and policies can always reorder). The bindings and
the iOS modules stop when the bounded program or user has used up its calls or
taps: `CHECK_DEADLOCK FALSE`.

**Fairness.** `ControllerAccount`: weak fairness of each thread's own steps (the
scheduler runs it and a free mutex is granted; at most the other threads'
bounded calls come first) and of the SDK's end. No fairness makes a thread call.
`SessionRegistration`: only the HTTP client's 5 s timer. `CppBinding`: each
thread's steps within a call or a destructor; a function of the library may
wait for ever. `JsiBinding`: the JavaScript thread, and the finalizers of a
runtime that goes; a collection at any other time is a matter of luck.
`JsiRuntime`: the script of a runtime, and the threads that carry a callback.
`SessionManager`: the app's and SwiftUI's steps, and the backend once the key
has an approved session; none for users. `TransactionCard`: tasks run, an FFI
call returns, and strong fairness of a poll's turn on the main actor, which is a
queue.

## 4. What the code does not keep

Three runs expect a violation, each of a sentence in the repository; the entries
of `findings` quote it.

* `manager_overlap`: two registrations that overlap at the `await` of
  `startBackgroundSubscriptionDetached` leave a subscription that nothing can
  cancel ("Cancel any existing subscription").
* `manager_policies`: policies edited between the tap and the second reading of
  the form are in the session and not in what was approved ("only approved
  contracts/methods"). What the contract accepts on chain is outside the model.
* `jsi_reload`: on Android the flags that say "installed" are statics of the
  process; after a reload they are still true, the module answers that it is
  installed, and the new runtime has no NativeController.

Three more configurations are kept beside the list of runs, each with a
violation for TLC to find in the same way:

* `SessionManagerCancel.cfg` (`SessionManager`): a dismissal after the look at
  `isCancelled` does not stop the session ("Cancels if user dismisses").
* `SessionManagerFreeze.cfg` (`SessionManager`): a deep link calls
  `createFromSubscribe` on the main actor, which comes back only if a session is
  approved ("to prevent UI freezing").
* `TransactionCardOvertaken.cfg` (`TransactionCard`): a second tap on Execute,
  queued during the first FFI call, and a slow second call let the first poll
  confirm the second transaction ("Cancel any existing polling").

Hazards that are reachable but contradict no text (a card without a session, an
approval lost by closing the page early, threads kept by cancelled
subscriptions, an Arc kept by an argument that could not be lowered) are in
`hazards` with a note or with the property that bounds them.

Latent oddities of the generated code, met while modelling and outside every
property because nothing of the present interface runs them: the lambdas for
foreign futures have a `cleanup()` that `~NativeController` never calls; on iOS a
future polled in one runtime and woken in the next is answered there; the
struct of a finished future is `returnValue`, `callStatus` in TypeScript, and
`return_value`, `call_status` in the C++ that is compiled, which has it twice
(`JsiCallbacks` has all three, and
`TsDisagrees` of `JsiLayers` says exactly in what they differ); a clone callback is typed `=> void` in TypeScript and answers 0 to Rust
without waiting; `RustCallStatus::fromJs` leaves absent fields uninitialized; a
callback that found a lambda may call it after the teardown took it away (the
model's `aborted`); Android's call invoker runs JavaScript off its thread.

## 5. Proofs

All theorems hold for every value of the constants that the module's named
`ASSUME` admits: any number of threads, objects, calls, policies, runtimes or taps.

* **`ControllerAccountProofs`**, from `CallerAssumption` (NoThread and NoMessage
  are new values, MaxCalls is a natural number). `IInv` adds to `TypeOK`: a
  thread's guard is live exactly where its `pc` says (`GuardInv`), a poisoned
  mutex has no guard (`PoisonInv`), each location is reached only by its methods
  (`MethodInv`), and a failure on its way into `last_error` is the latest
  (`RecordInv`). `MutualExclusion` alone is not inductive only for want of the
  types, `LastErrorIsLatestFailure` needs all parts: without `GuardInv` a second
  thread could record in between. From `Invariance` follow `TypeCorrect`,
  `MutuallyExclusive`, `LastErrorCorrect`, `PoisonShuts`; `PoisonStays` says of every
  step that a poisoned handle stays as it is; `Refinement` maps each step to
  one of `AtomicAccount` or a stutter. `WaitingCorrect` has two parts: a thread that
  waits for the mutex waits for another that holds it and may go on
  (`NobodyWaitsInVain`, from `GuardInv` read backwards), and every step of a call
  leaves less of it (`CallsAdvance`, over the measure `Left`).
* **`SessionAccountProofs`**, from `SessionAssumption`: `IInv` says that a guard's
  owner is the holder, that a stamped deadline is a window after the time the
  caller asked (`StampInv`, the reason why the wait for the lock cannot
  stretch it) and that whoever was told "expired" was told after the expiry
  (`ToldInv`). `NoncesCorrect`, `WindowCorrect`, `ExpiryAgrees`, `TypeCorrect`. `Refinement`
  of `AtMostOnceSession` needs `PathInv` besides (each method keeps to its locations,
  and nobody holds a poisoned mutex): a thread that may act holds the guard, so
  no other is acting and the handle is alive; its act is `Submit` or `Send`, its end
  is `Confirm`, `SdkFails` or `SdkPanics`, and what follows (the record of the error,
  which no method of this handle reads, and the drop of the guard) stutters.
* **`SessionRegistrationProofs`** is the largest, and has three subjects. A
  recursive function is reasoned about without the library's induction theorems:
  `Least` (a set of numbers has a least element, from the well-foundedness of
  `<`) gives `Induction` over a *set*, and `Recursion` the existence of the function
  that a `CHOOSE` then picks.

  *The canonical form*, from `PolicyAssumption` (a base of at least 2, a width of
  at least 1, names that are numbers) and `ListAssumption` (addresses that
  `from_hex` reads, or refuses as `NotHex`). `PaddingOfDigits`: the padding of the
  number that digits write is the digits behind zeros. Hence
  `PaddingKeepsTheNumber`, and `TextIsNumber`: paddings compared as text come out as
  their numbers do. `CanonicalOrder`: the comparison is a strict total order (by
  the least position in which two paddings differ). The stable sort puts each
  place where its rank says; ranks are a permutation (they are injective and
  their number is finite); a lesser policy has a lesser rank even in another
  list, as long as both have equally many entries up to each policy, which a swap
  keeps by a bijection. So `OrderIgnored`, and for every list that `PolicyLists`
  reaches `SortedCorrect`, `KeepsCorrect` and, of each of its steps,
  `IgnoresOrderCorrect`.

  *The wire format*. For any text, list or number (`Text`, `Counted`, `UInt64`: what an
  `int32_t` can count, or a `uint64_t` hold) a writer fills what `allocation_size` asked
  for, and a reader, given what was written before *any* other bytes, gives the
  value and leaves those bytes: that is the form in which the readers of records
  and sequences compose. `IntegerBytes` is the base, a number cut in bytes and put
  together again; `ManyRows` reads a sequence row by row. Hence `PoliciesCross`,
  `CallsCross`, `OptionalStringCrosses`, `OptionalUInt64Crosses`, `NumbersCross`,
  `ErrorsCross`, with what Rust writes from the order of the fields in
  controller.udl, and `BuffersCorrect` for every list of `PolicyLists`, from
  `LengthAssumption` (no list and no address is longer than `MaxInt32`) besides.

  *The protocol*, from `PolicyAssumption` and `RegistrationAssumption`. `IInv` says
  that what is posted, what the pages lead to, and what a subscription was
  given all have one canonical form (`UrlInv`, `GivenInv`), and what each stage of a
  subscription knows (`AnswerInv`). `SessionIsWhatWasApproved` is not inductive: it
  needs both halves to say that the two lists, read at different times, agree.
  `TypeCorrect`, `LinkCorrect`, `AuthorizedCorrect`, `ApprovedCorrect`.
* **`CppBindingProofs`**, from `BindingAssumption`. `Inv` has a part for what a
  thread's call looks like at each `pc` (`CallInv`), one that nothing exists or
  is entered before the check (`OnceInv`), one that a held object has its C++
  instance and a destructor is the only one left (`HeldInv`), one that names all
  owners of each Arc in both directions (`CloneInv`), and the buffers of each
  stretch of a call (`BufferInv`). `NothingLeaks` says that owners are accounted
  for; what makes it inductive, and the refinement true, is the other direction:
  whoever is under way *is* counted. `TypeCorrect`, `NothingLeaksCorrect`,
  `NoUseAfterFreeCorrect`, `StaleCorrect` (if every function is among those that
  are compared), `DestructorCorrect` (a destructor ends the process only by a panic
  of the library in dropping the object, never by the first check), `Refinement`
  of `RustObject`. `ReleaseCorrect`
  needs `DestroyerInv` besides: an instance that is left and that nobody holds is in
  the hands of a thread at its destructor, which no exception can take from it
  while the process runs.
* **`JsiBindingProofs`**, from `JsiAssumption`: `CallInv` (where the thread stands)
  and `GuardInv` (what an instance owns) with `FreedOnce`. `TypeCorrect`,
  `FreedOnceCorrect`, `Refinement` of `RustObject`. `OwnerInv` names the owner of
  every count (`ClonesCorrect`), and says that a runtime is torn down outside of any
  call, when nothing is reachable (`DownInv`): so every guard that is left may be
  finalized, finalizers make no new ones, and after the last only lost calls count
  (`TeardownCorrect`). `FitsCorrect` has the hypothesis
  `InterfaceFits` (each function that is called is exposed, converted and declared
  alike, and compared): then `EveryCallFits` for any number of objects and calls.
  Its second half, over `JsiLayers`, proves that the present interface satisfies it,
  from `PresentLayers` (the constants of `JsiBinding` are the tables of `JsiApi`). The
  tables of a layer are merges of rows of up to seventy functions, too large to be
  expanded: so `Signature` says once what each function takes and gives, each row is
  shown to say the same (`RowsTable`), a merge of what says the same does too
  (`MergeTable`, `MergeObeys`), and two layers that obey one signature are equal
  where their domains meet (`CalledDomain`, `GlueDomain`, `DeclaredDomain`,
  `ExposedNames`). Callbacks and results go the same way (`MergeFollows`, against
  `CallbackTypes`, `ScalarTypes`, `Present`). Hence `FunctionsFit`; `CallbacksFit`, which
  says of the callbacks both where the layers agree and where `controller-ffi.ts`
  does not (the result of a clone, the names of the properties of a result); and
  `PresentFits`: `EveryCallFits` without a hypothesis about the tables.
* **`JsiRuntimeProofs`**: a lambda belongs to the runtime that is up, which has
  the host object whose destructor nulls it (`LambdaInv`). `TypeCorrect`,
  `LambdasCorrect`. `ServedCorrect`, with `PollerInv` (a future was polled by a
  runtime there has been): a callback that is late from an earlier runtime may end
  the process, but never while a future of the present one waits.
  `FirstInstallCorrect`: until the first runtime ends, the flags say what it has.
* **`SessionManagerProofs`**, from `ManagerAssumption`: `TypeOK` with
  `LoadingHasACause` is inductive. `TypeCorrect`, `LoadingCorrect`.
* **`TransactionCardProofs`**, from `TapsAssumption`: the stored polling task
  belongs to the transaction that the card shows, which makes
  `OthersAreCancelled` inductive. `TypeCorrect`, `PollCorrect`. `CardCorrect` needs
  `FreshInv` (a transaction that is not sent yet has no poll): then what a waiting
  card waits for is neither cancelled nor over.

The refinements are of the abstract specifications' safety, which is all that
`AtomicAccount`, `AtMostOnceSession` and `RustObject` state.

**Only model-checked.** Liveness (`EveryCallReturns`, `UrlCallEnds`,
`LastReleaseFrees`, `TeardownFrees`, `PolledFutureContinues`,
`AnswerReachesTheUser`, `CardSettles`): fairness and ENABLED are beyond the
prover. Every invariant and every safety property that a run checks is proved. For
five of the seven the half that needs no fairness is proved as well
(`WaitingCorrect`, `ReleaseCorrect`, `TeardownCorrect`, `ServedCorrect`, `CardCorrect`):
as long as the goal is outstanding, the state is one in which a step towards it
is there to be taken. What TLC adds is that fairness takes it, and takes
finitely many. The other two follow one task through stages that it runs
through in order, whatever others do, and have no such half worth stating.

**Not modelled**, with the reason in `components`:

* The React Native session hook repeats the iOS manager with timers for tasks;
  its own hazards are listed.
* ControllerDemo and controller storage read and write what the SDK persists.
* The Kotlin and Swift bindings come from the same generator and interface as
  the two that are modelled; the Swift header is a layer of `JsiApi`.
* The Diplomat bindings for Python and C belong to an interface that the library
  no longer has. So does the C++ binding as it is checked in (its symbols are
  `controller_*`, the library's `controlleraccount_*`, and it knows nothing of the
  registration URL); it is modelled for what the generator makes of an
  interface, and as `CppApi` is a constant of `CppBinding` the theorems carry over to
  the next one.
* In the C++ binding, `rust_call_trait_interface`, `HandleMap`, the copy
  constructors, the buffer forms of objects and the lowering of errors: no
  function uses them. In the React Native binding, buffers that JavaScript
  owns, one of which (the copy of each answer) is never freed.
* In the iOS manager, `openSessionInBrowser` and `tryAutoCreateSession`, which no
  view reaches.
* The Tokio runtime, Owner, the conversions in `utils.rs` and `error.rs` are
  stateless or created once; scripts and command line examples are
  straight-line.

## 6. Plan

Done: the handles with their abstract specification, the policies and the
registration, the iOS manager, the two bindings with theirs, the wire format,
the native module, the safety theorems of each, and what the sort and the
converters compute for inputs of any length.

What a continuation would take up, in this order:

1. An abstract session (none, pending, active, expired or revoked) that
   `SessionRegistration` and `SessionAccount` implement together.
2. The React Native hook against `SessionManager`'s properties, over an event
   loop with `setTimeout`; bounds: 2 taps, 2 transactions.
3. The callbacks of `JsiRuntime` with a runtime that overlaps its successor, once
   the interface has an asynchronous function.
4. Controller storage with ControllerDemo's manager, composed with
   `ControllerAccount`'s disconnect.
