--------------------------- MODULE SessionManager ---------------------------
(***************************************************************************)
(* The session half of the iOS example's SessionManager (SessionManager    *)
(* .swift and the views that drive it).  SessionManager lives on the main  *)
(* actor: each of its steps between two suspensions is one action here and *)
(* needs the main thread.  Off it run the FFI calls of the registration    *)
(* tasks and the subscription tasks, and each subscription's look at       *)
(* Task.isCancelled, whose outcome may be old when the main actor acts on  *)
(* it.                                                                     *)
(*                                                                         *)
(* The user, Safari and the backend are external.  A configuration is what *)
(* the setup form holds: the session key and the enabled policies.         *)
(***************************************************************************)
EXTENDS Naturals, FiniteSets

CONSTANTS
  Key, Policies,  \* session keys and sets of enabled policies
  FirstKey,       \* loadOrGenerateKey's key
  DefaultPolicies,\* setupDefaultPolicies
  None,           \* nil
  MaxTaps,        \* bound: taps on Register
  MaxEdits,       \* bound: changes of the form
  MaxDeepLinks    \* bound: sessionaccount:// links opened

ASSUME ManagerAssumption ==
  /\ FirstKey \in Key /\ DefaultPolicies \in Policies
  /\ None \notin [key : Key, policies : Policies]
  /\ MaxTaps \in Nat /\ MaxEdits \in Nat /\ MaxDeepLinks \in Nat

Config == [key : Key, policies : Policies]
Tap == 1..MaxTaps

VARIABLES
  config,       \* privateKey and enabledSessionPolicies()
  session,      \* sessionAccount
  isLoading,
  showWebView,
  urlConfig,    \* what sessionRegistrationUrl registers
  connectedCard,\* showAccountConnectedCard
  registration, \* openSessionInWebView's task of each tap
  subscription, \* the subscription task that the tap starts
  current,      \* subscriptionTask: whose task it is, 0 for nil
  apiCall,      \* what createSessionFromAPI subscribes with, while it blocks
                \* the main thread
  page,         \* external: the full screen cover with Safari
  pageConfig,   \* external: what the page shown registers
  approved,     \* external: what the user has approved
  edits, deepLinks

manager == <<config, session, isLoading, showWebView, urlConfig, connectedCard>>
tasks == <<registration, subscription, current>>
safari == <<page, pageConfig, approved>>
bounds == <<edits, deepLinks>>
vars == <<manager, tasks, apiCall, safari, bounds>>

-----------------------------------------------------------------------------
Session == [key : Key, policies : Policies, approved : Policies]

\* "resolving" the URL; "starting", "cancelled" and "loading" are the three
\* stretches of startBackgroundSubscriptionDetached, which hops off the main
\* actor and back around MainActor.run.
Registration == [stage : {"unused", "resolving", "starting", "cancelled",
                          "loading", "done"},
                 config : Config \cup {None}]

\* "waiting" in createFromSubscribe, "answered" by it, "install" and "fail"
\* past the look at isCancelled, "sleep" for the 0.8 s before the card.
Subscription == [stage : {"unused", "waiting", "answered", "install", "fail",
                          "sleep", "done"},
                 config : Config \cup {None}, answer : Session \cup {None},
                 cancelled : BOOLEAN]

TypeOK ==
  /\ config \in Config
  /\ session \in Session \cup {None}
  /\ isLoading \in BOOLEAN /\ showWebView \in BOOLEAN /\ connectedCard \in BOOLEAN
  /\ urlConfig \in Config \cup {None}
  /\ registration \in [Tap -> Registration]
  /\ subscription \in [Tap -> Subscription]
  /\ current \in {0} \cup Tap
  /\ apiCall \in Config \cup {None}
  /\ page \in {"none", "shown", "closing"}
  /\ pageConfig \in Config \cup {None}
  /\ approved \subseteq Config
  /\ edits \in 0..MaxEdits /\ deepLinks \in 0..MaxDeepLinks

Init ==
  /\ config = [key |-> FirstKey, policies |-> DefaultPolicies]
  /\ session = None /\ isLoading = FALSE /\ showWebView = FALSE
  /\ urlConfig = None /\ connectedCard = FALSE
  /\ registration = [i \in Tap |-> [stage |-> "unused", config |-> None]]
  /\ subscription = [i \in Tap |-> [stage |-> "unused", config |-> None,
                                    answer |-> None, cancelled |-> FALSE]]
  /\ current = 0 /\ apiCall = None
  /\ page = "none" /\ pageConfig = None /\ approved = {}
  /\ edits = 0 /\ deepLinks = 0

MainIsFree == apiCall = None

\* The setup form is neither covered by Safari nor dimmed by the card.
FormIsVisible == MainIsFree /\ page = "none" /\ ~connectedCard

Register(i, s) == registration' = [registration EXCEPT ![i].stage = s]
Subscribe(i, s) == subscription' = [subscription EXCEPT ![i].stage = s]

\* Task.cancel(), which only sets a flag; nothing for a nil task.
Cancel(i) == IF i = 0 THEN subscription
             ELSE [subscription EXCEPT ![i].cancelled = TRUE]

\* The sessions the backend may answer a subscription of c with: those that
\* were approved for its key.
Answers(c) ==
  {[key |-> c.key, policies |-> c.policies, approved |-> a.policies] :
     a \in {b \in approved : c # None /\ b.key = c.key}}

-----------------------------------------------------------------------------
(* Mutations, each a plausible slip in the action named.                   *)

\* InstallSession that leaves the card to somebody else
\* (AnswerReachesTheUser).
InstallWithoutCard(i) ==
  /\ MainIsFree
  /\ subscription[i].stage = "install"
  /\ Subscribe(i, "done")
  /\ session' = subscription[i].answer
  /\ isLoading' = FALSE
  /\ showWebView' = FALSE
  /\ UNCHANGED <<config, urlConfig, connectedCard, registration, current,
                 apiCall, safari, bounds>>

\* FailSubscription that leaves isLoading to cancelSubscription
\* (LoadingHasACause).
FailStillLoading(i) ==
  /\ MainIsFree
  /\ subscription[i].stage = "fail"
  /\ Subscribe(i, "done")
  /\ showWebView' = FALSE
  /\ UNCHANGED <<config, session, isLoading, urlConfig, connectedCard,
                 registration, current, apiCall, safari, bounds>>

\* ResolveUrl that stores the response instead of its URL (TypeOK).
ResolveTask(i) ==
  /\ MainIsFree
  /\ registration[i].stage = "resolving"
  /\ Register(i, "starting")
  /\ urlConfig' = registration[i]
  /\ showWebView' = TRUE
  /\ UNCHANGED <<config, session, isLoading, connectedCard, subscription, current,
                 apiCall, safari, bounds>>

-----------------------------------------------------------------------------
(* The setup form. *)

\* generateNewKey, addPolicy, removePolicy and togglePolicy: enabled whether or
\* not a registration is under way.
EditForm ==
  /\ FormIsVisible
  /\ edits < MaxEdits
  /\ edits' = edits + 1
  /\ config' \in Config \ {config}
  /\ UNCHANGED <<session, isLoading, showWebView, urlConfig, connectedCard,
                 tasks, apiCall, safari, deepLinks>>

\* openSessionInWebView up to its suspension: the URL is asked for with the
\* configuration of now.  The button is there without a session, and enabled
\* unless isLoading, which this does not set.
TapRegister(i) ==
  /\ FormIsVisible
  /\ session = None /\ ~isLoading
  /\ registration[i].stage = "unused"
  /\ \A j \in Tap : j < i => registration[j].stage # "unused"
  /\ registration' = [registration EXCEPT
                        ![i] = [stage |-> "resolving", config |-> config]]
  /\ UNCHANGED <<manager, subscription, current, apiCall, safari, bounds>>

\* resolveSessionRegistrationURL has returned: the page may open.
ResolveUrl(i) ==
  /\ MainIsFree
  /\ registration[i].stage = "resolving"
  /\ Register(i, "starting")
  /\ urlConfig' = registration[i].config
  /\ showWebView' = TRUE
  /\ UNCHANGED <<config, session, isLoading, connectedCard, subscription, current,
                 apiCall, safari, bounds>>

ResolveFails(i) ==
  /\ MainIsFree
  /\ registration[i].stage = "resolving"
  /\ Register(i, "done")
  /\ UNCHANGED <<manager, subscription, current, apiCall, safari, bounds>>

\* startBackgroundSubscriptionDetached, up to its first hop.
CancelPrevious(i) ==
  /\ MainIsFree
  /\ registration[i].stage = "starting"
  /\ Register(i, "cancelled")
  /\ subscription' = Cancel(current)
  /\ UNCHANGED <<manager, current, apiCall, safari, bounds>>

\* Its MainActor.run.
StartLoading(i) ==
  /\ MainIsFree
  /\ registration[i].stage = "cancelled"
  /\ Register(i, "loading")
  /\ isLoading' = TRUE
  /\ UNCHANGED <<config, session, showWebView, urlConfig, connectedCard,
                 subscription, current, apiCall, safari, bounds>>

\* And the rest: the configuration is read anew, and the task replaces the
\* one there is, looked at no more.
StartSubscription(i) ==
  /\ MainIsFree
  /\ registration[i].stage = "loading"
  /\ Register(i, "done")
  /\ subscription' = [subscription EXCEPT
                        ![i] = [stage |-> "waiting", config |-> config,
                                answer |-> None, cancelled |-> FALSE]]
  /\ current' = i
  /\ UNCHANGED <<manager, apiCall, safari, bounds>>

-----------------------------------------------------------------------------
(* The subscription task. *)

\* createFromSubscribe returns, cancelled or not: the backend knows a session
\* for the key, or there is an error.
SubscriptionAnswered(i) ==
  /\ subscription[i].stage = "waiting"
  /\ \E a \in Answers(subscription[i].config) \cup {None} :
       subscription' = [subscription EXCEPT ![i].stage = "answered", ![i].answer = a]
  /\ UNCHANGED <<manager, registration, current, apiCall, safari, bounds>>

\* if Task.isCancelled { return }, off the main thread.
CheckCancelled(i) ==
  /\ subscription[i].stage = "answered"
  /\ Subscribe(i, IF subscription[i].cancelled THEN "done"
                  ELSE IF subscription[i].answer = None THEN "fail" ELSE "install")
  /\ UNCHANGED <<manager, registration, current, apiCall, safari, bounds>>

\* MainActor.run: the session and its metadata, and the page closes.
InstallSession(i) ==
  /\ MainIsFree
  /\ subscription[i].stage = "install"
  /\ Subscribe(i, "sleep")
  /\ session' = subscription[i].answer
  /\ isLoading' = FALSE
  /\ showWebView' = FALSE
  /\ UNCHANGED <<config, urlConfig, connectedCard, registration, current,
                 apiCall, safari, bounds>>

\* 0.8 s later; a cancelled sleep only ends early.
ShowConnectedCard(i) ==
  /\ MainIsFree
  /\ subscription[i].stage = "sleep"
  /\ Subscribe(i, "done")
  /\ connectedCard' = TRUE
  /\ UNCHANGED <<config, session, isLoading, showWebView, urlConfig,
                 registration, current, apiCall, safari, bounds>>

\* MainActor.run of the catch.
FailSubscription(i) ==
  /\ MainIsFree
  /\ subscription[i].stage = "fail"
  /\ Subscribe(i, "done")
  /\ isLoading' = FALSE
  /\ showWebView' = FALSE
  /\ UNCHANGED <<config, session, urlConfig, connectedCard,
                 registration, current, apiCall, safari, bounds>>

-----------------------------------------------------------------------------
(* The full screen cover. *)

\* SwiftUI presents the cover, with the URL of this moment.
PresentPage ==
  /\ MainIsFree
  /\ showWebView /\ page = "none"
  /\ page' = "shown" /\ pageConfig' = urlConfig
  /\ UNCHANGED <<manager, tasks, apiCall, approved, bounds>>

\* The user authorizes what the page lists; Safari is a process of its own.
UserApproves ==
  /\ page = "shown" /\ pageConfig # None
  /\ approved' = approved \cup {pageConfig}
  /\ UNCHANGED <<manager, tasks, apiCall, page, pageConfig, bounds>>

\* The user's Close, the redirect to the callback or a page that did not load.
ClosePage ==
  /\ MainIsFree
  /\ page = "shown"
  /\ page' = "closing" /\ showWebView' = FALSE
  /\ UNCHANGED <<config, session, isLoading, urlConfig, connectedCard, tasks,
                 apiCall, pageConfig, approved, bounds>>

\* showWebView is false: SwiftUI takes the cover away.
DismissPage ==
  /\ MainIsFree
  /\ ~showWebView /\ page = "shown"
  /\ page' = "closing"
  /\ UNCHANGED <<manager, tasks, apiCall, pageConfig, approved, bounds>>

\* onDismiss, when the cover is gone: cancelSubscription without a session.
OnDismiss ==
  /\ MainIsFree
  /\ page = "closing"
  /\ page' = "none" /\ pageConfig' = None
  /\ IF session = None
       THEN subscription' = Cancel(current) /\ current' = 0 /\ isLoading' = FALSE
       ELSE UNCHANGED <<subscription, current, isLoading>>
  /\ UNCHANGED <<config, session, showWebView, urlConfig, connectedCard,
                 registration, apiCall, approved, bounds>>

-----------------------------------------------------------------------------
(* With a session. *)

DismissCard ==
  /\ MainIsFree
  /\ connectedCard
  /\ connectedCard' = FALSE
  /\ UNCHANGED <<config, session, isLoading, showWebView, urlConfig, tasks,
                 apiCall, safari, bounds>>

\* reset(): cancelSubscription and everything but the key and showWebView.
Reset ==
  /\ FormIsVisible
  /\ session # None
  /\ subscription' = Cancel(current) /\ current' = 0 /\ isLoading' = FALSE
  /\ session' = None
  /\ urlConfig' = None
  /\ connectedCard' = FALSE
  /\ config' = [config EXCEPT !.policies = DefaultPolicies]
  /\ UNCHANGED <<showWebView, registration, apiCall, safari, bounds>>

-----------------------------------------------------------------------------
(* handleDeepLink and createSessionFromAPI: the FFI call on the main thread. *)

OpenDeepLink ==
  /\ MainIsFree
  /\ deepLinks < MaxDeepLinks
  /\ deepLinks' = deepLinks + 1
  /\ apiCall' = config
  /\ isLoading' = TRUE
  /\ UNCHANGED <<config, session, showWebView, urlConfig, connectedCard, tasks,
                 safari, edits>>

ApiAnswers ==
  /\ apiCall # None
  /\ \/ session' \in Answers(apiCall)
     \/ UNCHANGED session
  /\ apiCall' = None
  /\ isLoading' = FALSE
  /\ UNCHANGED <<config, showWebView, urlConfig, connectedCard, tasks, safari, bounds>>

-----------------------------------------------------------------------------
App(i) == ResolveUrl(i) \/ ResolveFails(i) \/ CancelPrevious(i) \/ StartLoading(i)
          \/ StartSubscription(i)
          \/ CheckCancelled(i) \/ InstallSession(i) \/ ShowConnectedCard(i)
          \/ FailSubscription(i)

SwiftUI == PresentPage \/ DismissPage \/ OnDismiss

User == EditForm \/ UserApproves \/ ClosePage \/ DismissCard \/ Reset \/ OpenDeepLink

Next ==
  \/ \E i \in Tap : TapRegister(i) \/ App(i) \/ SubscriptionAnswered(i)
  \/ SwiftUI \/ User \/ ApiAnswers

Spec == Init /\ [][Next]_vars

\* The app and SwiftUI run; a subscription is answered once its key has an
\* approved session, and has no timeout without one.  Users need do nothing.
FairSpec ==
  /\ Spec
  /\ WF_vars(SwiftUI)
  /\ \A i \in Tap :
       /\ WF_vars(App(i))
       /\ WF_vars(Answers(subscription[i].config) # {} /\ SubscriptionAnswered(i))
  /\ WF_vars(Answers(apiCall) # {} /\ ApiAnswers)

-----------------------------------------------------------------------------
(* What holds. *)

Live(i) == subscription[i].stage \in {"waiting", "answered"} /\ ~subscription[i].cancelled

\* Register is never left disabled with its spinner: while isLoading, a
\* subscription that will clear it is under way or about to be, or the main
\* thread is busy with a deep link.
LoadingHasACause ==
  isLoading =>
    \/ ~MainIsFree
    \/ \E i \in Tap : \/ Live(i)
                      \/ subscription[i].stage \in {"install", "fail"}
                      \/ registration[i].stage \in {"cancelled", "loading"}

\* A subscription that was answered with a session, and not cancelled
\* meanwhile, ends in the card that tells the user so, unless a deep link has
\* taken the main thread.
AnswerReachesTheUser ==
  \A i \in Tap :
    subscription[i].stage = "answered" /\ subscription[i].answer # None
      ~> connectedCard \/ subscription[i].cancelled \/ ~MainIsFree

-----------------------------------------------------------------------------
(* What the guides and comments say. *)

\* startBackgroundSubscriptionDetached: "Cancel any existing subscription".  At
\* most one still means to install a session, the one that cancelSubscription
\* would reach.
AtMostOneLiveSubscription == \A i \in Tap : Live(i) => current = i

\* SETUP_GUIDE.md: "cancelSubscription() - Cancels if user dismisses".
CancelledSubscriptionInstallsNothing ==
  [][\A i \in Tap :
       subscription[i].cancelled /\ InstallSession(i) => UNCHANGED session]_vars

\* README.md: "Session keys have limited permissions (only approved
\* contracts/methods)": the session asks for the policies the user approved.
SessionHasTheApprovedPolicies ==
  session # None => session.policies = session.approved

\* runtime.rs: the runtime is there "to prevent UI freezing".
MainThreadComesBack == ~MainIsFree ~> MainIsFree

=============================================================================
