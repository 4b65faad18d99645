------------------------- MODULE SessionManagerProofs -------------------------
(***************************************************************************)
(* Theorems of SessionManager for every set of keys and of policies, and   *)
(* any number of taps, edits and deep links.                               *)
(***************************************************************************)
EXTENDS SessionManager, TLAPS

\* What ends the loading, apart from a deep link that blocks the main thread.
Ends(i) ==
  \/ Live(i)
  \/ subscription[i].stage \in {"install", "fail"}
  \/ registration[i].stage \in {"cancelled", "loading"}

\* The inductive invariant.
Inv == TypeOK /\ LoadingHasACause

\* A change of stage, and a cancellation, keep the types.
LEMMA StagesAreTyped ==
  ASSUME TypeOK, NEW i \in Tap
  PROVE  /\ \A s \in {"unused", "resolving", "starting", "cancelled", "loading", "done"} :
              [registration EXCEPT ![i].stage = s] \in [Tap -> Registration]
         /\ \A s \in {"unused", "waiting", "answered", "install", "fail",
                      "sleep", "done"} :
              [subscription EXCEPT ![i].stage = s] \in [Tap -> Subscription]
<1>1. ASSUME NEW s \in {"unused", "resolving", "starting", "cancelled", "loading",
                        "done"}
      PROVE  [registration EXCEPT ![i].stage = s] \in [Tap -> Registration]
  <2>1. [registration[i] EXCEPT !.stage = s] \in Registration
    BY DEF TypeOK, Registration
  <2> QED
    BY <2>1 DEF TypeOK
<1>2. ASSUME NEW s \in {"unused", "waiting", "answered", "install", "fail",
                        "sleep", "done"}
      PROVE  [subscription EXCEPT ![i].stage = s] \in [Tap -> Subscription]
  <2>1. [subscription[i] EXCEPT !.stage = s] \in Subscription
    BY DEF TypeOK, Subscription
  <2> QED
    BY <2>1 DEF TypeOK
<1> QED
  BY <1>1, <1>2

\* Cancelling sets a flag and changes no stage.
LEMMA CancelOnlyFlags ==
  ASSUME TypeOK
  PROVE  /\ Cancel(current) \in [Tap -> Subscription]
         /\ \A i \in Tap : Cancel(current)[i].stage = subscription[i].stage
<1>1. CASE current = 0
  BY <1>1 DEF Cancel, TypeOK
<1>2. CASE current \in Tap
  <2>1. current # 0
    BY <1>2, ManagerAssumption DEF Tap
  <2>2. [subscription[current] EXCEPT !.cancelled = TRUE] \in Subscription
    BY <1>2 DEF TypeOK, Subscription
  <2> QED
    BY <1>2, <2>1, <2>2 DEF Cancel, TypeOK, Subscription
<1> QED
  BY <1>1, <1>2 DEF TypeOK

\* What the backend may answer is a session.
LEMMA AnswersAreSessions ==
  ASSUME TypeOK, NEW c \in Config \cup {None}
  PROVE  Answers(c) \subseteq Session
BY DEF TypeOK, Answers, Session, Config

-----------------------------------------------------------------------------
LEMMA TypeStep ==
  ASSUME TypeOK, [Next]_vars
  PROVE  TypeOK'
<1> USE ManagerAssumption
    DEF TypeOK, manager, tasks, safari, bounds, Register, Subscribe
<1>1. CASE EditForm
  BY <1>1 DEF EditForm
<1>2. ASSUME NEW i \in Tap, TapRegister(i)
      PROVE  TypeOK'
  <2>1. [stage |-> "resolving", config |-> config] \in Registration
    BY DEF Registration
  <2> QED
    BY <1>2, <2>1 DEF TapRegister
<1>3. ASSUME NEW i \in Tap, ResolveUrl(i)
      PROVE  TypeOK'
  <2>1. registration[i].config \in Config \cup {None}
    BY DEF Registration
  <2>2. showWebView' \in BOOLEAN
    BY <1>3, Zenon DEF ResolveUrl
  <2> QED
    BY <1>3, <2>1, <2>2, StagesAreTyped DEF ResolveUrl
<1>4. ASSUME NEW i \in Tap, ResolveFails(i)
      PROVE  TypeOK'
  BY <1>4, StagesAreTyped DEF ResolveFails
<1>5. ASSUME NEW i \in Tap, CancelPrevious(i)
      PROVE  TypeOK'
  BY ZenonT(40), <1>5, StagesAreTyped, CancelOnlyFlags DEF CancelPrevious
<1>6. ASSUME NEW i \in Tap, StartLoading(i)
      PROVE  TypeOK'
  <2>1. isLoading' \in BOOLEAN
    BY <1>6, Zenon DEF StartLoading
  <2> QED
    BY <1>6, <2>1, StagesAreTyped DEF StartLoading
<1>7. ASSUME NEW i \in Tap, StartSubscription(i)
      PROVE  TypeOK'
  <2>1. [stage |-> "waiting", config |-> config, answer |-> None,
         cancelled |-> FALSE] \in Subscription
    BY DEF Subscription
  <2> QED
    BY <1>7, <2>1, StagesAreTyped DEF StartSubscription
<1>8. ASSUME NEW i \in Tap, SubscriptionAnswered(i)
      PROVE  TypeOK'
  <2>1. subscription[i].config \in Config \cup {None}
    BY DEF Subscription
  <2>2. PICK a \in Session \cup {None} :
          subscription' = [subscription EXCEPT ![i].stage = "answered",
                                               ![i].answer = a]
    BY <1>8, <2>1, AnswersAreSessions DEF SubscriptionAnswered
  <2>3. [subscription[i] EXCEPT !.stage = "answered", !.answer = a] \in Subscription
    BY DEF Subscription
  <2> QED
    BY <1>8, <2>2, <2>3 DEF SubscriptionAnswered
<1>9. ASSUME NEW i \in Tap, CheckCancelled(i)
      PROVE  TypeOK'
  BY <1>9, StagesAreTyped DEF CheckCancelled
<1>10. ASSUME NEW i \in Tap, InstallSession(i)
       PROVE  TypeOK'
  <2>1. subscription[i].answer \in Session \cup {None}
    BY DEF Subscription
  <2>2. isLoading' \in BOOLEAN /\ showWebView' \in BOOLEAN
    BY <1>10, Zenon DEF InstallSession
  <2> QED
    BY <1>10, <2>1, <2>2, StagesAreTyped DEF InstallSession
<1>11. ASSUME NEW i \in Tap, ShowConnectedCard(i)
       PROVE  TypeOK'
  <2>1. connectedCard' \in BOOLEAN
    BY <1>11, Zenon DEF ShowConnectedCard
  <2> QED
    BY <1>11, <2>1, StagesAreTyped DEF ShowConnectedCard
<1>12. ASSUME NEW i \in Tap, FailSubscription(i)
       PROVE  TypeOK'
  <2>1. isLoading' \in BOOLEAN /\ showWebView' \in BOOLEAN
    BY <1>12, Zenon DEF FailSubscription
  <2> QED
    BY <1>12, <2>1, StagesAreTyped DEF FailSubscription
<1>13. CASE PresentPage
  BY <1>13 DEF PresentPage
<1>14. CASE UserApproves
  BY <1>14 DEF UserApproves
<1>15. CASE ClosePage
  <2>1. showWebView' \in BOOLEAN
    BY <1>15, Zenon DEF ClosePage
  <2> QED
    BY <1>15, <2>1 DEF ClosePage
<1>16. CASE DismissPage
  BY <1>16 DEF DismissPage
<1>17. CASE OnDismiss
  <2>1. isLoading' \in BOOLEAN
    BY <1>17, Zenon DEF OnDismiss, TypeOK
  <2> QED
    BY <1>17, <2>1, CancelOnlyFlags DEF OnDismiss
<1>18. CASE DismissCard
  <2>1. connectedCard' \in BOOLEAN
    BY <1>18, Zenon DEF DismissCard
  <2> QED
    BY <1>18, <2>1 DEF DismissCard
<1>19. CASE Reset
  <2>1. isLoading' \in BOOLEAN /\ connectedCard' \in BOOLEAN
    BY <1>19, Zenon DEF Reset
  <2>2. config' \in Config
    BY <1>19 DEF Reset, Config
  <2> QED
    BY <1>19, <2>1, <2>2, CancelOnlyFlags DEF Reset
<1>20. CASE OpenDeepLink
  <2>1. isLoading' \in BOOLEAN
    BY <1>20, Zenon DEF OpenDeepLink
  <2> QED
    BY <1>20, <2>1 DEF OpenDeepLink
<1>21. CASE ApiAnswers
  <2>1. isLoading' \in BOOLEAN
    BY <1>21, Zenon DEF ApiAnswers
  <2>2. session' \in Session \cup {None}
    BY <1>21, AnswersAreSessions DEF ApiAnswers
  <2> QED
    BY <1>21, <2>1, <2>2 DEF ApiAnswers
<1>22. CASE UNCHANGED vars
  BY <1>22 DEF vars
<1> QED
  BY <1>1, <1>2, <1>3, <1>4, <1>5, <1>6, <1>7, <1>8, <1>9, <1>10, <1>11,
     <1>12, <1>13, <1>14, <1>15, <1>16, <1>17, <1>18, <1>19, <1>20, <1>21, <1>22
  DEF Next, App, SwiftUI, User

-----------------------------------------------------------------------------
\* A step that starts no loading, and takes nothing away that ends it.
LEMMA CauseStays ==
  ASSUME LoadingHasACause, isLoading' => isLoading, UNCHANGED apiCall,
         \A i \in Tap : Ends(i) => Ends(i)' \/ ~isLoading'
  PROVE  LoadingHasACause'
BY DEF LoadingHasACause, Ends, MainIsFree, Live

\* Loading has a cause wherever a step leads.
LEMMA CauseStep ==
  ASSUME Inv, [Next]_vars
  PROVE  LoadingHasACause'
<1> USE ManagerAssumption
    DEF Inv, manager, tasks, safari, bounds, Register, Subscribe
<1>0. /\ TypeOK
      /\ registration \in [Tap -> Registration]
      /\ subscription \in [Tap -> Subscription]
  BY DEF TypeOK
<1>1. CASE EditForm \/ PresentPage \/ UserApproves \/ ClosePage \/ DismissPage
             \/ DismissCard
  BY <1>1, CauseStays
  DEF EditForm, PresentPage, UserApproves, ClosePage, DismissPage, DismissCard,
      Ends, Live
<1>2. CASE Reset \/ ApiAnswers
  BY <1>2 DEF Reset, ApiAnswers, LoadingHasACause
<1>3. CASE OpenDeepLink
  BY <1>3 DEF OpenDeepLink, LoadingHasACause, MainIsFree, TypeOK, Config
<1>4. CASE OnDismiss
  <2>1. CASE session = None
    BY <1>4, <2>1 DEF OnDismiss, LoadingHasACause
  <2>2. CASE session # None
    BY <1>4, <2>2, CauseStays DEF OnDismiss, Ends, Live
  <2> QED
    BY <2>1, <2>2
<1>5. ASSUME NEW i \in Tap, TapRegister(i) \/ ResolveUrl(i) \/ ResolveFails(i)
      PROVE  LoadingHasACause'
  <2>1. /\ registration[i].stage \in {"unused", "resolving"}
        /\ \A j \in Tap : j # i => registration'[j] = registration[j]
        /\ UNCHANGED <<isLoading, apiCall, subscription>>
    BY <1>0, <1>5 DEF TapRegister, ResolveUrl, ResolveFails
  <2> QED
    BY <2>1, CauseStays DEF Ends, Live
<1>6. ASSUME NEW i \in Tap, CancelPrevious(i) \/ StartLoading(i)
      PROVE  LoadingHasACause'
  <2>1. registration'[i].stage \in {"cancelled", "loading"}
    BY <1>0, <1>6 DEF CancelPrevious, StartLoading, Registration
  <2> QED
    BY <2>1 DEF LoadingHasACause
<1>7. ASSUME NEW i \in Tap, StartSubscription(i)
      PROVE  LoadingHasACause'
  <2>1. subscription'[i].stage = "waiting" /\ ~subscription'[i].cancelled
    BY <1>0, <1>7 DEF StartSubscription
  <2> QED
    BY <2>1 DEF LoadingHasACause, Live
<1>8. ASSUME NEW i \in Tap, SubscriptionAnswered(i)
      PROVE  LoadingHasACause'
  <2>1. /\ subscription[i].stage = "waiting" /\ subscription'[i].stage = "answered"
        /\ subscription'[i].cancelled = subscription[i].cancelled
        /\ \A j \in Tap : j # i => subscription'[j] = subscription[j]
        /\ UNCHANGED <<isLoading, apiCall, registration>>
    BY <1>0, <1>8 DEF SubscriptionAnswered, Subscription
  <2> QED
    BY <2>1, CauseStays DEF Ends, Live
<1>9. ASSUME NEW i \in Tap, CheckCancelled(i)
      PROVE  LoadingHasACause'
  <2>1. /\ subscription[i].stage = "answered"
        /\ ~subscription[i].cancelled => subscription'[i].stage \in {"fail", "install"}
        /\ \A j \in Tap : j # i => subscription'[j] = subscription[j]
        /\ UNCHANGED <<isLoading, apiCall, registration>>
    BY <1>0, <1>9 DEF CheckCancelled, Subscription
  <2> QED
    BY <2>1, CauseStays DEF Ends, Live
<1>10. ASSUME NEW i \in Tap, InstallSession(i) \/ FailSubscription(i)
       PROVE  LoadingHasACause'
  BY <1>10 DEF InstallSession, FailSubscription, LoadingHasACause
<1>11. ASSUME NEW i \in Tap, ShowConnectedCard(i)
       PROVE  LoadingHasACause'
  <2>1. /\ subscription[i].stage = "sleep"
        /\ \A j \in Tap : j # i => subscription'[j] = subscription[j]
        /\ UNCHANGED <<isLoading, apiCall, registration>>
    BY <1>0, <1>11 DEF ShowConnectedCard
  <2>2. ~Live(i)
    BY <2>1 DEF Live
  <2>3. \A j \in Tap : Ends(j) => Ends(j)'
    BY <2>1, <2>2 DEF Ends, Live
  <2> QED
    BY <2>1, <2>3, CauseStays
<1>12. CASE UNCHANGED vars
  BY <1>12 DEF vars, LoadingHasACause, Live, MainIsFree
<1> QED
  BY <1>1, <1>2, <1>3, <1>4, <1>5, <1>6, <1>7, <1>8, <1>9, <1>10, <1>11, <1>12
  DEF Next, App, SwiftUI, User

-----------------------------------------------------------------------------
(* The theorems. *)

LEMMA InitInv == Init => Inv
<1> SUFFICES ASSUME Init
             PROVE  Inv
  OBVIOUS
<1>1. /\ isLoading \in BOOLEAN /\ showWebView \in BOOLEAN
      /\ connectedCard \in BOOLEAN /\ ~isLoading
  BY Zenon DEF Init
<1>2. /\ registration \in [Tap -> Registration]
      /\ subscription \in [Tap -> Subscription]
  BY DEF Init, Registration, Subscription
<1>3. config \in Config
  BY ManagerAssumption DEF Init, Config
<1>4. /\ session = None /\ urlConfig = None /\ current = 0 /\ apiCall = None
      /\ page = "none" /\ pageConfig = None /\ approved = {}
      /\ edits = 0 /\ deepLinks = 0
  BY DEF Init
<1> QED
  BY <1>1, <1>2, <1>3, <1>4, ManagerAssumption DEF Inv, TypeOK, LoadingHasACause

\* The inductive invariant holds throughout.
THEOREM Invariance == Spec => []Inv
<1>1. Inv /\ [Next]_vars => Inv'
  BY TypeStep, CauseStep DEF Inv
<1> QED
  BY <1>1, InitInv, PTL DEF Spec

\* The variables keep their types.
THEOREM TypeCorrect == Spec => []TypeOK
<1>1. Inv => TypeOK
  BY DEF Inv
<1> QED
  BY <1>1, Invariance, PTL

\* Register is never left disabled, however many taps, cancellations, edits
\* and deep links overlap.
THEOREM LoadingCorrect == Spec => []LoadingHasACause
<1>1. Inv => LoadingHasACause
  BY DEF Inv
<1> QED
  BY <1>1, Invariance, PTL
=============================================================================
