------------------------ MODULE SessionRegistration ------------------------
(***************************************************************************)
(* The life of a session from its registration URL to its handle           *)
(* (src/src/session.rs): the application asks for a registration URL for   *)
(* its policies, the user approves what the URL lists, the backend records *)
(* the session, and create_from_subscribe builds a SessionAccount for it   *)
(* from the application's own list and the backend's answer.               *)
(*                                                                         *)
(* The shortener, the keychain with its user, and the backend are          *)
(* external.  The application keeps the same policies throughout, in any   *)
(* order, and may retry either call.                                       *)
(***************************************************************************)
EXTENDS SessionPolicies

CONSTANTS
  Lists,     \* the policy lists an application may start with
  None,      \* nothing there
  MaxUrls,   \* bound: how many registration URLs are asked for
  MaxSubs    \* bound: how many subscriptions are made

\* The policies that an application may have.
Entries == UNION {{l[i] : i \in DOMAIN l} : l \in Lists}

\* What the application writes for an address is one, or is refused.
ASSUME RegistrationAssumption ==
  /\ MaxUrls \in Nat /\ MaxSubs \in Nat
  /\ None \notin {"id", "account", "app"}
  /\ \A l \in Lists : l \in Seq(Entries)
  /\ \A p \in Entries :
       /\ p.entrypoint \in Name
       /\ p.contract_address = NotHex \/ p.contract_address \in Address

VARIABLES
  policies,   \* the application's list
  url_call,   \* where create_session_registration_url stands
  posted,     \* the policies in the long URL of the current POST
  stored,     \* external: whether the shortener has stored that URL
  url_result, \* what the last create_session_registration_url returned
  urls,       \* how many were asked for
  pages,      \* external: what the registration URLs handed out lead to
  approved,   \* external: the policies of the sessions that users approved
  sub_call,   \* where create_from_subscribe stands
  given,      \* the list it was given
  response,   \* the backend's answer in the subscription at hand
  sub_result, \* what the last create_from_subscribe returned
  subs,       \* how many were made
  session     \* the handle in the making, then in the application's hands

urlSide == <<url_call, posted, stored, url_result, urls, pages>>
subSide == <<sub_call, given, response, sub_result, subs, session>>
vars == <<policies, urlSide, approved, subSide>>

-----------------------------------------------------------------------------
(* What the shortener's answer looks like to                               *)
(* validate_shortened_session_url, and whether the shortener made it.      *)

ShortUrl == [scheme : {"https", "http"},
             host   : {"expected", "EXPECTED", "elsewhere"},
             code   : {"ten_alphanumerics", "other"}]

\* eq_ignore_ascii_case with the host of the shortener endpoint.
IsExpectedHost(host) == host \in {"expected", "EXPECTED"}

\* ValidShortUrl without the look at the host (LinkLeadsToThePolicies).
ValidAnyHost(u) == u.scheme = "https" /\ u.code = "ten_alphanumerics"

ValidShortUrl(u) ==
  /\ u.scheme = "https"
  /\ IsExpectedHost(u.host)
  /\ u.code = "ten_alphanumerics"

-----------------------------------------------------------------------------
(* The backend's answer: authorization lists the tag of the session, which *)
(* may be another than "authorization-by-registered" or no field element,  *)
(* and the owner's guid.                                                   *)

Authorization ==
  {<<>>} \cup {<<a>> : a \in {"registered", "other", "not_felt"}}
         \cup {<<a, g>> : a \in {"registered", "other"}, g \in {"guid", "not_felt"}}

NoResponse ==
  [data |-> FALSE, authorization |-> <<>>, chain_id |-> "short", is_revoked |-> FALSE,
   policies |-> None]

\* What the backend may say of a session with policies p, or of none.
Answers(p) ==
  {NoResponse} \cup
  [data : {TRUE}, authorization : Authorization, chain_id : {"short", "long"},
   is_revoked : BOOLEAN, policies : {p}]

\* A handle: the SDK session's policies and the metadata.
Fresh(sdk_policies, guid) ==
  [policies |-> sdk_policies, owner_guid |-> guid,
   session_id |-> None, username |-> None, app_id |-> None, is_revoked |-> FALSE]

\* What the session in the making, or in hand, may be.
Handle ==
  [policies   : Seq([contract : [1..Width -> 0..(Base - 1)], selector : Name]),
   owner_guid : {"guid"},
   session_id : {None, "id"}, username : {None, "account"}, app_id : {None, "app"},
   is_revoked : BOOLEAN]

TypeOK ==
  /\ policies \in Seq(Entries) /\ given \in Seq(Entries)
  /\ \E l \in Lists : Len(policies) = Len(l)
  /\ given = <<>> \/ Len(given) = Len(policies)
  /\ url_call \in {"idle", "waiting"}
  /\ stored \in BOOLEAN
  /\ url_result \in {"none", "Ok", "InvalidInput", "NetworkError"}
  /\ urls \in 0..MaxUrls
  /\ approved \subseteq pages \ {None}
  /\ sub_call \in {"idle", "waiting", "validate", "build", "fill"}
  /\ response = NoResponse \/ \E p \in approved : response \in Answers(p)
  /\ sub_result \in {"none", "Ok", "InitializationError", "InvalidInput", "SignupError"}
  /\ subs \in 0..MaxSubs
  /\ session = None \/ session \in Handle
  /\ sub_call = "fill" => session \in Handle

Init ==
  /\ policies \in Lists
  /\ url_call = "idle" /\ posted = None /\ stored = FALSE
  /\ url_result = "none" /\ urls = 0 /\ pages = {}
  /\ approved = {}
  /\ sub_call = "idle" /\ given = <<>> /\ response = NoResponse
  /\ sub_result = "none"
  /\ subs = 0 /\ session = None

-----------------------------------------------------------------------------
(* The application. *)

\* The list comes out in another order.
Reorder ==
  /\ \E i, j \in DOMAIN policies :
       /\ i < j
       /\ policies' = [policies EXCEPT ![i] = policies[j], ![j] = policies[i]]
  /\ UNCHANGED <<urlSide, approved, subSide>>

-----------------------------------------------------------------------------
(* create_session_registration_url. *)

UrlReturns(r) == url_call' = "idle" /\ url_result' = r

\* The key, the policies, the keychain URL and the API URL are checked before
\* the POST; the policies are those the call was given.
CreateUrl ==
  /\ url_call = "idle"
  /\ urls < MaxUrls
  /\ urls' = urls + 1
  /\ stored' = FALSE
  /\ \/ /\ UrlReturns("InvalidInput")
        /\ posted' = None
     \/ /\ Parses(policies)
        /\ url_call' = "waiting"
        /\ posted' = Canonicalize(policies)
        /\ UNCHANGED url_result
  /\ UNCHANGED <<policies, pages, approved, subSide>>

\* External: the shortener stores the long URL under a code of its own.
ShortenerStores ==
  /\ url_call = "waiting" /\ ~stored
  /\ stored' = TRUE
  /\ UNCHANGED <<policies, url_call, posted, url_result, urls, pages, approved, subSide>>

\* parse_shorten_response.  What carries the expected host over https comes
\* from the shortener; any other answer may come from whatever sits between.
ParseShortenResponse ==
  /\ url_call = "waiting"
  /\ \/ UrlReturns("NetworkError") /\ UNCHANGED pages
     \/ \E u \in ShortUrl :
          /\ u.scheme = "https" /\ IsExpectedHost(u.host) => stored
          /\ IF ValidShortUrl(u)
               THEN /\ UrlReturns("Ok")
                    /\ pages' = pages \cup
                         {IF IsExpectedHost(u.host) THEN posted ELSE None}
               ELSE UrlReturns("NetworkError") /\ UNCHANGED pages
  /\ UNCHANGED <<policies, posted, stored, urls, approved, subSide>>

\* TimesOut with a client that was built without a timeout (UrlCallEnds).
WaitsForever == FALSE /\ UNCHANGED vars

\* TimesOut with an error of its own (TypeOK).
TimesOutUnmapped ==
  /\ url_call = "waiting"
  /\ UrlReturns("Timeout")
  /\ UNCHANGED <<policies, posted, stored, urls, pages, approved, subSide>>

\* Client::builder().timeout(5 s): no answer is waited for longer.
TimesOut ==
  /\ url_call = "waiting"
  /\ UrlReturns("NetworkError")
  /\ UNCHANGED <<policies, posted, stored, urls, pages, approved, subSide>>

\* External: the user opens a URL the application was given, and approves.
UserApproves ==
  /\ \E p \in pages \ {None} : approved' = approved \cup {p}
  /\ UNCHANGED <<policies, urlSide, subSide>>

-----------------------------------------------------------------------------
(* create_from_subscribe. *)

SubReturns(r) == sub_call' = "idle" /\ sub_result' = r

Subscribe ==
  /\ sub_call = "idle"
  /\ subs < MaxSubs
  /\ subs' = subs + 1
  /\ given' = policies
  /\ session' = None
  /\ response' = NoResponse
  /\ \/ SubReturns("InitializationError")
     \/ sub_call' = "waiting" /\ UNCHANGED sub_result
  /\ UNCHANGED <<policies, urlSide, approved>>

\* External: the backend reports a session that the key's user approved, or
\* the subscription fails.  It waits as long as there is none.
BackendAnswers ==
  /\ sub_call = "waiting"
  /\ \/ \E p \in approved : response' \in Answers(p) /\ sub_call' = "validate"
        /\ UNCHANGED sub_result
     \/ SubReturns("SignupError") /\ UNCHANGED response
  /\ UNCHANGED <<policies, urlSide, approved, given, subs, session>>

\* Authorized that asks for a tag, whichever it is (SessionsAreAuthorized).
AuthorizedByAnyTag(r) == r.data /\ Len(r.authorization) >= 2

Authorized(r) ==
  /\ r.data
  /\ Len(r.authorization) >= 2
  /\ r.authorization[1] = "registered"

ValidateAuthorization ==
  /\ sub_call = "validate"
  /\ \/ ~Authorized(response) /\ SubReturns("SignupError")
     \/ /\ Authorized(response) /\ response.chain_id = "long"
        /\ SubReturns("InitializationError")
     \/ /\ Authorized(response) /\ response.chain_id = "short"
        /\ sub_call' = "build" /\ UNCHANGED sub_result
  /\ UNCHANGED <<policies, urlSide, approved, given, response, subs, session>>

\* Self::new with the policies given and the backend's owner guid.  The RPC URL
\* and the field elements are parsed before the policies, and Session::new may
\* fail after them.
BuildSession ==
  /\ sub_call = "build"
  /\ \/ SubReturns("InitializationError") /\ UNCHANGED session
     \/ /\ response.authorization[2] # "not_felt"
        /\ ~(Parses(given) /\ HasSelectors(given))
        /\ SubReturns("InvalidInput") /\ UNCHANGED session
     \/ /\ response.authorization[2] # "not_felt"
        /\ Parses(given) /\ HasSelectors(given)
        /\ session' = Fresh(SdkPolicies(given), response.authorization[2])
        /\ sub_call' = "fill" /\ UNCHANGED sub_result
  /\ UNCHANGED <<policies, urlSide, approved, given, response, subs>>

\* The handle is completed under its lock and then returned.
FillMetadata ==
  /\ sub_call = "fill"
  /\ session' = [session EXCEPT !.session_id = "id", !.username = "account",
                                !.app_id = "app", !.is_revoked = response.is_revoked]
  /\ SubReturns("Ok")
  /\ UNCHANGED <<policies, urlSide, approved, given, response, subs>>

Next ==
  \/ Reorder
  \/ CreateUrl \/ ShortenerStores \/ ParseShortenResponse \/ TimesOut
  \/ UserApproves
  \/ Subscribe \/ BackendAnswers \/ ValidateAuthorization
  \/ BuildSession \/ FillMetadata

Spec == Init /\ [][Next]_vars

\* The HTTP client's timer runs.  Nothing else has to happen: users need not
\* approve, and a subscription has no timeout.
FairSpec == Spec /\ WF_vars(TimesOut)

-----------------------------------------------------------------------------
(* Properties. *)

InHand == sub_call = "idle" /\ sub_result = "Ok"

\* The session that the application holds lists, one by one, the policies of
\* a session that its user approved, although the two lists were put in order
\* by two calls that saw the application's list in different orders.
SessionIsWhatWasApproved ==
  InHand =>
    \E p \in approved :
      session.policies = [i \in DOMAIN p |->
                           [contract |-> p[i].target, selector |-> p[i].method]]

\* A registration URL that the application was given leads to its policies.
LinkLeadsToThePolicies ==
  Parses(policies) => pages \subseteq {Canonicalize(policies)}

\* No handle comes out of an answer that is not an authorization of a
\* registered session with an owner.
SessionsAreAuthorized ==
  InHand => response.authorization = <<"registered", "guid">>

\* create_session_registration_url returns though no one answers.
UrlCallEnds == url_call = "waiting" ~> url_call = "idle"

=============================================================================
