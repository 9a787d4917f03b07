------------------------------- MODULE OidcFilter -------------------------------
(***************************************************************************)
(* OidcFilter::Process (src/filters/oidc/oidc_filter.cc) on the worker     *)
(* threads of the service, all sharing one session store, with the         *)
(* periodic cleanup of that store and an identity provider (IdP) that may  *)
(* answer a POST in any way.                                               *)
(*                                                                         *)
(* A worker handles one request at a time and blocks while it waits for    *)
(* the IdP.  A handler is cut into one step per call on the store and per  *)
(* answer of the IdP; what it does between two of these is local.          *)
(*                                                                         *)
(* One run of RedirectToIdp generates a session id, a state and a nonce.   *)
(* All three are fresh, so one member of SessionId stands for the three.   *)
(***************************************************************************)
EXTENDS Integers, FiniteSets

CONSTANTS Worker,          \* the threads of the service (config.threads())
          SessionId,       \* the session ids, states and nonces
          StrangeId,       \* a cookie or state value the service never issues
          Url,             \* the urls users ask for
          NULL,            \* null pointers and absent values
          Bodies,          \* the bodies the IdP may answer with
          HasLogout,       \* idp_config_.has_logout()
          HasAccessToken,  \* idp_config_.has_access_token()
          ExpiryMargin, VerifySkew, AbsoluteTimeout, IdleTimeout,
          TimeModulus, StartTime, MaxTime

VARIABLES
  session_map, now, sweep_pc, earliest_time_added_to_keep,
  earliest_time_idle_to_keep, last_sweep,  \* see SessionStore
  pc,       \* where each worker is in its request
  cookie,   \* the session id in the request's cookie, NULL if there is none
  url,      \* the url of the request
  auth,     \* authorization_state in RetrieveToken
  tokens,   \* token_response in Process and RetrieveToken
  reply,    \* what Process returns and puts into the CheckResponse
  issued,   \* history: the url each session id was issued for, or NULL
  ended,    \* history: the session ids the filter or the cleanup removed
  refreshed \* history: the session ids a refresh brought a new ID token for

AuthorizationState == [state : SessionId, nonce : SessionId, requested_url : Url]

Parser == INSTANCE TokenResponseParser WITH Nonce <- SessionId

TokenResponse == Parser!TokenResponse

Store == INSTANCE SessionStore

sweepVars  == <<sweep_pc, earliest_time_added_to_keep,
                earliest_time_idle_to_keep, last_sweep>>
storeVars  == <<session_map, now, sweepVars>>
workerVars == <<pc, cookie, url, auth, tokens, reply>>
history    == <<issued, ended, refreshed>>
vars       == <<storeVars, workerVars, history>>

ASSUME NullAssumption ==
  /\ NULL \notin SessionId \cup Url \cup Parser!IdToken \cup Parser!TokenBody
  /\ NULL \notin TokenResponse \cup AuthorizationState \cup Store!Session

ASSUME ConstantAssumption ==
  /\ StrangeId \in SessionId
  /\ Bodies \subseteq Parser!TokenBody \cup {NULL}
  /\ ExpiryMargin \in Nat /\ VerifySkew \in Nat
  /\ HasLogout \in BOOLEAN /\ HasAccessToken \in BOOLEAN

ASSUME StoreAssumption ==
  /\ AbsoluteTimeout \in Nat /\ IdleTimeout \in Nat
  /\ StartTime \in Nat /\ MaxTime \in Nat /\ TimeModulus \in Nat
  /\ StartTime <= MaxTime /\ MaxTime < TimeModulus

Codes == {"OK", "UNAUTHENTICATED", "INVALID_ARGUMENT", "INTERNAL", "UNKNOWN"}

\* A reply: the code, where a redirect leads to, the tokens put into headers.
Reply == [code     : Codes,
          location : {"none", "idp", "logout"} \cup Url,
          tokens   : TokenResponse \cup {NULL}]

-----------------------------------------------------------------------------
Issued == {id \in SessionId : issued[id] # NULL}

\* The session cookies and state parameters that requests carry.
KnownId == Issued \cup {StrangeId}

Busy == {w \in Worker : pc[w] # "idle"}

\* A worker is idle; while the cleanup runs on one of them, a second one is.
FreeThread ==
  \E w \in Worker \ Busy : sweep_pc # "idle" => \E v \in Worker \ Busy : v # w

\* The bound on the model: a session id is left for each request in progress.
FreeSessionId == Cardinality(Busy) < Cardinality(SessionId \ KnownId)

CanReceive(w) == pc[w] = "idle" /\ FreeThread /\ FreeSessionId

GoTo(w, label) == pc' = [pc EXCEPT ![w] = label]

Answer(w, code, location, token_response) ==
  /\ GoTo(w, "done")
  /\ reply' = [reply EXCEPT ![w] = [code     |-> code,
                                    location |-> location,
                                    tokens   |-> token_response]]

RequiredTokensPresent(token_response) ==
  token_response # NULL /\ (HasAccessToken => token_response.access_token)

RequiredTokensExpired(token_response) ==
  \/ token_response.id_token.exp < now
  \/ /\ HasAccessToken
     /\ Parser!GetAccessTokenExpiry(token_response) # NULL
     /\ Parser!GetAccessTokenExpiry(token_response) < now

-----------------------------------------------------------------------------
(***************************************************************************)
(* Process, from a new request to the first store call it waits for.  The  *)
(* early returns come in the order of the code: logout before the ID token *)
(* header, the header before the cookie, the cookie before the callback.   *)
(***************************************************************************)
MissingHttp(w) ==
  /\ CanReceive(w)
  /\ Answer(w, "INVALID_ARGUMENT", "none", NULL)
  /\ UNCHANGED <<storeVars, cookie, url, auth, tokens, history>>

Logout(w) ==
  /\ CanReceive(w)
  /\ HasLogout
  /\ \E c \in KnownId \cup {NULL} :
       /\ cookie' = [cookie EXCEPT ![w] = c]
       /\ IF c = NULL
          THEN UNCHANGED <<session_map, ended>>
          ELSE Store!RemoveSession(c) /\ ended' = ended \cup {c}
  /\ Answer(w, "UNAUTHENTICATED", "logout", NULL)
  /\ UNCHANGED <<now, sweepVars, url, auth, tokens, issued, refreshed>>

IdTokenHeaderPresent(w) ==
  /\ CanReceive(w)
  /\ Answer(w, "OK", "none", NULL)
  /\ UNCHANGED <<storeVars, cookie, url, auth, tokens, history>>

NoSessionCookie(w) ==
  /\ CanReceive(w)
  /\ \E u \in Url : url' = [url EXCEPT ![w] = u]
  /\ GoTo(w, "login")
  /\ UNCHANGED <<storeVars, cookie, auth, tokens, reply, history>>

\* RetrieveToken for a query without a state and a code ...
MalformedCallback(w) ==
  /\ CanReceive(w)
  /\ Answer(w, "INVALID_ARGUMENT", "none", NULL)
  /\ \E c \in KnownId : cookie' = [cookie EXCEPT ![w] = c]
  /\ UNCHANGED <<storeVars, url, auth, tokens, history>>

\* ... and for one with both, up to the POST that exchanges the code.
Callback(w) ==
  /\ CanReceive(w)
  /\ \E c \in KnownId, state \in KnownId :
       LET found == Store!AuthorizationStateOf(c) IN
       /\ Store!Access(c)
       /\ cookie' = [cookie EXCEPT ![w] = c]
       /\ \/ /\ found = NULL
             /\ Answer(w, "UNAUTHENTICATED", "none", NULL)
             /\ UNCHANGED auth
          \/ /\ found # NULL /\ found.state # state
             /\ Answer(w, "INVALID_ARGUMENT", "none", NULL)
             /\ UNCHANGED auth
          \/ /\ found # NULL /\ found.state = state
             /\ GoTo(w, "exchange")
             /\ auth' = [auth EXCEPT ![w] = found]
             /\ UNCHANGED reply
  /\ UNCHANGED <<now, sweepVars, url, tokens, history>>

GetTokenResponse(w) ==
  /\ CanReceive(w)
  /\ \E c \in KnownId, u \in Url :
       LET found == Store!TokenResponseOf(c) IN
       /\ Store!Access(c)
       /\ cookie' = [cookie EXCEPT ![w] = c]
       /\ url' = [url EXCEPT ![w] = u]
       /\ tokens' = [tokens EXCEPT ![w] = found]
       /\ GoTo(w, IF RequiredTokensPresent(found) THEN "check" ELSE "discard")
  /\ UNCHANGED <<now, sweepVars, auth, reply, history>>

-----------------------------------------------------------------------------
(***************************************************************************)
(* The rest of Process: forward the tokens, refresh them or log in again.  *)
(***************************************************************************)
CheckExpiry(w) ==
  /\ pc[w] = "check"
  /\ \/ /\ ~RequiredTokensExpired(tokens[w])
        /\ Answer(w, "OK", "none", tokens[w])
     \/ /\ RequiredTokensExpired(tokens[w])
        /\ GoTo(w, IF tokens[w].refresh_token THEN "refresh" ELSE "discard")
        /\ UNCHANGED reply
  /\ UNCHANGED <<storeVars, cookie, url, auth, tokens, history>>

\* RefreshToken's POST failed or its answer was refused ...
RefreshFailed(w) ==
  /\ pc[w] = "refresh"
  /\ GoTo(w, "discard")
  /\ UNCHANGED <<storeVars, cookie, url, auth, tokens, reply, history>>

\* ... or brought a body; the parser may still refuse it.
RefreshAnswered(w) ==
  /\ pc[w] = "refresh"
  /\ \E body \in Bodies :
       LET parsed == Parser!ParseRefreshTokenResponse(tokens[w], body, now) IN
       /\ GoTo(w, IF parsed = NULL THEN "discard" ELSE "store")
       /\ tokens' = [tokens EXCEPT ![w] = IF parsed = NULL THEN @ ELSE parsed]
       /\ refreshed' = IF parsed # NULL /\ body.id_token # NULL
                       THEN refreshed \cup {cookie[w]} ELSE refreshed
  /\ UNCHANGED <<storeVars, cookie, url, auth, reply, issued, ended>>

StoreRefreshed(w) ==
  /\ pc[w] = "store"
  /\ Store!SetTokenResponse(cookie[w], tokens[w])
  /\ Answer(w, "OK", "none", tokens[w])
  /\ UNCHANGED <<now, sweepVars, cookie, url, auth, tokens, history>>

-----------------------------------------------------------------------------
(***************************************************************************)
(* RedirectToIdp: remove the session of the cookie, if there is one, then  *)
(* record a new login under a new session id.                              *)
(***************************************************************************)
DiscardSession(w) ==
  /\ pc[w] = "discard"
  /\ Store!RemoveSession(cookie[w])
  /\ ended' = ended \cup {cookie[w]}
  /\ GoTo(w, "login")
  /\ UNCHANGED <<now, sweepVars, cookie, url, auth, tokens, reply,
                 issued, refreshed>>

BeginLogin_KeepsCookie(w) ==
  /\ pc[w] = "login"
  /\ \E new \in SessionId \ KnownId :
     LET id == IF cookie[w] = NULL THEN new ELSE cookie[w] IN
       /\ Store!SetAuthorizationState(id,
            [state |-> new, nonce |-> new, requested_url |-> url[w]])
       /\ issued' = [issued EXCEPT ![new] = url[w]]
  /\ Answer(w, "UNAUTHENTICATED", "idp", NULL)
  /\ UNCHANGED <<now, sweepVars, cookie, url, auth, tokens,
                 ended, refreshed>>

BeginLogin(w) ==
  /\ pc[w] = "login"
  /\ \E new \in SessionId \ KnownId :
       /\ Store!SetAuthorizationState(new,
            [state |-> new, nonce |-> new, requested_url |-> url[w]])
       /\ issued' = [issued EXCEPT ![new] = url[w]]
  /\ Answer(w, "UNAUTHENTICATED", "idp", NULL)
  /\ UNCHANGED <<now, sweepVars, cookie, url, auth, tokens,
                 ended, refreshed>>

-----------------------------------------------------------------------------
(***************************************************************************)
(* The rest of RetrieveToken.                                              *)
(***************************************************************************)
ExchangeFailed(w) ==
  /\ pc[w] = "exchange"
  /\ \/ Answer(w, "INTERNAL", "none", NULL)  \* no response
     \/ Answer(w, "UNKNOWN", "none", NULL)   \* a status other than 200
  /\ UNCHANGED <<storeVars, cookie, url, auth, tokens, history>>

ExchangeAnswered(w) ==
  /\ pc[w] = "exchange"
  /\ \E body \in Bodies :
       LET parsed == Parser!Parse(auth[w].nonce, body, now) IN
       \/ /\ ~RequiredTokensPresent(parsed)
          /\ Answer(w, "INVALID_ARGUMENT", "none", NULL)
          /\ UNCHANGED tokens
       \/ /\ RequiredTokensPresent(parsed)
          /\ GoTo(w, "clear")
          /\ tokens' = [tokens EXCEPT ![w] = parsed]
          /\ UNCHANGED reply
  /\ UNCHANGED <<storeVars, cookie, url, auth, history>>

ClearState_NotCalled(w) ==
  /\ pc[w] = "clear"
  /\ GoTo(w, "save")
  /\ UNCHANGED <<storeVars, cookie, url, auth, tokens, reply, history>>

ClearState(w) ==
  /\ pc[w] = "clear"
  /\ Store!ClearAuthorizationState(cookie[w])
  /\ GoTo(w, "save")
  /\ UNCHANGED <<now, sweepVars, cookie, url, auth, tokens, reply, history>>

SaveTokens_ToRequestUrl(w) ==
  /\ pc[w] = "save"
  /\ Store!SetTokenResponse(cookie[w], tokens[w])
  /\ Answer(w, "UNAUTHENTICATED", url[w], NULL)
  /\ UNCHANGED <<now, sweepVars, cookie, url, auth, tokens, history>>

SaveTokens(w) ==
  /\ pc[w] = "save"
  /\ Store!SetTokenResponse(cookie[w], tokens[w])
  /\ Answer(w, "UNAUTHENTICATED", auth[w].requested_url, NULL)
  /\ UNCHANGED <<now, sweepVars, cookie, url, auth, tokens, history>>

\* The service sends the reply; the worker takes another request.
Respond(w) ==
  /\ pc[w] = "done"
  /\ GoTo(w, "idle")
  /\ cookie' = [cookie EXCEPT ![w] = NULL]
  /\ url'    = [url EXCEPT ![w] = NULL]
  /\ auth'   = [auth EXCEPT ![w] = NULL]
  /\ tokens' = [tokens EXCEPT ![w] = NULL]
  /\ reply'  = [reply EXCEPT ![w] = NULL]
  /\ UNCHANGED <<storeVars, history>>

-----------------------------------------------------------------------------
\* DoPeriodicCleanup: a free worker runs RemoveAllExpired.
Cleanup ==
  /\ sweep_pc = "idle" => FreeThread
  /\ Store!RemoveAllExpired
  /\ ended' = ended \cup {id \in SessionId :
                            session_map[id] # NULL /\ session_map'[id] = NULL}
  /\ UNCHANGED <<now, workerVars, issued, refreshed>>

Tick == Store!Tick /\ UNCHANGED <<workerVars, history>>

Init ==
  /\ Store!Init
  /\ pc = [w \in Worker |-> "idle"]
  /\ cookie = [w \in Worker |-> NULL]
  /\ url = [w \in Worker |-> NULL]
  /\ auth = [w \in Worker |-> NULL]
  /\ tokens = [w \in Worker |-> NULL]
  /\ reply = [w \in Worker |-> NULL]
  /\ issued = [id \in SessionId |-> NULL]
  /\ ended = {}
  /\ refreshed = {}

Receive(w) ==
  \/ MissingHttp(w)
  \/ Logout(w)
  \/ IdTokenHeaderPresent(w)
  \/ NoSessionCookie(w)
  \/ MalformedCallback(w)
  \/ Callback(w)
  \/ GetTokenResponse(w)

Continue(w) ==
  \/ CheckExpiry(w)
  \/ RefreshFailed(w)
  \/ RefreshAnswered(w)
  \/ StoreRefreshed(w)
  \/ DiscardSession(w)
  \/ BeginLogin(w)
  \/ ExchangeFailed(w)
  \/ ExchangeAnswered(w)
  \/ ClearState(w)
  \/ SaveTokens(w)
  \/ Respond(w)

Next ==
  \/ \E w \in Worker : Receive(w) \/ Continue(w)
  \/ Cleanup
  \/ Tick

Spec == Init /\ [][Next]_vars

-----------------------------------------------------------------------------
\* What Process keeps on each thread, and the store, are of the types declared.
TypeOK ==
  /\ Store!TypeOK
  /\ pc \in [Worker -> {"idle", "check", "refresh", "store", "discard", "login",
                        "exchange", "clear", "save", "done"}]
  /\ cookie \in [Worker -> SessionId \cup {NULL}]
  /\ url \in [Worker -> Url \cup {NULL}]
  /\ auth \in [Worker -> AuthorizationState \cup {NULL}]
  /\ tokens \in [Worker -> TokenResponse \cup {NULL}]
  /\ reply \in [Worker -> Reply \cup {NULL}]
  /\ issued \in [SessionId -> Url \cup {NULL}]
  /\ ended \subseteq SessionId
  /\ refreshed \subseteq SessionId

(***************************************************************************)
(* The store holds sessions only under ids that RedirectToIdp generated,   *)
(* whatever cookie a request carries: although SetTokenResponse creates a  *)
(* session that it does not find, no handler reaches it with another id.   *)
(***************************************************************************)
OnlyIssuedSessions ==
  \A id \in SessionId : session_map[id] # NULL => issued[id] # NULL

(***************************************************************************)
(* The temporary information of a login is gone once its tokens are there: *)
(* no session holds both, so no later callback can use the login's state a *)
(* second time, however callbacks, refreshes, logouts and sweeps of the    *)
(* same session interleave between ClearAuthorizationState and             *)
(* SetTokenResponse.                                                       *)
(***************************************************************************)
LoginStateCleared ==
  \A id \in SessionId :
    Store!TokenResponseOf(id) # NULL => Store!AuthorizationStateOf(id) = NULL

\* A token response that the login with this session id earned: the ID token
\* is verified and has the nonce generated with the session id.  A refresh
\* may replace the ID token by another, which the code does not verify.
EarnedBy(id, token_response) ==
  \/ id \in refreshed
  \/ token_response.id_token.verified /\ token_response.id_token.nonce = id

(***************************************************************************)
(* Tokens stay with the login that earned them: those stored under a       *)
(* session id, and those a request with that cookie is forwarded with,     *)
(* carry the nonce that RedirectToIdp generated along with the session id. *)
(***************************************************************************)
TokensBoundToLogin ==
  /\ \A id \in SessionId :
       Store!TokenResponseOf(id) # NULL => EarnedBy(id, Store!TokenResponseOf(id))
  /\ \A w \in Worker :
       (reply[w] # NULL /\ reply[w].tokens # NULL)
         => EarnedBy(cookie[w], reply[w].tokens)

(***************************************************************************)
(* A removed session does not come back: after a logout, a redirect to the *)
(* IdP or a sweep has removed a session, nothing is stored under its id    *)
(* again, whatever other workers were doing with it.  The code does not    *)
(* keep this: SetTokenResponse of a callback (RetrieveToken) or a refresh  *)
(* that was in flight creates the session anew.                            *)
(***************************************************************************)
RemovedStaysRemoved == \A id \in ended : session_map[id] = NULL

\* The phase of a session's life, as the store and the ids given out show it.
Phase(id) ==
  IF issued[id] = NULL THEN "unissued"
  ELSE IF Store!AuthorizationStateOf(id) # NULL THEN "login"
  ELSE IF Store!TokenResponseOf(id) # NULL THEN "tokens"
  ELSE "over"

\* The session whose login or tokens a worker has read and may yet write.
Holding(w) ==
  IF pc[w] \in {"check", "refresh", "store", "exchange", "clear", "save"}
  THEN cookie[w] ELSE NULL

Life == INSTANCE SessionLife WITH
          phase   <- [id \in SessionId |-> Phase(id)],
          holding <- [w \in Worker |-> Holding(w)]

(***************************************************************************)
(* Every session lives the life that SessionLife describes.  RedirectToIdp *)
(* gives an id to one login; once RetrieveToken, a logout or a sweep ended *)
(* that login nothing brings it back; and a session that was removed can   *)
(* only come back through SetTokenResponse of a request that had read its  *)
(* login or its tokens before, never through one that arrives later.       *)
(***************************************************************************)
SessionLifeKept == Life!Spec

=============================================================================
