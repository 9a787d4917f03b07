-------------------------------- MODULE LoginFlow --------------------------------
(***************************************************************************)
(* One login, end to end, as text: a browser asks for a page, the service  *)
(* redirects it to the identity provider (IdP), the IdP sends it back to   *)
(* the callback URI with a code, the service exchanges the code, and the   *)
(* browser is sent to the page it asked for.  Every hop goes through the   *)
(* encoders, decoders and matchers of Http and Routing on one side, and    *)
(* through those of the browser and the IdP, which are external and follow *)
(* the standards, on the other.                                            *)
(*                                                                         *)
(* The configuration, the page, the other cookies of the browser, the      *)
(* IdP's style and its code are chosen once.  Expiry, refreshes and        *)
(* concurrent requests are the subject of OidcFilter.                      *)
(***************************************************************************)
EXTENDS Routing

CONSTANTS Worlds,      \* the circumstances of a login: a set of records, see below
          SessionIds,  \* the session ids generated, in order; the user gives up after that
          States,      \* the state parameters, one for each session id
          MaxRestarts,
          LongHosts    \* the host names that are too long for TLS

VARIABLES world,     \* the circumstances, fixed
          phase,     \* where the flow stands
          request,   \* the request the browser is making, or NULL
          message,   \* the text on its way to the IdP: a URL or a form, or NULL
          jar,       \* the session cookies the browser keeps
          sessions,  \* the session stores of all chains
          logins,    \* how many times a login was begun
          restarts   \* how many times the service was restarted

config == world.config \* the configuration
page   == world.page   \* what the user asks for: host, path, further headers
others == world.others \* cookies of other origin, a sequence, that the browser sends along
style  == world.style  \* how the IdP writes its redirect
code   == world.code   \* the authorization code it issues

vars == <<world, phase, request, message, jar, sessions, logins, restarts>>

Phases == {"boot", "rejected", "request", "idp", "token", "served", "bypassed", "logged_out",
           "failed", "internal_error", "given_up"}

chains == config.chains
ChainIndex == UNION {1..Len(w.config.chains) : w \in Worlds}
chain == ChainFor(config, request)
Ids == Range(SessionIds)

\* GenerateSessionId and GenerateState are called together and never repeat.
StateOf(id) == <<States[id]>>

Session == [chain : Nat, state : Text, url : Text, tokens : BOOLEAN]

ASSUME SessionAssumption == NULL \notin Session

ASSUME IdAssumption ==
  SessionIds \in Seq(Word) /\ States \in [Ids -> Word] /\ MaxRestarts \in Nat

\* The names and values of the parameters the service and the IdP exchange.
ASSUME NameAssumption ==
  {"response_type", "code", "scope", "openid", "email", "client_id", "state",
   "redirect_uri", "grant_type", "authorization_code"} \subseteq Word

ASSUME CookieAssumption ==
  {"__Host-authservice-session-id-cookie", "__Host-", "-authservice-session-id-cookie",
   "deleted"} \subseteq Word

\* A URI written from its parts; the port may be left out.
NoPort == ""

UriText(uri) ==
  <<uri.scheme, uri.host>> \o (IF uri.port = NoPort THEN <<>> ELSE <<":", uri.port>>)
    \o uri.path \o uri.tail

\* What is text in a chain's configuration; callback has the parts of callback_uri.
ChainText(c) ==
  /\ c.authorization_uri \in Text /\ c.callback_uri = UriText(c.callback)
  /\ c.callback.scheme \in Symbol /\ c.callback.host \in Word /\ c.callback.port \in Word
  /\ c.callback.path \in Unencoded /\ Range(c.callback.path) \cap {"?", "#"} = {}
  /\ c.callback.path # <<>> => Head(c.callback.path) = "/"
  /\ c.callback.tail \in Text /\ (c.callback.tail # <<>> => Head(c.callback.tail) \in {"?", "#"})
  /\ c.client_id \in Unencoded /\ c.client_secret \in Text /\ c.cookie_name_prefix \in Text
  /\ c.logout_path \in Text \cup {NULL}

\* A page as browsers write it: the default port is left out, and the fragment.
PageText(p) ==
  /\ \/ p.host \in Seq(Word) /\ Len(p.host) = 1
     \/ /\ p.host \in Text /\ Len(p.host) = 3
        /\ p.host[1] \in Word /\ p.host[2] = ":" /\ p.host[3] \in Word \ {"443"}
  /\ p.path \in Text /\ StartsWith(p.path, <<"/">>) /\ "#" \notin Range(p.path)
  /\ DOMAIN p.headers \cap {":authority", "cookie"} = {}

\* Symbols that stand for encodings occur where a text is encoded, and the
\* separators of cookies and parameters not within one; no other site uses the
\* name of a session cookie.
ASSUME WorldsAssumption ==
  \A w \in Worlds :
    /\ w.config.chains \in Seq(Range(w.config.chains))
    /\ \A i \in 1..Len(w.config.chains) : ChainText(w.config.chains[i])
    /\ w.config.trigger_rules \in Seq(Range(w.config.trigger_rules))
    /\ \A rule \in Range(w.config.trigger_rules) :
         /\ rule.excluded_paths \in Seq(Range(rule.excluded_paths))
         /\ rule.included_paths \in Seq(Range(rule.included_paths))
    /\ PageText(w.page)
    /\ w.others \in Seq(Text)
    /\ \A i \in 1..Len(w.others) :
         /\ CookieSeparator \notin Range(w.others[i])
         /\ \A j \in 1..Len(w.config.chains) :
              ~StartsWith(w.others[i], GetCookieName(w.config.chains[j]) \o <<"=">>)
    /\ w.code \in Unencoded
    /\ w.style.extra \in Seq(Text)
    /\ \A i \in 1..Len(w.style.extra) : "&" \notin Range(w.style.extra[i])

-----------------------------------------------------------------------------
(***************************************************************************)
(* The browser (external).                                                 *)
(***************************************************************************)

\* The name a host is known by, without the port.
HostName(host) == Split(host, ":")[1]

\* What a browser takes for the name and the value of a cookie; NULL if it ignores
\* the cookie for want of a "=".
CookiePair(pair) ==
  LET cookie == Split(pair, CookieSeparator)[1]
  IN IF Find(cookie, "=") = 0 THEN NULL ELSE NameValue(cookie)

\* A cookie whose name starts with __Host- is kept only if it is Secure and for
\* all paths; one with Max-Age=0 is removed.
Keep(cookies, host, set_cookie) ==
  LET pair == CookiePair(set_cookie.pair)
      rest == {c \in cookies : c.host # HostName(host) \/ c.name # pair[1]}
  IN IF pair = NULL \/ ~({"Secure", "Path=/"} \subseteq set_cookie.directives) THEN cookies
     ELSE IF "Max-Age=0" \in set_cookie.directives THEN rest
     ELSE rest \cup {[host |-> HostName(host), name |-> pair[1], value |-> pair[2],
                      directives |-> set_cookie.directives]}

\* A request the IdP's site had a part in carries no SameSite=Strict cookie.
Sent(cookies, host, cross_site) ==
  {c \in cookies : /\ c.host = HostName(host)
                   /\ ~(cross_site /\ "SameSite=Strict" \in c.directives)}

InSomeOrder(set) == CHOOSE seq \in [1..Cardinality(set) -> set] : Range(seq) = set

Browse(host, path, headers, cookies, cross_site) ==
  LET texts == others \o InSomeOrder({(c.name \o <<"=">>) \o c.value :
                                        c \in Sent(cookies, host, cross_site)})
      names == {":authority"} \cup (IF texts = <<>> THEN {} ELSE {"cookie"})
  IN [host |-> host, path |-> path,
      headers |-> [name \in DOMAIN headers \cup names |->
                     CASE name \in DOMAIN headers -> headers[name]
                       [] name = ":authority"     -> host
                       [] OTHER                   -> Join(texts, CookieSeparator)]]

\* The default port is left out, and so is the fragment.
Follow(url, cookies) ==
  LET rest   == Split(Tail(url), "#")[1]
      end    == FindFirstOf(rest \o <<"/">>, {"/", "?"})
      host   == SubSeq(rest, 1, end - 1)
      target == SubSeq(rest, end, Len(rest))
  IN Browse(IF EndsWith(host, <<":", "443">>) THEN HostName(host) ELSE host,
            IF StartsWith(target, <<"/">>) THEN target ELSE <<"/">> \o target,
            <<>>, cookies, TRUE)

-----------------------------------------------------------------------------
(***************************************************************************)
(* The IdP (external).                                                     *)
(***************************************************************************)

\* An IdP may leave some characters as they are, write hex digits in lower case,
\* and add parameters of its own, a sequence.
IdpEncode(text) ==
  Map(LAMBDA c : IF c \notin Reserved \ style.raw THEN c
                 ELSE IF style.lower THEN EscapedLower(c) ELSE Escaped(c), text)

IdpQuery(state) ==
  Join(<< <<"code", "=">> \o IdpEncode(code), <<"state", "=">> \o state >> \o style.extra,
       "&")

Registered(client_id, redirect_uri) ==
  \E i \in 1..Len(chains) : /\ chains[i].client_id = client_id
                            /\ chains[i].callback_uri = redirect_uri

IdpRedirect ==
  /\ phase = "idp"
  /\ LET params   == FormDecode(PathQueryFragment(message).query)
         redirect == FindKey(params, <<"redirect_uri">>)
         join     == IF Find(redirect, "?") = 0 THEN <<"?">> ELSE <<>>
     IN IF Registered(FindKey(params, <<"client_id">>), redirect) /\ Find(redirect, "#") = 0
        THEN /\ request' = Follow(redirect \o join
                                    \o IdpQuery(FindKey(params, <<"state">>)), jar)
             /\ phase' = "request"
        ELSE phase' = "failed" /\ UNCHANGED request
  /\ message' = NULL
  /\ UNCHANGED <<world, jar, sessions, logins, restarts>>

\* The name ends at the first ":" of the credentials.
BasicAuthDecode(credentials) ==
  LET colon == Find(credentials, ":")
  IN <<SubSeq(credentials, 1, colon - 1), SubSeq(credentials, colon + 1, Len(credentials))>>

\* The token endpoint grants its clients tokens for the code it issued.
IdpAccepts(i, authorization, params) ==
  /\ BasicAuthDecode(authorization) = <<chains[i].client_id, chains[i].client_secret>>
  /\ FindKey(params, <<"code">>) = code
  /\ FindKey(params, <<"redirect_uri">>) = chains[i].callback_uri

-----------------------------------------------------------------------------
(***************************************************************************)
(* The service.                                                            *)
(***************************************************************************)
Boot ==
  /\ phase = "boot"
  /\ IF GetConfig(config)
     THEN /\ phase' = "request"
          /\ request' = Browse(page.host, page.path, page.headers, {}, FALSE)
     ELSE phase' = "rejected" /\ UNCHANGED request
  /\ UNCHANGED <<world, message, jar, sessions, logins, restarts>>

\* Check finds no trigger rule or no chain that matches.
Bypass ==
  /\ phase = "request"
  /\ chain = 0
  /\ phase' = "bypassed"
  /\ UNCHANGED <<world, request, message, jar, sessions, logins, restarts>>

\* A malformed regular expression of a trigger rule throws.
RulesThrow ==
  /\ phase = "request"
  /\ chain = NULL
  /\ phase' = "internal_error"
  /\ UNCHANGED <<world, request, message, jar, sessions, logins, restarts>>

\* The request is in Process of the chain's filter.
InProcess(i) ==
  /\ phase = "request"
  /\ chain = i
  /\ chains[i].filters = 1

session_id(i) == GetSessionIdFromCookie(chains[i], request)

\* The session of the chain's store that the cookie names, or NULL.
session(i) ==
  LET found == {id \in Ids : /\ session_id(i) = <<id>>
                             /\ sessions[id] # NULL
                             /\ sessions[id].chain = i}
  IN IF found = {} THEN NULL ELSE CHOOSE id \in found : TRUE

Without(id) == IF id = NULL THEN sessions ELSE [sessions EXCEPT ![id] = NULL]

GetCookieDirectives_Strict(max_age) ==
  {"HttpOnly", "SameSite=Strict", "Secure", "Path=/"} \cup max_age

GetCookieDirectives(max_age) ==
  {"HttpOnly", "SameSite=Lax", "Secure", "Path=/"} \cup max_age

SessionCookie(i, value, max_age) ==
  EncodeSetCookie(GetCookieName(chains[i]), value, GetCookieDirectives(max_age))

\* The cookie of the response, as the browser keeps it.
SetCookie(i, value, max_age) == Keep(jar, request.host, SessionCookie(i, value, max_age))

Deleted(i) == SessionCookie(i, <<"deleted">>, {"Max-Age=0"})

Logout_KeepsCookie(i) ==
  /\ InProcess(i)
  /\ MatchesLogoutRequest(chains[i], request)
  /\ sessions' = Without(session(i))
  /\ phase' = "logged_out"
  /\ UNCHANGED <<world, request, message, jar, logins, restarts>>

Logout(i) ==
  /\ InProcess(i)
  /\ MatchesLogoutRequest(chains[i], request)
  /\ sessions' = Without(session(i))
  /\ jar' = Keep(jar, request.host, Deleted(i))
  /\ phase' = "logged_out"
  /\ UNCHANGED <<world, request, message, logins, restarts>>

HasIdTokenHeader(i) == chains[i].id_token_header \in DOMAIN request.headers

PassWithIdToken(i) ==
  /\ InProcess(i)
  /\ ~MatchesLogoutRequest(chains[i], request)
  /\ HasIdTokenHeader(i)
  /\ phase' = "bypassed"
  /\ UNCHANGED <<world, request, message, jar, sessions, logins, restarts>>

NeedsSession(i) ==
  /\ InProcess(i)
  /\ ~MatchesLogoutRequest(chains[i], request)
  /\ ~HasIdTokenHeader(i)

\* New throws when a chain has more than one OIDC filter; MatchesCallbackRequest
\* parses the callback URI again, for each request that has a session cookie.
Throws(i) ==
  \/ chain = i /\ chains[i].filters > 1
  \/ /\ NeedsSession(i)
     /\ session_id(i) # NULL
     /\ Uri(chains[i].callback_uri) = NULL

InternalError(i) ==
  /\ phase = "request"
  /\ Throws(i)
  /\ phase' = "internal_error"
  /\ UNCHANGED <<world, request, message, jar, sessions, logins, restarts>>

IsCallback(i) ==
  /\ session_id(i) # NULL
  /\ MatchesCallbackRequest(chains[i], request)

HasTokens(i) == session(i) # NULL /\ sessions[session(i)].tokens

\* The nonce is sent in the same way as the state, and left out.
AuthParams(i, id) ==
  << <<<<"response_type">>, <<"code">>>>,
     <<<<"scope">>, <<"openid", Space, "email">>>>,
     <<<<"client_id">>, chains[i].client_id>>,
     <<<<"state">>, StateOf(id)>>,
     <<<<"redirect_uri">>, chains[i].callback_uri>> >>

RedirectToIdp(i) ==
  /\ NeedsSession(i)
  /\ session_id(i) # NULL => ~Throws(i) /\ ~IsCallback(i) /\ ~HasTokens(i)
  /\ IF logins = Len(SessionIds)
     THEN phase' = "given_up" /\ UNCHANGED <<message, jar, sessions, logins>>
     ELSE LET id == SessionIds[logins + 1]
          IN /\ message' = chains[i].authorization_uri \o <<"?">>
                             \o EncodeQueryData(AuthParams(i, id))
             /\ sessions' = [Without(session(i)) EXCEPT
                               ![id] = [chain |-> i, state |-> StateOf(id),
                                        url |-> GetRequestUrl(request), tokens |-> FALSE]]
             /\ jar' = SetCookie(i, <<id>>, {})
             /\ logins' = logins + 1
             /\ phase' = "idp"
  /\ UNCHANGED <<world, request, restarts>>

TokenAuthorization(i) == EncodeBasicAuth(chains[i].client_id, chains[i].client_secret)

TokenParams(i, received) ==
  << <<<<"code">>, received>>,
     <<<<"redirect_uri">>, chains[i].callback_uri>>,
     <<<<"grant_type">>, <<"authorization_code">>>> >>

\* Whether TLS refuses the name of the token endpoint's host.  What Post throws
\* then is no std::exception, so that only Check catches it.
PostThrows(c) == LET host == Uri(c.token_uri).host IN host = <<>> \/ host \in LongHosts

\* DecodeQueryData fails, state or code is missing, the session holds no login,
\* or the state is that of another login; otherwise the token request is sent.
RetrieveToken(i) ==
  /\ NeedsSession(i)
  /\ session_id(i) # NULL
  /\ ~Throws(i)
  /\ IsCallback(i)
  /\ LET query_data == DecodeQueryData(RequestQueryString(request))
         state      == FindKey(query_data, <<"state">>)
         received   == FindKey(query_data, <<"code">>)
     IN IF /\ query_data # NULL
           /\ state # NULL
           /\ received # NULL
           /\ session(i) # NULL
           /\ ~sessions[session(i)].tokens
           /\ state = sessions[session(i)].state
        THEN IF PostThrows(chains[i])
             THEN phase' = "internal_error" /\ UNCHANGED message
             ELSE /\ message' = EncodeFormData(TokenParams(i, received))
                  /\ phase' = "token"
        ELSE phase' = "failed" /\ UNCHANGED message
  /\ UNCHANGED <<world, request, jar, sessions, logins, restarts>>

\* The answer of the IdP; anything but tokens ends the request with an error.
SaveTokens(i) ==
  /\ phase = "token"
  /\ chain = i
  /\ IF IdpAccepts(i, TokenAuthorization(i), FormDecode(message))
     THEN /\ sessions' = [sessions EXCEPT ![session(i)].tokens = TRUE]
          /\ request' = Follow(sessions[session(i)].url, jar)
          /\ phase' = "request"
     ELSE /\ phase' = "failed"
          /\ UNCHANGED <<sessions, request>>
  /\ message' = NULL
  /\ UNCHANGED <<world, jar, logins, restarts>>

Forward(i) ==
  /\ NeedsSession(i)
  /\ session_id(i) # NULL
  /\ ~Throws(i)
  /\ ~IsCallback(i)
  /\ HasTokens(i)
  /\ phase' = "served"
  /\ UNCHANGED <<world, request, message, jar, sessions, logins, restarts>>

\* The user (external) follows a link to the logout path.
AskLogout ==
  /\ phase = "served"
  /\ chains[chain].logout_path # NULL
  /\ request' = Browse(page.host, chains[chain].logout_path, page.headers, jar, FALSE)
  /\ phase' = "request"
  /\ UNCHANGED <<world, message, jar, sessions, logins, restarts>>

\* "Please try again", says the answer to a callback whose login is not known.
TryAgain ==
  /\ phase = "failed"
  /\ request' = Browse(page.host, page.path, page.headers, jar, FALSE)
  /\ phase' = "request"
  /\ UNCHANGED <<world, message, jar, sessions, logins, restarts>>

\* The session stores are in memory only.  A token request that was under way is
\* lost with them, and the browser is told of an error.
Restart ==
  /\ phase \in {"request", "idp", "token", "served"}
  /\ restarts < MaxRestarts
  /\ sessions' = [id \in Ids |-> NULL]
  /\ restarts' = restarts + 1
  /\ phase' = IF phase = "token" THEN "failed" ELSE phase
  /\ message' = IF phase = "token" THEN NULL ELSE message
  /\ UNCHANGED <<world, request, jar, logins>>

-----------------------------------------------------------------------------
Init ==
  /\ world \in Worlds
  /\ phase = "boot"
  /\ request = NULL
  /\ message = NULL
  /\ jar = {}
  /\ sessions = [id \in Ids |-> NULL]
  /\ logins = 0
  /\ restarts = 0

Step ==
  \/ Boot \/ Bypass \/ RulesThrow \/ IdpRedirect \/ TryAgain
  \/ \E i \in ChainIndex :
       \/ InternalError(i) \/ Logout(i) \/ PassWithIdToken(i)
       \/ RedirectToIdp(i) \/ RetrieveToken(i) \/ SaveTokens(i) \/ Forward(i)

Active == {"boot", "request", "idp", "token", "failed"}

Finished == phase \notin Active /\ UNCHANGED vars

Next == Step \/ AskLogout \/ Restart \/ Finished

Spec == Init /\ [][Next]_vars

\* The service answers, the IdP redirects a user who is able to sign in, and a
\* user told to try again does.  Step is enabled in exactly the Active phases, so
\* this is its weak fairness.
FairSpec ==
  /\ Spec
  /\ \/ []<>(phase \notin Active)
     \/ []<><<Step>>_vars

-----------------------------------------------------------------------------
(***************************************************************************)
(* What a login needs, stated without the code's parsers.                  *)
(***************************************************************************)
PageRequest == Browse(page.host, page.path, page.headers, {}, FALSE)

PageChain == ChainFor(config, PageRequest)

\* The parts the callback URI of a chain was written from.
Callback == chains[PageChain].callback

CallbackRequest ==
  Browse(<<Callback.host>> \o (IF Callback.port \in {NoPort, "443"} THEN <<>>
                                                             ELSE <<":", Callback.port>>),
         IF Callback.path = <<>> THEN <<"/">> ELSE Callback.path, <<>>, {}, TRUE)

IsPort(port) == port = NoPort \/ (port \in DOMAIN PortValue /\ PortValue[port] <= MaxPort)

\* The callback URI of the page's chain is an https URL that ends with its path,
\* has no "+", and is served under the name of the page's host, and its requests
\* go to the same chain; the page is neither the callback nor the logout path;
\* nothing follows a "#" of the IdP's URI; TLS takes the token endpoint's host; the
\* client's name has no ":"; the name of the session cookie has no "=" and no "; ";
\* no request has the ID token header.
ConfigUsable ==
  /\ \A i \in 1..Len(chains) : /\ chains[i].callback.scheme = "https://"
                               /\ chains[i].callback.tail \in {<<>>, <<"?">>, <<"#">>, <<"?", "#">>}
                               /\ IsPort(chains[i].callback.port)
  /\ PageChain \in 1..Len(chains)
  /\ chains[PageChain].filters = 1
  /\ ~PostThrows(chains[PageChain])
  /\ Range(GetCookieName(chains[PageChain])) \cap {"=", CookieSeparator} = {}
  /\ "#" \notin Range(chains[PageChain].authorization_uri)
  /\ ":" \notin Range(chains[PageChain].client_id)
  /\ Callback.tail = <<>>
  /\ "+" \notin Range(Callback.path)
  /\ <<Callback.host>> = HostName(page.host)
  /\ ChainFor(config, CallbackRequest) = PageChain
  /\ page.host # CallbackRequest.host \/ RequestPath(PageRequest) # CallbackRequest.path
  /\ RequestPath(PageRequest) # chains[PageChain].logout_path
  /\ CallbackRequest.path # chains[PageChain].logout_path
  /\ chains[PageChain].id_token_header \notin DOMAIN page.headers \cup {":authority", "cookie"}

\* All cookies of the browser have a name.
CookiesUsable == \A i \in 1..Len(others) : "=" \in Range(others[i])

\* The IdP encodes what is reserved in its code, in upper case, and the code has
\* no "+"; parameters of its own have one "=" and are encoded in the same way.
ProviderUsable ==
  /\ Range(code) \cap style.raw = {}
  /\ style.lower => Range(code) \cap HasHexLetter = {}
  /\ "+" \notin Range(code)
  /\ \A i \in 1..Len(style.extra) :
       LET part == style.extra[i] IN
       /\ \E k \in 1..Len(part) : \A j \in 1..Len(part) : (part[j] = "=") <=> (j = k)
       /\ Range(part) \cap ((Reserved \ {"="}) \cup LowerEscapes) = {}

-----------------------------------------------------------------------------
\* A request exists once the service has started, a message exactly while one is
\* on its way to the IdP, and every session has a URL to return to.
TypeOK ==
  /\ world \in Worlds
  /\ phase \in Phases
  /\ phase \notin {"boot", "rejected"} => request.host \in Text /\ request.path \in Text
  /\ IF phase \in {"idp", "token"} THEN message \in Text ELSE message = NULL
  /\ \A c \in jar : c.name \in Text /\ c.value \in Text
  /\ logins \in 0..Len(SessionIds) /\ restarts \in 0..MaxRestarts
  /\ sessions \in [Ids -> Session \cup {NULL}]
  /\ \A id \in Ids : sessions[id] # NULL => /\ sessions[id].chain \in 1..Len(chains)
                                            /\ Head(sessions[id].url) = "https://"

\* A trigger rule has a regular expression that is none.
MalformedRule ==
  \E rule \in Range(config.trigger_rules) :
    \E match \in Range(rule.excluded_paths) \cup Range(rule.included_paths) :
      match.type = "regex" /\ match.value = NULL

Usable == ConfigUsable /\ CookiesUsable /\ ProviderUsable

\* The chain of a request does not hang on the cookies it carries, and a logout
\* path is the path of some request.
Stable ==
  \A i \in 1..Len(chains) :
    /\ chains[i].match # NULL => chains[i].match.header # "cookie"
    /\ chains[i].logout_path # NULL => Range(chains[i].logout_path) \cap {"?", "#"} = {}

\* The page is served as it was asked for, by host, path and query, by its chain.
ServedAsAsked ==
  /\ phase = "served"
  /\ request.host = page.host
  /\ request.path = page.path
  /\ chain = PageChain

(***************************************************************************)
(* A login completes, whatever the text of its parameters, URIs and        *)
(* cookies, and even if a restart loses the sessions in between: the query *)
(* RedirectToIdp writes, the cookie it sets, the callback                  *)
(* MatchesCallbackRequest recognises, the query and the form of            *)
(* RetrieveToken and the URL it redirects to all say what was meant.  The  *)
(* three conditions of Usable are the ones a deployment has to meet.       *)
(***************************************************************************)
LoginCompletes == Usable /\ Stable => <>ServedAsAsked

(***************************************************************************)
(* With a usable configuration no login fails, whichever of the permitted  *)
(* ways the IdP has of writing its redirect and its codes: without a       *)
(* restart neither RetrieveToken nor the token endpoint refuses.           *)
(***************************************************************************)
LoginWithAnyProvider ==
  phase = "failed" /\ restarts = 0 => ~(ConfigUsable /\ CookiesUsable /\ Stable)

(***************************************************************************)
(* No login loop: the user logs in once, and once more for each restart,   *)
(* and is served nothing but the page.  RedirectToIdp is reached again     *)
(* only when the session is lost.                                          *)
(***************************************************************************)
NoLoginLoop ==
  logins > 1 + restarts \/ (phase = "served" /\ ~ServedAsAsked) => ~(Usable /\ Stable)

(***************************************************************************)
(* In a usable deployment nothing refuses a login but a restart in its     *)
(* course: RetrieveToken finds the state, the code and the session of the  *)
(* redirect, and the token endpoint its code and its redirect URI.         *)
(***************************************************************************)
FailsOnlyAfterRestart == phase = "failed" /\ restarts = 0 => ~(Usable /\ Stable)

(***************************************************************************)
(* What GetConfig has validated makes no request fail with an exception:   *)
(* the exceptions that reach Check come from what it does not look at, a   *)
(* chain's second filter, a trigger rule's regular expression, and the     *)
(* host of the token endpoint.                                             *)
(***************************************************************************)
ThrowsOnlyUnvalidated ==
  phase = "internal_error" =>
    \/ \E i \in 1..Len(chains) : chains[i].filters > 1 \/ PostThrows(chains[i])
    \/ MalformedRule

(***************************************************************************)
(* After a logout neither the browser nor the store has anything left that *)
(* would let the page be served: the next request starts a login.  (The    *)
(* chains of a deployment that is not usable may share a cookie's name and *)
(* keep sessions whose cookie was overwritten by another chain.)           *)
(***************************************************************************)
LogoutComplete ==
  phase = "logged_out" =>
    /\ LET pair == CookiePair(Deleted(chain).pair)
       IN pair # NULL =>
            \A c \in jar : c.host # HostName(request.host) \/ c.name # pair[1]
    /\ Usable /\ Stable => \A id \in Ids : sessions[id] # NULL => ~sessions[id].tokens

=============================================================================
