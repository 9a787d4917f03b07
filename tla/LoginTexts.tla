------------------------------- MODULE LoginTexts -------------------------------
(***************************************************************************)
(* What the course of a login rests on.  LoginFlow passes the parameters,  *)
(* URIs and cookies of a login through the encoders, decoders and matchers *)
(* of the service, of the browser and of the IdP.  Texts says what comes   *)
(* of them: that a text stays a text, in any deployment, and that what was *)
(* written is read, in a usable one.  LoginFlowProofs derives the          *)
(* properties of LoginFlow from it; LoginTextProofs and LoginProofs show   *)
(* that it holds.                                                          *)
(***************************************************************************)
EXTENDS LoginFlow

-----------------------------------------------------------------------------
(***************************************************************************)
(* A deployment that is accepted, usable and stable.                       *)
(***************************************************************************)
Good == world \in Worlds /\ GetConfig(config) /\ Usable /\ Stable

\* The chain of the page, and where the browser is sent for its callback.
home == chains[PageChain]

HostPort(host, port) == <<host, ":", port>>

CallbackHost ==
  IF Callback.port \in {NoPort, "443"} THEN <<Callback.host>>
                                       ELSE HostPort(Callback.host, Callback.port)

CallbackPath == IF Callback.path = <<>> THEN <<"/">> ELSE Callback.path

CallbackTarget(query) == (CallbackPath \o <<"?">>) \o query

\* What RedirectToIdp writes, and what the IdP makes of it.
AuthMessage(i, id) ==
  (chains[i].authorization_uri \o <<"?">>) \o EncodeQueryData(AuthParams(i, id))

ReadMessage(text) == FormDecode(PathQueryFragment(text).query)

\* The query of the IdP's answer to a login.
Answer(id) == IdpQuery(StateOf(id))

Typed(r) == r.host \in Text /\ r.path \in Text

Free(headers) == DOMAIN headers \cap {":authority", "cookie"} = {}

-----------------------------------------------------------------------------
(***************************************************************************)
(* In any deployment.                                                      *)
(***************************************************************************)

\* ChainFor takes the first chain that matches.
FirstFound ==
  \A places \in SUBSET (Nat \ {0}) :
    /\ First(places) \in Nat
    /\ First(places) # 0 => First(places) \in places
    /\ \A i \in places : First(places) # 0 /\ First(places) <= i

ConfigTyped ==
  /\ Typed(page) /\ Free(page.headers) /\ Len(chains) \in Nat
  /\ \A i \in 1..Len(chains) : chains[i].logout_path \in Text \cup {NULL}

\* What a chain can match of a request to a host with the given further headers.
IsBrowse(r, host, headers) ==
  /\ ":authority" \in DOMAIN r.headers /\ r.headers[":authority"] = host
  /\ DOMAIN r.headers \subseteq DOMAIN headers \cup {":authority", "cookie"}
  /\ \A m \in DOMAIN headers : m \in DOMAIN r.headers /\ r.headers[m] = headers[m]

\* A request goes where it is addressed to; the browser adds two headers.
BrowseAsks ==
  \A host, path, headers, cookies, cross_site : Free(headers) =>
    LET r == Browse(host, path, headers, cookies, cross_site)
    IN IsBrowse(r, host, headers) /\ r.host = host /\ r.path = path

\* The URL to return to after a login.
UrlTyped ==
  \A r : Typed(r) =>
    LET url == GetRequestUrl(r)
    IN url \in Text /\ Head(url) = "https://" /\ url # <<>>

FollowTyped ==
  \A url \in Text : url # <<>> => \A cookies : Typed(Follow(url, cookies))

\* RedirectToIdp's message, and the redirect of an IdP that accepts it.
AuthTyped ==
  GetConfig(config) => \A i \in 1..Len(chains), id \in Ids :
    LET params   == ReadMessage(AuthMessage(i, id))
        redirect == FindKey(params, <<"redirect_uri">>)
        mark     == IF Find(redirect, "?") = 0 THEN <<"?">> ELSE <<>>
        answer   == IdpQuery(FindKey(params, <<"state">>))
    IN /\ AuthMessage(i, id) \in Text
       /\ Registered(FindKey(params, <<"client_id">>), redirect) =>
            \A cookies : Typed(Follow((redirect \o mark) \o answer, cookies))

\* RetrieveToken's message, whatever the query it takes the code from.
TokenTyped ==
  \A i \in 1..Len(chains), path \in Text :
    LET data     == DecodeQueryData(PathQueryFragment(path).query)
        received == FindKey(data, <<"code">>)
    IN data # NULL /\ received # NULL
         => EncodeFormData(TokenParams(i, received)) \in Text

\* What a browser makes of a session cookie.
PairTyped ==
  \A i \in 1..Len(chains), v \in Word : \A max_age :
    LET pair == CookiePair(SessionCookie(i, <<v>>, max_age).pair)
    IN pair # NULL => pair[1] \in Text /\ pair[2] \in Text

\* TriggerRuleMatchesPath throws for want of a regular expression only.
RulesTyped == \A r : ChainFor(config, r) = NULL => MalformedRule

TypedTexts ==
  /\ FirstFound /\ ConfigTyped /\ BrowseAsks /\ UrlTyped /\ FollowTyped
  /\ AuthTyped /\ TokenTyped /\ PairTyped /\ RulesTyped

-----------------------------------------------------------------------------
(***************************************************************************)
(* In a usable deployment.                                                 *)
(***************************************************************************)
HomeKnown ==
  /\ PageChain \in 1..Len(chains) /\ home.filters = 1 /\ ~PostThrows(home)
  /\ PageRequest.path = page.path /\ CallbackRequest.path = CallbackPath
  /\ CallbackRequest = Browse(CallbackHost, CallbackPath, <<>>, {}, TRUE)
  /\ CallbackRequest.host = CallbackHost

\* The page and the callback are served under one name, so they share cookies.
HomeHost(host) == HostName(host) = <<Callback.host>>

HostsShared == HomeHost(page.host) /\ HomeHost(CallbackHost)

\* GetSessionIdFromCookie finds the session cookie among the others.
CookieRead ==
  \A host, path, headers, cookies, cross_site : Free(headers) =>
    LET r    == Browse(host, path, headers, cookies, cross_site)
        sent == Sent(cookies, host, cross_site)
    IN /\ sent = {} => GetSessionIdFromCookie(home, r) = NULL
       /\ \A c, v : sent = {c} /\ c.name = GetCookieName(home) /\ c.value = <<v>> /\ v \in Word
             => GetSessionIdFromCookie(home, r) = <<v>>

\* The browser keeps the cookie under the name the service looks for.
PairRead ==
  \A v \in Word : \A max_age :
    LET pair == CookiePair(SessionCookie(PageChain, <<v>>, max_age).pair)
    IN pair # NULL /\ pair = <<GetCookieName(home), <<v>>>>

\* MatchesCallbackRequest takes the callback URI apart; the page's host is
\* never written with the port of https.
CallbackUriRead ==
  LET uri  == Uri(home.callback_uri)
      port == Callback.port
  IN /\ uri.scheme = "https://" /\ uri.host = <<Callback.host>>
     /\ uri.pathQueryFragment = CallbackPath
     /\ port = NoPort => uri.port = 443
     /\ port # NoPort => port \in DOMAIN PortValue /\ uri.port = PortValue[port]
     /\ \A p : <<Callback.host>> \o <<":", p>> = HostPort(Callback.host, p)
     /\ page.host # HostPort(Callback.host, "443")

\* The paths that MatchesLogoutRequest and RetrieveToken look at.
PathsRead ==
  /\ home.logout_path # NULL => PathQueryFragment(home.logout_path).path = home.logout_path
  /\ PathQueryFragment(CallbackPath).path = CallbackPath
  /\ \A id \in Ids :
       LET parts == PathQueryFragment(CallbackTarget(Answer(id)))
       IN parts.path = CallbackPath /\ parts.query = Answer(id)

\* The IdP reads what RedirectToIdp wrote, and knows the client.
AuthRead ==
  /\ Find(home.callback_uri, "?") = 0 /\ Find(home.callback_uri, "#") = 0
  /\ \A id \in Ids :
       LET params == ReadMessage(AuthMessage(PageChain, id))
       IN /\ FindKey(params, <<"client_id">>) = home.client_id
          /\ FindKey(params, <<"state">>) = StateOf(id)
          /\ FindKey(params, <<"redirect_uri">>) = home.callback_uri

\* RetrieveToken reads what the IdP answered.
AnswerRead ==
  \A id \in Ids :
    LET data == DecodeQueryData(Answer(id))
    IN /\ data # NULL /\ code # NULL
       /\ FindKey(data, <<"state">>) = StateOf(id)
       /\ FindKey(data, <<"code">>) = code

\* The token endpoint reads what RetrieveToken sends.
TokenRead ==
  IdpAccepts(PageChain, TokenAuthorization(PageChain),
             FormDecode(EncodeFormData(TokenParams(PageChain, code))))

PageUrl == (<<"https://">> \o page.host) \o page.path

\* The redirects lead the browser to the callback, and back to the page.
UrlsFollowed ==
  \A cookies :
    /\ Follow(PageUrl, cookies) = Browse(page.host, page.path, <<>>, cookies, TRUE)
    /\ \A id \in Ids :
         Follow((home.callback_uri \o <<"?">>) \o Answer(id), cookies)
           = Browse(CallbackHost, CallbackTarget(Answer(id)), <<>>, cookies, TRUE)

ReadTexts ==
  /\ HomeKnown /\ HostsShared /\ CookieRead /\ PairRead /\ CallbackUriRead
  /\ PathsRead /\ AuthRead /\ AnswerRead /\ TokenRead /\ UrlsFollowed

Texts == (world \in Worlds => TypedTexts) /\ (Good => ReadTexts)

=============================================================================
