--------------------------------- MODULE Routing ---------------------------------
(***************************************************************************)
(* What the service decides from a request's text alone: whether a         *)
(* configuration is accepted (get_config.cc), whether a trigger rule asks  *)
(* for authentication (trigger_rules.cc), which filter chain takes the     *)
(* request (filter_chain.cc), and whether it is a logout, a callback, or   *)
(* carries a session cookie (oidc_filter.cc).                              *)
(*                                                                         *)
(* A request is a record of host, path (with the query, as Envoy sends it) *)
(* and headers, a function from names to texts.  A chain is a record of    *)
(* the configuration of one FilterChain and of its OIDC filter.            *)
(***************************************************************************)
EXTENDS Http

(***************************************************************************)
(* Trigger rules.  A regular expression is the set of texts it matches, or *)
(* NULL when std::regex throws because it is not one.  The outcome of a    *)
(* test is "match", "none" or "throws".                                    *)
(***************************************************************************)

\* A loop over a list of tests ends at the first one that matches or throws.
Loop(outcomes) ==
  LET i == First({k \in 1..Len(outcomes) : outcomes[k] # "none"})
  IN IF i = 0 THEN "none" ELSE outcomes[i]

\* A match without a type matches nothing.
MatchString(text, match) ==
  LET matches == CASE match.type = "exact"  -> text = match.value
                   [] match.type = "prefix" -> StartsWith(text, match.value)
                   [] match.type = "suffix" -> EndsWith(text, match.value)
                   [] match.type = "regex"  -> text \in match.value
                   [] OTHER                 -> FALSE
  IN IF match.type = "regex" /\ match.value = NULL THEN "throws"
     ELSE IF matches THEN "match" ELSE "none"

matchRule(path, rule) ==
  LET MatchPath(match) == MatchString(path, match)
      excluded         == Loop(Map(MatchPath, rule.excluded_paths))
  IN CASE excluded = "match"  -> "none"
       [] excluded = "throws" -> "throws"
       [] excluded = "none"   -> IF rule.included_paths = <<>> THEN "match"
                                 ELSE Loop(Map(MatchPath, rule.included_paths))

TriggerRuleMatchesPath(path, rules) ==
  IF path = <<>> \/ rules = <<>> THEN "match"
  ELSE Loop(Map(LAMBDA rule : matchRule(path, rule), rules))

-----------------------------------------------------------------------------
\* A header that the request lacks never matches.
Matches(chain, request) ==
  \/ chain.match = NULL
  \/ /\ chain.match.header \in DOMAIN request.headers
     /\ LET value == request.headers[chain.match.header]
        IN CASE chain.match.criteria = "prefix"   -> StartsWith(value, chain.match.value)
             [] chain.match.criteria = "equality" -> value = chain.match.value

RequestPath(request) == PathQueryFragment(request.path).path

RequestQueryString(request) == PathQueryFragment(request.path).query

\* The chain that takes the request, by its place in the list; 0 when no rule
\* or no chain matches and the request is allowed to continue, NULL when the
\* rules throw.
ChainFor(config, request) ==
  LET rules == TriggerRuleMatchesPath(RequestPath(request), config.trigger_rules)
  IN CASE rules = "match" ->
            First({i \in 1..Len(config.chains) : Matches(config.chains[i], request)})
       [] rules = "none" -> 0
       [] OTHER -> NULL

-----------------------------------------------------------------------------
GetCookieName(chain) ==
  IF chain.cookie_name_prefix = <<>> THEN <<"__Host-authservice-session-id-cookie">>
  ELSE (<<"__Host-">> \o chain.cookie_name_prefix) \o <<"-authservice-session-id-cookie">>

CookieFromHeaders(headers, name) ==
  LET cookies == IF "cookie" \in DOMAIN headers THEN DecodeCookies(headers["cookie"]) ELSE NULL
  IN IF cookies = NULL THEN NULL ELSE FindKey(cookies, name)

GetSessionIdFromCookie(chain, request) ==
  CookieFromHeaders(request.headers, GetCookieName(chain))

MatchesLogoutRequest(chain, request) ==
  chain.logout_path # NULL /\ RequestPath(request) = chain.logout_path

\* Host and port are compared with the port written out, and without it when
\* it is the one of https.
MatchesCallbackRequest(chain, request) ==
  LET uri      == Uri(chain.callback_uri)
      withPort == uri.host \o <<":", CHOOSE p \in DOMAIN PortValue : PortValue[p] = uri.port>>
  IN /\ RequestPath(request) = uri.pathQueryFragment
     /\ \/ request.host = withPort
        \/ /\ uri.scheme = "https://"
           /\ uri.port = 443
           /\ request.host = uri.host

GetRequestUrl_WithoutScheme(request) == request.host \o request.path

\* The query field of Envoy's request is empty: the path holds the query.
GetRequestUrl(request) == <<"https://">> \o request.host \o request.path

-----------------------------------------------------------------------------
ValidateUri_AnyUri(text, scheme) == text # <<>>

ValidateUri(text, scheme) ==
  /\ Uri(text) # NULL
  /\ Uri(text).parts.query = <<>>
  /\ Uri(text).parts.fragment = <<>>
  /\ Uri(text).scheme = scheme

\* Of the filters of a chain only the first is looked at.
GetConfig(config) ==
  \A i \in 1..Len(config.chains) :
    LET chain == config.chains[i]
    IN /\ ValidateUri(chain.authorization_uri, "https://")
       /\ ValidateUri(chain.callback_uri, "https://")
       /\ ValidateUri(chain.token_uri, "https://")
       /\ chain.proxy_uri = <<>> \/ ValidateUri(chain.proxy_uri, "http://")

=============================================================================
