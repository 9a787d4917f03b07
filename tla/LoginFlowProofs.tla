----------------------------- MODULE LoginFlowProofs -----------------------------
(***************************************************************************)
(* Proofs about the course of a login, from what LoginTexts says of its    *)
(* texts: for all deployments, that the state is well formed and which     *)
(* requests fail with an exception; for the usable ones, where a login     *)
(* stands in each phase.  LoginProofs combines this with the proof of      *)
(* Texts.                                                                  *)
(***************************************************************************)
EXTENDS LoginTexts, TLAPS

-----------------------------------------------------------------------------
(***************************************************************************)
(* Where the requests of a login go.                                       *)
(***************************************************************************)
\* The chain of a request is one of the list, or 0, or the rules throw.
LEMMA ChainRange ==
  ASSUME Texts, world \in Worlds, NEW r
  PROVE  Len(chains) \in Nat /\ ChainFor(config, r) \in 0..Len(chains) \cup {NULL}
<1> DEFINE I == {i \in 1..Len(chains) : Matches(chains[i], r)}
<1>1. Len(chains) \in Nat
  BY DEF Texts, TypedTexts, ConfigTyped
<1>2. ChainFor(config, r) \in {0, First(I), NULL}
  BY DEF ChainFor, chains
<1>3. I \in SUBSET (Nat \ {0}) /\ I \subseteq 1..Len(chains)
  OBVIOUS
<1> HIDE DEF I
<1>4. First(I) \in Nat /\ (First(I) # 0 => First(I) \in I)
  BY <1>3 DEF Texts, TypedTexts, FirstFound
<1> QED
  BY <1>1, <1>2, <1>3, <1>4

\* A request that is in a filter has its chain in the configuration.
LEMMA ChainOf ==
  ASSUME Texts, world \in Worlds, chain \in ChainIndex
  PROVE  Len(chains) \in Nat /\ chain \in 1..Len(chains)
<1>1. Len(chains) \in Nat /\ chain \in 0..Len(chains) \cup {NULL}
  BY ChainRange DEF chain
<1>2. chain \in Nat /\ chain # 0
  BY DEF ChainIndex
<1> QED
  BY <1>1, <1>2, NullAssumption

\* The page of a usable deployment belongs to a chain of the list.
LEMMA HomeIndex ==
  ASSUME Texts, Good
  PROVE  PageChain \in 1..Len(chains) /\ PageChain \in Nat
<1>1. Len(chains) \in Nat
  BY DEF Texts, TypedTexts, ConfigTyped, Good
<1>2. PageChain \in 1..Len(chains)
  BY DEF Texts, ReadTexts, HomeKnown
<1> QED
  BY <1>1, <1>2

\* The request that the IdP sends the browser back with is taken for a callback,
\* whether or not the URI names the port.
LEMMA AtCallback ==
  ASSUME Texts, Good, NEW r, r.host = CallbackHost, RequestPath(r) = CallbackPath
  PROVE  MatchesCallbackRequest(home, r)
<1> DEFINE uri == Uri(home.callback_uri)
           h == Callback.host
           p == Callback.port
           w == CHOOSE q \in DOMAIN PortValue : PortValue[q] = uri.port
<1>1. /\ uri.scheme = "https://" /\ uri.host = <<h>> /\ uri.pathQueryFragment = CallbackPath
      /\ p = NoPort => uri.port = 443
      /\ p # NoPort => p \in DOMAIN PortValue /\ uri.port = PortValue[p]
  BY DEF Texts, ReadTexts, CallbackUriRead
<1>3. /\ p \in {NoPort, "443"} => CallbackHost = <<h>>
      /\ p \notin {NoPort, "443"} => CallbackHost = HostPort(h, p)
  BY DEF CallbackHost
<1>4. MatchesCallbackRequest(home, r) <=>
        /\ RequestPath(r) = uri.pathQueryFragment
        /\ \/ r.host = uri.host \o <<":", w>>
           \/ uri.scheme = "https://" /\ uri.port = 443 /\ r.host = uri.host
  BY DEF MatchesCallbackRequest
<1>5. CASE p \in {NoPort, "443"}
  <2>1. uri.port = 443
    BY <1>1, <1>5, PortAssumption
  <2> HIDE DEF uri, w
  <2> QED
    BY <1>1, <1>3, <1>4, <1>5, <2>1
<1>6. CASE p \notin {NoPort, "443"}
  <2>1. w = p
    BY <1>1, <1>6, PortAssumption
  <2> HIDE DEF uri, w
  <2>2. <<h>> \o <<":", p>> = HostPort(h, p)
    BY DEF Texts, ReadTexts, CallbackUriRead
  <2> QED
    BY <1>1, <1>3, <1>4, <1>6, <2>1, <2>2
<1> QED
  BY <1>5, <1>6

LEMMA NotAtCallback ==
  ASSUME Texts, Good, NEW r, r.host = page.host, r.path = page.path
  PROVE  ~MatchesCallbackRequest(home, r)
<1> DEFINE uri == Uri(home.callback_uri)
           h == Callback.host
           p == Callback.port
           w == CHOOSE q \in DOMAIN PortValue : PortValue[q] = uri.port
<1>1. /\ uri.host = <<h>> /\ uri.pathQueryFragment = CallbackPath
      /\ p = NoPort => uri.port = 443
      /\ p # NoPort => p \in DOMAIN PortValue /\ uri.port = PortValue[p]
  BY DEF Texts, ReadTexts, CallbackUriRead
<1>3. /\ p \in {NoPort, "443"} => CallbackHost = <<h>>
      /\ p \notin {NoPort, "443"} => CallbackHost = HostPort(h, p)
  BY DEF CallbackHost
<1>4. MatchesCallbackRequest(home, r) =>
        /\ RequestPath(r) = uri.pathQueryFragment
        /\ \/ r.host = uri.host \o <<":", w>>
           \/ uri.port = 443 /\ r.host = uri.host
  BY DEF MatchesCallbackRequest
<1>5. page.host # CallbackHost \/ RequestPath(r) # CallbackPath
  <2>1. page.host # CallbackRequest.host \/ RequestPath(PageRequest) # CallbackRequest.path
    BY DEF Good, Usable, ConfigUsable
  <2>2. RequestPath(r) = RequestPath(PageRequest)
    BY DEF RequestPath, Texts, ReadTexts, HomeKnown
  <2> QED
    BY <2>1, <2>2, Zenon DEF Texts, ReadTexts, HomeKnown
<1>6. page.host # HostPort(h, "443") /\ \A q : <<h>> \o <<":", q>> = HostPort(h, q)
  BY DEF Texts, ReadTexts, CallbackUriRead
<1>8. CASE p \in {NoPort, "443"}
  <2>1. uri.port = 443
    BY <1>1, <1>8, PortAssumption
  <2>2. w = "443"
    BY <2>1, PortAssumption
  <2> HIDE DEF uri, w
  <2>3. <<h>> \o <<":", "443">> = HostPort(h, "443")
    BY <1>6
  <2> QED
    BY <1>1, <1>3, <1>4, <1>5, <1>6, <1>8, <2>2, <2>3
<1>9. CASE p \notin {NoPort, "443"}
  <2>1. w = p
    BY <1>1, <1>9, PortAssumption
  <2>2. uri.port # 443
    BY <1>1, <1>9, PortAssumption
  <2> HIDE DEF uri, w
  <2> QED
    BY <1>1, <1>3, <1>4, <1>5, <1>6, <1>9, <2>1, <2>2
<1> QED
  BY <1>8, <1>9

RulesMatch(r) == TriggerRuleMatchesPath(RequestPath(r), config.trigger_rules) = "match"

Matching(r) == {i \in 1..Len(chains) : Matches(chains[i], r)}

LEMMA ChainIs ==
  ASSUME Texts, Good, NEW r
  PROVE  /\ Matching(r) \in SUBSET (Nat \ {0})
         /\ ChainFor(config, r) \notin {0, NULL} =>
              /\ RulesMatch(r)
              /\ ChainFor(config, r) = First(Matching(r)) /\ First(Matching(r)) \in Matching(r)
         /\ RulesMatch(r) => ChainFor(config, r) = First(Matching(r))
         /\ ChainFor(config, r) \in {0, NULL, First(Matching(r))}
<1>1. Matching(r) \in SUBSET (Nat \ {0})
  BY DEF Matching
<1>2. /\ RulesMatch(r) => ChainFor(config, r) = First(Matching(r))
      /\ ~RulesMatch(r) => ChainFor(config, r) \in {0, NULL}
  BY DEF ChainFor, RulesMatch, Matching, chains
<1>3. First(Matching(r)) # 0 => First(Matching(r)) \in Matching(r)
  BY <1>1 DEF Good, Texts, TypedTexts, FirstFound
<1> QED
  BY <1>1, <1>2, <1>3

\* Which chain matches does not depend on the cookies, nor on the path.
LEMMA SameChain ==
  ASSUME Texts, Good, NEW r, NEW q, NEW host, NEW headers, Free(headers),
         IsBrowse(r, host, headers), IsBrowse(q, host, headers)
  PROVE  /\ RequestPath(r) = RequestPath(q) => ChainFor(config, r) = ChainFor(config, q)
         /\ ChainFor(config, q) \notin {0, NULL} =>
              ChainFor(config, r) \in {0, NULL, ChainFor(config, q)}
<1>1. ASSUME NEW i \in 1..Len(chains)
      PROVE  Matches(chains[i], r) <=> Matches(chains[i], q)
  <2> DEFINE n == chains[i].match.header
  <2>1. chains[i].match # NULL => n # "cookie"
    BY DEF Good, Stable
  <2>2. CASE chains[i].match = NULL
    BY <2>2 DEF Matches
  <2>3. CASE chains[i].match # NULL
    <3> HIDE DEF n
    <3>1. /\ n \in DOMAIN r.headers <=> n \in DOMAIN q.headers
          /\ n \in DOMAIN r.headers => r.headers[n] = q.headers[n]
      BY <2>1, <2>3 DEF IsBrowse
    <3> QED
      BY <2>3, <3>1, Zenon DEF Matches, n
  <2> QED
    BY <2>2, <2>3
<1>2. Matching(r) = Matching(q)
  BY <1>1 DEF Matching
<1>3. RequestPath(r) = RequestPath(q) => ChainFor(config, r) = ChainFor(config, q)
  BY <1>2, Zenon DEF ChainFor, Matching, chains
<1>4. ChainFor(config, q) \notin {0, NULL} =>
        ChainFor(config, r) \in {0, NULL, ChainFor(config, q)}
  BY <1>2, ChainIs
<1> QED
  BY <1>3, <1>4

\* The requests of a login go to the page's chain, whatever cookies they carry;
\* one for the logout path may match no rule, or a malformed one.
LEMMA HomeChain ==
  ASSUME Texts, Good, NEW cookies, NEW cross_site
  PROVE  /\ ChainFor(config, Browse(page.host, page.path, page.headers, cookies, cross_site))
              = PageChain
         /\ ChainFor(config, Browse(page.host, page.path, <<>>, cookies, cross_site)) = PageChain
         /\ \A id \in Ids :
              ChainFor(config, Browse(CallbackHost, CallbackTarget(Answer(id)), <<>>,
                                      cookies, cross_site)) = PageChain
         /\ \A path :
              ChainFor(config, Browse(page.host, path, page.headers, cookies, cross_site))
                \in {0, NULL, PageChain}
<1> DEFINE none == <<>>
<1>1. Free(page.headers) /\ Free(none) /\ DOMAIN none = {}
  <2>1. DOMAIN none = {}
    OBVIOUS
  <2> QED
    BY <2>1 DEF Free, Good, Texts, TypedTexts, ConfigTyped
<1> HIDE DEF none
<1>0. PageChain \notin {0, NULL}
  BY HomeIndex, NullAssumption
<1>2. /\ ChainFor(config, PageRequest) = PageChain
      /\ ChainFor(config, CallbackRequest) = PageChain
      /\ PageRequest = Browse(page.host, page.path, page.headers, {}, FALSE)
      /\ CallbackRequest = Browse(CallbackHost, CallbackPath, none, {}, TRUE)
  BY Zenon DEF Good, Usable, ConfigUsable, PageChain, PageRequest, none,
               Texts, ReadTexts, HomeKnown
<1>20. IsBrowse(PageRequest, page.host, page.headers) /\ PageRequest.path = page.path
  <2> DEFINE empty == {}
             site == FALSE
             b == Browse(page.host, page.path, page.headers, empty, site)
  <2>1. PageRequest = b
    BY <1>2
  <2> HIDE DEF empty, site
  <2>2. IsBrowse(b, page.host, page.headers) /\ b.path = page.path
    BY <1>1 DEF Good, Texts, TypedTexts, BrowseAsks
  <2> HIDE DEF b
  <2> QED
    BY <2>1, <2>2
<1>21. IsBrowse(CallbackRequest, CallbackHost, none) /\ CallbackRequest.path = CallbackPath
  <2> DEFINE empty == {}
             site == TRUE
             b == Browse(CallbackHost, CallbackPath, none, empty, site)
  <2>1. CallbackRequest = b
    BY <1>2
  <2> HIDE DEF empty, site
  <2>2. IsBrowse(b, CallbackHost, none) /\ b.path = CallbackPath
    BY <1>1 DEF Good, Texts, TypedTexts, BrowseAsks
  <2> HIDE DEF b
  <2> QED
    BY <2>1, <2>2
<1> DEFINE a == Browse(page.host, page.path, page.headers, cookies, cross_site)
<1>3. ChainFor(config, a) = PageChain
  <2>1. IsBrowse(a, page.host, page.headers) /\ a.path = page.path
    BY <1>1 DEF Good, Texts, TypedTexts, BrowseAsks
  <2>2. IsBrowse(PageRequest, page.host, page.headers) /\ PageRequest.path = page.path
    BY <1>20, <1>21
  <2> HIDE DEF a
  <2>3. RequestPath(a) = RequestPath(PageRequest)
    BY <2>1, <2>2 DEF RequestPath
  <2> QED
    BY <1>1, <1>2, <2>1, <2>2, <2>3, SameChain, Zenon
<1>4. ASSUME NEW path
      PROVE  ChainFor(config, Browse(page.host, path, page.headers, cookies, cross_site))
               \in {0, NULL, PageChain}
  <2> DEFINE b == Browse(page.host, path, page.headers, cookies, cross_site)
  <2>1. IsBrowse(b, page.host, page.headers)
    BY <1>1 DEF Good, Texts, TypedTexts, BrowseAsks
  <2>2. IsBrowse(PageRequest, page.host, page.headers)
    BY <1>20, <1>21
  <2> HIDE DEF b
  <2>3. ChainFor(config, b) \in {0, NULL, PageChain}
    BY <1>0, <1>1, <1>2, <2>1, <2>2, SameChain, Zenon
  <2> QED
    BY <2>3 DEF b
<1>5. ASSUME NEW id \in Ids
      PROVE  ChainFor(config, Browse(CallbackHost, CallbackTarget(Answer(id)), none,
                                     cookies, cross_site)) = PageChain
  <2> DEFINE path == CallbackTarget(Answer(id))
             q == Browse(CallbackHost, path, none, cookies, cross_site)
  <2>1. PathQueryFragment(path).path = CallbackPath
    BY DEF Texts, ReadTexts, PathsRead
  <2>2. PathQueryFragment(CallbackPath).path = CallbackPath
    BY DEF Texts, ReadTexts, PathsRead
  <2> HIDE DEF path
  <2>3. IsBrowse(q, CallbackHost, none) /\ q.path = path
    BY <1>1 DEF Good, Texts, TypedTexts, BrowseAsks
  <2>4. IsBrowse(CallbackRequest, CallbackHost, none) /\ CallbackRequest.path = CallbackPath
    BY <1>20, <1>21
  <2> HIDE DEF q
  <2>5. RequestPath(q) = RequestPath(CallbackRequest)
    BY <2>1, <2>2, <2>3, <2>4 DEF RequestPath
  <2>6. ChainFor(config, q) = ChainFor(config, CallbackRequest)
    BY <1>1, <2>3, <2>4, <2>5, SameChain
  <2> QED
    BY <1>2, <2>6 DEF path, q
<1>6. ChainFor(config, Browse(page.host, page.path, none, cookies, cross_site)) = PageChain
  <2> DEFINE r == Browse(page.host, page.path, none, cookies, cross_site)
             p == PageChain
  <2>1. IsBrowse(r, page.host, none) /\ r.path = page.path
    BY <1>1 DEF Good, Texts, TypedTexts, BrowseAsks
  <2>2. /\ r.headers[":authority"] = page.host /\ ":authority" \in DOMAIN r.headers
        /\ DOMAIN r.headers \subseteq {":authority", "cookie"}
    BY <1>1, <2>1 DEF IsBrowse
  <2>3. /\ PageRequest.headers[":authority"] = page.host /\ ":authority" \in DOMAIN PageRequest.headers
        /\ PageRequest.path = page.path
    <3>1. IsBrowse(PageRequest, page.host, page.headers) /\ PageRequest.path = page.path
      BY <1>20, <1>21
    <3> QED
      BY <3>1 DEF IsBrowse
  <2>4. DOMAIN CallbackRequest.headers \subseteq {":authority", "cookie"}
    <3>1. IsBrowse(CallbackRequest, CallbackHost, none)
      BY <1>20, <1>21
    <3> QED
      BY <1>1, <3>1 DEF IsBrowse
  <2> HIDE DEF r
  <2>5. /\ RulesMatch(PageRequest)
        /\ p = First(Matching(PageRequest)) /\ p \in Matching(PageRequest)
        /\ p \in Matching(CallbackRequest)
    BY <1>0, <1>2, ChainIs, Zenon
  <2>6. RulesMatch(r)
    BY <2>1, <2>3, <2>5 DEF RequestPath, RulesMatch
  <2>7. ChainFor(config, r) = First(Matching(r))
    BY <2>5, <2>6, ChainIs
  <2>8. ASSUME NEW i \in 1..Len(chains),
               \/ chains[i].match = NULL
               \/ chains[i].match.header = ":authority"
        PROVE  Matches(chains[i], r) <=> Matches(chains[i], PageRequest)
    <3>1. CASE chains[i].match = NULL
      BY <3>1 DEF Matches
    <3>2. CASE chains[i].match # NULL /\ chains[i].match.header = ":authority"
      BY <2>2, <2>3, <3>2, Zenon DEF Matches
    <3> QED
      BY <2>8, <3>1, <3>2
  <2>9. \A i \in 1..Len(chains) : chains[i].match # NULL => chains[i].match.header # "cookie"
    BY DEF Good, Stable
  <2>10. p \in Matching(r)
    <3>1. p \in 1..Len(chains) /\ Matches(chains[p], CallbackRequest) /\ Matches(chains[p], PageRequest)
      BY <2>5 DEF Matching
    <3>2. chains[p].match = NULL \/ chains[p].match.header = ":authority"
      BY <2>4, <2>9, <3>1, Zenon DEF Matches
    <3> QED
      BY <2>8, <3>1, <3>2 DEF Matching
  <2>11. Matching(r) \subseteq Matching(PageRequest)
    <3> SUFFICES ASSUME NEW i \in Matching(r) PROVE i \in Matching(PageRequest)
      OBVIOUS
    <3>1. i \in 1..Len(chains) /\ Matches(chains[i], r)
      BY DEF Matching
    <3>2. chains[i].match = NULL \/ chains[i].match.header = ":authority"
      BY <2>2, <2>9, <3>1, Zenon DEF Matches
    <3> QED
      BY <2>8, <3>1, <3>2 DEF Matching
  <2>12. \A j \in Matching(PageRequest) : p <= j
    BY <2>5, ChainIs DEF Good, Texts, TypedTexts, FirstFound
  <2>13. First(Matching(r)) = p
    <3> DEFINE first == First(Matching(r))
    <3>1. first \in Nat /\ first \in Matching(r) /\ first <= p
      BY <2>10, ChainIs DEF Good, Texts, TypedTexts, FirstFound
    <3>2. p <= first /\ p \in Nat
      BY <2>11, <2>12, <3>1, HomeIndex
    <3> HIDE DEF first, p
    <3> QED
      BY <3>1, <3>2 DEF first
  <2> QED
    BY <2>7, <2>13 DEF r
<1> QED
  BY <1>3, <1>4, <1>5, <1>6 DEF none, a

-----------------------------------------------------------------------------
(***************************************************************************)
(* How far a login has come, in a usable deployment: the browser has the   *)
(* cookie of the last login and no other, the store at most its session.   *)
(***************************************************************************)
cur == SessionIds[logins]

Ours(id) == [host |-> <<Callback.host>>, name |-> GetCookieName(home), value |-> <<id>>,
             directives |-> GetCookieDirectives({})]

PageJar == IF logins = 0 THEN {} ELSE {Ours(cur)}

Login(id) == [chain |-> PageChain, state |-> StateOf(id), url |-> PageUrl,
              tokens |-> sessions[id].tokens]

OneLogin ==
  /\ jar = PageJar
  /\ \A id \in Ids : sessions[id] # NULL => logins > 0 /\ id = cur /\ sessions[id] = Login(id)

\* Every cookie of the service carries these directives.
LEMMA Directives ==
  /\ {"Secure", "Path=/"} \subseteq GetCookieDirectives({})
  /\ "SameSite=Strict" \notin GetCookieDirectives({}) /\ "Max-Age=0" \notin GetCookieDirectives({})
  /\ {"Secure", "Path=/", "Max-Age=0"} \subseteq GetCookieDirectives({"Max-Age=0"})
BY DEF GetCookieDirectives

\* A session id or a state is a text by itself.
LEMMA WordText ==
  ASSUME NEW c \in Word
  PROVE  <<c>> \in Text /\ c # NULL /\ <<c>> # NULL
<1>1. <<c>> \in Text
  BY DEF Text, Symbol
<1> QED
  BY <1>1, NullAssumption

LEMMA StateText ==
  ASSUME NEW id \in Ids
  PROVE  StateOf(id) \in Text /\ StateOf(id) # NULL
<1>1. States[id] \in Word
  BY IdAssumption
<1> QED
  BY <1>1, WordText DEF StateOf

LEMMA CurFacts ==
  ASSUME logins \in 0..Len(SessionIds)
  PROVE  /\ logins \in Nat /\ Len(SessionIds) \in Nat
         /\ logins # 0 => cur \in Word /\ cur \in Ids /\ cur # NULL /\ <<cur>> # NULL
         /\ logins # Len(SessionIds) => SessionIds[logins + 1] \in Word /\ SessionIds[logins + 1] \in Ids
<1>1. SessionIds \in Seq(Word) /\ Len(SessionIds) \in Nat
  BY IdAssumption
<1>2. \A k \in 1..Len(SessionIds) : SessionIds[k] \in Word /\ SessionIds[k] \in Ids
  BY <1>1 DEF Ids, Range
<1>3. \A w \in Word : w # NULL /\ <<w>> # NULL
  BY WordText
<1>4. logins # 0 => logins \in 1..Len(SessionIds)
  BY <1>1
<1>5. logins # Len(SessionIds) => logins + 1 \in 1..Len(SessionIds)
  BY <1>1
<1> QED
  BY <1>1, <1>2, <1>3, <1>4, <1>5 DEF cur

\* The cookie that SetCookie adds replaces the one of the login before.
LEMMA KeepOurs ==
  ASSUME Texts, Good, jar = PageJar, NEW host, HomeHost(host), NEW id \in Word
  PROVE  Keep(jar, host, SessionCookie(PageChain, <<id>>, {})) = {Ours(id)}
<1> DEFINE n == GetCookieName(home)
           h == <<Callback.host>>
           d == GetCookieDirectives({})
           v == <<id>>
           set == SessionCookie(PageChain, v, {})
           pair == CookiePair(set.pair)
<1>1. \A c \in jar : c.host = h /\ c.name = n
  BY DEF PageJar, Ours
<1>2. pair # NULL /\ pair = <<n, v>> /\ set.directives = d
  <2>1. pair # NULL /\ pair = <<n, v>>
    BY Zenon DEF Texts, ReadTexts, PairRead
  <2>2. set.directives = d
    BY DEF SessionCookie, EncodeSetCookie
  <2> QED
    BY <2>1, <2>2
<1>3. {"Secure", "Path=/"} \subseteq d /\ "Max-Age=0" \notin d
  BY Directives
<1>4. Ours(id) = [host |-> h, name |-> n, value |-> v, directives |-> d]
  BY DEF Ours
<1>5. HostName(host) = h
  BY DEF HomeHost
<1> HIDE DEF n, h, d, v, set, pair
<1>7. pair[1] = n /\ pair[2] = v
  BY <1>2
<1>8. {c \in jar : c.host # HostName(host) \/ c.name # n} = {}
  BY <1>1, <1>5
<1>9. Keep(jar, host, set) = {} \cup {[host |-> h, name |-> n, value |-> v, directives |-> d]}
  BY <1>2, <1>3, <1>5, <1>7, <1>8 DEF Keep, pair
<1> QED
  BY <1>4, <1>9 DEF v, set

\* The browser sends it with every request to the host.
LEMMA SendOurs ==
  ASSUME Good, NEW host, HomeHost(host), NEW cross_site
  PROVE  Sent(PageJar, host, cross_site) = PageJar
<1>1. \A c \in PageJar : c.host = <<Callback.host>> /\ c.directives = GetCookieDirectives({})
  BY DEF PageJar, Ours
<1> QED
  BY <1>1, Directives DEF Sent, HomeHost

\* The request that is being handled, and the cookies the browser has.
Asked(host, path, headers) ==
  \E cross_site \in BOOLEAN : request = Browse(host, path, headers, jar, cross_site)

CurrentSession == IF logins # 0 /\ sessions[cur] # NULL THEN cur ELSE NULL

\* The filter finds the session of the last login, if the store still has it.
LEMMA AskedFacts ==
  ASSUME Texts, Good, logins \in 0..Len(SessionIds), OneLogin,
         NEW host, HomeHost(host), NEW path, NEW headers, Free(headers),
         Asked(host, path, headers)
  PROVE  /\ request.host = host /\ request.path = path
         /\ DOMAIN request.headers \subseteq DOMAIN headers \cup {":authority", "cookie"}
         /\ session_id(PageChain) = IF logins = 0 THEN NULL ELSE <<cur>>
         /\ session(PageChain) = CurrentSession
<1>1. PICK x \in BOOLEAN : request = Browse(host, path, headers, jar, x)
  BY DEF Asked
<1>2. jar = PageJar /\ world \in Worlds
  BY DEF OneLogin, Good
<1> DEFINE b == Browse(host, path, headers, jar, x)
<1>4. /\ b.path = path /\ b.host = host
      /\ DOMAIN b.headers \subseteq DOMAIN headers \cup {":authority", "cookie"}
  BY <1>2 DEF Texts, TypedTexts, BrowseAsks, IsBrowse
<1>5. Sent(jar, host, x) = PageJar
  BY <1>2, SendOurs
<1>6. /\ Sent(jar, host, x) = {} => GetSessionIdFromCookie(home, b) = NULL
      /\ \A c, v : /\ Sent(jar, host, x) = {c} /\ c.name = GetCookieName(home)
                   /\ c.value = <<v>> /\ v \in Word
            => GetSessionIdFromCookie(home, b) = <<v>>
  BY DEF Texts, ReadTexts, CookieRead
<1> HIDE DEF b
<1>7. b = request
  BY <1>1 DEF b
<1>8. session_id(PageChain) = GetSessionIdFromCookie(home, b)
  BY <1>7 DEF session_id, home
<1>9. session_id(PageChain) = IF logins = 0 THEN NULL ELSE <<cur>>
  <2>1. CASE logins = 0
    <3>1. PageJar = {}
      BY <2>1 DEF PageJar
    <3> QED
      BY <1>5, <1>6, <1>8, <2>1, <3>1
  <2>2. CASE logins # 0
    <3> DEFINE c == Ours(cur)
    <3>1. PageJar = {c} /\ c.name = GetCookieName(home) /\ c.value = <<cur>>
      BY <2>2 DEF PageJar, Ours
    <3>2. cur \in Word
      BY <2>2, CurFacts
    <3> HIDE DEF c
    <3>3. GetSessionIdFromCookie(home, b) = <<cur>>
      BY <1>5, <1>6, <3>1, <3>2
    <3> QED
      BY <1>8, <2>2, <3>3
  <2> QED
    BY <2>1, <2>2
<1>10. session(PageChain) = CurrentSession
  <2> DEFINE found == {id \in Ids : /\ session_id(PageChain) = <<id>>
                                    /\ sessions[id] # NULL
                                    /\ sessions[id].chain = PageChain}
  <2>1. session(PageChain) = IF found = {} THEN NULL ELSE CHOOSE id \in found : TRUE
    BY DEF session
  <2>2. \A id \in found : logins # 0 /\ id = cur /\ sessions[cur] # NULL
    BY CurFacts DEF OneLogin
  <2>3. logins # 0 /\ sessions[cur] # NULL => cur \in found
    <3> SUFFICES ASSUME logins # 0, sessions[cur] # NULL PROVE cur \in found
      OBVIOUS
    <3>1. cur \in Ids
      BY CurFacts
    <3>2. sessions[cur] = Login(cur)
      BY <3>1 DEF OneLogin
    <3>3. sessions[cur].chain = PageChain
      BY <3>2 DEF Login
    <3>4. session_id(PageChain) = <<cur>>
      BY <1>9
    <3> QED
      BY <3>1, <3>3, <3>4
  <2> HIDE DEF found
  <2> QED
    BY <2>1, <2>2, <2>3 DEF CurrentSession
<1> QED
  BY <1>4, <1>7, <1>9, <1>10

AskedPage == Asked(page.host, page.path, page.headers) \/ Asked(page.host, page.path, <<>>)

AskedCallback ==
  /\ logins > 0
  /\ Asked(CallbackHost, CallbackTarget(Answer(cur)), <<>>)

AskedLogout == home.logout_path # NULL /\ Asked(page.host, home.logout_path, page.headers)

\* What is the same for a page and for a callback.
ForHome ==
  /\ chain = PageChain
  /\ ~MatchesLogoutRequest(home, request)
  /\ ~HasIdTokenHeader(PageChain)
  /\ ~Throws(PageChain)
  /\ session_id(PageChain) = IF logins = 0 THEN NULL ELSE <<cur>>
  /\ session(PageChain) = CurrentSession

LEMMA NoThrow ==
  ASSUME Texts, Good
  PROVE  ~Throws(PageChain)
<1>1. PageChain \in 1..Len(chains) /\ home.filters = 1
  BY DEF Texts, ReadTexts, HomeKnown
<1>2. ValidateUri(home.callback_uri, "https://")
  BY <1>1 DEF Good, GetConfig, chains, home
<1>3. Uri(home.callback_uri) # NULL
  BY <1>2 DEF ValidateUri
<1>4. ~(home.filters > 1)
  BY <1>1
<1> QED
  BY <1>3, <1>4 DEF Throws, home

LEMMA NoIdToken ==
  ASSUME Good, NEW headers, DOMAIN headers \subseteq DOMAIN page.headers,
         DOMAIN request.headers \subseteq DOMAIN headers \cup {":authority", "cookie"}
  PROVE  ~HasIdTokenHeader(PageChain)
<1>1. home.id_token_header \notin DOMAIN page.headers \cup {":authority", "cookie"}
  BY DEF Good, Usable, ConfigUsable, home
<1> QED
  BY <1>1 DEF HasIdTokenHeader, home

LEMMA IndexPositive ==
  ASSUME NEW i \in ChainIndex
  PROVE  i \notin {0, NULL}
BY NullAssumption DEF ChainIndex

LEMMA AtPage ==
  ASSUME Texts, Good, logins \in 0..Len(SessionIds), OneLogin, AskedPage
  PROVE  /\ ForHome /\ ~MatchesCallbackRequest(home, request)
         /\ request.host = page.host /\ request.path = page.path
<1> DEFINE none == <<>>
<1>0. DOMAIN none = {}
  OBVIOUS
<1> HIDE DEF none
<1>1. PICK headers \in {page.headers, none} : Asked(page.host, page.path, headers)
  BY DEF AskedPage, none
<1>2. Free(headers) /\ DOMAIN headers \subseteq DOMAIN page.headers
  <2>1. Free(page.headers)
    BY DEF Texts, TypedTexts, ConfigTyped, Good
  <2> QED
    BY <1>0, <2>1 DEF Free
<1>3. /\ request.host = page.host /\ request.path = page.path
      /\ DOMAIN request.headers \subseteq DOMAIN headers \cup {":authority", "cookie"}
      /\ session_id(PageChain) = IF logins = 0 THEN NULL ELSE <<cur>>
      /\ session(PageChain) = CurrentSession
  BY <1>1, <1>2, AskedFacts DEF Texts, ReadTexts, HostsShared
<1>4. chain = PageChain
  <2>1. PICK x \in BOOLEAN : request = Browse(page.host, page.path, headers, jar, x)
    BY <1>1 DEF Asked
  <2>2. ChainFor(config, Browse(page.host, page.path, headers, jar, x)) = PageChain
    BY <1>1, HomeChain DEF none
  <2> QED
    BY <2>1, <2>2 DEF chain
<1>5. ~HasIdTokenHeader(PageChain)
  BY <1>2, <1>3, NoIdToken
<1>6. ~MatchesCallbackRequest(home, request)
  BY <1>3, NotAtCallback
<1>7. ~MatchesLogoutRequest(home, request)
  <2>1. PageRequest.path = page.path
    BY DEF Texts, ReadTexts, HomeKnown
  <2>2. RequestPath(PageRequest) # home.logout_path
    BY DEF Good, Usable, ConfigUsable, home
  <2> QED
    BY <1>3, <2>1, <2>2 DEF MatchesLogoutRequest, RequestPath
<1> QED
  BY <1>3, <1>4, <1>5, <1>6, <1>7, NoThrow DEF ForHome

LEMMA AtCallbackRequest ==
  ASSUME Texts, Good, logins \in 0..Len(SessionIds), OneLogin, AskedCallback
  PROVE  /\ ForHome /\ MatchesCallbackRequest(home, request)
         /\ logins # 0 /\ RequestQueryString(request) = Answer(cur)
<1> DEFINE none == <<>>
           path == CallbackTarget(Answer(cur))
<1>0. DOMAIN none = {}
  OBVIOUS
<1>1. Asked(CallbackHost, path, none) /\ logins # 0 /\ cur \in Ids
  BY CurFacts DEF AskedCallback
<1>2. PathQueryFragment(path).path = CallbackPath /\ PathQueryFragment(path).query = Answer(cur)
  BY <1>1 DEF Texts, ReadTexts, PathsRead
<1>3. \A x \in BOOLEAN : ChainFor(config, Browse(CallbackHost, path, none, jar, x)) = PageChain
  BY <1>1, HomeChain
<1> HIDE DEF none, path
<1>4. Free(none) /\ DOMAIN none \subseteq DOMAIN page.headers
  BY <1>0 DEF Free
<1>5. /\ request.host = CallbackHost /\ request.path = path
      /\ DOMAIN request.headers \subseteq DOMAIN none \cup {":authority", "cookie"}
      /\ session_id(PageChain) = IF logins = 0 THEN NULL ELSE <<cur>>
      /\ session(PageChain) = CurrentSession
  BY <1>1, <1>4, AskedFacts DEF Texts, ReadTexts, HostsShared
<1>6. chain = PageChain
  BY <1>1, <1>3 DEF chain, Asked
<1>7. ~HasIdTokenHeader(PageChain)
  BY <1>4, <1>5, NoIdToken
<1>8. RequestPath(request) = CallbackPath /\ RequestQueryString(request) = Answer(cur)
  BY <1>2, <1>5 DEF RequestPath, RequestQueryString
<1>9. MatchesCallbackRequest(home, request)
  BY <1>5, <1>8, AtCallback
<1>10. ~MatchesLogoutRequest(home, request)
  <2>1. CallbackRequest.path = CallbackPath
    BY DEF Texts, ReadTexts, HomeKnown
  <2>2. CallbackRequest.path # home.logout_path
    BY DEF Good, Usable, ConfigUsable, home
  <2> QED
    BY <1>8, <2>1, <2>2 DEF MatchesLogoutRequest
<1> QED
  BY <1>1, <1>5, <1>6, <1>7, <1>8, <1>9, <1>10, NoThrow DEF ForHome

LEMMA AtLogout ==
  ASSUME Texts, Good, logins \in 0..Len(SessionIds), OneLogin, AskedLogout
  PROVE  /\ chain \in {0, NULL, PageChain} /\ MatchesLogoutRequest(home, request)
         /\ session(PageChain) = CurrentSession
<1> DEFINE path == home.logout_path
<1>1. Asked(page.host, path, page.headers) /\ path # NULL
  BY DEF AskedLogout
<1>2. Free(page.headers)
  BY DEF Texts, TypedTexts, ConfigTyped, Good
<1>3. PathQueryFragment(path).path = path
  BY <1>1 DEF Texts, ReadTexts, PathsRead
<1> HIDE DEF path
<1>4. request.path = path /\ session(PageChain) = CurrentSession
  BY <1>1, <1>2, AskedFacts DEF Texts, ReadTexts, HostsShared
<1>5. MatchesLogoutRequest(home, request)
  BY <1>1, <1>3, <1>4 DEF MatchesLogoutRequest, RequestPath, path
<1>6. chain \in {0, NULL, PageChain}
  <2>1. PICK x \in BOOLEAN : request = Browse(page.host, path, page.headers, jar, x)
    BY <1>1 DEF Asked
  <2>2. ChainFor(config, Browse(page.host, path, page.headers, jar, x)) \in {0, NULL, PageChain}
    BY HomeChain
  <2> QED
    BY <2>1, <2>2 DEF chain
<1> QED
  BY <1>4, <1>5, <1>6

\* The circumstances never change, nor what follows from them.
LEMMA SameWorld ==
  ASSUME world' = world
  PROVE  /\ config' = config /\ page' = page /\ others' = others /\ style' = style /\ code' = code
         /\ chains' = chains /\ PageChain' = PageChain /\ Callback' = Callback /\ home' = home
         /\ CallbackHost' = CallbackHost /\ CallbackPath' = CallbackPath /\ PageUrl' = PageUrl
         /\ Good' <=> Good
         /\ \A h, p, hd, c, x : Browse(h, p, hd, c, x)' = Browse(h, p, hd, c, x)
         /\ \A id : Answer(id)' = Answer(id)
<1>1. config' = config /\ page' = page /\ others' = others /\ style' = style /\ code' = code
  BY DEF config, page, others, style, code
<1>2. chains' = chains
  BY <1>1 DEF chains
<1>3. \A h, p, hd, c, x : Browse(h, p, hd, c, x)' = Browse(h, p, hd, c, x)
  BY <1>1 DEF Browse
<1>4. \A id : Answer(id)' = Answer(id)
  BY <1>1 DEF Answer, StateOf, IdpQuery, IdpEncode, Map
<1>5. PageRequest' = PageRequest
  BY <1>1, <1>3, Zenon DEF PageRequest
<1>6. PageChain' = PageChain
  BY <1>1, <1>5 DEF PageChain
<1>7. Callback' = Callback /\ home' = home
  BY <1>2, <1>6 DEF Callback, home
<1>8. CallbackHost' = CallbackHost /\ CallbackPath' = CallbackPath
  BY <1>7 DEF CallbackHost, CallbackPath
<1>9. PageUrl' = PageUrl
  BY <1>1 DEF PageUrl
<1>10. CallbackRequest' = CallbackRequest
  BY <1>3, <1>7, Zenon DEF CallbackRequest
<1>11. ConfigUsable' <=> ConfigUsable
  BY <1>1, <1>2, <1>5, <1>6, <1>7, <1>10 DEF ConfigUsable
<1>12. (CookiesUsable' <=> CookiesUsable) /\ (ProviderUsable' <=> ProviderUsable)
  BY <1>1 DEF CookiesUsable, ProviderUsable
<1>13. Stable' <=> Stable
  BY <1>2 DEF Stable
<1>14. Good' <=> Good
  BY <1>1, <1>11, <1>12, <1>13 DEF Good, Usable
<1> QED
  BY <1>1, <1>2, <1>3, <1>4, <1>6, <1>7, <1>8, <1>9, <1>14

-----------------------------------------------------------------------------
(***************************************************************************)
(* Type correctness, for every deployment.                                 *)
(***************************************************************************)
\* The service runs with an accepted configuration only.
ThrowInv ==
  /\ world \in Worlds
  /\ phase \notin {"boot", "rejected"} => GetConfig(config)
  /\ ThrowsOnlyUnvalidated

LEMMA ThrowInit == Init => ThrowInv
BY DEF Init, ThrowInv, ThrowsOnlyUnvalidated

\* What GetConfig does not look at.
Unvalidated ==
  \/ \E i \in 1..Len(chains) : chains[i].filters > 1 \/ PostThrows(chains[i])
  \/ MalformedRule

LEMMA ThrowNext ==
  ASSUME ThrowInv, world' = world, phase' \notin {"boot", "rejected"} => GetConfig(config),
         phase' = "internal_error" => Unvalidated
  PROVE  ThrowInv'
<1>1. config' = config /\ chains' = chains
  BY SameWorld
<1>2. Unvalidated => Unvalidated'
  BY <1>1 DEF Unvalidated, MalformedRule, PostThrows
<1> QED
  BY <1>1, <1>2 DEF ThrowInv, ThrowsOnlyUnvalidated, Unvalidated

LEMMA ThrowStep == Texts /\ ThrowInv /\ [Next]_vars => ThrowInv'
<1> SUFFICES ASSUME Texts, ThrowInv, [Next]_vars PROVE ThrowInv'
  OBVIOUS
<1>w. world \in Worlds /\ (phase \notin {"boot", "rejected"} => GetConfig(config))
  BY DEF ThrowInv
<1>1. CASE Boot
  BY <1>1, ThrowNext, Zenon DEF Boot
<1>2. CASE Bypass \/ IdpRedirect \/ TryAgain \/ AskLogout
  <2>1. world' = world /\ phase \notin {"boot", "rejected"} /\ phase' # "internal_error"
    BY <1>2, Zenon DEF Bypass, IdpRedirect, TryAgain, AskLogout
  <2> QED
    BY <1>w, <2>1, ThrowNext
<1>3. CASE RulesThrow
  <2>1. world' = world /\ phase = "request" /\ ChainFor(config, request) = NULL
    BY <1>3 DEF RulesThrow, chain
  <2>2. MalformedRule
    BY <1>w, <2>1 DEF Texts, TypedTexts, RulesTyped
  <2> QED
    BY <1>w, <2>1, <2>2, ThrowNext DEF Unvalidated
<1>4. ASSUME NEW i \in ChainIndex, InternalError(i)
      PROVE  ThrowInv'
  <2>1. world' = world /\ phase = "request" /\ Throws(i)
    BY <1>4 DEF InternalError
  <2>2. chain = i
    BY <2>1 DEF Throws, NeedsSession, InProcess
  <2>3. i \in 1..Len(chains)
    BY <1>w, <2>2, ChainOf
  <2>4. Uri(chains[i].callback_uri) # NULL
    BY <1>w, <2>1, <2>3, Zenon DEF GetConfig, ValidateUri, chains
  <2>5. chains[i].filters > 1
    BY <2>1, <2>4 DEF Throws
  <2> QED
    BY <1>w, <2>1, <2>3, <2>5, ThrowNext DEF Unvalidated
<1>5. ASSUME NEW i \in ChainIndex, RetrieveToken(i)
      PROVE  ThrowInv'
  <2>1. world' = world /\ phase = "request" /\ chain = i
    BY <1>5 DEF RetrieveToken, NeedsSession, InProcess
  <2>2. i \in 1..Len(chains)
    BY <1>w, <2>1, ChainOf
  <2>3. phase' = "internal_error" => PostThrows(chains[i])
    BY <1>5 DEF RetrieveToken
  <2> QED
    BY <1>w, <2>1, <2>2, <2>3, ThrowNext, SMTT(20) DEF Unvalidated
<1>6. ASSUME NEW i \in ChainIndex,
             \/ Logout(i) \/ PassWithIdToken(i) \/ RedirectToIdp(i) \/ SaveTokens(i) \/ Forward(i)
      PROVE  ThrowInv'
  <2>1. world' = world /\ phase \notin {"boot", "rejected"} /\ phase' # "internal_error"
    BY <1>6, Zenon DEF Logout, PassWithIdToken, RedirectToIdp, SaveTokens, Forward,
                       NeedsSession, InProcess
  <2> QED
    BY <1>w, <2>1, ThrowNext
<1>7. CASE Restart
  <2>1. world' = world /\ phase \notin {"boot", "rejected"} /\ phase' # "internal_error"
    BY <1>7, SMTT(20) DEF Restart
  <2> QED
    BY <1>w, <2>1, ThrowNext
<1>8. CASE UNCHANGED vars
  <2>1. world' = world /\ phase' = phase
    BY <1>8 DEF vars
  <2> QED
    BY <1>w, <2>1, ThrowNext DEF ThrowInv, ThrowsOnlyUnvalidated, Unvalidated
<1> QED
  BY <1>1, <1>2, <1>3, <1>4, <1>5, <1>6, <1>7, <1>8 DEF Next, Step, Finished

LEMMA ThrowsHold == Spec /\ []Texts => []ThrowsOnlyUnvalidated
<1>1. ThrowInv => ThrowsOnlyUnvalidated
  BY DEF ThrowInv
<1> QED
  BY ThrowInit, ThrowStep, <1>1, PTL DEF Spec

SessionsOK(ss, n) ==
  /\ ss \in [Ids -> Session \cup {NULL}]
  /\ \A id \in Ids : ss[id] # NULL => /\ ss[id].chain \in 1..n
                                      /\ Head(ss[id].url) = "https://" /\ ss[id].url # <<>>

\* TypeOK, and what the next request and the next message are made from.
TypeInv ==
  /\ world \in Worlds /\ phase \in Phases
  /\ phase \notin {"boot", "rejected"} =>
       GetConfig(config) /\ request.host \in Text /\ request.path \in Text
  /\ phase \notin {"idp", "token"} => message = NULL
  /\ phase = "idp" => \E i \in 1..Len(chains), id \in Ids : message = AuthMessage(i, id)
  /\ phase = "token" => message \in Text /\ chain \in ChainIndex /\ session(chain) # NULL
  /\ phase = "served" => chain \in ChainIndex
  /\ \A c \in jar : c.name \in Text /\ c.value \in Text
  /\ logins \in 0..Len(SessionIds) /\ restarts \in 0..MaxRestarts
  /\ SessionsOK(sessions, Len(chains))

LEMMA TypeInvOK == Texts /\ TypeInv => TypeOK
<1> SUFFICES ASSUME Texts, TypeInv PROVE TypeOK
  OBVIOUS
<1>1. phase = "idp" => message \in Text
  <2> SUFFICES ASSUME phase = "idp" PROVE message \in Text
    OBVIOUS
  <2>1. world \in Worlds /\ GetConfig(config)
    BY DEF TypeInv
  <2>2. PICK i \in 1..Len(chains), id \in Ids : message = AuthMessage(i, id)
    BY DEF TypeInv
  <2> QED
    BY <2>1, <2>2 DEF Texts, TypedTexts, AuthTyped
<1>2. IF phase \in {"idp", "token"} THEN message \in Text ELSE message = NULL
  BY <1>1 DEF TypeInv
<1> QED
  BY <1>2 DEF TypeInv, TypeOK, SessionsOK

LEMMA TypeInit == Init => TypeInv
<1> SUFFICES ASSUME Init PROVE TypeInv
  OBVIOUS
<1>1. \A id \in Ids : sessions[id] = NULL
  BY DEF Init
<1>2. SessionsOK(sessions, Len(chains))
  BY <1>1 DEF Init, SessionsOK
<1>3. 0 \in 0..Len(SessionIds) /\ 0 \in 0..MaxRestarts
  BY IdAssumption
<1> QED
  BY <1>2, <1>3 DEF Init, TypeInv, Phases

LEMMA SessionFacts ==
  ASSUME NEW i
  PROVE  session(i) = NULL \/ (session(i) \in Ids /\ session(i) # NULL /\ sessions[session(i)] # NULL)
<1>1. \A id \in Ids : id # NULL
  BY IdAssumption, NullAssumption DEF Ids, Range
<1> QED
  BY <1>1 DEF session

LEMMA KeepValues ==
  ASSUME NEW cookies, NEW host, NEW set, NEW c \in Keep(cookies, host, set)
  PROVE  LET pair == CookiePair(set.pair)
         IN c \in cookies \/ (pair # NULL /\ c.name = pair[1] /\ c.value = pair[2])
BY DEF Keep

LEMMA CookieTyped ==
  ASSUME Texts, world \in Worlds, \A c \in jar : c.name \in Text /\ c.value \in Text,
         NEW i \in 1..Len(chains), NEW v \in Word, NEW max_age, NEW host
  PROVE  \A c \in Keep(jar, host, SessionCookie(i, <<v>>, max_age)) : c.name \in Text /\ c.value \in Text
<1> DEFINE set == SessionCookie(i, <<v>>, max_age)
           pair == CookiePair(set.pair)
<1>1. pair # NULL => pair[1] \in Text /\ pair[2] \in Text
  BY DEF Texts, TypedTexts, PairTyped
<1> HIDE DEF set
<1>2. \A c \in Keep(jar, host, set) : c \in jar \/ (pair # NULL /\ c.name = pair[1] /\ c.value = pair[2])
  BY KeepValues
<1> HIDE DEF pair
<1>3. \A c \in Keep(jar, host, set) : c.name \in Text /\ c.value \in Text
  BY <1>1, <1>2
<1> QED
  BY <1>3 DEF set

\* Requests for a path of the page's host.
LEMMA BrowseText ==
  ASSUME Texts, world \in Worlds, NEW path \in Text, NEW cookies, NEW cross_site
  PROVE  Typed(Browse(page.host, path, page.headers, cookies, cross_site))
<1>1. page.host \in Text /\ Free(page.headers)
  BY DEF Texts, TypedTexts, ConfigTyped, Typed
<1> DEFINE r == Browse(page.host, path, page.headers, cookies, cross_site)
<1>2. r.host = page.host /\ r.path = path
  BY <1>1 DEF Texts, TypedTexts, BrowseAsks
<1> QED
  BY <1>1, <1>2 DEF Typed

LEMMA WithoutOK ==
  ASSUME NEW i, NEW n, SessionsOK(sessions, n)
  PROVE  SessionsOK(Without(session(i)), n)
BY SessionFacts DEF SessionsOK, Without

LEMMA ChainNext ==
  ASSUME world' = world, request' = request
  PROVE  chain' = chain /\ (sessions' = sessions => session(chain)' = session(chain))
<1>1. config' = config /\ chains' = chains
  BY SameWorld
<1>2. chain' = chain
  BY <1>1 DEF chain
<1> QED
  BY <1>1, <1>2 DEF session, session_id

\* The answers that change nothing else.
LEMMA TypeAnswer ==
  ASSUME TypeInv, phase = "request", UNCHANGED <<world, request, message, jar, sessions, logins, restarts>>,
         phase' \in {"bypassed", "internal_error", "served", "failed", "given_up"},
         phase' = "served" => chain \in ChainIndex
  PROVE  TypeInv'
<1>1. chains' = chains /\ config' = config /\ chain' = chain
  BY SameWorld, ChainNext, SMTT(20)
<1>2. SessionsOK(sessions, Len(chains))'
  BY <1>1 DEF TypeInv
<1> QED
  BY <1>1, <1>2 DEF TypeInv, Phases

LEMMA TypeBoot ==
  ASSUME Texts, TypeInv, Boot \/ TryAgain \/ AskLogout
  PROVE  TypeInv'
<1>1. world' = world /\ chains' = chains /\ config' = config /\ world \in Worlds
  BY SameWorld, Zenon DEF Boot, TryAgain, AskLogout, TypeInv
<1>2. SessionsOK(sessions, Len(chains))'
  BY <1>1, Zenon DEF TypeInv, Boot, TryAgain, AskLogout
<1> DEFINE yes == TRUE
           no == FALSE
           empty == {}
<1> HIDE DEF yes, no, empty
<1>3. \A c : Typed(Browse(page.host, page.path, page.headers, c, no))
  <2>1. page.path \in Text
    BY <1>1, SMTT(20) DEF Texts, TypedTexts, ConfigTyped, Typed
  <2> QED
    BY <1>1, <2>1, BrowseText, SMTT(20)
<1>4. CASE Boot /\ GetConfig(config)
  <2>1. request' = Browse(page.host, page.path, page.headers, empty, no) /\ phase' = "request" /\ phase = "boot"
    BY <1>4 DEF Boot, no, empty
  <2>2. request'.host \in Text /\ request'.path \in Text
    BY <1>3, <2>1, SMTT(20) DEF Typed
  <2> QED
    BY <1>1, <1>2, <1>4, <2>1, <2>2 DEF TypeInv, Phases, Boot
<1>5. CASE Boot /\ ~GetConfig(config)
  <2>1. phase' = "rejected" /\ phase = "boot"
    BY <1>5 DEF Boot
  <2> QED
    BY <1>1, <1>2, <1>5, <2>1 DEF TypeInv, Phases, Boot
<1>6. CASE TryAgain
  <2>1. request' = Browse(page.host, page.path, page.headers, jar, no) /\ phase' = "request" /\ phase = "failed"
    BY <1>6 DEF TryAgain, no
  <2>2. request'.host \in Text /\ request'.path \in Text
    BY <1>3, <2>1 DEF Typed
  <2> QED
    BY <1>1, <1>2, <1>6, <2>1, <2>2, Zenon DEF TypeInv, Phases, TryAgain
<1>7. CASE AskLogout
  <2> DEFINE path == chains[chain].logout_path
  <2>1. request' = Browse(page.host, path, page.headers, jar, no) /\ phase' = "request" /\ phase = "served" /\ path # NULL
    BY <1>7 DEF AskLogout, no
  <2>2. chain \in 1..Len(chains)
    BY <1>1, <2>1, ChainOf DEF TypeInv
  <2>3. path \in Text
    BY <1>1, <2>1, <2>2 DEF Texts, TypedTexts, ConfigTyped
  <2> HIDE DEF path
  <2>4. request'.host \in Text /\ request'.path \in Text
    BY <1>1, <2>1, <2>3, BrowseText, SMTT(20) DEF Typed
  <2> QED
    BY <1>1, <1>2, <1>7, <2>1, <2>4, Zenon DEF TypeInv, Phases, AskLogout
<1> QED
  BY <1>4, <1>5, <1>6, <1>7

LEMMA TypeRestart ==
  ASSUME TypeInv, Restart
  PROVE  TypeInv'
<1>1. world' = world /\ chains' = chains /\ config' = config /\ world \in Worlds /\ chain' = chain
  BY SameWorld, ChainNext DEF Restart, TypeInv
<1>2. SessionsOK(sessions, Len(chains))'
  BY <1>1, SMTT(20) DEF SessionsOK, Restart
<1>3. restarts' \in 0..MaxRestarts
  BY IdAssumption DEF Restart, TypeInv
<1>4. phase = "idp" => \E i \in 1..Len(chains), id \in Ids : message' = AuthMessage(i, id)'
  <2> SUFFICES ASSUME phase = "idp" PROVE \E i \in 1..Len(chains), id \in Ids : message' = AuthMessage(i, id)'
    OBVIOUS
  <2>1. PICK i \in 1..Len(chains), id \in Ids : message = AuthMessage(i, id)
    BY DEF TypeInv
  <2>2. AuthMessage(i, id)' = AuthMessage(i, id)
    BY <1>1 DEF AuthMessage, AuthParams, StateOf
  <2> QED
    BY <2>1, <2>2 DEF Restart
<1>5. phase' # "token" /\ phase' = (IF phase = "token" THEN "failed" ELSE phase)
  BY SMTT(20) DEF Restart
<1> QED
  BY <1>1, <1>2, <1>3, <1>4, <1>5, SMTT(20) DEF TypeInv, Phases, Restart

LEMMA TypeLogout ==
  ASSUME Texts, TypeInv, NEW i \in ChainIndex, Logout(i)
  PROVE  TypeInv'
<1>1. world' = world /\ chains' = chains /\ config' = config
  BY SameWorld DEF Logout
<1>2. SessionsOK(sessions, Len(chains))'
  <2>1. SessionsOK(Without(session(i)), Len(chains))
    BY WithoutOK DEF TypeInv
  <2> QED
    BY <1>1, <2>1, SMTT(20) DEF Logout
<1>3. \A c \in jar' : c.name \in Text /\ c.value \in Text
  <2>1. chain = i /\ world \in Worlds
    BY DEF Logout, InProcess, TypeInv
  <2>2. i \in 1..Len(chains)
    BY <2>1, ChainOf
  <2>3. "deleted" \in Word
    BY CookieAssumption
  <2>4. jar' = Keep(jar, request.host, SessionCookie(i, <<"deleted">>, {"Max-Age=0"}))
    BY DEF Logout, Deleted
  <2>5. \A c \in jar : c.name \in Text /\ c.value \in Text
    BY DEF TypeInv
  <2> QED
    BY <2>1, <2>2, <2>3, <2>4, <2>5, CookieTyped, SMTT(20)
<1> QED
  BY <1>1, <1>2, <1>3 DEF TypeInv, Phases, Logout, InProcess

LEMMA TypeRedirect ==
  ASSUME Texts, TypeInv, NEW i \in ChainIndex, RedirectToIdp(i)
  PROVE  TypeInv'
<1>1. /\ world' = world /\ request' = request /\ restarts' = restarts /\ phase = "request" /\ chain = i
      /\ chains' = chains /\ config' = config
  BY SameWorld, Zenon DEF RedirectToIdp, NeedsSession, InProcess
<1>2. /\ world \in Worlds /\ i \in 1..Len(chains) /\ logins \in 0..Len(SessionIds)
      /\ GetConfig(config) /\ request.host \in Text /\ request.path \in Text
  BY <1>1, ChainOf, Zenon DEF TypeInv
<1>3. CASE logins = Len(SessionIds)
  BY <1>1, <1>3, TypeAnswer, SMTT(20) DEF RedirectToIdp
<1>4. CASE logins # Len(SessionIds)
  <2> DEFINE id == SessionIds[logins + 1]
             url == GetRequestUrl(request)
             new == [chain |-> i, state |-> StateOf(id), url |-> url, tokens |-> FALSE]
             w == Without(session(i))
             set == SessionCookie(i, <<id>>, {})
  <2>1. /\ message' = AuthMessage(i, id) /\ sessions' = [w EXCEPT ![id] = new]
        /\ jar' = Keep(jar, request.host, set) /\ logins' = logins + 1 /\ phase' = "idp"
    BY <1>4, Zenon DEF RedirectToIdp, AuthMessage, SetCookie
  <2>2. id \in Ids /\ id \in Word /\ logins' \in 0..Len(SessionIds)
    <3>1. logins' = logins + 1 /\ logins \in 0..Len(SessionIds)
      BY <1>2, <2>1
    <3>2. id \in Ids /\ id \in Word /\ Len(SessionIds) \in Nat
      BY <1>2, <1>4, CurFacts
    <3> QED
      BY <1>4, <3>1, <3>2, SMTT(20)
  <2>3. url \in Text /\ Head(url) = "https://" /\ url # <<>>
    BY <1>2 DEF Texts, TypedTexts, UrlTyped, Typed
  <2>4. StateOf(id) \in Text
    BY <2>2, StateText
  <2>5. SessionsOK(w, Len(chains))
    BY WithoutOK, SMTT(20) DEF TypeInv
  <2>6. \A c \in jar' : c.name \in Text /\ c.value \in Text
    <3>1. \A c \in jar : c.name \in Text /\ c.value \in Text
      BY DEF TypeInv
    <3> HIDE DEF id
    <3> QED
      BY <1>2, <2>1, <2>2, <3>1, CookieTyped, Zenon
  <2> HIDE DEF url, w, id
  <2>7. /\ new \in Session /\ new.chain \in 1..Len(chains)
        /\ Head(new.url) = "https://" /\ new.url # <<>>
    <3>1. i \in Nat
      BY <1>2, ChainOf, SMTT(20)
    <3> QED
      BY <1>2, <2>3, <2>4, <3>1 DEF Session
  <2> HIDE DEF new
  <2>8. SessionsOK(sessions', Len(chains))
    BY <2>1, <2>2, <2>5, <2>7 DEF SessionsOK
  <2>9. SessionsOK(sessions, Len(chains))'
    BY <1>1, <2>8, SMTT(20)
  <2>10. \E k \in 1..Len(chains'), d \in Ids : message' = AuthMessage(k, d)'
    <3>1. PICK d \in Ids : d = id
      BY <2>2
    <3>2. AuthMessage(i, d)' = AuthMessage(i, d)
      BY <1>1 DEF AuthMessage, AuthParams, StateOf
    <3> QED
      BY <1>1, <1>2, <2>1, <3>1, <3>2
  <2> QED
    BY <1>1, <1>2, <2>1, <2>2, <2>6, <2>9, <2>10 DEF TypeInv, Phases
<1> QED
  BY <1>3, <1>4

LEMMA TypeRetrieve ==
  ASSUME Texts, TypeInv, NEW i \in ChainIndex, RetrieveToken(i)
  PROVE  TypeInv'
<1> DEFINE data == DecodeQueryData(RequestQueryString(request))
           received == FindKey(data, <<"code">>)
<1>1. /\ UNCHANGED <<world, request, jar, sessions, logins, restarts>> /\ phase = "request" /\ chain = i
      /\ chains' = chains /\ config' = config /\ chain' = chain /\ session(chain)' = session(chain)
  BY SameWorld, ChainNext, Zenon DEF RetrieveToken, NeedsSession, InProcess
<1>2. world \in Worlds /\ i \in 1..Len(chains) /\ i # 0 /\ request.path \in Text
  BY <1>1, ChainOf, IndexPositive, Zenon DEF TypeInv
<1>3. CASE phase' = "token"
  <2>1. /\ data # NULL /\ received # NULL /\ session(i) # NULL
        /\ message' = EncodeFormData(TokenParams(i, received))
    BY <1>3, Zenon DEF RetrieveToken
  <2>5. message' \in Text
    BY <1>2, <2>1 DEF Texts, TypedTexts, TokenTyped, RequestQueryString
  <2>6. SessionsOK(sessions, Len(chains))'
    BY <1>1 DEF TypeInv
  <2>7. (chain \in ChainIndex /\ session(chain) # NULL)'
    BY <1>1, <1>2, <2>1
  <2> QED
    BY <1>1, <1>3, <2>5, <2>6, <2>7, Zenon DEF TypeInv, Phases
<1>4. CASE phase' # "token"
  <2>1. phase' \in {"failed", "internal_error"} /\ message' = message
    BY <1>4, Zenon DEF RetrieveToken
  <2> QED
    BY <1>1, <2>1, TypeAnswer
<1> QED
  BY <1>3, <1>4

LEMMA TypeSave ==
  ASSUME Texts, TypeInv, NEW i \in ChainIndex, SaveTokens(i)
  PROVE  TypeInv'
<1>1. /\ UNCHANGED <<world, jar, logins, restarts>> /\ message' = NULL /\ phase = "token" /\ chain = i
      /\ chains' = chains /\ config' = config
  BY SameWorld, SMTT(20) DEF SaveTokens
<1> DEFINE s == session(i)
<1>2. s # NULL /\ s \in Ids /\ sessions[s] # NULL /\ SessionsOK(sessions, Len(chains))
  BY <1>1, SessionFacts DEF TypeInv
<1>3. CASE IdpAccepts(i, TokenAuthorization(i), FormDecode(message))
  <2>1. /\ sessions' = [sessions EXCEPT ![s].tokens = TRUE] /\ request' = Follow(sessions[s].url, jar)
        /\ phase' = "request"
    BY <1>3 DEF SaveTokens
  <2> HIDE DEF s
  <2>2. sessions[s] \in Session
    BY <1>2 DEF SessionsOK
  <2>3. sessions[s].url \in Text /\ sessions[s].url # <<>>
    BY <1>2, <2>2 DEF SessionsOK, Session
  <2>4. request'.host \in Text /\ request'.path \in Text
    BY <1>1, <2>1, <2>3 DEF Texts, TypedTexts, FollowTyped, Typed, TypeInv
  <2> DEFINE new == [sessions[s] EXCEPT !.tokens = TRUE]
  <2>5. /\ new \in Session /\ new.chain = sessions[s].chain /\ new.url = sessions[s].url
    BY <2>2, Zenon DEF Session
  <2>6. sessions' = [sessions EXCEPT ![s] = new]
    BY <2>1
  <2> HIDE DEF new
  <2>7. SessionsOK(sessions', Len(chains))
    BY <1>2, <2>5, <2>6 DEF SessionsOK
  <2>8. SessionsOK(sessions, Len(chains))'
    BY <1>1, <2>7
  <2> QED
    BY <1>1, <2>1, <2>4, <2>8 DEF TypeInv, Phases
<1>4. CASE ~IdpAccepts(i, TokenAuthorization(i), FormDecode(message))
  <2>1. UNCHANGED <<sessions, request>> /\ phase' = "failed"
    BY <1>4 DEF SaveTokens
  <2>2. SessionsOK(sessions, Len(chains))'
    BY <1>1, <1>2, <2>1
  <2> QED
    BY <1>1, <2>1, <2>2 DEF TypeInv, Phases
<1> QED
  BY <1>3, <1>4

LEMMA TypeIdp ==
  ASSUME Texts, TypeInv, IdpRedirect
  PROVE  TypeInv'
<1> DEFINE params == FormDecode(PathQueryFragment(message).query)
           redirect == FindKey(params, <<"redirect_uri">>)
           mark == IF Find(redirect, "?") = 0 THEN <<"?">> ELSE <<>>
           state == FindKey(params, <<"state">>)
           agreed == Registered(FindKey(params, <<"client_id">>), redirect)
<1>1. /\ UNCHANGED <<world, jar, sessions, logins, restarts>> /\ message' = NULL /\ phase = "idp"
      /\ chains' = chains /\ config' = config /\ world \in Worlds /\ GetConfig(config)
  BY SameWorld, Zenon DEF IdpRedirect, TypeInv
<1>2. SessionsOK(sessions, Len(chains))'
  BY <1>1 DEF TypeInv
<1>3. PICK i \in 1..Len(chains), id \in Ids : message = AuthMessage(i, id)
  BY <1>1 DEF TypeInv
<1>4. params = ReadMessage(AuthMessage(i, id))
  BY <1>3 DEF ReadMessage
<1>5. agreed => Typed(Follow((redirect \o mark) \o IdpQuery(state), jar))
  BY <1>1, <1>4 DEF Texts, TypedTexts, AuthTyped
<1>6. \/ agreed /\ request' = Follow((redirect \o mark) \o IdpQuery(state), jar) /\ phase' = "request"
      \/ phase' = "failed" /\ request' = request
  BY SMTT(20) DEF IdpRedirect
<1>7. CASE agreed /\ request' = Follow((redirect \o mark) \o IdpQuery(state), jar) /\ phase' = "request"
  <2>1. request'.host \in Text /\ request'.path \in Text
    BY <1>5, <1>7, Zenon DEF Typed
  <2> QED
    BY <1>1, <1>2, <1>7, <2>1 DEF TypeInv, Phases
<1>8. CASE phase' = "failed" /\ request' = request
  BY <1>1, <1>2, <1>8 DEF TypeInv, Phases
<1> QED
  BY <1>6, <1>7, <1>8

LEMMA TypeStep == Texts /\ TypeInv /\ [Next]_vars => TypeInv'
<1> SUFFICES ASSUME Texts, TypeInv, [Next]_vars PROVE TypeInv'
  OBVIOUS
<1>1. ASSUME UNCHANGED vars PROVE TypeInv'
  <2>1. UNCHANGED <<world, phase, request, message, jar, sessions, logins, restarts>>
    BY <1>1 DEF vars
  <2>2. chains' = chains /\ config' = config /\ chain' = chain /\ session(chain)' = session(chain)
    BY <2>1, SameWorld, ChainNext
  <2>3. phase = "idp" => \E i \in 1..Len(chains), id \in Ids : message' = AuthMessage(i, id)'
    <3> SUFFICES ASSUME phase = "idp" PROVE \E i \in 1..Len(chains), id \in Ids : message' = AuthMessage(i, id)'
      OBVIOUS
    <3>1. PICK i \in 1..Len(chains), id \in Ids : message = AuthMessage(i, id)
      BY DEF TypeInv
    <3>2. AuthMessage(i, id)' = AuthMessage(i, id)
      BY <2>2 DEF AuthMessage, AuthParams, StateOf
    <3> QED
      BY <2>1, <3>1, <3>2
  <2>4. SessionsOK(sessions, Len(chains))'
    BY <2>1, <2>2 DEF TypeInv
  <2> QED
    BY <2>1, <2>2, <2>3, <2>4 DEF TypeInv
<1>2. CASE Boot \/ TryAgain \/ AskLogout
  BY <1>2, TypeBoot
<1>3. CASE Bypass \/ RulesThrow
  BY <1>3, TypeAnswer DEF Bypass, RulesThrow
<1>4. CASE IdpRedirect
  BY <1>4, TypeIdp
<1>5. CASE Restart
  BY <1>5, TypeRestart
<1>6. ASSUME NEW i \in ChainIndex,
             \/ InternalError(i) \/ Logout(i) \/ PassWithIdToken(i)
             \/ RedirectToIdp(i) \/ RetrieveToken(i) \/ SaveTokens(i) \/ Forward(i)
      PROVE  TypeInv'
  <2>1. CASE InternalError(i)
    BY <2>1, TypeAnswer DEF InternalError
  <2>2. CASE PassWithIdToken(i)
    BY <2>2, TypeAnswer DEF PassWithIdToken, InProcess
  <2>3. CASE Forward(i)
    <3>1. chain \in ChainIndex
      BY <2>3 DEF Forward, NeedsSession, InProcess
    <3> QED
      BY <2>3, <3>1, TypeAnswer, SMTT(20) DEF Forward, NeedsSession, InProcess
  <2> QED
    BY <1>6, <2>1, <2>2, <2>3, TypeLogout, TypeRedirect, TypeRetrieve, TypeSave
<1>7. CASE Finished
  BY <1>1, <1>7 DEF Finished
<1> QED
  BY <1>1, <1>2, <1>3, <1>4, <1>5, <1>6, <1>7, SMTT(20) DEF Next, Step

LEMMA TypesHold == Spec /\ []Texts => []TypeOK
<1>1. Init => TypeInv
  BY TypeInit
<1>2. Texts /\ TypeInv /\ [Next]_vars => TypeInv'
  BY TypeStep
<1>3. Texts /\ TypeInv => TypeOK
  BY TypeInvOK
<1> QED
  BY <1>1, <1>2, <1>3, PTL DEF Spec

-----------------------------------------------------------------------------
(***************************************************************************)
(* The phases of a login in a usable deployment.                           *)
(***************************************************************************)
Pending == logins # 0 /\ sessions[cur] # NULL /\ ~sessions[cur].tokens
Granted == logins # 0 /\ sessions[cur] # NULL /\ sessions[cur].tokens
Few     == logins <= restarts

\* Where a login that no restart has lost stands, phase by phase; once the user
\* has been sent back for as many restarts, another login may begin.
FlowInv ==
  /\ logins <= 1 + restarts
  /\ phase \in {"boot", "request", "idp", "token", "served", "failed"} => OneLogin
  /\ phase = "boot" => logins = 0
  /\ phase = "failed" => Few /\ logins # 0
  /\ phase = "request" => \/ AskedPage /\ (Few \/ Granted)
                          \/ AskedCallback /\ (Few \/ Pending)
                          \/ AskedLogout
  /\ phase = "idp" => message = AuthMessage(PageChain, cur) /\ logins # 0 /\ (Few \/ Pending)
  /\ phase = "token" => /\ AskedCallback /\ Pending
                        /\ message = EncodeFormData(TokenParams(PageChain, code))
  /\ phase = "served" => AskedPage
  /\ phase = "logged_out" => \A id \in Ids : sessions[id] = NULL

\* The cookie that named the session is gone after a logout.
CookieGone ==
  phase = "logged_out" =>
    LET pair == CookiePair(Deleted(chain).pair)
    IN pair # NULL => \A c \in jar : c.host # HostName(request.host) \/ c.name # pair[1]

LoginInv ==
  /\ TypeInv /\ CookieGone
  /\ phase \in {"boot", "rejected"} => logins = 0
  /\ Good => FlowInv

LEMMA OneLoginNext ==
  ASSUME world' = world, jar' = IF logins' = 0 THEN {} ELSE {Ours(SessionIds[logins'])},
         \A id \in Ids : sessions'[id] # NULL =>
            /\ logins' > 0 /\ id = SessionIds[logins']
            /\ sessions'[id] = [chain |-> PageChain, state |-> StateOf(id), url |-> PageUrl,
                                tokens |-> sessions'[id].tokens]
  PROVE  OneLogin'
<1>1. home' = home /\ Callback' = Callback /\ PageChain' = PageChain /\ PageUrl' = PageUrl
  BY SameWorld
<1>2. jar' = PageJar'
  BY <1>1, Zenon DEF PageJar, Ours, cur
<1>3. \A id \in Ids : (sessions[id] # NULL => logins > 0 /\ id = cur /\ sessions[id] = Login(id))'
  BY <1>1 DEF Login, cur, StateOf
<1> QED
  BY <1>2, <1>3, SMTT(20) DEF OneLogin

\* Requests of the page, the callback and the logout stay what they are.
LEMMA AskedSame ==
  ASSUME UNCHANGED <<world, request, jar, logins>>
  PROVE  (AskedPage => AskedPage') /\ (AskedCallback => AskedCallback') /\ (AskedLogout => AskedLogout')
<1>1. /\ page' = page /\ home' = home /\ CallbackHost' = CallbackHost /\ CallbackPath' = CallbackPath
      /\ \A h, p, hd, c, x : Browse(h, p, hd, c, x)' = Browse(h, p, hd, c, x)
      /\ \A id : Answer(id)' = Answer(id)
  BY SameWorld
<1>2. cur' = cur
  BY DEF cur
<1>3. AskedPage => AskedPage'
  BY <1>1 DEF AskedPage, Asked
<1>4. AskedCallback => AskedCallback'
  BY <1>1, <1>2 DEF AskedCallback, Asked, CallbackTarget
<1>5. AskedLogout => AskedLogout'
  BY <1>1 DEF AskedLogout, Asked
<1> QED
  BY <1>3, <1>4, <1>5

LEMMA AskPage ==
  ASSUME world' = world, NEW x \in BOOLEAN,
         \/ request' = Browse(page.host, page.path, page.headers, jar', x)
         \/ request' = Browse(page.host, page.path, <<>>, jar', x)
  PROVE  AskedPage'
<1>1. page' = page /\ \A h, p, hd, c, y : Browse(h, p, hd, c, y)' = Browse(h, p, hd, c, y)
  BY SameWorld
<1> QED
  BY <1>1, SMTT(20) DEF AskedPage, Asked

LEMMA MessagesSame ==
  ASSUME world' = world, logins' = logins
  PROVE  /\ AuthMessage(PageChain, cur)' = AuthMessage(PageChain, cur)
         /\ EncodeFormData(TokenParams(PageChain, code))' = EncodeFormData(TokenParams(PageChain, code))
<1>1. PageChain' = PageChain /\ chains' = chains /\ code' = code
  BY SameWorld
<1>2. cur' = cur
  BY SMTT(20) DEF cur
<1> QED
  BY <1>1, <1>2 DEF AuthMessage, AuthParams, StateOf, TokenParams

LEMMA OneLoginSame ==
  ASSUME OneLogin, UNCHANGED <<world, jar, logins>>,
         \A id \in Ids : sessions'[id] # NULL => sessions'[id] = sessions[id]
  PROVE  OneLogin'
<1>1. jar' = IF logins' = 0 THEN {} ELSE {Ours(SessionIds[logins'])}
  BY SMTT(20) DEF OneLogin, PageJar, cur
<1>2. \A id \in Ids : sessions'[id] # NULL =>
        /\ logins' > 0 /\ id = SessionIds[logins']
        /\ sessions'[id] = [chain |-> PageChain, state |-> StateOf(id), url |-> PageUrl,
                            tokens |-> sessions'[id].tokens]
  BY DEF OneLogin, Login, cur
<1> QED
  BY <1>1, <1>2, OneLoginNext

\* The facts every step starts from.
Base == Texts /\ TypeInv /\ Good /\ FlowInv

LEMMA BaseFacts ==
  ASSUME Base
  PROVE  /\ logins \in 0..Len(SessionIds) /\ logins \in Nat /\ restarts \in Nat
         /\ sessions \in [Ids -> Session \cup {NULL}]
         /\ logins <= 1 + restarts
<1>1. logins \in 0..Len(SessionIds) /\ restarts \in Nat
  BY DEF Base, TypeInv
<1>2. logins \in Nat
  BY <1>1, CurFacts, SMTT(20)
<1>3. sessions \in [Ids -> Session \cup {NULL}]
  BY DEF Base, TypeInv, SessionsOK
<1>4. logins <= 1 + restarts
  BY DEF Base, FlowInv
<1> QED
  BY <1>1, <1>2, <1>3, <1>4

LEMMA FlowStart ==
  ASSUME Base, Boot \/ TryAgain
  PROVE  FlowInv'
<1> DEFINE no == FALSE
<1>1. /\ UNCHANGED <<world, message, jar, sessions, logins, restarts>>
      /\ phase \in {"boot", "failed"} /\ phase' = "request"
  BY Zenon DEF Base, Good, Boot, TryAgain
<1>2. OneLogin /\ Few
  BY <1>1, BaseFacts DEF Base, FlowInv, Few
<1>3. request' = Browse(page.host, page.path, page.headers, jar', no)
  <2>1. Boot => jar' = {}
    BY <1>1 DEF Boot, Base, FlowInv, OneLogin, PageJar
  <2> QED
    BY <1>1, <2>1, Zenon DEF Boot, TryAgain, Base, Good
<1>4. no \in BOOLEAN
  OBVIOUS
<1> HIDE DEF no
<1>5. AskedPage'
  BY <1>1, <1>3, <1>4, AskPage
<1>6. OneLogin'
  BY <1>1, <1>2, OneLoginSame
<1>7. Few'
  BY <1>1, <1>2 DEF Few
<1> QED
  BY <1>1, <1>5, <1>6, <1>7 DEF Base, FlowInv

LEMMA FlowEnd ==
  ASSUME Base, logins' = logins, restarts' = restarts,
         phase' \in {"bypassed", "internal_error", "given_up"}
  PROVE  FlowInv'
BY Zenon DEF Base, FlowInv

\* Of a request that is for the filter of the page's chain, what it asks for.
LEMMA Kinds ==
  ASSUME Base, phase = "request", NEW i \in ChainIndex, InProcess(i)
  PROVE  /\ i = PageChain
         /\ \/ AskedPage /\ (Few \/ Granted) /\ ForHome /\ ~MatchesCallbackRequest(home, request)
               /\ request.host = page.host /\ request.path = page.path
            \/ /\ AskedCallback /\ (Few \/ Pending) /\ ForHome /\ IsCallback(i)
               /\ logins # 0 /\ RequestQueryString(request) = Answer(cur)
            \/ /\ AskedLogout /\ MatchesLogoutRequest(home, request)
               /\ session(i) = CurrentSession
<1>1. Texts /\ Good /\ OneLogin /\ logins \in 0..Len(SessionIds) /\ chain = i /\ i \notin {0, NULL}
  BY BaseFacts, IndexPositive, Zenon DEF Base, FlowInv, InProcess
<1>2. CASE AskedPage /\ (Few \/ Granted)
  <2>1. /\ ForHome /\ ~MatchesCallbackRequest(home, request)
        /\ request.host = page.host /\ request.path = page.path
    BY <1>1, <1>2, AtPage, SMTT(20)
  <2> QED
    BY <1>1, <1>2, <2>1 DEF ForHome
<1>3. CASE AskedCallback /\ (Few \/ Pending)
  <2>1. /\ ForHome /\ MatchesCallbackRequest(home, request)
        /\ logins # 0 /\ RequestQueryString(request) = Answer(cur)
    BY <1>1, <1>3, AtCallbackRequest, SMTT(20)
  <2>2. i = PageChain
    BY <1>1, <2>1 DEF ForHome
  <2>3. session_id(i) # NULL
    BY <1>1, <2>1, <2>2, CurFacts DEF ForHome
  <2>4. IsCallback(i)
    BY <2>1, <2>2, <2>3, SMTT(20) DEF IsCallback, home
  <2> QED
    BY <1>3, <2>1, <2>2, <2>4
<1>4. CASE AskedLogout
  <2>1. /\ chain \in {0, NULL, PageChain} /\ MatchesLogoutRequest(home, request)
        /\ session(PageChain) = CurrentSession
    BY <1>1, <1>4, AtLogout
  <2> QED
    BY <1>1, <1>4, <2>1
<1> QED
  BY <1>2, <1>3, <1>4, Zenon DEF Base, FlowInv

LEMMA FlowForward ==
  ASSUME Base, NEW i \in ChainIndex, Forward(i)
  PROVE  FlowInv'
<1>1. /\ UNCHANGED <<world, request, message, jar, sessions, logins, restarts>>
      /\ phase = "request" /\ phase' = "served" /\ InProcess(i)
      /\ ~MatchesLogoutRequest(chains[i], request) /\ ~IsCallback(i)
  BY Zenon DEF Forward, NeedsSession, InProcess
<1>2. AskedPage
  BY <1>1, Kinds DEF home
<1>3. AskedPage'
  BY <1>1, <1>2, AskedSame
<1>4. OneLogin'
  BY <1>1, OneLoginSame DEF Base, FlowInv
<1> QED
  BY <1>1, <1>3, <1>4 DEF Base, FlowInv

LEMMA FlowRetrieve ==
  ASSUME Base, NEW i \in ChainIndex, RetrieveToken(i)
  PROVE  FlowInv'
<1> DEFINE data == DecodeQueryData(RequestQueryString(request))
<1>1. /\ UNCHANGED <<world, request, jar, sessions, logins, restarts>>
      /\ phase = "request" /\ InProcess(i) /\ IsCallback(i)
      /\ ~MatchesLogoutRequest(chains[i], request)
  BY Zenon DEF RetrieveToken, NeedsSession, InProcess
<1>2. /\ i = PageChain /\ AskedCallback /\ (Few \/ Pending) /\ ForHome
      /\ logins # 0 /\ RequestQueryString(request) = Answer(cur)
  BY <1>1, Kinds DEF home, IsCallback
<1>3. cur \in Ids /\ cur # NULL
  BY <1>2, BaseFacts, CurFacts
<1>4. data # NULL /\ FindKey(data, <<"state">>) = StateOf(cur) /\ FindKey(data, <<"code">>) = code
  BY <1>2, <1>3 DEF Base, Texts, ReadTexts, AnswerRead
<1>5. code # NULL /\ StateOf(cur) # NULL
  BY <1>3, StateText DEF Base, Texts, ReadTexts, AnswerRead
<1>6. session(i) = CurrentSession
  BY <1>2 DEF ForHome
<1>7. OneLogin' /\ AskedCallback'
  BY <1>1, <1>2, AskedSame, OneLoginSame DEF Base, FlowInv
<1>8. cur' = cur /\ (Few' <=> Few)
  BY <1>1 DEF cur, Few
<1> HIDE DEF data
<1>9. CASE Pending
  <2>1. session(i) = cur /\ sessions[cur] # NULL /\ ~sessions[cur].tokens
    BY <1>6, <1>9 DEF Pending, CurrentSession
  <2>2. sessions[cur].state = StateOf(cur)
    <3>1. OneLogin
      BY <1>1 DEF Base, FlowInv
    <3>2. sessions[cur] = Login(cur)
      BY <1>3, <2>1, <3>1, SMTT(20) DEF OneLogin
    <3> QED
      BY <3>2 DEF Login
  <2>6. ~PostThrows(chains[i])
    BY <1>2 DEF Base, Texts, ReadTexts, HomeKnown, home
  <2>3. phase' = "token" /\ message' = EncodeFormData(TokenParams(i, code))
    BY <2>6, <1>3, <1>4, <1>5, <2>1, <2>2, Zenon DEF RetrieveToken, data
  <2>4. Pending'
    BY <1>1, <1>8, <1>9 DEF Pending
  <2>5. message' = EncodeFormData(TokenParams(PageChain, code))'
    BY <1>1, <1>2, <2>3, MessagesSame
  <2> QED
    BY <1>1, <1>7, <2>3, <2>4, <2>5, SMTT(20) DEF Base, FlowInv
<1>10. CASE ~Pending
  <2>1. session(i) = NULL \/ sessions[session(i)].tokens
    BY <1>2, <1>6, <1>10, SMTT(20) DEF Pending, CurrentSession
  <2>2. phase' = "failed"
    BY <2>1 DEF RetrieveToken
  <2> QED
    BY <1>1, <1>2, <1>7, <1>8, <1>10, <2>2, SMTT(20) DEF Base, FlowInv
<1> QED
  BY <1>9, <1>10

LEMMA FlowSave ==
  ASSUME Base, NEW i \in ChainIndex, SaveTokens(i)
  PROVE  FlowInv'
<1> DEFINE yes == TRUE
<1>1. /\ UNCHANGED <<world, jar, logins, restarts>> /\ phase = "token" /\ chain = i
      /\ IdpAccepts(i, TokenAuthorization(i), FormDecode(message)) =>
           /\ sessions' = [sessions EXCEPT ![session(i)].tokens = TRUE]
           /\ request' = Follow(sessions[session(i)].url, jar)
           /\ phase' = "request"
  BY DEF SaveTokens
<1>2. /\ Texts /\ Good /\ OneLogin /\ AskedCallback /\ Pending
      /\ message = EncodeFormData(TokenParams(PageChain, code)) /\ logins \in 0..Len(SessionIds)
  BY <1>1, BaseFacts DEF Base, FlowInv
<1>3. ForHome
  BY <1>2, AtCallbackRequest
<1>4. i = PageChain /\ session(i) = cur /\ logins # 0
  BY <1>1, <1>2, <1>3 DEF ForHome, CurrentSession, Pending
<1>5. IdpAccepts(i, TokenAuthorization(i), FormDecode(message))
  BY <1>2, <1>4, SMTT(20) DEF Texts, ReadTexts, TokenRead
<1>6. cur \in Ids /\ sessions[cur] # NULL /\ sessions[cur] = Login(cur)
  BY <1>2, CurFacts, SMTT(20) DEF OneLogin, Pending
<1>7. sessions[cur].url = PageUrl
  BY <1>6 DEF Login
<1>8. request' = Follow(PageUrl, jar) /\ sessions' = [sessions EXCEPT ![cur].tokens = TRUE] /\ phase' = "request"
  BY <1>1, <1>4, <1>5, <1>7
<1>9. Follow(PageUrl, jar) = Browse(page.host, page.path, <<>>, jar, yes)
  BY <1>2, Zenon DEF Texts, ReadTexts, UrlsFollowed
<1>10. yes \in BOOLEAN
  OBVIOUS
<1> HIDE DEF yes
<1>11. AskedPage'
  BY <1>1, <1>8, <1>9, <1>10, AskPage
<1> DEFINE new == [chain |-> PageChain, state |-> StateOf(cur), url |-> PageUrl, tokens |-> TRUE]
<1>12. sessions'[cur] = new /\ \A id \in Ids : id # cur => sessions'[id] = sessions[id]
  <2>1. [sessions[cur] EXCEPT !.tokens = TRUE] = new
    <3> DEFINE a == PageChain
               b == StateOf(cur)
               c == PageUrl
               d == sessions[cur].tokens
               e == TRUE
               old == [chain |-> a, state |-> b, url |-> c, tokens |-> d]
    <3>1. sessions[cur] = old
      BY <1>6 DEF Login
    <3> HIDE DEF a, b, c, d, e
    <3>2. [old EXCEPT !.tokens = e] = [chain |-> a, state |-> b, url |-> c, tokens |-> e]
      OBVIOUS
    <3> QED
      BY <3>1, <3>2 DEF a, b, c, e
  <2>2. sessions' = [sessions EXCEPT ![cur] = [sessions[cur] EXCEPT !.tokens = TRUE]]
    BY <1>8
  <2>3. sessions' = [sessions EXCEPT ![cur] = new]
    BY <2>1, <2>2, Zenon
  <2> HIDE DEF new
  <2> QED
    BY <1>6, <2>3, BaseFacts
<1>13. new = [chain |-> PageChain, state |-> StateOf(cur), url |-> PageUrl, tokens |-> new.tokens] /\ new.tokens
  OBVIOUS
<1>14. new # NULL
  <2>1. new \in Session
    <3>1. PageChain \in Nat
      BY <1>2, HomeIndex
    <3>2. StateOf(cur) \in Text
      BY <1>6, StateText
    <3>3. PageUrl \in Text
      <4>1. sessions[cur] \in Session
        BY <1>6, BaseFacts
      <4> QED
        BY <1>7, <4>1 DEF Session
    <3> QED
      BY <3>1, <3>2, <3>3 DEF Session
  <2> QED
    BY <2>1, SessionAssumption, Zenon
<1> HIDE DEF new
<1>15. OneLogin'
  <2>1. jar' = IF logins' = 0 THEN {} ELSE {Ours(SessionIds[logins'])}
    BY <1>1, <1>2 DEF OneLogin, PageJar, cur
  <2>2. \A id \in Ids : sessions'[id] # NULL => id = cur
    BY <1>2, <1>12 DEF OneLogin
  <2>3. \A id \in Ids : sessions'[id] # NULL =>
          /\ logins' > 0 /\ id = SessionIds[logins']
          /\ sessions'[id] = [chain |-> PageChain, state |-> StateOf(id), url |-> PageUrl,
                              tokens |-> sessions'[id].tokens]
    BY <1>1, <1>2, <1>4, <1>12, <1>13, <2>2 DEF cur
  <2> QED
    BY <1>1, <2>1, <2>3, OneLoginNext
<1>16. Granted'
  <2>1. cur' = cur
    BY <1>1 DEF cur
  <2> QED
    BY <1>1, <1>4, <1>12, <1>13, <1>14, <2>1 DEF Granted
<1> QED
  BY <1>1, <1>8, <1>11, <1>15, <1>16 DEF Base, FlowInv

\* Without its session the store is empty.
LEMMA NoneLeft ==
  ASSUME Base, OneLogin, NEW id \in Ids
  PROVE  Without(CurrentSession)[id] = NULL /\ Without(CurrentSession) \in [Ids -> Session \cup {NULL}]
<1>1. sessions \in [Ids -> Session \cup {NULL}] /\ logins \in 0..Len(SessionIds)
  BY BaseFacts
<1>2. CASE logins # 0 /\ sessions[cur] # NULL
  <2>1. cur \in Ids /\ cur # NULL
    BY <1>1, <1>2, CurFacts
  <2>2. Without(CurrentSession) = [sessions EXCEPT ![cur] = NULL]
    BY <1>2, <2>1 DEF Without, CurrentSession
  <2> HIDE DEF cur
  <2> QED
    BY <1>1, <2>1, <2>2 DEF OneLogin
<1>3. CASE ~(logins # 0 /\ sessions[cur] # NULL)
  <2>1. Without(CurrentSession) = sessions
    BY <1>3 DEF Without, CurrentSession
  <2>2. logins > 0 => logins # 0
    BY <1>1
  <2> QED
    BY <1>1, <1>3, <2>1, <2>2 DEF OneLogin
<1> QED
  BY <1>2, <1>3

LEMMA FlowRedirect ==
  ASSUME Base, NEW i \in ChainIndex, RedirectToIdp(i)
  PROVE  FlowInv'
<1>1. /\ world' = world /\ restarts' = restarts /\ phase = "request" /\ InProcess(i)
      /\ ~MatchesLogoutRequest(chains[i], request) /\ ~IsCallback(i) /\ ~HasTokens(i)
  <2>1. IsCallback(i) => session_id(i) # NULL
    BY DEF IsCallback
  <2>2. session_id(i) = NULL => ~HasTokens(i)
    <3>1. \A id \in Ids : session_id(i) = <<id>> => session_id(i) # NULL
      BY IdAssumption, WordText DEF Ids, Range
    <3> QED
      BY <3>1, SMTT(20) DEF HasTokens, session
  <2> QED
    BY <2>1, <2>2 DEF RedirectToIdp, NeedsSession, InProcess
<1>2. /\ i = PageChain /\ AskedPage /\ (Few \/ Granted) /\ ForHome
      /\ request.host = page.host /\ request.path = page.path
  BY <1>1, Kinds, Zenon DEF home
<1>3. Few
  <2>1. session(i) = CurrentSession
    BY <1>2 DEF ForHome
  <2>2. logins # 0 => cur # NULL
    BY BaseFacts, CurFacts
  <2> QED
    BY <1>1, <1>2, <2>1, <2>2, Zenon DEF HasTokens, Granted, CurrentSession
<1>4. CASE logins = Len(SessionIds)
  <2>1. phase' = "given_up" /\ logins' = logins
    BY <1>4 DEF RedirectToIdp
  <2> QED
    BY <1>1, <2>1, FlowEnd
<1>5. CASE logins # Len(SessionIds)
  <2>1. PICK d \in Ids : d = SessionIds[logins + 1]
    BY <1>5, BaseFacts, CurFacts
  <2> DEFINE new == [chain |-> i, state |-> StateOf(d), url |-> GetRequestUrl(request), tokens |-> FALSE]
  <2>2. /\ message' = (chains[i].authorization_uri \o <<"?">>) \o EncodeQueryData(AuthParams(i, d))
        /\ sessions' = [Without(session(i)) EXCEPT ![d] = new]
        /\ jar' = SetCookie(i, <<d>>, {})
        /\ logins' = logins + 1
        /\ phase' = "idp"
    BY <1>5, <2>1, Zenon DEF RedirectToIdp
  <2>3. OneLogin /\ Good /\ Texts
    BY <1>1, SMTT(20) DEF Base, FlowInv
  <2>4. logins' # 0 /\ cur' = d /\ logins' > 0 /\ d = SessionIds[logins'] /\ logins' <= 1 + restarts'
    BY <1>1, <1>3, <2>1, <2>2, BaseFacts DEF cur, Few
  <2>5. jar' = {Ours(d)}
    <3>1. jar = PageJar /\ HomeHost(request.host)
      BY <1>2, <2>3, Zenon DEF OneLogin, Texts, ReadTexts, HostsShared
    <3>2. d \in Word
      BY <2>1, IdAssumption DEF Ids, Range
    <3> QED
      BY <1>2, <2>2, <2>3, <3>1, <3>2, KeepOurs, Zenon DEF SetCookie, home
  <2>6. message' = AuthMessage(PageChain, cur)'
    <3>1. PageChain' = PageChain /\ chains' = chains
      BY <1>1, SameWorld
    <3>2. AuthMessage(PageChain, cur)' = AuthMessage(PageChain, d)
      BY <2>4, <3>1 DEF AuthMessage, AuthParams, StateOf
    <3> QED
      BY <1>2, <2>2, <3>2, Zenon DEF AuthMessage
  <2>7. /\ new = [chain |-> PageChain, state |-> StateOf(d), url |-> PageUrl, tokens |-> new.tokens]
        /\ ~new.tokens
    BY <1>2 DEF GetRequestUrl, PageUrl
  <2>8. new # NULL
    <3>1. new \in Session
      <4>1. PageChain \in Nat
        BY <2>3, HomeIndex
      <4>2. StateOf(d) \in Text
        BY StateText
      <4>3. GetRequestUrl(request) \in Text
        BY <1>1, Zenon DEF Base, TypeInv, Texts, TypedTexts, UrlTyped, Typed
      <4> QED
        BY <1>2, <4>1, <4>2, <4>3 DEF Session
    <3> QED
      BY <3>1, SessionAssumption, Zenon
  <2> HIDE DEF new
  <2>9. sessions'[d] = new /\ \A id \in Ids : id # d => sessions'[id] = NULL
    <3>1. session(i) = CurrentSession
      BY <1>2 DEF ForHome
    <3>2. \A id \in Ids : Without(session(i))[id] = NULL /\ Without(session(i)) \in [Ids -> Session \cup {NULL}]
      BY <2>3, <3>1, NoneLeft, SMTT(20)
    <3> QED
      BY <2>2, <3>2, SMTT(20)
  <2>10. OneLogin'
    BY <1>1, <2>4, <2>5, <2>7, <2>9, OneLoginNext, SMTT(20)
  <2>11. Pending'
    BY <2>4, <2>7, <2>8, <2>9, SMTT(20) DEF Pending
  <2> QED
    BY <2>2, <2>4, <2>6, <2>10, <2>11, Zenon DEF FlowInv
<1> QED
  BY <1>4, <1>5, SMTT(20)

LEMMA FlowIdp ==
  ASSUME Base, IdpRedirect
  PROVE  FlowInv'
<1> DEFINE params == FormDecode(PathQueryFragment(message).query)
           redirect == FindKey(params, <<"redirect_uri">>)
           state == FindKey(params, <<"state">>)
           mark == IF Find(redirect, "?") = 0 THEN <<"?">> ELSE <<>>
           client == FindKey(params, <<"client_id">>)
           yes == TRUE
<1>1. UNCHANGED <<world, jar, sessions, logins, restarts>> /\ phase = "idp"
  BY DEF IdpRedirect
<1>2. /\ Texts /\ Good /\ OneLogin /\ logins \in 0..Len(SessionIds) /\ logins # 0 /\ logins > 0
      /\ message = AuthMessage(PageChain, cur) /\ (Few \/ Pending)
  BY <1>1, BaseFacts DEF Base, FlowInv
<1>3. PICK d \in Ids : d = cur
  BY <1>2, CurFacts
<1>4. params = ReadMessage(AuthMessage(PageChain, d))
  BY <1>2, <1>3 DEF ReadMessage
<1>5. Registered(client, redirect) /\ Find(redirect, "#") = 0
        => request' = Follow((redirect \o mark) \o IdpQuery(state), jar) /\ phase' = "request"
  BY DEF IdpRedirect
<1> HIDE DEF params
<1>6. client = home.client_id /\ state = StateOf(d) /\ redirect = home.callback_uri
  BY <1>2, <1>4, Zenon DEF Texts, ReadTexts, AuthRead
<1>7. Find(redirect, "#") = 0 /\ mark = <<"?">>
  BY <1>2, <1>6, Zenon DEF Texts, ReadTexts, AuthRead
<1>8. Registered(client, redirect)
  BY <1>2, <1>6, SMTT(20) DEF Registered, home, Texts, ReadTexts, HomeKnown
<1>9. request' = Follow((home.callback_uri \o <<"?">>) \o Answer(d), jar) /\ phase' = "request"
  BY <1>5, <1>6, <1>7, <1>8 DEF Answer
<1> DEFINE path == CallbackTarget(Answer(d))
<1>11. request' = Browse(CallbackHost, path, <<>>, jar, yes)
  BY <1>2, <1>9 DEF Texts, ReadTexts, UrlsFollowed
<1>12. AskedCallback'
  <2> DEFINE none == <<>>
  <2>1. yes \in BOOLEAN
    OBVIOUS
  <2>2. request' = Browse(CallbackHost, path, none, jar', yes)
    BY <1>1, <1>11
  <2>3. /\ CallbackHost' = CallbackHost /\ CallbackPath' = CallbackPath
        /\ \A id : Answer(id)' = Answer(id)
    BY <1>1, SameWorld
  <2>4. cur' = d
    BY <1>1, <1>3 DEF cur
  <2>5. CallbackTarget(Answer(cur))' = path
    BY <2>3, <2>4 DEF CallbackTarget
  <2> HIDE DEF yes, path, none
  <2>6. \A h, p, hd, c, x : Browse(h, p, hd, c, x)' = Browse(h, p, hd, c, x)
    BY <1>1, SameWorld
  <2>7. request' = Browse(CallbackHost, CallbackTarget(Answer(cur)), none, jar, yes)'
    BY <2>2, <2>3, <2>5, <2>6, Zenon DEF none
  <2>8. logins' > 0
    BY <1>1, <1>2
  <2> QED
    BY <2>1, <2>7, <2>8 DEF AskedCallback, Asked, none
<1>13. OneLogin'
  BY <1>1, <1>2, OneLoginSame
<1>14. (Few \/ Pending)'
  BY <1>1, <1>2 DEF Few, Pending, cur
<1> QED
  BY <1>1, <1>9, <1>12, <1>13, <1>14 DEF Base, FlowInv

LEMMA FlowLogout ==
  ASSUME Base, NEW i \in ChainIndex, Logout(i)
  PROVE  FlowInv'
<1>1. /\ logins' = logins /\ restarts' = restarts /\ world' = world
      /\ phase = "request" /\ phase' = "logged_out" /\ InProcess(i)
      /\ MatchesLogoutRequest(chains[i], request) /\ sessions' = Without(session(i))
  BY DEF Logout, InProcess
<1>2. session(i) = CurrentSession
  BY <1>1, Kinds, Zenon DEF home, ForHome
<1>3. \A id \in Ids : sessions'[id] = NULL
  BY <1>1, <1>2, NoneLeft DEF Base, FlowInv
<1> QED
  BY <1>1, <1>3, Zenon DEF Base, FlowInv

LEMMA FlowAskLogout ==
  ASSUME Base, AskLogout
  PROVE  FlowInv'
<1> DEFINE no == FALSE
<1>1. /\ UNCHANGED <<world, message, jar, sessions, logins, restarts>>
      /\ phase = "served" /\ phase' = "request" /\ chains[chain].logout_path # NULL
      /\ request' = Browse(page.host, chains[chain].logout_path, page.headers, jar, no)
  BY DEF AskLogout
<1>2. no \in BOOLEAN
  OBVIOUS
<1> HIDE DEF no
<1>3. Texts /\ OneLogin /\ AskedPage /\ Good /\ logins \in 0..Len(SessionIds)
  BY <1>1, BaseFacts, Zenon DEF Base, FlowInv
<1>4. chain = PageChain
  BY <1>3, AtPage DEF ForHome
<1>5. home.logout_path # NULL /\ request' = Browse(page.host, home.logout_path, page.headers, jar', no)
  BY <1>1, <1>4 DEF home
<1>6. AskedLogout'
  <2>1. home' = home /\ page' = page /\ \A h, p, hd, c, x : Browse(h, p, hd, c, x)' = Browse(h, p, hd, c, x)
    BY <1>1, SameWorld, SMTT(20)
  <2> QED
    BY <1>2, <1>5, <2>1, SMTT(20) DEF AskedLogout, Asked
<1>7. OneLogin'
  BY <1>1, <1>3, OneLoginSame
<1> QED
  BY <1>1, <1>6, <1>7, Zenon DEF Base, FlowInv

LEMMA FlowRestart ==
  ASSUME Base, Restart
  PROVE  FlowInv'
<1>1. /\ UNCHANGED <<world, request, jar, logins>>
      /\ phase \in {"request", "idp", "token", "served"}
      /\ sessions' = [id \in Ids |-> NULL] /\ restarts' = restarts + 1
      /\ phase' = IF phase = "token" THEN "failed" ELSE phase
      /\ message' = IF phase = "token" THEN NULL ELSE message
  BY DEF Restart
<1>2. Few' /\ logins' <= 1 + restarts'
  BY <1>1, BaseFacts, SMTT(20) DEF Few
<1>3. OneLogin'
  <2>1. \A id \in Ids : sessions'[id] = NULL
    BY <1>1
  <2> QED
    BY <1>1, <2>1, OneLoginSame DEF Base, FlowInv
<1>4. (AskedPage => AskedPage') /\ (AskedCallback => AskedCallback') /\ (AskedLogout => AskedLogout')
  BY <1>1, AskedSame, SMTT(20)
<1>5. CASE phase = "request"
  BY <1>1, <1>2, <1>3, <1>4, <1>5, SMTT(20) DEF Base, FlowInv
<1>6. CASE phase = "idp"
  <2>1. AuthMessage(PageChain, cur)' = AuthMessage(PageChain, cur)
    BY <1>1, MessagesSame, SMTT(20)
  <2> QED
    BY <1>1, <1>2, <1>3, <1>6, <2>1 DEF Base, FlowInv
<1>7. CASE phase = "token"
  BY <1>1, <1>2, <1>3, <1>7, SMTT(20) DEF Base, FlowInv, Pending
<1>8. CASE phase = "served"
  BY <1>1, <1>2, <1>3, <1>4, <1>8, SMTT(20) DEF Base, FlowInv
<1> QED
  BY <1>1, <1>5, <1>6, <1>7, <1>8

LEMMA FlowSame ==
  ASSUME Base, UNCHANGED vars
  PROVE  FlowInv'
<1>1. UNCHANGED <<world, phase, request, message, jar, sessions, logins, restarts>>
  BY DEF vars
<1>2. (AskedPage => AskedPage') /\ (AskedCallback => AskedCallback') /\ (AskedLogout => AskedLogout')
  BY <1>1, AskedSame
<1>3. OneLogin => OneLogin'
  BY <1>1, OneLoginSame
<1>4. /\ AuthMessage(PageChain, cur)' = AuthMessage(PageChain, cur)
      /\ EncodeFormData(TokenParams(PageChain, code))' = EncodeFormData(TokenParams(PageChain, code))
  BY <1>1, MessagesSame
<1>5. (Pending => Pending') /\ (Granted => Granted') /\ (Few => Few')
  BY <1>1 DEF Pending, Granted, Few, cur
<1> HIDE DEF Pending, Granted, Few
<1> QED
  BY <1>1, <1>2, <1>3, <1>4, <1>5 DEF Base, FlowInv

LEMMA FlowStep ==
  ASSUME Base, [Next]_vars
  PROVE  FlowInv'
<1>1. CASE Boot
  BY <1>1, FlowStart
<1>2. CASE Bypass \/ RulesThrow
  BY <1>2, FlowEnd DEF Bypass, RulesThrow
<1>3. CASE IdpRedirect
  BY <1>3, FlowIdp
<1>4. CASE TryAgain
  BY <1>4, FlowStart
<1>5. ASSUME NEW i \in ChainIndex,
             \/ InternalError(i) \/ Logout(i) \/ PassWithIdToken(i)
             \/ RedirectToIdp(i) \/ RetrieveToken(i) \/ SaveTokens(i) \/ Forward(i)
      PROVE  FlowInv'
  <2>1. CASE InternalError(i)
    BY <2>1, FlowEnd DEF InternalError
  <2>2. CASE Logout(i)
    BY <2>2, FlowLogout
  <2>3. CASE PassWithIdToken(i)
    BY <2>3, FlowEnd DEF PassWithIdToken
  <2>4. CASE RedirectToIdp(i)
    BY <2>4, FlowRedirect
  <2>5. CASE RetrieveToken(i)
    BY <2>5, FlowRetrieve
  <2>6. CASE SaveTokens(i)
    BY <2>6, FlowSave
  <2>7. CASE Forward(i)
    BY <2>7, FlowForward
  <2> QED
    BY <1>5, <2>1, <2>2, <2>3, <2>4, <2>5, <2>6, <2>7
<1>6. CASE AskLogout
  BY <1>6, FlowAskLogout
<1>7. CASE Restart
  BY <1>7, FlowRestart
<1>8. CASE UNCHANGED vars
  BY <1>8, FlowSame
<1> QED
  BY <1>1, <1>2, <1>3, <1>4, <1>5, <1>6, <1>7, <1>8 DEF Next, Step, Finished

-----------------------------------------------------------------------------
(***************************************************************************)
(* The invariant of the flow, and what follows from it.                    *)
(***************************************************************************)
LEMMA CookieGoneSame ==
  ASSUME UNCHANGED <<world, request>>
  PROVE  /\ CookiePair(Deleted(chain).pair)' = CookiePair(Deleted(chain).pair)
         /\ HostName(request.host)' = HostName(request.host)
<1>1. chain' = chain /\ chains' = chains
  BY ChainNext, SameWorld
<1>2. Deleted(chain)' = Deleted(chain)
  BY <1>1, Zenon DEF Deleted, SessionCookie, GetCookieName, EncodeSetCookie, GetCookieDirectives
<1> QED
  BY <1>2, Zenon DEF HostName, CookiePair

LEMMA LogoutForgets ==
  ASSUME NEW i \in ChainIndex, Logout(i)
  PROVE  CookieGone'
<1> DEFINE set == Deleted(i)
           pair == CookiePair(set.pair)
<1>1. jar' = Keep(jar, request.host, set) /\ world' = world /\ request' = request /\ chain = i
  BY Zenon DEF Logout, InProcess
<1>2. {"Secure", "Path=/", "Max-Age=0"} \subseteq set.directives
  <2>1. set.directives = GetCookieDirectives({"Max-Age=0"})
    BY SMTT(20) DEF Deleted, SessionCookie, EncodeSetCookie
  <2> QED
    BY <2>1, Directives
<1>3. CookiePair(Deleted(chain).pair)' = pair /\ HostName(request.host)' = HostName(request.host)
  BY <1>1, CookieGoneSame
<1> HIDE DEF set
<1>4. pair # NULL => \A c \in jar' : c.host # HostName(request.host) \/ c.name # pair[1]
  BY <1>1, <1>2, Zenon DEF Keep
<1> HIDE DEF pair
<1> QED
  BY <1>3, <1>4 DEF CookieGone

\* A step that does not log out comes to no such phase, or changes nothing.
LEMMA StepKinds ==
  ASSUME [Next]_vars
  PROVE  /\ world' = world
         /\ \/ phase' # "logged_out"
            \/ \E i \in ChainIndex : Logout(i)
            \/ UNCHANGED vars
         /\ phase' \in {"boot", "rejected"} => logins' = logins /\ phase \in {"boot", "rejected"}
<1>1. CASE Boot \/ Bypass \/ RulesThrow \/ IdpRedirect \/ TryAgain \/ AskLogout \/ Restart
  BY <1>1, Zenon DEF Boot, Bypass, RulesThrow, IdpRedirect, TryAgain, AskLogout, Restart
<1>2. ASSUME NEW i \in ChainIndex, InternalError(i) \/ PassWithIdToken(i) \/ RedirectToIdp(i)
      PROVE  world' = world /\ phase' \notin {"logged_out", "boot", "rejected"}
  BY <1>2, Zenon DEF InternalError, PassWithIdToken, RedirectToIdp
<1>3. ASSUME NEW i \in ChainIndex, RetrieveToken(i) \/ SaveTokens(i) \/ Forward(i)
      PROVE  world' = world /\ phase' \notin {"logged_out", "boot", "rejected"}
  BY <1>3 DEF RetrieveToken, SaveTokens, Forward
<1>4. ASSUME NEW i \in ChainIndex, Logout(i)
      PROVE  world' = world /\ phase' \notin {"boot", "rejected"}
  BY <1>4 DEF Logout
<1>5. CASE UNCHANGED vars
  BY <1>5, SMTT(20) DEF vars
<1> QED
  BY <1>1, <1>2, <1>3, <1>4, <1>5 DEF Next, Step, Finished

LEMMA LoginInit == Init => LoginInv
<1> SUFFICES ASSUME Init PROVE LoginInv
  OBVIOUS
<1>1. TypeInv
  BY TypeInit
<1>2. phase = "boot" /\ logins = 0 /\ restarts = 0 /\ jar = {} /\ sessions = [id \in Ids |-> NULL]
  BY DEF Init
<1>3. OneLogin
  BY <1>2 DEF OneLogin, PageJar
<1>4. FlowInv
  BY <1>2, <1>3 DEF FlowInv
<1> QED
  BY <1>1, <1>2, <1>4 DEF LoginInv, CookieGone

LEMMA LoginStep == Texts /\ LoginInv /\ [Next]_vars => LoginInv'
<1> SUFFICES ASSUME Texts, LoginInv, [Next]_vars PROVE LoginInv'
  OBVIOUS
<1>1. TypeInv'
  BY TypeStep DEF LoginInv
<1>2. CookieGone'
  <2>1. CASE phase' # "logged_out"
    BY <2>1 DEF CookieGone
  <2>2. CASE \E i \in ChainIndex : Logout(i)
    BY <2>2, LogoutForgets, SMTT(20)
  <2>3. CASE UNCHANGED vars
    <3>1. UNCHANGED <<world, phase, request, jar>>
      BY <2>3 DEF vars
    <3>2. /\ CookiePair(Deleted(chain).pair)' = CookiePair(Deleted(chain).pair)
          /\ HostName(request.host)' = HostName(request.host)
      BY <3>1, CookieGoneSame
    <3> QED
      BY <3>1, <3>2 DEF LoginInv, CookieGone
  <2> QED
    BY <2>1, <2>2, <2>3, StepKinds
<1>3. (phase \in {"boot", "rejected"} => logins = 0)'
  BY StepKinds DEF LoginInv
<1>4. Good' => FlowInv'
  <2>1. Good' => Good
    BY StepKinds, SameWorld
  <2>2. Good => FlowInv'
    BY FlowStep DEF LoginInv, Base
  <2> QED
    BY <2>1, <2>2
<1> QED
  BY <1>1, <1>2, <1>3, <1>4 DEF LoginInv

LEMMA LoginInvariant == Spec /\ []Texts => []LoginInv
<1>1. Init => LoginInv
  BY LoginInit
<1>2. Texts /\ LoginInv /\ [Next]_vars => LoginInv'
  BY LoginStep
<1> QED
  BY <1>1, <1>2, PTL DEF Spec

LEMMA UsableFlow ==
  ASSUME Texts, LoginInv, Usable, Stable, phase \notin {"boot", "rejected"}
  PROVE  Base
BY DEF LoginInv, TypeInv, Good, Base

LEMMA NoLoop == Spec /\ []Texts => []NoLoginLoop
<1>1. Texts /\ LoginInv => NoLoginLoop
  <2> SUFFICES ASSUME Texts, LoginInv, Usable, Stable
               PROVE  ~(logins > 1 + restarts) /\ (phase = "served" => ServedAsAsked)
    BY DEF NoLoginLoop
  <2>1. CASE phase \in {"boot", "rejected"}
    <3>1. logins = 0 /\ restarts \in 0..MaxRestarts
      BY <2>1 DEF LoginInv, TypeInv
    <3>2. restarts \in Nat
      BY <3>1, IdAssumption
    <3> QED
      BY <2>1, <3>1, <3>2, SMTT(20)
  <2>2. CASE phase \notin {"boot", "rejected"}
    <3>1. Base
      BY <2>2, UsableFlow
    <3>2. ~(logins > 1 + restarts)
      BY <3>1, BaseFacts, SMTT(20)
    <3>3. phase = "served" => ServedAsAsked
      <4> SUFFICES ASSUME phase = "served" PROVE ServedAsAsked
        OBVIOUS
      <4>1. Texts /\ Good /\ OneLogin /\ AskedPage /\ logins \in 0..Len(SessionIds)
        BY <3>1, BaseFacts DEF Base, FlowInv
      <4>2. ForHome /\ request.host = page.host /\ request.path = page.path
        BY <4>1, AtPage
      <4> QED
        BY <4>2 DEF ServedAsAsked, ForHome
    <3> QED
      BY <3>2, <3>3
  <2> QED
    BY <2>1, <2>2
<1> QED
  BY <1>1, LoginInvariant, PTL

LEMMA FailsAfterRestart == Spec /\ []Texts => []FailsOnlyAfterRestart
<1>1. Texts /\ LoginInv => FailsOnlyAfterRestart
  <2> SUFFICES ASSUME Texts, LoginInv, Usable, Stable, phase = "failed"
               PROVE  restarts # 0
    BY DEF FailsOnlyAfterRestart
  <2>1. Base
    BY UsableFlow, SMTT(20)
  <2>2. logins <= restarts /\ logins # 0 /\ logins \in Nat /\ restarts \in Nat
    BY <2>1, BaseFacts DEF Base, FlowInv, Few
  <2> QED
    BY <2>2
<1> QED
  BY <1>1, LoginInvariant, PTL

LEMMA LogoutCompletes == Spec /\ []Texts => []LogoutComplete
<1>1. Texts /\ LoginInv => LogoutComplete
  <2> SUFFICES ASSUME Texts, LoginInv, phase = "logged_out"
               PROVE  Usable /\ Stable => \A id \in Ids : sessions[id] # NULL => ~sessions[id].tokens
    BY DEF LogoutComplete, LoginInv, CookieGone
  <2>2. ASSUME Usable, Stable
        PROVE  \A id \in Ids : sessions[id] = NULL
    <3>1. Base
      BY <2>2, UsableFlow
    <3> QED
      BY <3>1 DEF Base, FlowInv
  <2> QED
    BY <2>2, SMTT(20)
<1> QED
  BY <1>1, LoginInvariant, PTL

=============================================================================
