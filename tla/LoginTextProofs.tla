----------------------------- MODULE LoginTextProofs -----------------------------
(***************************************************************************)
(* Proofs about the texts of a login, step by step: the parameters of the  *)
(* requests to the IdP, where a browser goes, which cookies the service    *)
(* finds in its requests; and the page and the callback of a usable        *)
(* deployment.                                                             *)
(***************************************************************************)
EXTENDS LoginTexts, HttpProofs, FiniteSetTheorems

-----------------------------------------------------------------------------
(***************************************************************************)
(* The parameters of the authorization request and of the token request.   *)
(***************************************************************************)
\* The chain of a request is one of the list, or 0, or the rules throw.
LEMMA ChainListed ==
  ASSUME NEW w \in Worlds, NEW r
  PROVE  /\ Len(w.config.chains) \in Nat
         /\ ChainFor(w.config, r) \in 0..Len(w.config.chains) \cup {NULL}
<1> DEFINE cs == w.config.chains
           I == {i \in 1..Len(cs) : Matches(cs[i], r)}
<1>1. Len(cs) \in Nat
  <2>1. cs \in Seq(Range(cs))
    BY WorldsAssumption
  <2> HIDE DEF cs
  <2> QED
    BY <2>1, LenProperties
<1>2. ChainFor(w.config, r) \in {0, First(I), NULL}
  BY DEF ChainFor
<1>3. I \in SUBSET (Nat \ {0}) /\ I \subseteq 1..Len(cs)
  OBVIOUS
<1> HIDE DEF cs, I
<1>4. First(I) \in Nat /\ (First(I) # 0 => First(I) \in I)
  BY <1>3, FirstIndex
<1>5. ChainFor(w.config, r) \in 0..Len(cs) \cup {NULL}
  BY <1>1, <1>2, <1>3, <1>4
<1> QED
  BY <1>1, <1>5 DEF cs

\* A loop over tests that end with "match", "none" or "throws".
LEMMA LoopOutcome ==
  ASSUME NEW outcomes, Len(outcomes) \in Nat
  PROVE  Loop(outcomes) # "none" => \E k \in 1..Len(outcomes) : Loop(outcomes) = outcomes[k]
<1> DEFINE I == {k \in 1..Len(outcomes) : outcomes[k] # "none"}
<1>1. I \in SUBSET (Nat \ {0})
  OBVIOUS
<1>2. First(I) # 0 => First(I) \in I
  BY <1>1, FirstIndex
<1>3. Loop(outcomes) = IF First(I) = 0 THEN "none" ELSE outcomes[First(I)]
  BY DEF Loop
<1> QED
  BY <1>2, <1>3, Zenon

\* A list of path matches throws when one of them is a malformed expression.
LEMMA MatchesThrow ==
  ASSUME NEW path, NEW list, list \in Seq(Range(list)),
         Loop([k \in 1..Len(list) |-> MatchString(path, list[k])]) \notin {"match", "none"}
  PROVE  \E match \in Range(list) : match.type = "regex" /\ match.value = NULL
<1> DEFINE outcomes == [k \in 1..Len(list) |-> MatchString(path, list[k])]
<1>1. Len(list) \in Nat /\ DOMAIN list = 1..Len(list)
  BY LenProperties
<1>2. Len(outcomes) = Len(list) /\ Len(outcomes) \in Nat
  BY <1>1
<1>3. Loop(outcomes) \notin {"match", "none"}
  OBVIOUS
<1>4. PICK k \in 1..Len(list) : Loop(outcomes) = outcomes[k]
  BY <1>2, <1>3, LoopOutcome, Zenon
<1>5. MatchString(path, list[k]) \notin {"match", "none"}
  BY <1>3, <1>4, Zenon
<1>6. list[k].type = "regex" /\ list[k].value = NULL
  BY <1>5, Zenon DEF MatchString
<1> QED
  BY <1>1, <1>6 DEF Range

LEMMA RuleThrows ==
  ASSUME NEW path, NEW rule,
         rule.excluded_paths \in Seq(Range(rule.excluded_paths)),
         rule.included_paths \in Seq(Range(rule.included_paths)),
         matchRule(path, rule) \notin {"match", "none"}
  PROVE  \E match \in Range(rule.excluded_paths) \cup Range(rule.included_paths) :
           match.type = "regex" /\ match.value = NULL
<1> DEFINE Outcome(list) == Loop([k \in 1..Len(list) |-> MatchString(path, list[k])])
           Malformed(list) == \E match \in Range(list) : match.type = "regex" /\ match.value = NULL
           a == rule.excluded_paths
           b == rule.included_paths
           excluded == Outcome(a)
           included == Outcome(b)
<1>1. matchRule(path, rule)
        = CASE excluded = "match"  -> "none"
            [] excluded = "throws" -> "throws"
            [] excluded = "none"   -> IF b = <<>> THEN "match" ELSE included
  BY DEF matchRule, Map
<1>2. \A list : list \in Seq(Range(list)) /\ Outcome(list) \notin {"match", "none"} => Malformed(list)
  BY MatchesThrow, Zenon
<1> HIDE DEF Outcome
<1>3. excluded \notin {"match", "none"} \/ included \notin {"match", "none"}
  BY <1>1, Zenon
<1>4. Malformed(a) \/ Malformed(b)
  BY <1>2, <1>3
<1> QED
  BY <1>4, Zenon

\* The trigger rules throw when one of their regular expressions is none.
LEMMA RulesThrowMalformed ==
  ASSUME world \in Worlds, NEW r, ChainFor(config, r) = NULL
  PROVE  MalformedRule
<1> DEFINE path == RequestPath(r)
           rules == config.trigger_rules
           all == TriggerRuleMatchesPath(path, rules)
           outcomes == [k \in 1..Len(rules) |-> matchRule(path, rules[k])]
           I == {k \in 1..Len(config.chains) : Matches(config.chains[k], r)}
<1>1. /\ rules \in Seq(Range(rules))
      /\ \A rule \in Range(rules) : /\ rule.excluded_paths \in Seq(Range(rule.excluded_paths))
                                    /\ rule.included_paths \in Seq(Range(rule.included_paths))
  BY WorldsAssumption DEF config
<1>2. all \notin {"match", "none"}
  <2>1. /\ all = "match" => ChainFor(config, r) = First(I)
        /\ all = "none" => ChainFor(config, r) = 0
    BY Zenon DEF ChainFor
  <2>2. I \in SUBSET (Nat \ {0})
    OBVIOUS
  <2> HIDE DEF I, all
  <2>3. First(I) \in Nat
    BY <2>2, FirstIndex
  <2> QED
    BY <2>1, <2>3, NullAssumption
<1>3. all = IF path = <<>> \/ rules = <<>> THEN "match" ELSE Loop(outcomes)
  BY DEF TriggerRuleMatchesPath, Map
<1>4. Len(rules) \in Nat /\ DOMAIN rules = 1..Len(rules)
  BY <1>1
<1> HIDE DEF path, rules, all
<1>5. Loop(outcomes) \notin {"match", "none"} /\ Len(outcomes) = Len(rules)
  BY <1>2, <1>3, <1>4
<1>6. PICK k \in 1..Len(rules) : Loop(outcomes) = outcomes[k]
  BY <1>4, <1>5, LoopOutcome
<1>7. matchRule(path, rules[k]) \notin {"match", "none"}
  BY <1>5, <1>6
<1>8. rules[k] \in Range(rules)
  BY <1>4 DEF Range
<1>9. \E match \in Range(rules[k].excluded_paths) \cup Range(rules[k].included_paths) :
        match.type = "regex" /\ match.value = NULL
  BY <1>1, <1>7, <1>8, RuleThrows, Zenon
<1> QED
  BY <1>8, <1>9, Zenon DEF MalformedRule, rules

\* The texts of a configuration.
LEMMA ChainTexts ==
  ASSUME NEW w \in Worlds, NEW i \in 1..Len(w.config.chains)
  PROVE  LET c == w.config.chains[i]
         IN /\ c.authorization_uri \in Text /\ c.callback_uri \in Text
            /\ c.client_id \in Unencoded /\ c.client_id \in Text /\ c.client_secret \in Text
            /\ c.callback_uri = UriText(c.callback)
            /\ c.callback.host \in Word /\ c.callback.port \in Word
            /\ c.callback.path \in Unencoded /\ c.callback.path \in Text
            /\ Range(c.callback.path) \cap {"?", "#"} = {}
            /\ c.callback.path # <<>> => Head(c.callback.path) = "/"
            /\ GetCookieName(c) \in Text
            /\ c.logout_path \in Text \cup {NULL}
<1> DEFINE c == w.config.chains[i]
<1>1. ChainText(c)
  BY WorldsAssumption
<1> HIDE DEF c
<1>2. c.callback.path \in Text /\ c.client_id \in Text
  BY <1>1, UnencodedIsText DEF ChainText
<1>3. UriText(c.callback) \in Text
  <2> DEFINE u == c.callback
             front == <<u.scheme, u.host>>
             port == IF u.port = NoPort THEN <<>> ELSE <<":", u.port>>
  <2>1. /\ u.scheme \in Symbol /\ u.host \in Symbol /\ u.port \in Symbol /\ ":" \in Symbol
        /\ u.path \in Text /\ u.tail \in Text
    BY <1>1, <1>2, QuestionFacts DEF ChainText, Symbol
  <2>2. UriText(u) = ((front \o port) \o u.path) \o u.tail
    BY DEF UriText
  <2> HIDE DEF u
  <2>3. front \in Text /\ port \in Text
    BY <2>1 DEF Text
  <2> HIDE DEF front, port
  <2>4. front \o port \in Text
    BY <2>3, ConcatText
  <2>5. (front \o port) \o u.path \in Text
    BY <2>1, <2>4, ConcatText
  <2>6. ((front \o port) \o u.path) \o u.tail \in Text
    BY <2>1, <2>5, ConcatText
  <2> QED
    BY <2>2, <2>6 DEF u
<1>4. /\ c.authorization_uri \in Text /\ c.callback_uri = UriText(c.callback)
      /\ c.client_secret \in Text /\ c.callback.host \in Word /\ c.callback.port \in Word
      /\ c.callback.path \in Unencoded /\ c.client_id \in Unencoded
      /\ Range(c.callback.path) \cap {"?", "#"} = {}
      /\ c.callback.path # <<>> => Head(c.callback.path) = "/"
      /\ c.logout_path \in Text \cup {NULL}
  BY <1>1 DEF ChainText
<1>5. GetCookieName(c) \in Text
  <2> DEFINE whole == <<"__Host-authservice-session-id-cookie">>
             front == <<"__Host-">>
             back == <<"-authservice-session-id-cookie">>
             prefix == c.cookie_name_prefix
  <2>1. whole \in Text /\ front \in Text /\ back \in Text
    BY CookieAssumption DEF Text, Symbol
  <2>2. prefix \in Text
    BY <1>1 DEF ChainText
  <2>3. GetCookieName(c) = IF prefix = <<>> THEN whole ELSE (front \o prefix) \o back
    BY DEF GetCookieName
  <2> HIDE DEF whole, front, back, prefix
  <2>4. front \o prefix \in Text
    BY <2>1, <2>2, ConcatText
  <2>5. (front \o prefix) \o back \in Text
    BY <2>1, <2>4, ConcatText
  <2> QED
    BY <2>1, <2>3, <2>5
<1> QED
  BY <1>2, <1>3, <1>4, <1>5, Zenon DEF c

LEMMA NameTexts ==
  \A n \in {"response_type", "code", "scope", "openid", "email", "client_id", "state",
            "redirect_uri", "grant_type", "authorization_code"} :
    <<n>> \in Text /\ <<n>> \in Unencoded
BY NameAssumption DEF Text, Unencoded, Symbol

\* What is in AuthParams.
LEMMA AuthParamsFacts ==
  ASSUME NEW i, NEW id \in Ids, chains[i].client_id \in Text, chains[i].callback_uri \in Text
  PROVE  LET data == AuthParams(i, id)
         IN /\ data \in Seq(TextPairs) /\ data # <<>> /\ Len(data) = 5
            /\ data[1][1] = <<"response_type">> /\ data[2][1] = <<"scope">>
            /\ data[3][1] = <<"client_id">> /\ data[3][2] = chains[i].client_id
            /\ data[4][1] = <<"state">> /\ data[4][2] = StateOf(id)
            /\ data[5][1] = <<"redirect_uri">> /\ data[5][2] = chains[i].callback_uri
            /\ StateOf(id) \in Unencoded
<1> DEFINE c == chains[i]
           p1 == <<<<"response_type">>, <<"code">>>>
           p2 == <<<<"scope">>, <<"openid", Space, "email">>>>
           p3 == <<<<"client_id">>, c.client_id>>
           p4 == <<<<"state">>, StateOf(id)>>
           p5 == <<<<"redirect_uri">>, c.callback_uri>>
<1>1. StateOf(id) \in Unencoded /\ StateOf(id) \in Text
  <2>1. States[id] \in Word
    BY IdAssumption
  <2>2. StateOf(id) \in Unencoded
    BY <2>1 DEF StateOf, Unencoded
  <2> QED
    BY <2>2, UnencodedIsText
<1>2. <<"openid", Space, "email">> \in Text
  <2>1. "openid" \in Symbol /\ Space \in Symbol /\ "email" \in Symbol
    BY NameAssumption DEF Symbol, Reserved
  <2> QED
    BY <2>1 DEF Text
<1>3. c.client_id \in Text /\ c.callback_uri \in Text
  OBVIOUS
<1>4. AuthParams(i, id) = <<p1, p2, p3, p4, p5>>
  BY DEF AuthParams
<1> HIDE DEF c
<1>5. p1 \in TextPairs /\ p2 \in TextPairs /\ p3 \in TextPairs /\ p4 \in TextPairs /\ p5 \in TextPairs
  BY <1>1, <1>2, <1>3, NameTexts, MakeTextPair
<1>6. /\ p1[1] = <<"response_type">> /\ p2[1] = <<"scope">>
      /\ p3[1] = <<"client_id">> /\ p3[2] = c.client_id
      /\ p4[1] = <<"state">> /\ p4[2] = StateOf(id)
      /\ p5[1] = <<"redirect_uri">> /\ p5[2] = c.callback_uri
  OBVIOUS
<1> HIDE DEF p1, p2, p3, p4, p5
<1> DEFINE data == <<p1, p2, p3, p4, p5>>
<1>7. /\ data \in Seq(TextPairs) /\ Len(data) = 5
      /\ data[1] = p1 /\ data[2] = p2 /\ data[3] = p3 /\ data[4] = p4 /\ data[5] = p5
  BY <1>5
<1> HIDE DEF data
<1>8. data # <<>>
  <2>1. \A s : s = <<>> => Len(s) = 0
    OBVIOUS
  <2>2. Len(data) # 0
    BY <1>7
  <2> QED
    BY <2>1, <2>2, Zenon
<1> QED
  BY <1>1, <1>4, <1>6, <1>7, <1>8 DEF data, c

\* The IdP finds the client, the state and the redirect URI.
LEMMA AuthKeys ==
  ASSUME NEW i, NEW id \in Ids, chains[i].client_id \in Text, chains[i].callback_uri \in Text,
         NEW params, Reads(params, AuthParams(i, id))
  PROVE  /\ FindKey(params, <<"client_id">>) = Written(chains[i].client_id)
         /\ FindKey(params, <<"state">>) = StateOf(id)
         /\ FindKey(params, <<"redirect_uri">>) = Written(chains[i].callback_uri)
<1> DEFINE data == AuthParams(i, id)
<1>1. /\ Len(data) = 5
      /\ data[1][1] = <<"response_type">> /\ data[2][1] = <<"scope">>
      /\ data[3][1] = <<"client_id">> /\ data[3][2] = chains[i].client_id
      /\ data[4][1] = <<"state">> /\ data[4][2] = StateOf(id)
      /\ data[5][1] = <<"redirect_uri">> /\ data[5][2] = chains[i].callback_uri
      /\ StateOf(id) \in Unencoded
  BY AuthParamsFacts
<1> HIDE DEF data
<1>2. \A t \in Unencoded : Written(t) = t
  BY ReadQueryValue DEF Written
<1>3. /\ Len(params) = 5
      /\ \A k \in 1..5 : /\ params[k][2] = Written(data[k][2])
                         /\ k > 1 => params[k][1] = Written(data[k][1])
      /\ \/ params[1][1] = Written(data[1][1])
         \/ Len(params[1][1]) = 1 + Len(data[1][1])
  BY <1>1 DEF Reads, data
<1>4. /\ params[2][1] = <<"scope">> /\ params[3][1] = <<"client_id">>
      /\ params[4][1] = <<"state">> /\ params[5][1] = <<"redirect_uri">>
  BY <1>1, <1>2, <1>3, NameTexts
<1>5. params[1][1] = <<"response_type">> \/ Len(params[1][1]) = 2
  BY <1>1, <1>2, <1>3, NameTexts
<1>6. /\ params[3][2] = Written(chains[i].client_id) /\ params[4][2] = StateOf(id)
      /\ params[5][2] = Written(chains[i].callback_uri)
  BY <1>1, <1>2, <1>3
<1>7. \A a, b \in {"scope", "client_id", "state", "redirect_uri", "response_type"} :
        /\ a # b => <<a>> # <<b>>
        /\ Len(<<a>>) = 1
  OBVIOUS
<1>8. \A a \in {"client_id", "state", "redirect_uri"} : params[1][1] # <<a>>
  BY <1>5, <1>7
<1>9. FindKey(params, <<"client_id">>) = params[3][2]
  <2>1. \A j \in 1..(3 - 1) : j = 1 \/ j = 2
    OBVIOUS
  <2>2. \A j \in 1..(3 - 1) : params[j][1] # <<"client_id">>
    BY <1>4, <1>7, <1>8, <2>1
  <2> DEFINE key == <<"client_id">>
  <2>3. /\ 3 \in 1..Len(params) /\ Len(params) \in Nat /\ params[3][1] = key
        /\ \A j \in 1..(3 - 1) : params[j][1] # key
    BY <1>3, <1>4, <2>2
  <2> HIDE DEF key
  <2>4. FindKey(params, key) = params[3][2]
    BY <2>3, FindKeyFirst
  <2> QED
    BY <2>4 DEF key
<1>10. FindKey(params, <<"state">>) = params[4][2]
  <2>1. \A j \in 1..(4 - 1) : j = 1 \/ j = 2 \/ j = 3
    OBVIOUS
  <2>2. \A j \in 1..(4 - 1) : params[j][1] # <<"state">>
    BY <1>4, <1>7, <1>8, <2>1
  <2> DEFINE key == <<"state">>
  <2>3. /\ 4 \in 1..Len(params) /\ Len(params) \in Nat /\ params[4][1] = key
        /\ \A j \in 1..(4 - 1) : params[j][1] # key
    BY <1>3, <1>4, <2>2
  <2> HIDE DEF key
  <2>4. FindKey(params, key) = params[4][2]
    BY <2>3, FindKeyFirst
  <2> QED
    BY <2>4 DEF key
<1>11. FindKey(params, <<"redirect_uri">>) = params[5][2]
  <2>1. \A j \in 1..(5 - 1) : j = 1 \/ j = 2 \/ j = 3 \/ j = 4
    OBVIOUS
  <2>2. \A j \in 1..(5 - 1) : params[j][1] # <<"redirect_uri">>
    BY <1>4, <1>7, <1>8, <2>1
  <2> DEFINE key == <<"redirect_uri">>
  <2>3. /\ 5 \in 1..Len(params) /\ Len(params) \in Nat /\ params[5][1] = key
        /\ \A j \in 1..(5 - 1) : params[j][1] # key
    BY <1>3, <1>4, <2>2
  <2> HIDE DEF key
  <2>4. FindKey(params, key) = params[5][2]
    BY <2>3, FindKeyFirst
  <2> QED
    BY <2>4 DEF key
<1> QED
  BY <1>6, <1>9, <1>10, <1>11

\* The IdP reads the parameters of RedirectToIdp, or none when they come after a "#".
LEMMA AuthQuery ==
  ASSUME NEW i, NEW id \in Ids, chains[i].client_id \in Text, chains[i].callback_uri \in Text,
         chains[i].authorization_uri \in Text, AtEnd(chains[i].authorization_uri)
  PROVE  /\ AuthMessage(i, id) \in Text
         /\ Lacks(chains[i].authorization_uri, "#") => Reads(ReadMessage(AuthMessage(i, id)), AuthParams(i, id))
         /\ \/ Reads(ReadMessage(AuthMessage(i, id)), AuthParams(i, id))
            \/ PathQueryFragment(AuthMessage(i, id)).query = <<>>
<1> DEFINE data == AuthParams(i, id)
           enc == EncodeQueryData(data)
           uri == chains[i].authorization_uri
           query == PathQueryFragment((uri \o <<"?">>) \o enc).query
<1>1. data \in Seq(TextPairs) /\ data # <<>>
  BY AuthParamsFacts
<1> HIDE DEF data
<1>2. Lacks(enc, "#")
  BY <1>1, ReadQuery
<1>3. Reads(FormDecode(<<>> \o enc), data) /\ Reads(FormDecode(<<"?">> \o enc), data)
  BY <1>1, ReadQuery
<1> HIDE DEF enc
<1>4. uri \in Text /\ AtEnd(uri)
  OBVIOUS
<1> HIDE DEF uri
<1>5. /\ ~Lacks(uri, "#") => query = <<>>
      /\ Lacks(uri, "#") => query \in {<<>> \o enc, <<"?">> \o enc}
  BY <1>2, <1>4, AppendedQuery
<1>6. (uri \o <<"?">>) \o enc \in Text
  <2>1. enc \in Text /\ <<"?">> \in Text
    BY <1>2, QuestionFacts, TailCons, EmptySeq DEF Lacks, Text
  <2>2. uri \o <<"?">> \in Text
    BY <1>4, <2>1, ConcatText
  <2> QED
    BY <2>1, <2>2, ConcatText
<1> DEFINE m == (uri \o <<"?">>) \o enc
<1>7. AuthMessage(i, id) = m
  BY DEF AuthMessage, enc, data, uri
<1>8. query = PathQueryFragment(m).query
  OBVIOUS
<1> HIDE DEF m, query
<1>9. ReadMessage(m) = FormDecode(query)
  BY <1>8 DEF ReadMessage
<1>10. Lacks(uri, "#") => Reads(ReadMessage(m), data)
  BY <1>3, <1>5, <1>9, Zenon
<1>11. Reads(ReadMessage(m), data) \/ PathQueryFragment(m).query = <<>>
  BY <1>5, <1>8, <1>10
<1> QED
  BY <1>6, <1>7, <1>10, <1>11 DEF uri, data, m

LEMMA TokenParamsFacts ==
  ASSUME NEW i, NEW received
  PROVE  LET data == TokenParams(i, received)
         IN /\ Len(data) = 3 /\ data # <<>>
            /\ data[1] = <<<<"code">>, received>>
            /\ data[2] = <<<<"redirect_uri">>, chains[i].callback_uri>>
            /\ data[3] = <<<<"grant_type">>, <<"authorization_code">>>>
            /\ \A S : {data[1], data[2], data[3]} \subseteq S => data \in Seq(S)
<1> DEFINE p1 == <<<<"code">>, received>>
           p2 == <<<<"redirect_uri">>, chains[i].callback_uri>>
           p3 == <<<<"grant_type">>, <<"authorization_code">>>>
           data == <<p1, p2, p3>>
<1>1. TokenParams(i, received) = data
  BY DEF TokenParams
<1> HIDE DEF p1, p2, p3
<1>2. Len(data) = 3 /\ data[1] = p1 /\ data[2] = p2 /\ data[3] = p3
  OBVIOUS
<1>3. ASSUME NEW S, {data[1], data[2], data[3]} \subseteq S
      PROVE  data \in Seq(S)
  <2>1. p1 \in S /\ p2 \in S /\ p3 \in S
    BY <1>2, <1>3
  <2> QED
    BY <2>1
<1> HIDE DEF data
<1>4. data # <<>>
  <2>1. Len(<<>>) = 0
    OBVIOUS
  <2> QED
    BY <1>2, <2>1
<1> QED
  BY <1>1, <1>2, <1>3, <1>4 DEF p1, p2, p3

LEMMA TokenText ==
  ASSUME NEW i, chains[i].callback_uri \in Text, NEW received \in Text
  PROVE  EncodeFormData(TokenParams(i, received)) \in Text
<1> DEFINE data == TokenParams(i, received)
<1>1. /\ data # <<>>
      /\ data[1] = <<<<"code">>, received>>
      /\ data[2] = <<<<"redirect_uri">>, chains[i].callback_uri>>
      /\ data[3] = <<<<"grant_type">>, <<"authorization_code">>>>
      /\ {data[1], data[2], data[3]} \subseteq TextPairs => data \in Seq(TextPairs)
  BY TokenParamsFacts
<1> HIDE DEF data
<1>2. data[1] \in TextPairs /\ data[2] \in TextPairs /\ data[3] \in TextPairs
  BY <1>1, NameTexts, MakeTextPair
<1>3. data \in Seq(TextPairs)
  BY <1>1, <1>2
<1> QED
  BY <1>1, <1>3, ReadForm DEF data

-----------------------------------------------------------------------------
(***************************************************************************)
(* Hosts, and where the browser goes.                                      *)
(***************************************************************************)
LEMMA HostPortFacts ==
  ASSUME NEW h \in Word, NEW p \in Word
  PROVE  /\ HostPort(h, p) \in Text /\ Len(HostPort(h, p)) = 3
         /\ HostPort(h, p)[1] = h /\ HostPort(h, p)[2] = ":" /\ HostPort(h, p)[3] = p
<1>1. h \in Symbol /\ p \in Symbol /\ ":" \in Symbol
  BY WordFacts, QuestionFacts, Zenon
<1> QED
  BY <1>1 DEF Text, HostPort

LEMMA HostPortConcat ==
  ASSUME NEW h \in Word, NEW p \in Word
  PROVE  HostPort(h, p) = (<<h>> \o <<":">>) \o <<p>>
<1> DEFINE hp == <<h, ":", p>>
           cc == (<<h>> \o <<":">>) \o <<p>>
<1>1. h \in Symbol /\ p \in Symbol /\ ":" \in Symbol
  BY WordFacts, QuestionFacts, Zenon
<1>2. /\ hp \in Text /\ Len(hp) = 3 /\ hp[1] = h /\ hp[2] = ":" /\ hp[3] = p
  BY <1>1 DEF Text
<1>3. /\ cc \in Text /\ Len(cc) = 3 /\ cc[1] = h /\ cc[2] = ":" /\ cc[3] = p
  BY <1>1 DEF Text
<1> HIDE DEF hp, cc
<1>4. \A i \in 1..3 : hp[i] = cc[i]
  <2>1. \A i \in 1..3 : i = 1 \/ i = 2 \/ i = 3
    OBVIOUS
  <2> QED
    BY <1>2, <1>3, <2>1
<1>5. hp = cc
  BY <1>2, <1>3, <1>4, SeqEqual DEF Text
<1> QED
  BY <1>5 DEF HostPort, hp, cc

LEMMA HostNames ==
  ASSUME NEW h \in Word, NEW p \in Word
  PROVE  HostName(<<h>>) = <<h>> /\ HostName(HostPort(h, p)) = <<h>>
<1>1. /\ <<h>> \in Text /\ <<p>> \in Text /\ ":" \in Symbol
      /\ \A j \in 1..Len(<<h>>) : <<h>>[j] # ":"
      /\ \A j \in 1..Len(<<p>>) : <<p>>[j] # ":"
  BY WordFacts, QuestionFacts
<1>2. Find(<<h>>, ":") = 0
  BY <1>1, FindNone
<1>3. Split(<<h>>, ":") = << <<h>> >>
  BY <1>1, <1>2, SplitUnfold, Zenon
<1> DEFINE a == <<h>>
           b == <<p>>
<1>4. Split(HostPort(h, p), ":") = <<a, b>>
  <2>1. HostPort(h, p) = (a \o <<":">>) \o b
    BY HostPortConcat
  <2>2. /\ a \in Text /\ b \in Text
        /\ \A j \in 1..Len(a) : a[j] # ":"
        /\ \A j \in 1..Len(b) : b[j] # ":"
    BY <1>1
  <2> HIDE DEF a, b
  <2>3. Split((a \o <<":">>) \o b, ":") = <<a, b>>
    BY <1>1, <2>2, SplitPair
  <2> QED
    BY <2>1, <2>3, Zenon
<1> HIDE DEF a, b
<1>5. <<a>>[1] = a /\ <<a, b>>[1] = a
  OBVIOUS
<1> QED
  BY <1>3, <1>4, <1>5 DEF HostName, a, b

LEMMA DefaultPort ==
  ASSUME NEW h \in Word, NEW p \in Word
  PROVE  /\ ~EndsWith(<<h>>, <<":", "443">>)
         /\ EndsWith(HostPort(h, p), <<":", "443">>) <=> p = "443"
<1> DEFINE t == HostPort(h, p)
           s == <<":", "443">>
<1>1. Len(s) = 2 /\ s[1] = ":" /\ s[2] = "443" /\ Len(<<h>>) = 1
  OBVIOUS
<1>2. t \in Text /\ Len(t) = 3 /\ t[2] = ":" /\ t[3] = p
  BY HostPortFacts
<1>3. ~EndsWith(<<h>>, s)
  BY <1>1 DEF EndsWith
<1> DEFINE u == SubSeq(t, 2, 3)
<1>4. EndsWith(t, s) <=> u = s
  <2> HIDE DEF t, s
  <2>1. Len(t) - Len(s) + 1 = 2 /\ Len(s) <= Len(t)
    BY <1>1, <1>2
  <2> QED
    BY <1>2, <2>1, Zenon DEF EndsWith
<1>5. u \in Text /\ Len(u) = 2 /\ u[1] = ":" /\ u[2] = p
  <2> HIDE DEF t
  <2> QED
    BY <1>2 DEF Text
<1>6. p = "443" => u = s
  <2>1. s \in Seq(Symbol \cup {"443"}) /\ u \in Seq(Symbol \cup {"443"})
    <3>1. ":" \in Symbol
      BY QuestionFacts
    <3>2. s \in Seq(Symbol \cup {"443"})
      BY <3>1
    <3> HIDE DEF u
    <3>3. u \in Seq(Symbol \cup {"443"})
      BY <1>5, SeqMonotonic DEF Text
    <3> QED
      BY <3>2, <3>3
  <2> HIDE DEF u, s
  <2>2. \A i \in 1..2 : i = 1 \/ i = 2
    OBVIOUS
  <2> QED
    BY <1>1, <1>5, <2>1, <2>2, SeqEqual
<1>7. u = s => p = "443"
  <2> HIDE DEF u, s
  <2> QED
    BY <1>1, <1>5
<1> QED
  BY <1>3, <1>4, <1>6, <1>7

LEMMA Authorities ==
  ASSUME NEW h \in Word, NEW p \in Word
  PROVE  IsAuthority(<<h>>) /\ IsAuthority(HostPort(h, p))
<1> DEFINE t == HostPort(h, p)
<1>1. t \in Text /\ Len(t) = 3 /\ t[1] = h /\ t[2] = ":" /\ t[3] = p
  BY HostPortFacts
<1> HIDE DEF t
<1>2. \A i \in 1..3 : i = 1 \/ i = 2 \/ i = 3
  OBVIOUS
<1>3. ASSUME NEW c \in {"/", "?", "#"} PROVE Lacks(<<h>>, c) /\ Lacks(t, c)
  <2>1. h # c /\ p # c /\ ":" # c
    BY WordFacts, Zenon
  <2>2. Lacks(<<h>>, c)
    BY <2>1, WordFacts, LacksOne
  <2>3. Lacks(t, c)
    BY <1>1, <1>2, <2>1 DEF Lacks
  <2> QED
    BY <2>2, <2>3
<1>4. <<h>> # <<>> /\ \A s : s = <<>> => Len(s) = 0
  OBVIOUS
<1>5. t # <<>>
  <2>1. Len(t) # 0
    BY <1>1
  <2> QED
    BY <1>4, <2>1, Zenon
<1> QED
  BY <1>3, <1>4, <1>5 DEF IsAuthority, t

\* Where the browser goes.
LEMMA FollowUrl ==
  ASSUME NEW s \in Symbol, NEW a, IsAuthority(a), NEW t, Lacks(t, "#"), t # <<>>,
         t[1] \in {"/", "?"}, NEW cookies
  PROVE  Follow((<<s>> \o a) \o t, cookies) =
           Browse(IF EndsWith(a, <<":", "443">>) THEN HostName(a) ELSE a,
                  IF t[1] = "/" THEN t ELSE <<"/">> \o t, <<>>, cookies, TRUE)
<1> DEFINE url == (<<s>> \o a) \o t
           rest == a \o t
<1>1. a \in Text /\ t \in Text /\ <<"/">> \in Text /\ <<s>> \in Text
  BY QuestionFacts DEF IsAuthority, Lacks, Text
<1>2. rest \in Text /\ Tail(url) = rest
  <2>1. url = <<s>> \o (a \o t)
    BY <1>1, TextAssoc
  <2>2. a \o t \in Text
    BY <1>1, ConcatText
  <2> QED
    BY <2>1, <2>2, TailCons
<1>3. Lacks(rest, "#")
  BY LacksConcat DEF IsAuthority
<1>4. Split(rest, "#") = <<rest>>
  BY <1>2, <1>3, FindNone, SplitUnfold, Zenon DEF Lacks
<1>5. Split(Tail(url), "#")[1] = rest
  <2> HIDE DEF rest, url
  <2>1. <<rest>>[1] = rest
    OBVIOUS
  <2> QED
    BY <1>2, <1>4, <2>1, Zenon
<1>6. FindFirstOf(rest \o <<"/">>, {"/", "?"}) = Len(a) + 1
  <2> DEFINE tt == t \o <<"/">>
  <2>1. rest \o <<"/">> = a \o tt
    BY <1>1, TextAssoc
  <2>2. Len(t) \in Nat /\ 1 \in 1..Len(t)
    BY <1>1 DEF Text
  <2>3. tt \in Text /\ tt[1] = t[1] /\ Len(tt) = Len(t) + 1
    <3>1. Len(<<"/">>) = 1
      OBVIOUS
    <3> QED
      BY <1>1, <2>2, <3>1, ConcatText
  <2> HIDE DEF tt
  <2>4. tt # <<>>
    <3>1. Len(<<>>) = 0
      OBVIOUS
    <3> QED
      BY <2>2, <2>3, <3>1
  <2>5. \A j \in 1..Len(a) : a[j] \notin {"/", "?"}
    BY DEF IsAuthority, Lacks
  <2>6. FindFirstOf(a \o tt, {"/", "?"}) = Len(a) + 1
    BY <1>1, <2>3, <2>4, <2>5, FindFirstOfConcat
  <2> QED
    BY <2>1, <2>6, Zenon
<1>7. SubSeq(rest, 1, Len(a)) = a /\ SubSeq(rest, Len(a) + 1, Len(rest)) = t
  BY <1>1, ConcatText
<1>8. (Len(a) + 1) - 1 = Len(a)
  BY <1>1 DEF Text
<1>9. StartsWith(t, <<"/">>) <=> t[1] = "/"
  BY <1>1, StartsWithSlash
<1> HIDE DEF rest, url
<1>10. Follow(url, cookies) =
         Browse(IF EndsWith(a, <<":", "443">>) THEN HostName(a) ELSE a,
                IF StartsWith(t, <<"/">>) THEN t ELSE <<"/">> \o t, <<>>, cookies, TRUE)
  BY <1>5, <1>6, <1>7, <1>8, Zenon DEF Follow
<1> QED
  BY <1>9, <1>10, Zenon DEF url

LEMMA UrlText ==
  ASSUME NEW r, r.host \in Text, r.path \in Text
  PROVE  LET url == GetRequestUrl(r)
         IN url \in Text /\ Head(url) = "https://" /\ url # <<>>
<1> DEFINE hp == r.host \o r.path
           s == <<"https://">>
<1>1. "https://" \in Symbol /\ s \in Text
  BY DEF Symbol, Reserved, Text
<1>2. hp \in Text
  BY ConcatText
<1>3. GetRequestUrl(r) = s \o hp
  BY <1>1, TextAssoc, Zenon DEF GetRequestUrl
<1> HIDE DEF hp
<1>4. s \o hp \in Text /\ s \o hp # <<>> /\ Head(s \o hp) = "https://"
  BY <1>1, <1>2, TailCons
<1> QED
  BY <1>3, <1>4

-----------------------------------------------------------------------------
(***************************************************************************)
(* The requests of the browser, and the session cookie among its cookies.  *)
(***************************************************************************)
LEMMA InOrderFacts ==
  /\ InSomeOrder({}) = <<>>
  /\ \A t : InSomeOrder({t}) = <<t>>
<1>1. InSomeOrder({}) = <<>>
  <2>1. Cardinality({}) = 0
    BY FS_EmptySet
  <2>2. \A seq \in [1..0 -> {}] : seq = <<>>
    OBVIOUS
  <2>3. <<>> \in [1..0 -> {}] /\ Range(<<>>) = {}
    BY DEF Range
  <2>4. \E seq \in [1..0 -> {}] : Range(seq) = {}
    BY <2>3, Zenon
  <2> QED
    BY <2>1, <2>2, <2>4 DEF InSomeOrder
<1>2. ASSUME NEW t PROVE InSomeOrder({t}) = <<t>>
  <2>1. Cardinality({t}) = 1
    BY FS_Singleton
  <2>2. \A seq \in [1..1 -> {t}] : seq = <<t>>
    <3> SUFFICES ASSUME NEW seq \in [1..1 -> {t}] PROVE seq = <<t>>
      OBVIOUS
    <3> DEFINE u == <<t>>
    <3>1. u \in Seq({t}) /\ Len(u) = 1 /\ u[1] = t
      OBVIOUS
    <3>2. seq \in Seq({t}) /\ Len(seq) = 1
      BY FunctionIsSeq, Zenon
    <3>3. \A j \in 1..1 : seq[j] = t /\ j = 1
      OBVIOUS
    <3> HIDE DEF u
    <3>4. seq = u
      BY <3>1, <3>2, <3>3, SeqEqual
    <3> QED
      BY <3>4 DEF u
  <2>3. \E seq \in [1..1 -> {t}] : Range(seq) = {t}
    <3> DEFINE f == [j \in 1..1 |-> t]
    <3>1. f \in [1..1 -> {t}] /\ Range(f) = {t}
      BY DEF Range
    <3> QED
      BY <3>1
  <2>4. InSomeOrder({t}) = CHOOSE seq \in [1..1 -> {t}] : Range(seq) = {t}
    BY <2>1, Zenon DEF InSomeOrder
  <2> QED
    BY <2>2, <2>3, <2>4
<1> QED
  BY <1>1, <1>2

CookieTexts(host, cookies, cross_site) ==
  others \o InSomeOrder({(c.name \o <<"=">>) \o c.value : c \in Sent(cookies, host, cross_site)})

LEMMA BrowseFacts ==
  ASSUME NEW host, NEW path, NEW headers, NEW cookies, NEW cross_site,
         DOMAIN headers \cap {":authority", "cookie"} = {}
  PROVE  LET r == Browse(host, path, headers, cookies, cross_site)
             texts == CookieTexts(host, cookies, cross_site)
         IN /\ r.host = host /\ r.path = path
            /\ ":authority" \in DOMAIN r.headers /\ r.headers[":authority"] = host
            /\ DOMAIN r.headers \subseteq DOMAIN headers \cup {":authority", "cookie"}
            /\ "cookie" \in DOMAIN r.headers <=> texts # <<>>
            /\ texts # <<>> => r.headers["cookie"] = Join(texts, CookieSeparator)
            /\ \A n \in DOMAIN headers : n \in DOMAIN r.headers /\ r.headers[n] = headers[n]
<1> DEFINE texts == CookieTexts(host, cookies, cross_site)
           names == {":authority"} \cup (IF texts = <<>> THEN {} ELSE {"cookie"})
           hs == [name \in DOMAIN headers \cup names |->
                     CASE name \in DOMAIN headers -> headers[name]
                       [] name = ":authority"     -> host
                       [] OTHER                   -> Join(texts, CookieSeparator)]
<1>1. Browse(host, path, headers, cookies, cross_site) =
        [host |-> host, path |-> path, headers |-> hs]
  BY DEF Browse, CookieTexts
<1> HIDE DEF texts
<1>2. DOMAIN hs = DOMAIN headers \cup names
  OBVIOUS
<1>3. /\ ":authority" \in names /\ ("cookie" \in names <=> texts # <<>>)
      /\ names \subseteq {":authority", "cookie"}
  OBVIOUS
<1>4. hs[":authority"] = host
  BY <1>3
<1>5. texts # <<>> => hs["cookie"] = Join(texts, CookieSeparator)
  BY <1>3
<1>6. \A n \in DOMAIN headers : hs[n] = headers[n]
  OBVIOUS
<1> HIDE DEF hs, names
<1> DEFINE r == Browse(host, path, headers, cookies, cross_site)
<1> HIDE DEF r
<1>7. r.host = host /\ r.path = path /\ r.headers = hs
  BY <1>1 DEF r
<1>8. /\ ":authority" \in DOMAIN hs /\ ("cookie" \in DOMAIN hs <=> texts # <<>>)
      /\ DOMAIN hs \subseteq DOMAIN headers \cup {":authority", "cookie"}
      /\ \A n \in DOMAIN headers : n \in DOMAIN hs
  BY <1>2, <1>3, Zenon
<1> QED
  BY <1>4, <1>5, <1>6, <1>7, <1>8 DEF texts, r

\* No other cookie has the name of a session cookie.
LEMMA OtherCookies ==
  ASSUME world \in Worlds, CookiesUsable, NEW i \in 1..Len(chains)
  PROVE  /\ others \in Seq(Text)
         /\ \A k \in 1..Len(others) :
              IsCookie(others[k]) /\ NameValue(others[k])[1] # GetCookieName(chains[i])
<1> DEFINE n == GetCookieName(chains[i])
           eq == <<"=">>
<1>1. /\ others \in Seq(Text)
      /\ \A k \in 1..Len(others) : /\ CookieSeparator \notin Range(others[k])
                                   /\ ~StartsWith(others[k], n \o eq)
  BY WorldsAssumption DEF others, chains, config
<1>2. n \in Text /\ eq \in Text /\ Len(eq) = 1 /\ eq[1] = "="
  <2>1. n \in Text
    BY ChainTexts DEF chains, config
  <2> QED
    BY <2>1, SeparatorFacts DEF Text
<1> HIDE DEF n, eq
<1>3. ASSUME NEW k \in 1..Len(others)
      PROVE  IsCookie(others[k]) /\ NameValue(others[k])[1] # n
  <2> DEFINE t == others[k]
             e == Find(t, "=")
  <2>1. t \in Text /\ CookieSeparator \notin Range(t) /\ ~StartsWith(t, n \o eq) /\ "=" \in Range(t)
    BY <1>1 DEF CookiesUsable
  <2> HIDE DEF t
  <2>2. DOMAIN t = 1..Len(t) /\ Len(t) \in Nat
    BY <2>1 DEF Text
  <2>3. PICK j \in 1..Len(t) : t[j] = "="
    BY <2>1, <2>2 DEF Range
  <2>4. e \in 1..Len(t) /\ t[e] = "="
    BY <2>1, <2>2, <2>3, FindFirst
  <2>5. IsCookie(t)
    BY <2>1, <2>2, <2>4 DEF IsCookie, Lacks, Range
  <2>6. ASSUME SubSeq(t, 1, e - 1) = n
        PROVE  FALSE
    <3> HIDE DEF e
    <3> DEFINE u == SubSeq(t, 1, e)
               s == n \o eq
    <3>1. e \in Nat \ {0} /\ e - 1 \in 0..Len(t) /\ e \in 0..Len(t) /\ 1 \in Nat \ {0}
      BY <2>2, <2>4
    <3>2. Len(n) = e - 1 /\ \A m \in 1..(e - 1) : n[m] = t[m]
      <4>1. /\ Len(SubSeq(t, 1, e - 1)) = e - 1
            /\ \A m \in 1..(e - 1) : SubSeq(t, 1, e - 1)[m] = t[m]
        BY <2>1, <3>1 DEF Text
      <4> QED
        BY <2>6, <4>1, Zenon
    <3>3. u \in Text /\ Len(u) = e /\ \A m \in 1..e : u[m] = t[m]
      BY <2>1, <3>1 DEF Text
    <3>4. /\ s \in Text /\ Len(s) = e /\ s[e] = "="
          /\ \A m \in 1..(e - 1) : s[m] = n[m]
      <4>1. /\ s \in Text /\ Len(s) = Len(n) + Len(eq)
            /\ \A m \in 1..Len(n) : s[m] = n[m]
            /\ \A m \in 1..Len(eq) : s[Len(n) + m] = eq[m]
        BY <1>2, ConcatText, Zenon
      <4> HIDE DEF s
      <4>2. 1 \in 1..Len(eq) /\ Len(n) + 1 = e
        BY <1>2, <3>1, <3>2
      <4> QED
        BY <1>2, <3>1, <3>2, <4>1, <4>2
    <3> HIDE DEF u, s
    <3>5. \A m \in 1..e : u[m] = s[m]
      <4>1. \A m \in 1..e : m \in 1..(e - 1) \/ m = e
        BY <3>1
      <4> QED
        BY <2>4, <3>2, <3>3, <3>4, <4>1
    <3>6. u = s
      BY <3>3, <3>4, <3>5, SeqEqual DEF Text
    <3>7. StartsWith(t, s)
      BY <2>4, <3>4, <3>6 DEF StartsWith, u
    <3> QED
      BY <2>1, <3>7 DEF s
  <2>7. NameValue(t)[1] = SubSeq(t, 1, e - 1)
    BY Zenon DEF NameValue
  <2> QED
    BY <2>5, <2>6, <2>7 DEF t
<1> QED
  BY <1>1, <1>3 DEF n

LEMMA WordLacks ==
  ASSUME NEW v \in Word
  PROVE  Lacks(<<v>>, CookieSeparator)
<1>1. v \in Symbol /\ v # CookieSeparator
  BY WordFacts, Zenon
<1> QED
  BY <1>1, LacksOne

\* The session id the service finds, when the browser sends no session cookie
\* and when it sends one.
LEMMA SessionCookieFound ==
  ASSUME world \in Worlds, CookiesUsable, NEW i \in 1..Len(chains), IsName(GetCookieName(chains[i])),
         NEW host, NEW path, NEW headers, NEW cookies, NEW cross_site,
         DOMAIN headers \cap {":authority", "cookie"} = {}
  PROVE  LET r == Browse(host, path, headers, cookies, cross_site)
             sent == Sent(cookies, host, cross_site)
         IN /\ sent = {} => GetSessionIdFromCookie(chains[i], r) = NULL
            /\ \A c, v : /\ sent = {c} /\ c.name = GetCookieName(chains[i])
                         /\ c.value = <<v>> /\ v \in Word
                  => GetSessionIdFromCookie(chains[i], r) = <<v>>
<1> DEFINE r == Browse(host, path, headers, cookies, cross_site)
           sent == Sent(cookies, host, cross_site)
           texts == CookieTexts(host, cookies, cross_site)
           own == InSomeOrder({(c.name \o <<"=">>) \o c.value : c \in sent})
           n == GetCookieName(chains[i])
<1>1. /\ "cookie" \in DOMAIN r.headers <=> texts # <<>>
      /\ texts # <<>> => r.headers["cookie"] = Join(texts, CookieSeparator)
  BY BrowseFacts
<1>2. texts = others \o own
  BY DEF CookieTexts
<1>3. /\ others \in Seq(Text)
      /\ \A k \in 1..Len(others) : IsCookie(others[k]) /\ NameValue(others[k])[1] # n
  BY OtherCookies
<1>4. IsName(n)
  OBVIOUS
<1>5. GetSessionIdFromCookie(chains[i], r) =
        LET found == IF "cookie" \in DOMAIN r.headers THEN DecodeCookies(r.headers["cookie"]) ELSE NULL
        IN IF found = NULL THEN NULL ELSE FindKey(found, n)
  BY DEF GetSessionIdFromCookie, CookieFromHeaders
<1> HIDE DEF r, texts, n
<1>6. ASSUME sent = {}
      PROVE  GetSessionIdFromCookie(chains[i], r) = NULL
  <2>1. own = <<>>
    <3>1. {(c.name \o <<"=">>) \o c.value : c \in sent} = {}
      BY <1>6
    <3> QED
      BY <3>1, InOrderFacts, Zenon
  <2>2. texts = others
    BY <1>2, <1>3, <2>1, ConcatEmptySeq, Zenon
  <2>3. CASE texts = <<>>
    BY <1>1, <1>5, <2>3, SMTT(20)
  <2>4. CASE texts # <<>>
    <3>1. DecodeCookies(Join(texts, CookieSeparator)) = Cuts(texts) /\ Cuts(texts) # NULL
      BY <1>3, <2>2, <2>4, DecodedCookies
    <3>2. GetSessionIdFromCookie(chains[i], r) = FindKey(Cuts(texts), n)
      BY <1>1, <1>5, <2>4, <3>1
    <3>3. Len(Cuts(texts)) = Len(texts) /\ Len(texts) \in Nat
      BY <1>3, <2>2 DEF Cuts
    <3>4. \A k \in 1..Len(texts) : Cuts(texts)[k][1] # n
      BY <1>3, <2>2 DEF Cuts
    <3> QED
      BY <3>2, <3>3, <3>4, FindKeyFirst
  <2> QED
    BY <2>3, <2>4
<1>7. ASSUME NEW c, NEW v \in Word, sent = {c}, c.name = n, c.value = <<v>>
      PROVE  GetSessionIdFromCookie(chains[i], r) = <<v>>
  <2> DEFINE t == (n \o <<"=">>) \o c.value
             m == Len(others)
  <2>1. own = <<t>>
    <3>1. {(d.name \o <<"=">>) \o d.value : d \in sent} = {t}
      BY <1>7, Zenon
    <3> QED
      BY <3>1, InOrderFacts, Zenon
  <2>2. IsCookie(t) /\ NameValue(t)[1] = n /\ NameValue(t)[2] = c.value
    <3>1. Lacks(c.value, CookieSeparator)
      BY <1>7, WordLacks
    <3>2. IsCookie(t) /\ NameValue(t) = <<n, c.value>>
      BY <1>4, <3>1, OwnCookie
    <3> QED
      BY <3>2
  <2>3. t \in Text /\ m \in Nat
    BY <1>3, <2>2 DEF IsCookie
  <2> HIDE DEF t, own
  <2>4. <<t>> \in Seq(Text) /\ Len(<<t>>) = 1 /\ <<t>>[1] = t
    BY <2>3
  <2>5. /\ texts \in Seq(Text) /\ Len(texts) = m + 1 /\ texts[m + 1] = t
        /\ \A k \in 1..m : texts[k] = others[k]
    BY <1>2, <1>3, <2>1, <2>3, <2>4, ConcatProperties
  <2>6. texts # <<>>
    <3>1. Len(<<>>) = 0
      OBVIOUS
    <3> QED
      BY <2>3, <2>5, <3>1
  <2>7. \A k \in 1..Len(texts) : k \in 1..m \/ k = m + 1
    BY <2>3, <2>5
  <2>8. \A k \in 1..Len(texts) : IsCookie(texts[k])
    BY <1>3, <2>2, <2>5, <2>7
  <2>9. DecodeCookies(Join(texts, CookieSeparator)) = Cuts(texts) /\ Cuts(texts) # NULL
    BY <2>5, <2>6, <2>8, DecodedCookies, SMTT(20)
  <2>10. GetSessionIdFromCookie(chains[i], r) = FindKey(Cuts(texts), n)
    BY <1>1, <1>5, <2>6, <2>9, SMTT(20)
  <2>11. Len(Cuts(texts)) = m + 1 /\ \A k \in 1..(m + 1) : Cuts(texts)[k] = NameValue(texts[k])
    BY <2>3, <2>5 DEF Cuts
  <2> DEFINE data == Cuts(texts)
  <2>12. Len(data) = m + 1 /\ data[m + 1][1] = n /\ data[m + 1][2] = c.value
    BY <2>2, <2>3, <2>5, <2>11
  <2>13. \A k \in 1..m : data[k][1] # n
    BY <1>3, <2>3, <2>5, <2>11
  <2> HIDE DEF data
  <2>14. m + 1 \in 1..Len(data) /\ (m + 1) - 1 = m /\ Len(data) \in Nat
    BY <2>3, <2>12
  <2>15. FindKey(data, n) = data[m + 1][2]
    <3> DEFINE l == m + 1
    <3>1. /\ l \in 1..Len(data) /\ Len(data) \in Nat /\ data[l][1] = n
          /\ \A j \in 1..(l - 1) : data[j][1] # n
      BY <2>12, <2>13, <2>14
    <3> HIDE DEF l
    <3>2. FindKey(data, n) = data[l][2]
      BY <3>1, FindKeyFirst
    <3> QED
      BY <3>2 DEF l
  <2> QED
    BY <1>7, <2>10, <2>12, <2>15 DEF data
<1> QED
  BY <1>6, <1>7 DEF r, n

\* What a browser makes of a session cookie.
LEMMA PairText ==
  ASSUME world \in Worlds, NEW i \in 1..Len(chains), NEW v \in Word, NEW max_age
  PROVE  LET pair == CookiePair(SessionCookie(i, <<v>>, max_age).pair)
         IN pair # NULL => pair[1] \in Text /\ pair[2] \in Text
<1> DEFINE n == GetCookieName(chains[i])
           eq == <<"=">>
           t == (n \o eq) \o <<v>>
           cookie == Split(t, CookieSeparator)[1]
           e == Find(cookie, "=")
<1>1. SessionCookie(i, <<v>>, max_age).pair = t
  BY DEF SessionCookie, EncodeSetCookie
<1>2. t \in Text
  <2>1. n \in Text
    BY ChainTexts DEF chains, config
  <2>2. eq \in Text /\ <<v>> \in Text
    BY SeparatorFacts, WordFacts DEF Text
  <2> HIDE DEF n, eq
  <2>3. n \o eq \in Text
    BY <2>1, <2>2, ConcatText
  <2> QED
    BY <2>2, <2>3, ConcatText
<1> HIDE DEF t
<1>3. cookie \in Text
  <2>1. Split(t, CookieSeparator) \in Seq(Text) /\ Len(Split(t, CookieSeparator)) > 0
    BY <1>2, SplitType
  <2> QED
    BY <2>1
<1>4. CookiePair(t) = IF e = 0 THEN NULL ELSE NameValue(cookie)
  BY DEF CookiePair
<1> HIDE DEF cookie
<1>5. e \in 0..Len(cookie) /\ Len(cookie) \in Nat
  BY <1>3, FindFirst DEF Text
<1>6. NameValue(cookie)[1] = SubSeq(cookie, 1, e - 1) /\ NameValue(cookie)[2] = SubSeq(cookie, e + 1, Len(cookie))
  BY Zenon DEF NameValue
<1> HIDE DEF e
<1>7. e # 0 => SubSeq(cookie, 1, e - 1) \in Text /\ SubSeq(cookie, e + 1, Len(cookie)) \in Text
  BY <1>3, <1>5, SubSeqText
<1> QED
  BY <1>1, <1>4, <1>6, <1>7, Zenon

LEMMA PairOwn ==
  ASSUME NEW n, IsName(n), NEW v \in Word
  PROVE  LET pair == CookiePair((n \o <<"=">>) \o <<v>>)
         IN pair # NULL /\ pair = <<n, <<v>>>>
<1> DEFINE t == (n \o <<"=">>) \o <<v>>
<1>1. IsCookie(t) /\ NameValue(t) = <<n, <<v>>>>
  BY WordLacks, OwnCookie
<1> HIDE DEF t
<1>2. Find(t, CookieSeparator) = 0
  BY <1>1, FindNone DEF IsCookie, Lacks
<1>3. Split(t, CookieSeparator)[1] = t
  <2>1. t \in Text
    BY <1>1 DEF IsCookie
  <2>2. Split(t, CookieSeparator) = <<t>>
    BY <1>2, <2>1, SplitUnfold, Zenon
  <2> QED
    BY <2>2
<1>4. CookiePair(t) = <<n, <<v>>>>
  BY <1>1, <1>3 DEF CookiePair, IsCookie
<1>5. <<n, <<v>>>> # NULL
  <2>1. n \in Text /\ <<v>> \in Text
    BY WordFacts DEF IsName, Lacks
  <2>2. <<n, <<v>>>> \in Seq(Text)
    BY <2>1
  <2> QED
    BY <2>2, NullAssumption, Zenon
<1> QED
  BY <1>4, <1>5 DEF t

LEMMA BrowseIs ==
  ASSUME NEW host, NEW path, NEW headers, NEW cookies, NEW cross_site,
         DOMAIN headers \cap {":authority", "cookie"} = {}
  PROVE  /\ IsBrowse(Browse(host, path, headers, cookies, cross_site), host, headers)
         /\ Browse(host, path, headers, cookies, cross_site).path = path
         /\ Browse(host, path, headers, cookies, cross_site).host = host
<1> DEFINE r == Browse(host, path, headers, cookies, cross_site)
<1>1. /\ ":authority" \in DOMAIN r.headers /\ r.headers[":authority"] = host
      /\ DOMAIN r.headers \subseteq DOMAIN headers \cup {":authority", "cookie"}
      /\ \A m \in DOMAIN headers : m \in DOMAIN r.headers /\ r.headers[m] = headers[m]
      /\ r.path = path /\ r.host = host
  BY BrowseFacts
<1> QED
  BY <1>1 DEF IsBrowse

LEMMA FollowText ==
  ASSUME NEW url \in Text, url # <<>>, NEW cookies
  PROVE  Follow(url, cookies).host \in Text /\ Follow(url, cookies).path \in Text
<1> DEFINE rest == Split(Tail(url), "#")[1]
           slash == <<"/">>
           end == FindFirstOf(rest \o slash, {"/", "?"})
           host == SubSeq(rest, 1, end - 1)
           target == SubSeq(rest, end, Len(rest))
           h == IF EndsWith(host, <<":", "443">>) THEN HostName(host) ELSE host
           p == IF StartsWith(target, slash) THEN target ELSE slash \o target
           none == <<>>
           site == TRUE
<1>1. ASSUME NEW t \in Text, NEW c
      PROVE  Split(t, c)[1] \in Text
  <2>1. Split(t, c) \in Seq(Text) /\ Len(Split(t, c)) > 0
    BY SplitType
  <2> QED
    BY <2>1
<1>2. rest \in Text
  <2>1. Tail(url) \in Text
    BY DEF Text
  <2> QED
    BY <1>1, <2>1
<1>3. slash \in Text /\ Len(slash) = 1 /\ slash[1] = "/"
  BY QuestionFacts DEF Text
<1>4. Follow(url, cookies) = Browse(h, p, none, cookies, site)
  BY DEF Follow
<1> HIDE DEF rest, slash
<1>5. Len(rest) \in Nat /\ end \in Nat \ {0} /\ end - 1 \in 0..Len(rest) /\ Len(rest) \in 0..Len(rest)
  <2> DEFINE t == rest \o slash
  <2>1. t \in Text /\ Len(rest) \in Nat /\ Len(t) = Len(rest) + 1 /\ t[Len(rest) + 1] = "/"
    <3>1. /\ t \in Text /\ Len(rest) \in Nat /\ Len(t) = Len(rest) + Len(slash)
          /\ \A i \in 1..Len(slash) : t[Len(rest) + i] = slash[i]
      BY <1>2, <1>3, ConcatText, Zenon
    <3> HIDE DEF t
    <3>2. 1 \in 1..Len(slash)
      BY <1>3
    <3> QED
      BY <1>3, <3>1, <3>2
  <2> HIDE DEF t
  <2>2. /\ FindFirstOf(t, {"/", "?"}) \in 0..Len(t)
        /\ \A j \in 1..Len(t) : t[j] \in {"/", "?"} => FindFirstOf(t, {"/", "?"}) # 0
    BY <2>1, FindFirstOfFirst
  <2>3. Len(rest) + 1 \in 1..Len(t)
    BY <2>1
  <2>4. end = FindFirstOf(t, {"/", "?"})
    BY DEF t
  <2> HIDE DEF end
  <2> QED
    BY <2>1, <2>2, <2>3, <2>4
<1> HIDE DEF end
<1>6. host \in Text /\ target \in Text
  BY <1>2, <1>5, SubSeqText
<1> HIDE DEF host, target
<1>7. h \in Text
  BY <1>1, <1>6 DEF HostName
<1>8. p \in Text
  BY <1>3, <1>6, ConcatText
<1> HIDE DEF h, p
<1>9. DOMAIN none = {}
  OBVIOUS
<1> HIDE DEF none, site
<1>10. DOMAIN none \cap {":authority", "cookie"} = {}
  BY <1>9
<1>11. Browse(h, p, none, cookies, site).path = p /\ Browse(h, p, none, cookies, site).host = h
  BY <1>10, BrowseIs
<1> QED
  BY <1>4, <1>7, <1>8, <1>11

-----------------------------------------------------------------------------
(***************************************************************************)
(* The page and the callback of a usable deployment.                       *)
(***************************************************************************)
LEMMA HomeFacts ==
  ASSUME Good
  PROVE  /\ PageChain \in 1..Len(chains) /\ Len(chains) \in Nat
         /\ home.filters = 1
         /\ home.authorization_uri \in Text /\ home.callback_uri \in Text
         /\ home.client_id \in Unencoded /\ home.client_id \in Text /\ home.client_secret \in Text
         /\ Callback.host \in Word /\ Callback.port \in Word /\ IsPort(Callback.port)
         /\ Callback.path \in Unencoded /\ Lacks(Callback.path, "?") /\ Lacks(Callback.path, "#")
         /\ Lacks(Callback.path, "+")
         /\ Callback.path = <<>> \/ Callback.path[1] = "/"
         /\ IsName(GetCookieName(home)) /\ ~PostThrows(home)
         /\ home.logout_path \in Text \cup {NULL}
         /\ home.callback_uri = UriText(Callback)
         /\ Callback.scheme = "https://" /\ Callback.tail = <<>>
<1>1. PageChain \in 1..Len(chains) /\ Len(chains) \in Nat
  <2>1. world \in Worlds /\ chains = world.config.chains /\ PageChain \in 1..Len(chains)
    BY Zenon DEF Good, Usable, ConfigUsable, chains, config
  <2> QED
    BY <2>1, ChainListed, Zenon
<1>2. /\ home.authorization_uri \in Text /\ home.callback_uri \in Text
      /\ home.client_id \in Unencoded /\ home.client_id \in Text /\ home.client_secret \in Text
      /\ home.callback_uri = UriText(Callback)
      /\ Callback.host \in Word /\ Callback.port \in Word
      /\ Callback.path \in Unencoded /\ Callback.path \in Text
      /\ Range(Callback.path) \cap {"?", "#"} = {}
      /\ Callback.path # <<>> => Head(Callback.path) = "/"
      /\ GetCookieName(home) \in Text
      /\ home.logout_path \in Text \cup {NULL}
  <2> DEFINE p == PageChain
  <2>1. p \in 1..Len(world.config.chains) /\ world \in Worlds
    BY <1>1 DEF Good, chains, config
  <2>2. Callback = world.config.chains[p].callback /\ home = world.config.chains[p]
    BY DEF Callback, home, chains, config
  <2> HIDE DEF p
  <2> QED
    BY <2>1, <2>2, ChainTexts, Zenon
<1>3. /\ Callback.scheme = "https://" /\ IsPort(Callback.port) /\ home.filters = 1
      /\ Callback.tail = <<>> /\ "+" \notin Range(Callback.path)
  BY <1>1, Zenon DEF Good, Usable, ConfigUsable, Callback, home
<1>4. DOMAIN Callback.path = 1..Len(Callback.path)
  BY <1>2 DEF Text
<1>5. Lacks(Callback.path, "?") /\ Lacks(Callback.path, "#") /\ Lacks(Callback.path, "+")
  BY <1>2, <1>3, <1>4 DEF Lacks, Range
<1>6. Callback.path = <<>> \/ Callback.path[1] = "/"
  BY <1>2 DEF Text
<1>7. IsName(GetCookieName(home))
  <2> DEFINE n == GetCookieName(home)
  <2>1. Range(n) \cap {"=", CookieSeparator} = {}
    BY Zenon DEF Good, Usable, ConfigUsable, home
  <2>2. n \in Text
    BY <1>2
  <2> HIDE DEF n
  <2>3. DOMAIN n = 1..Len(n)
    BY <2>2 DEF Text
  <2>4. IsName(n)
    BY <2>1, <2>2, <2>3 DEF IsName, Lacks, Range
  <2> QED
    BY <2>4 DEF n
<1>8. ~PostThrows(home)
  BY Zenon DEF Good, Usable, ConfigUsable, home
<1> QED
  BY <1>1, <1>2, <1>3, <1>5, <1>6, <1>7, <1>8

\* The page's host, and its path.
LEMMA PageFacts ==
  ASSUME Good
  PROVE  /\ IsAuthority(page.host) /\ ~EndsWith(page.host, <<":", "443">>)
         /\ HostName(page.host) = <<Callback.host>>
         /\ page.host \in Text /\ page.host # HostPort(Callback.host, "443")
         /\ Lacks(page.path, "#") /\ page.path # <<>> /\ page.path[1] = "/"
         /\ DOMAIN page.headers \cap {":authority", "cookie"} = {}
<1>1. PageText(page)
  BY WorldsAssumption DEF Good, page
<1>2. HostName(page.host) = <<Callback.host>>
  BY DEF Good, Usable, ConfigUsable
<1>3. /\ page.path \in Text /\ StartsWith(page.path, <<"/">>) /\ "#" \notin Range(page.path)
      /\ DOMAIN page.headers \cap {":authority", "cookie"} = {}
  BY <1>1 DEF PageText
<1>4. page.path # <<>>
  <2>1. ~StartsWith(<<>>, <<"/">>)
    BY DEF StartsWith
  <2> QED
    BY <1>3, <2>1
<1>5. page.path[1] = "/"
  BY <1>3, <1>4, StartsWithSlash
<1>6. Lacks(page.path, "#")
  <2>1. DOMAIN page.path = 1..Len(page.path)
    BY <1>3 DEF Text
  <2> QED
    BY <1>3, <2>1 DEF Lacks, Range
<1> DEFINE t == page.host
<1>7. CASE t \in Seq(Word) /\ Len(t) = 1
  <2>1. t[1] \in Word
    BY <1>7
  <2>2. t = <<t[1]>>
    <3> DEFINE h == t[1]
               s == <<h>>
    <3>1. s \in Seq(Word) /\ Len(s) = 1 /\ s[1] = t[1]
      BY <2>1
    <3> HIDE DEF s, t
    <3>2. \A i \in 1..1 : i = 1
      OBVIOUS
    <3>3. t = s
      BY <1>7, <3>1, <3>2, SeqEqual
    <3> QED
      BY <3>3 DEF s
  <2> DEFINE h == t[1]
  <2>3. t = <<h>> /\ h \in Word
    BY <2>1, <2>2
  <2> HIDE DEF h
  <2>4. IsAuthority(t) /\ ~EndsWith(t, <<":", "443">>)
    BY <2>3, Authorities, DefaultPort
  <2>5. t # HostPort(Callback.host, "443")
    <3> DEFINE other == HostPort(Callback.host, "443")
    <3>1. Len(other) = 3
      BY DEF HostPort
    <3>2. Len(t) = 1
      BY <1>7
    <3> HIDE DEF t, other
    <3>3. t # other
      BY <3>1, <3>2
    <3> QED
      BY <3>3 DEF other
  <2> QED
    BY <1>2, <1>3, <1>4, <1>5, <1>6, <2>4, <2>5 DEF IsAuthority, Lacks
<1>8. CASE /\ t \in Text /\ Len(t) = 3
           /\ t[1] \in Word /\ t[2] = ":" /\ t[3] \in Word \ {"443"}
  <2> DEFINE h == t[1]
             b == t[3]
             s == HostPort(h, b)
  <2>1. s \in Text /\ Len(s) = 3 /\ s[1] = t[1] /\ s[2] = ":" /\ s[3] = t[3]
    <3>1. h \in Word /\ b \in Word /\ h = t[1] /\ b = t[3]
      BY <1>8
    <3> HIDE DEF h, b
    <3> QED
      BY <3>1, HostPortFacts
  <2>2. t = s
    <3> HIDE DEF s, t
    <3>1. \A i \in 1..3 : i = 1 \/ i = 2 \/ i = 3
      OBVIOUS
    <3> QED
      BY <1>8, <2>1, <3>1, SeqEqual DEF Text
  <2>3. t = HostPort(h, b) /\ h \in Word /\ b \in Word /\ b # "443"
    BY <1>8, <2>2
  <2> HIDE DEF h, b
  <2>4. IsAuthority(t) /\ ~EndsWith(t, <<":", "443">>)
    <3>1. IsAuthority(HostPort(h, b))
      BY <2>3, Authorities, Zenon
    <3>2. EndsWith(HostPort(h, b), <<":", "443">>) <=> b = "443"
      BY <2>3, DefaultPort, Zenon
    <3> QED
      BY <2>3, <3>1, <3>2
  <2>5. t # HostPort(Callback.host, "443")
    <3>1. HostPort(Callback.host, "443")[3] = "443"
      BY DEF HostPort
    <3> HIDE DEF t
    <3> QED
      BY <1>8, <3>1
  <2> QED
    BY <1>2, <1>3, <1>4, <1>5, <1>6, <2>4, <2>5 DEF IsAuthority, Lacks
<1> QED
  BY <1>1, <1>7, <1>8, SMTT(20) DEF PageText

CallbackAuthority ==
  IF Callback.port = NoPort THEN <<Callback.host>> ELSE HostPort(Callback.host, Callback.port)

\* The callback URI, in the text of the configuration.
LEMMA CallbackText ==
  ASSUME Good
  PROVE  /\ IsAuthority(CallbackAuthority)
         /\ home.callback_uri = (<<"https://">> \o CallbackAuthority) \o Callback.path
         /\ home.callback_uri \in Unencoded
         /\ Lacks(home.callback_uri, "?") /\ Lacks(home.callback_uri, "#")
         /\ Lacks(home.callback_uri, "+")
<1> DEFINE h == Callback.host
           p == Callback.port
           path == Callback.path
           a == CallbackAuthority
           s == "https://"
<1>1. /\ h \in Word /\ p \in Word /\ path \in Unencoded /\ path \in Text
      /\ Lacks(path, "?") /\ Lacks(path, "#") /\ Lacks(path, "+")
      /\ home.callback_uri = UriText(Callback) /\ Callback.scheme = s /\ Callback.tail = <<>>
  BY HomeFacts DEF Lacks
<1>2. UriText(Callback) = ((<<s, h>> \o (IF p = NoPort THEN <<>> ELSE <<":", p>>)) \o path) \o <<>>
  BY <1>1 DEF UriText
<1>3. a = IF p = NoPort THEN <<h>> ELSE HostPort(h, p)
  BY DEF CallbackAuthority
<1> HIDE DEF h, p, path, a
<1>4. /\ s \in Symbol /\ s \in Reserved /\ h \in Symbol /\ p \in Symbol /\ ":" \in Symbol
      /\ <<s>> \in Text /\ <<h>> \in Text
  BY <1>1, WordFacts, QuestionFacts DEF Symbol, Reserved, Text
<1>5. <<s, h>> \o (IF p = NoPort THEN <<>> ELSE <<":", p>>) = <<s>> \o a
  <2>1. CASE p = NoPort
    <3>1. <<s, h>> = <<s>> \o <<h>>
      BY <1>4, TwoSeq
    <3>2. <<s, h>> \o <<>> = <<s, h>>
      BY <1>4
    <3> QED
      BY <1>3, <2>1, <3>1, <3>2
  <2>2. CASE p # NoPort
    <3> DEFINE x == <<s, h>> \o <<":", p>>
               y == <<s>> \o HostPort(h, p)
    <3>1. x \in Text /\ Len(x) = 4 /\ x[1] = s /\ x[2] = h /\ x[3] = ":" /\ x[4] = p
      BY <1>4 DEF Text
    <3>2. y \in Text /\ Len(y) = 4 /\ y[1] = s /\ y[2] = h /\ y[3] = ":" /\ y[4] = p
      BY <1>4 DEF Text, HostPort
    <3> HIDE DEF x, y
    <3>3. \A i \in 1..4 : i = 1 \/ i = 2 \/ i = 3 \/ i = 4
      OBVIOUS
    <3>4. x = y
      BY <3>1, <3>2, <3>3, SeqEqual DEF Text
    <3> QED
      BY <1>3, <2>2, <3>4 DEF x, y
  <2> QED
    BY <2>1, <2>2
<1>6. IsAuthority(a)
  BY <1>1, <1>3, Authorities
<1>7. a \in Text /\ Lacks(a, "?") /\ Lacks(a, "#")
  BY <1>6 DEF IsAuthority, Lacks
<1>8. <<s>> \o a \in Text
  BY <1>4, <1>7, ConcatText
<1>9. (<<s>> \o a) \o path \in Text
  BY <1>1, <1>8, ConcatText
<1>10. home.callback_uri = (<<s>> \o a) \o path
  <2>1. ((<<s>> \o a) \o path) \o <<>> = (<<s>> \o a) \o path
    BY <1>9, ConcatEmptySeq DEF Text
  <2> QED
    BY <1>1, <1>2, <1>5, <2>1, Zenon
<1>11. Lacks(a, "+") /\ a \in Unencoded
  <2>1. CASE p = NoPort
    <3>1. a = <<h>> /\ h # "+"
      BY <1>1, <1>3, <2>1, WordFacts
    <3> QED
      BY <1>1, <1>4, <3>1, LacksOne DEF Unencoded
  <2>2. CASE p # NoPort
    <3>1. a \in Text /\ Len(a) = 3 /\ a[1] = h /\ a[2] = ":" /\ a[3] = p
      <4>1. a = HostPort(h, p)
        BY <1>3, <2>2
      <4> QED
        BY <1>1, <4>1, HostPortFacts
    <3>2. h # "+" /\ p # "+" /\ ":" \in Reserved
      BY <1>1, WordFacts, Zenon DEF Reserved
    <3>3. \A i \in 1..3 : i = 1 \/ i = 2 \/ i = 3
      OBVIOUS
    <3>4. \A i \in 1..3 : a[i] # "+" /\ a[i] \in Word \cup Reserved
      BY <1>1, <3>1, <3>2, <3>3
    <3>5. a \in Unencoded
      <4>1. a \in [1..3 -> Word \cup Reserved]
        BY <3>1, <3>4 DEF Text
      <4> QED
        BY <4>1, FunctionIsSeq, Zenon DEF Unencoded
    <3> QED
      BY <3>1, <3>4, <3>5 DEF Lacks
  <2> QED
    BY <2>1, <2>2
<1>12. ASSUME NEW c \in {"?", "#", "+"} PROVE Lacks((<<s>> \o a) \o path, c)
  <2>1. Lacks(<<s>>, c)
    BY <1>4, LacksOne
  <2>2. Lacks(<<s>> \o a, c)
    BY <1>7, <1>11, <2>1, LacksConcat
  <2> QED
    BY <1>1, <2>2, LacksConcat
<1>13. (<<s>> \o a) \o path \in Unencoded
  <2>1. <<s>> \in Seq(Word \cup Reserved)
    BY <1>4
  <2>2. <<s>> \o a \in Seq(Word \cup Reserved)
    BY <1>11, <2>1, ConcatProperties, SMTT(20) DEF Unencoded
  <2> QED
    BY <1>1, <2>2, ConcatProperties DEF Unencoded
<1> QED
  BY <1>6, <1>10, <1>12, <1>13, SMTT(20) DEF a, path

\* MatchesCallbackRequest reads the callback URI as it was meant.
LEMMA CallbackUri ==
  ASSUME Good
  PROVE  LET uri == Uri(home.callback_uri)
         IN /\ uri.scheme = "https://" /\ uri.host = <<Callback.host>>
            /\ uri.pathQueryFragment = CallbackPath
            /\ Callback.port = NoPort => uri.port = 443
            /\ Callback.port # NoPort => /\ Callback.port \in DOMAIN PortValue
                                         /\ uri.port = PortValue[Callback.port]
<1> DEFINE h == Callback.host
           p == Callback.port
           path == Callback.path
           a == CallbackAuthority
           text == home.callback_uri
           uri == Uri(text)
           n == IF p = NoPort THEN 443 ELSE PortValue[p]
<1>1. /\ h \in Word /\ p \in Word /\ IsPort(p)
      /\ Lacks(path, "?") /\ Lacks(path, "#")
      /\ path = <<>> \/ path[1] = "/"
  BY HomeFacts
<1>2. IsAuthority(a) /\ text = (<<"https://">> \o a) \o path
  BY CallbackText, Zenon
<1>3. a = IF p = NoPort THEN <<h>> ELSE HostPort(h, p)
  BY DEF CallbackAuthority
<1>4. CallbackPath = IF path = <<>> THEN <<"/">> ELSE path
  BY DEF CallbackPath
<1> HIDE DEF h, p, path, a, text
<1>5. n \in Nat /\ n <= MaxPort /\ (p # NoPort => p \in DOMAIN PortValue)
  <2>1. \A q \in DOMAIN PortValue : PortValue[q] \in Nat
    BY PortAssumption
  <2> QED
    BY <1>1, <2>1 DEF IsPort, MaxPort
<1>6. CASE p = NoPort
  <2>1. a = <<h>> /\ a \in Text
    BY <1>1, <1>3, <1>6, WordFacts
  <2>2. Find(a, ":") = 0
    BY <1>1, <2>1, WordFacts, FindNone
  <2>3. /\ uri.scheme = "https://" /\ uri.port = 443 /\ uri.host = a
        /\ uri.pathQueryFragment = IF path = <<>> THEN <<"/">> ELSE path
    <3>1. 443 \in Nat /\ 443 <= MaxPort
      BY DEF MaxPort
    <3>2. Denotes(a, a, 443)
      BY <2>2, <3>1, SMTT(20) DEF Denotes
    <3> QED
      BY <1>1, <1>2, <3>2, UriOf
  <2> QED
    BY <1>4, <1>6, <2>1, <2>3 DEF h, p, text
<1>7. CASE p # NoPort
  <2>1. a = HostPort(h, p)
    BY <1>3, <1>7
  <2>2. a \in Text /\ Len(a) = 3 /\ a[1] = h /\ a[2] = ":" /\ a[3] = p
    BY <1>1, <2>1, HostPortFacts
  <2>3. Find(a, ":") = 2
    <3>1. 2 \in 1..Len(a) /\ (\A j \in 1..(2 - 1) : j = 1)
      BY <2>2
    <3>2. h # ":"
      BY <1>1, WordFacts, Zenon
    <3> QED
      BY <2>2, <3>1, <3>2, FindIs
  <2>4. SubSeq(a, 1, 1) = <<h>> /\ SubSeq(a, 3, 3) = <<p>>
    <3>1. 1 \in 1..Len(a) /\ 3 \in 1..Len(a)
      BY <2>2
    <3> QED
      BY <2>2, <3>1, OneSub, Zenon
  <2>5. stoi(<<p>>) = n
    <3>1. <<p>> # <<>> /\ Head(<<p>>) = p
      OBVIOUS
    <3> QED
      BY <1>5, <1>7, <3>1 DEF stoi
  <2>6. /\ Find(a, ":") # 1 /\ Find(a, ":") # 0 /\ Find(a, ":") > 0
        /\ stoi(SubSeq(a, Find(a, ":") + 1, Len(a))) = n
        /\ SubSeq(a, 1, Find(a, ":") - 1) = <<h>>
    <3> HIDE DEF n
    <3>1. Find(a, ":") + 1 = 3 /\ Find(a, ":") - 1 = 1 /\ Find(a, ":") > 0 /\ Len(a) = 3
      BY <2>2, <2>3
    <3>2. /\ stoi(SubSeq(a, Find(a, ":") + 1, Len(a))) = n
          /\ SubSeq(a, 1, Find(a, ":") - 1) = <<h>>
      BY <2>4, <2>5, <3>1, Zenon
    <3> QED
      BY <2>3, <3>1, <3>2
  <2> HIDE DEF n
  <2>7. Denotes(a, <<h>>, n)
    BY <1>5, <2>6, Zenon DEF Denotes
  <2>8. /\ uri.scheme = "https://" /\ uri.port = n /\ uri.host = <<h>>
        /\ uri.pathQueryFragment = IF path = <<>> THEN <<"/">> ELSE path
    BY <1>1, <1>2, <2>7, UriOf
  <2> QED
    BY <1>4, <1>5, <1>7, <2>7, <2>8 DEF h, p, text, n
<1> QED
  BY <1>6, <1>7

LEMMA HostColon ==
  ASSUME NEW h, NEW p
  PROVE  <<h>> \o <<":", p>> = HostPort(h, p)
<1> DEFINE x == <<h>> \o <<":", p>>
           y == HostPort(h, p)
           S == {h, ":", p}
<1>1. h \in S /\ p \in S /\ ":" \in S
  OBVIOUS
<1> HIDE DEF S
<1>2. x \in Seq(S) /\ Len(x) = 3 /\ x[1] = h /\ x[2] = ":" /\ x[3] = p
  BY <1>1
<1>3. y \in Seq(S) /\ Len(y) = 3 /\ y[1] = h /\ y[2] = ":" /\ y[3] = p
  BY <1>1 DEF HostPort
<1> HIDE DEF x, y
<1>4. \A i \in 1..3 : i = 1 \/ i = 2 \/ i = 3
  OBVIOUS
<1>5. x = y
  BY <1>2, <1>3, <1>4, SeqEqual
<1> QED
  BY <1>5 DEF x, y

LEMMA RequestFacts ==
  ASSUME Good
  PROVE  /\ PageRequest.host = page.host /\ PageRequest.path = page.path
         /\ CallbackRequest = Browse(CallbackHost, CallbackPath, <<>>, {}, TRUE)
         /\ CallbackRequest.host = CallbackHost /\ CallbackRequest.path = CallbackPath
<1>1. PageRequest.host = page.host /\ PageRequest.path = page.path
  BY DEF PageRequest, Browse
<1> DEFINE h == Callback.host
           p == Callback.port
<1>2. h \in Word /\ p \in Word
  BY HomeFacts
<1>3. <<h>> \o (IF p \in {NoPort, "443"} THEN <<>> ELSE <<":", p>>) = CallbackHost
  <2>1. CallbackHost = IF p \in {NoPort, "443"} THEN <<h>> ELSE HostPort(h, p)
    BY DEF CallbackHost
  <2> HIDE DEF h, p
  <2>2. <<h>> \o <<>> = <<h>>
    OBVIOUS
  <2>3. <<h>> \o <<":", p>> = HostPort(h, p)
    BY <1>2, HostColon
  <2> QED
    BY <2>1, <2>2, <2>3, Zenon
<1>4. CallbackRequest = Browse(CallbackHost, CallbackPath, <<>>, {}, TRUE)
  BY <1>3, Zenon DEF CallbackRequest, CallbackPath
<1>5. CallbackRequest.host = CallbackHost /\ CallbackRequest.path = CallbackPath
  BY <1>4 DEF Browse
<1> QED
  BY <1>1, <1>4, <1>5, Zenon

\* The path of a callback, whatever its query.
LEMMA CallbackPathFacts ==
  ASSUME Good
  PROVE  /\ CallbackPath \in Text /\ CallbackPath # <<>> /\ CallbackPath[1] = "/"
         /\ \A j \in 1..Len(CallbackPath) : CallbackPath[j] # "?" /\ CallbackPath[j] # "#"
<1> DEFINE path == Callback.path
<1>1. Lacks(path, "?") /\ Lacks(path, "#") /\ (path = <<>> \/ path[1] = "/")
  BY HomeFacts
<1>2. CallbackPath = IF path = <<>> THEN <<"/">> ELSE path
  BY DEF CallbackPath
<1> HIDE DEF path
<1>3. <<"/">> \in Text /\ <<"/">> # <<>> /\ <<"/">>[1] = "/" /\ Lacks(<<"/">>, "?") /\ Lacks(<<"/">>, "#")
  BY QuestionFacts, LacksOne DEF Text
<1> DEFINE u == <<"/">>
<1> HIDE DEF u
<1>4. u \in Text /\ u # <<>> /\ u[1] = "/" /\ Lacks(u, "?") /\ Lacks(u, "#")
  BY <1>3 DEF u
<1>5. CallbackPath = IF path = <<>> THEN u ELSE path
  BY <1>2 DEF u
<1>6. CASE path = <<>>
  BY <1>4, <1>5, <1>6 DEF Lacks
<1>7. CASE path # <<>>
  BY <1>1, <1>5, <1>7 DEF Lacks
<1> QED
  BY <1>6, <1>7, SMTT(20)

=============================================================================
