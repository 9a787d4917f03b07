------------------------------- MODULE LoginProofs -------------------------------
(***************************************************************************)
(* Proofs about the texts of a login in a usable deployment, and with them *)
(* that Texts holds.  What LoginFlowProofs derives from Texts then holds   *)
(* of LoginFlow.                                                           *)
(***************************************************************************)
EXTENDS LoginTextProofs, LoginFlowProofs

-----------------------------------------------------------------------------
(***************************************************************************)
(* Where the browser goes in a usable deployment.                          *)
(***************************************************************************)
\* The browser goes back to the callback, and to the page.
LEMMA FollowPage ==
  ASSUME Good, NEW cookies
  PROVE  Follow((<<"https://">> \o page.host) \o page.path, cookies)
           = Browse(page.host, page.path, <<>>, cookies, TRUE)
<1> DEFINE a == page.host
           t == page.path
<1>1. /\ IsAuthority(a) /\ ~EndsWith(a, <<":", "443">>) /\ Lacks(t, "#") /\ t # <<>>
      /\ t[1] = "/"
  BY PageFacts
<1>2. "https://" \in Symbol /\ t[1] \in {"/", "?"}
  BY <1>1 DEF Symbol, Reserved
<1> HIDE DEF a, t
<1>3. Follow((<<"https://">> \o a) \o t, cookies) =
           Browse(IF EndsWith(a, <<":", "443">>) THEN HostName(a) ELSE a,
                  IF t[1] = "/" THEN t ELSE <<"/">> \o t, <<>>, cookies, TRUE)
  BY <1>1, <1>2, FollowUrl, Zenon
<1>4. Follow((<<"https://">> \o a) \o t, cookies) = Browse(a, t, <<>>, cookies, TRUE)
  BY <1>1, <1>3
<1> QED
  BY <1>4, Zenon DEF a, t

LEMMA FollowCallback ==
  ASSUME Good, NEW query, Lacks(query, "#"), NEW cookies
  PROVE  Follow((home.callback_uri \o <<"?">>) \o query, cookies)
           = Browse(CallbackHost, (CallbackPath \o <<"?">>) \o query, <<>>, cookies, TRUE)
<1> DEFINE s == <<"https://">>
           a == CallbackAuthority
           path == Callback.path
           h == Callback.host
           p == Callback.port
           m == <<"?">>
           t == (path \o m) \o query
           slash == <<"/">>
<1>1. /\ h \in Word /\ p \in Word /\ path \in Text /\ Lacks(path, "#")
      /\ path = <<>> \/ path[1] = "/"
  BY HomeFacts DEF Lacks
<1>2. IsAuthority(a) /\ home.callback_uri = (s \o a) \o path
  BY CallbackText, Zenon
<1>3. /\ s \in Text /\ a \in Text /\ m \in Text /\ query \in Text /\ Lacks(m, "#") /\ slash \in Text
      /\ "https://" \in Symbol /\ "/" \in Symbol /\ "?" \in Symbol
  <2>1. "https://" \in Symbol /\ "/" \in Symbol /\ "?" \in Symbol
    BY QuestionFacts DEF Symbol, Reserved
  <2> QED
    BY <1>2, <2>1, LacksOne DEF IsAuthority, Lacks, Text
<1>4. /\ p = NoPort => a = <<h>>
      /\ p # NoPort => a = HostPort(h, p)
      /\ p \in {NoPort, "443"} => CallbackHost = <<h>>
      /\ p \notin {NoPort, "443"} => CallbackHost = HostPort(h, p)
  BY DEF CallbackAuthority, CallbackHost
<1>5. CallbackPath = IF path = <<>> THEN slash ELSE path
  BY DEF CallbackPath
<1>6. m # <<>> /\ m[1] = "?" /\ Len(m) = 1
  OBVIOUS
<1> HIDE DEF path, h, p, a, m, slash
<1>7. (home.callback_uri \o m) \o query = (s \o a) \o t
  <2> DEFINE front == s \o a
             pm == path \o m
  <2>1. front \in Text /\ pm \in Text
    BY <1>1, <1>3, ConcatText, SMTT(20)
  <2> HIDE DEF front
  <2>2. (front \o path) \o m = front \o pm
    <3>1. front \in Text /\ path \in Text /\ m \in Text
      BY <1>1, <1>3, <2>1
    <3> QED
      BY <3>1, TextAssoc
  <2> HIDE DEF pm
  <2>3. (front \o pm) \o query = front \o (pm \o query)
    <3>1. front \in Text /\ pm \in Text /\ query \in Text
      BY <1>3, <2>1
    <3> QED
      BY <3>1, TextAssoc, Zenon
  <2> QED
    BY <1>2, <2>2, <2>3 DEF front, pm
<1>8. Lacks(t, "#") /\ path \o m \in Text
  <2>1. Lacks(path \o m, "#")
    BY <1>1, <1>3, LacksConcat, SMTT(20)
  <2> QED
    BY <2>1, LacksConcat, Zenon DEF Lacks
<1>9. (IF EndsWith(a, <<":", "443">>) THEN HostName(a) ELSE a) = CallbackHost
  <2>1. CASE p = NoPort
    <3>1. a = <<h>> /\ ~EndsWith(<<h>>, <<":", "443">>)
      BY <1>1, <1>4, <2>1, DefaultPort
    <3> QED
      BY <1>4, <2>1, <3>1
  <2>2. CASE p # NoPort
    <3>1. a = HostPort(h, p)
      BY <1>4, <2>2
    <3>2. HostName(a) = <<h>>
      BY <1>1, <3>1, HostNames, Zenon
    <3>3. EndsWith(a, <<":", "443">>) <=> p = "443"
      BY <1>1, <3>1, DefaultPort, Zenon
    <3> QED
      BY <1>4, <2>2, <3>1, <3>2, <3>3, SMTT(20)
  <2> QED
    BY <2>1, <2>2
<1>10. /\ t # <<>> /\ t[1] \in {"/", "?"}
       /\ (IF t[1] = "/" THEN t ELSE slash \o t) = (CallbackPath \o m) \o query
  <2>1. CASE path = <<>>
    <3>1. path \o m = m
      BY <1>3, <2>1, ConcatEmptySeq DEF Text
    <3>2. t = <<"?">> \o query
      BY <3>1, Zenon DEF m
    <3>3. t # <<>> /\ t[1] = "?"
      <4> HIDE DEF t
      <4> QED
        BY <1>3, <3>2, TailCons
    <3>4. slash \o (m \o query) = (slash \o m) \o query
      BY <1>3, TextAssoc, Zenon
    <3> QED
      BY <1>5, <2>1, <3>1, <3>3, <3>4
  <2>2. CASE path # <<>>
    <3>1. path[1] = "/" /\ Len(path) \in Nat /\ 1 \in 1..Len(path)
      BY <1>1, <2>2, SMTT(20) DEF Text
    <3>2. (path \o m)[1] = path[1] /\ 1 \in 1..Len(path \o m)
      BY <1>1, <1>3, <1>6, <3>1, ConcatText
    <3>3. t[1] = (path \o m)[1] /\ t \in Text /\ 1 \in 1..Len(t)
      <4> DEFINE pm == path \o m
      <4>1. pm \in Text /\ 1 \in 1..Len(pm)
        BY <1>8, <3>2, SMTT(20)
      <4> HIDE DEF pm
      <4>2. (pm \o query)[1] = pm[1] /\ pm \o query \in Text /\ 1 \in 1..Len(pm \o query)
        BY <1>3, <4>1, ConcatText, SMTT(20)
      <4> QED
        BY <4>2 DEF pm
    <3>4. t # <<>>
      <4> HIDE DEF t
      <4>1. Len(<<>>) = 0
        OBVIOUS
      <4> QED
        BY <3>3, <4>1
    <3> QED
      BY <1>5, <2>2, <3>1, <3>2, <3>3, <3>4
  <2> QED
    BY <2>1, <2>2, Zenon
<1> HIDE DEF t
<1>11. Follow((s \o a) \o t, cookies) =
           Browse(IF EndsWith(a, <<":", "443">>) THEN HostName(a) ELSE a,
                  IF t[1] = "/" THEN t ELSE <<"/">> \o t, <<>>, cookies, TRUE)
  <2>1. IsAuthority(a) /\ Lacks(t, "#") /\ t # <<>> /\ t[1] \in {"/", "?"} /\ "https://" \in Symbol
    BY <1>2, <1>3, <1>8, <1>10
  <2> QED
    BY <2>1, FollowUrl, Zenon
<1>12. Follow((s \o a) \o t, cookies) =
         Browse(CallbackHost, (CallbackPath \o m) \o query, <<>>, cookies, TRUE)
  BY <1>9, <1>10, <1>11, Zenon DEF slash
<1> QED
  BY <1>7, <1>12, Zenon DEF m

LEMMA HomeHosts ==
  ASSUME Good
  PROVE  HomeHost(page.host) /\ HomeHost(CallbackHost)
<1>1. HomeHost(page.host)
  BY PageFacts DEF HomeHost
<1>2. Callback.host \in Word /\ Callback.port \in Word
  BY HomeFacts
<1>3. HostName(<<Callback.host>>) = <<Callback.host>>
  BY <1>2, HostNames, SMTT(20)
<1>4. HostName(HostPort(Callback.host, Callback.port)) = <<Callback.host>>
  BY <1>2, HostNames, Zenon
<1> QED
  BY <1>1, <1>3, <1>4, SMTT(20) DEF HomeHost, CallbackHost

-----------------------------------------------------------------------------
(***************************************************************************)
(* The texts that go to the IdP and come back from it.                     *)
(***************************************************************************)
\* What the IdP reads in a usable deployment is what was meant.
LEMMA AuthReads ==
  ASSUME Good, NEW id \in Ids
  PROVE  LET params == ReadMessage(AuthMessage(PageChain, id))
         IN /\ FindKey(params, <<"client_id">>) = home.client_id
            /\ FindKey(params, <<"state">>) = StateOf(id)
            /\ FindKey(params, <<"redirect_uri">>) = home.callback_uri
<1> DEFINE params == ReadMessage(AuthMessage(PageChain, id))
<1>1. /\ home.client_id \in Text /\ home.callback_uri \in Text /\ home.authorization_uri \in Text
      /\ home.client_id \in Unencoded /\ PageChain \in 1..Len(chains)
  BY HomeFacts
<1>2. AtEnd(home.authorization_uri)
  <2>1. ValidateUri(home.authorization_uri, "https://")
    BY <1>1, SMTT(20) DEF Good, GetConfig, chains, home
  <2> QED
    BY <1>1, <2>1, UriAtEnd DEF ValidateUri
<1>3. Lacks(home.authorization_uri, "#")
  BY <1>1, SMTT(20) DEF Good, Usable, ConfigUsable, Lacks, Range, home, Text
<1>4. Reads(params, AuthParams(PageChain, id))
  BY <1>1, <1>2, <1>3, AuthQuery DEF home
<1> HIDE DEF params
<1>5. /\ FindKey(params, <<"client_id">>) = Written(home.client_id)
      /\ FindKey(params, <<"state">>) = StateOf(id)
      /\ FindKey(params, <<"redirect_uri">>) = Written(home.callback_uri)
  BY <1>1, <1>4, AuthKeys DEF home
<1>6. Written(home.client_id) = home.client_id
  BY <1>1, ReadQueryValue DEF Written
<1>7. Written(home.callback_uri) = home.callback_uri
  BY CallbackText, ReadQueryValue DEF Written
<1> QED
  BY <1>5, <1>6, <1>7, SMTT(20) DEF params

\* An IdP writes some text for its code; a usable one what SafeEncode would write.
LEMMA IdpEncodes ==
  ASSUME world \in Worlds
  PROVE  /\ code \in Unencoded /\ code \in Text
         /\ IdpEncode(code) \in Text
         /\ ProviderUsable => IdpEncode(code) = SafeEncode(code, {})
<1>1. code \in Unencoded /\ code \in Text
  BY WorldsAssumption, UnencodedIsText DEF code
<1>2. Len(code) \in Nat /\ \A i \in 1..Len(code) : code[i] \in Word \cup Reserved
  BY <1>1 DEF Unencoded
<1> DEFINE f(c) == IF c \notin Reserved \ style.raw THEN c
                   ELSE IF style.lower THEN EscapedLower(c) ELSE Escaped(c)
           e == [i \in 1..Len(code) |-> f(code[i])]
<1>3. IdpEncode(code) = e
  BY DEF IdpEncode, Map
<1>4. \A i \in 1..Len(code) : f(code[i]) \in Symbol
  BY <1>2, EscapedSymbol, EscapedLowerSymbol DEF Symbol
<1>5. e \in Text
  <2>1. e \in [1..Len(code) -> Symbol]
    BY <1>4
  <2> HIDE DEF e
  <2> QED
    BY <1>2, <2>1, FunctionIsSeq DEF Text
<1>6. ASSUME ProviderUsable
      PROVE  e = SafeEncode(code, {})
  <2>1. SafeEncode(code, {}) = [i \in 1..Len(code) |-> IF code[i] \in Reserved \ {} THEN Escaped(code[i])
                                                                              ELSE code[i]]
    BY DEF SafeEncode, Map
  <2>2. ASSUME NEW i \in 1..Len(code)
        PROVE  f(code[i]) = IF code[i] \in Reserved \ {} THEN Escaped(code[i]) ELSE code[i]
    <3>1. code[i] \in Range(code)
      BY <1>1 DEF Range, Text
    <3>2. code[i] \notin style.raw /\ (style.lower => code[i] \notin HasHexLetter)
      BY <1>6, <3>1, SMTT(20) DEF ProviderUsable
    <3> QED
      BY <3>2, EscapedLowerSymbol
  <2> HIDE DEF f
  <2> QED
    BY <2>1, <2>2
<1> QED
  BY <1>1, <1>3, <1>5, <1>6

IdpParts(state) ==
  << <<"code", "=">> \o IdpEncode(code), <<"state", "=">> \o state >> \o style.extra

KeyText(key) == <<key>> \o <<"=">>

LEMMA IdpPartsFacts ==
  ASSUME world \in Worlds, NEW state \in Text
  PROVE  /\ IdpParts(state) \in Seq(Text) /\ IdpParts(state) # <<>>
         /\ style.extra \in Seq(Text) /\ Len(style.extra) \in Nat
         /\ Len(IdpParts(state)) = 2 + Len(style.extra)
         /\ IdpParts(state)[1] = KeyText("code") \o IdpEncode(code)
         /\ IdpParts(state)[2] = KeyText("state") \o state
         /\ \A k \in 1..Len(style.extra) : IdpParts(state)[2 + k] = style.extra[k]
         /\ IdpQuery(state) = Join(IdpParts(state), "&") /\ IdpQuery(state) \in Text
<1> DEFINE e == style.extra
<1>1. e \in Seq(Text) /\ Len(e) \in Nat
  BY WorldsAssumption DEF style
<1>2. "code" \in Symbol /\ "state" \in Symbol /\ "=" \in Symbol
  BY NameAssumption, SeparatorFacts DEF Symbol
<1>3. KeyText("code") = <<"code", "=">> /\ KeyText("state") = <<"state", "=">>
  BY <1>2, TwoSeq DEF KeyText
<1>4. <<"code", "=">> \in Text /\ <<"state", "=">> \in Text
  BY <1>2 DEF Text
<1> DEFINE x == <<"code", "=">> \o IdpEncode(code)
           y == <<"state", "=">> \o state
           two == <<x, y>>
<1>5. x \in Text /\ y \in Text
  BY <1>4, IdpEncodes, ConcatText
<1>6. x = KeyText("code") \o IdpEncode(code) /\ y = KeyText("state") \o state
  BY <1>3, Zenon
<1>7. IdpParts(state) = two \o e
  BY DEF IdpParts
<1> HIDE DEF x, y, e
<1>8. two \in Seq(Text) /\ Len(two) = 2 /\ two[1] = x /\ two[2] = y
  BY <1>5
<1> HIDE DEF two
<1>9. /\ two \o e \in Seq(Text) /\ Len(two \o e) = 2 + Len(e)
      /\ (two \o e)[1] = x /\ (two \o e)[2] = y
      /\ \A k \in 1..Len(e) : (two \o e)[2 + k] = e[k]
  <2> DEFINE v == two \o e
  <2>0. two \in Seq(Text) /\ e \in Seq(Text)
    BY <1>1, <1>8
  <2>1. /\ v \in Seq(Text) /\ Len(v) = Len(two) + Len(e)
        /\ \A i \in 1..(Len(two) + Len(e)) : v[i] = IF i <= Len(two) THEN two[i] ELSE e[i - Len(two)]
    BY <2>0, ConcatProperties
  <2> HIDE DEF v
  <2>2. v[1] = x /\ v[2] = y
    BY <1>1, <1>8, <2>1
  <2>3. \A k \in 1..Len(e) : v[2 + k] = e[k]
    BY <1>1, <1>8, <2>1, SMTT(20)
  <2> QED
    BY <1>8, <2>1, <2>2, <2>3 DEF v
<1>10. two \o e # <<>>
  <2>1. Len(<<>>) = 0
    OBVIOUS
  <2> QED
    BY <1>1, <1>9, <2>1, SMTT(20)
<1>11. IdpQuery(state) = Join(two \o e, "&")
  BY <1>7, Zenon DEF IdpQuery, IdpParts
<1>12. Join(two \o e, "&") \in Text
  BY <1>9, JoinType, SeparatorFacts, Zenon
<1> QED
  BY <1>1, <1>6, <1>7, <1>9, <1>10, <1>11, <1>12 DEF e

LEMMA StateFacts ==
  ASSUME NEW id \in Ids
  PROVE  States[id] \in Word /\ StateOf(id) = <<States[id]>> /\ StateOf(id) \in Text
<1>1. States[id] \in Word
  BY IdAssumption
<1> QED
  BY <1>1, WordFacts, SMTT(20) DEF StateOf

\* The service reads the code and the state in the query of a usable IdP.
LEMMA IdpAnswer ==
  ASSUME Good, NEW id \in Ids
  PROVE  LET query == IdpQuery(StateOf(id))
             data  == DecodeQueryData(query)
         IN /\ Lacks(query, "#")
            /\ data # NULL
            /\ FindKey(data, <<"state">>) = StateOf(id)
            /\ FindKey(data, <<"code">>) = code
<1> DEFINE state == StateOf(id)
           parts == IdpParts(state)
           e == style.extra
           n == 2 + Len(e)
           b1 == SafeEncode(code, {})
           a == [i \in 1..n |-> IF i = 1 THEN <<"code">> ELSE IF i = 2 THEN <<"state">> ELSE NameValue(e[i - 2])[1]]
           b == [i \in 1..n |-> IF i = 1 THEN b1 ELSE IF i = 2 THEN state ELSE NameValue(e[i - 2])[2]]
           data == DecodedParts(parts, a, b)
<1>1. world \in Worlds /\ ProviderUsable
  BY DEF Good, Usable
<1>2. state \in Text /\ Decodable(state) /\ UrlSafeDecode(state) = state
  BY StateFacts, DecodeWord
<1> HIDE DEF state
<1>3. /\ parts \in Seq(Text) /\ parts # <<>> /\ e \in Seq(Text) /\ Len(e) \in Nat /\ Len(parts) = n
      /\ parts[1] = KeyText("code") \o b1
      /\ parts[2] = KeyText("state") \o state
      /\ \A k \in 1..Len(e) : parts[2 + k] = e[k]
      /\ IdpQuery(state) = Join(parts, "&")
  BY <1>1, <1>2, IdpPartsFacts, IdpEncodes, Zenon
<1>4. Decodable(b1) /\ UrlSafeDecode(b1) = code
  <2>1. code \in Unencoded /\ code \in Text
    BY <1>1, IdpEncodes, SMTT(20)
  <2>2. b1 \in Text
    BY <2>1, SafeEncodeAt
  <2>3. \A j \in 1..Len(b1) : b1[j] \notin (Reserved \ {}) \cup LowerEscapes
    BY <2>1, SafeEncodeHides
  <2> QED
    BY <2>1, <2>2, <2>3, UrlSafeRoundTrip DEF Decodable
<1>5. /\ Decodable(<<"code">>) /\ UrlSafeDecode(<<"code">>) = <<"code">>
      /\ Decodable(<<"state">>) /\ UrlSafeDecode(<<"state">>) = <<"state">>
  BY NameAssumption, DecodeWord
<1> HIDE DEF parts, b1
<1>6. ASSUME NEW k \in 1..Len(e)
      PROVE  Decodable(NameValue(e[k])[1]) /\ Decodable(NameValue(e[k])[2]) /\ e[k] = (NameValue(e[k])[1] \o <<"=">>) \o NameValue(e[k])[2]
  <2> DEFINE t == e[k]
  <2>1. t \in Text
    BY <1>3
  <2>2. /\ \E m \in 1..Len(t) : \A j \in 1..Len(t) : (t[j] = "=") <=> (j = m)
        /\ Range(t) \cap ((Reserved \ {"="}) \cup LowerEscapes) = {}
    BY <1>1 DEF ProviderUsable
  <2> HIDE DEF t
  <2>3. Decodable(NameValue(t)[1]) /\ Decodable(NameValue(t)[2]) /\ t = (NameValue(t)[1] \o <<"=">>) \o NameValue(t)[2]
    BY <2>1, <2>2, ExtraPart, Zenon
  <2> QED
    BY <2>3, Zenon DEF t
<1> HIDE DEF e
<1>7. ASSUME NEW i \in 1..n
      PROVE  /\ Decodable(a[i]) /\ Decodable(b[i])
             /\ parts[i] = (a[i] \o <<"=">>) \o b[i]
  <2>1. CASE i = 1
    <3>1. a[i] = <<"code">> /\ b[i] = b1
      BY <2>1
    <3> QED
      BY <1>3, <1>4, <1>5, <2>1, <3>1 DEF KeyText
  <2>2. CASE i = 2
    <3>1. a[i] = <<"state">> /\ b[i] = state
      BY <2>2
    <3> QED
      BY <1>2, <1>3, <1>5, <2>2, <3>1 DEF KeyText
  <2>3. CASE i # 1 /\ i # 2
    <3> DEFINE k == i - 2
    <3>1. k \in 1..Len(e) /\ i = 2 + k
      BY <1>3, <2>3
    <3>2. a[i] = NameValue(e[k])[1] /\ b[i] = NameValue(e[k])[2]
      BY <2>3
    <3>3. parts[i] = e[k]
      BY <1>3, <3>1
    <3> QED
      BY <1>6, <3>1, <3>2, <3>3, Zenon
  <2> QED
    BY <2>1, <2>2, <2>3, Zenon
<1>8. a[1] = <<"code">> /\ b[1] = b1 /\ a[2] = <<"state">> /\ b[2] = state /\ 1 \in 1..n /\ 2 \in 1..n
  BY <1>3
<1> HIDE DEF a, b
<1>9. AreParts(parts, a, b)
  BY <1>3, <1>7, Zenon DEF AreParts
<1>10. data # NULL /\ Len(data) = n /\ DecodeQueryData(Join(parts, "&")) = data
  BY <1>3, <1>9, DecodeParts, SMTT(20)
<1>11. /\ data[1] = <<UrlSafeDecode(a[1]), UrlSafeDecode(b[1])>>
       /\ data[2] = <<UrlSafeDecode(a[2]), UrlSafeDecode(b[2])>>
  BY <1>3, <1>8, Zenon DEF DecodedParts
<1>12. data[1] = <<<<"code">>, code>> /\ data[2] = <<<<"state">>, state>>
  BY <1>2, <1>4, <1>5, <1>8, <1>11, SMTT(20)
<1> HIDE DEF data
<1>13. <<"code">> # <<"state">>
  OBVIOUS
<1>14. FindKey(data, <<"code">>) = code /\ FindKey(data, <<"state">>) = state
  <2>1. Len(data) \in Nat /\ 1 \in 1..Len(data) /\ 2 \in 1..Len(data)
    BY <1>3, <1>10
  <2>2. data[1][1] = <<"code">> /\ data[1][2] = code /\ data[2][1] = <<"state">> /\ data[2][2] = state
    BY <1>12
  <2> DEFINE c == <<"code">>
             s == <<"state">>
  <2> HIDE DEF c, s
  <2>3. data[1][1] = c /\ data[1][2] = code /\ data[2][1] = s /\ data[2][2] = state /\ c # s
    BY <1>13, <2>2 DEF c, s
  <2>4. FindKey(data, c) = data[1][2]
    <3>1. \A j \in 1..(1 - 1) : data[j][1] # c
      OBVIOUS
    <3> QED
      BY <2>1, <2>3, <3>1, FindKeyFirst
  <2>5. FindKey(data, s) = data[2][2]
    <3>1. \A j \in 1..(2 - 1) : data[j][1] # s
      BY <2>3
    <3> QED
      BY <2>1, <2>3, <3>1, FindKeyFirst
  <2> QED
    BY <2>3, <2>4, <2>5 DEF c, s
<1>15. Lacks(Join(parts, "&"), "#")
  <2>1. ASSUME NEW i \in 1..Len(parts)
        PROVE  Lacks(parts[i], "#")
    <3> DEFINE x == a[i]
               y == b[i]
    <3>1. Decodable(x) /\ Decodable(y) /\ parts[i] = (x \o <<"=">>) \o y
      BY <1>3, <1>7, Zenon
    <3> HIDE DEF x, y
    <3>2. "#" \in Reserved /\ "=" \in Symbol /\ "#" # "="
      BY DEF Reserved, Symbol
    <3>3. Lacks(x, "#") /\ Lacks(y, "#")
      BY <3>1, <3>2 DEF Decodable, Lacks
    <3>4. Lacks(<<"=">>, "#")
      BY <3>2, LacksOne, SMTT(20)
    <3>5. Lacks(x \o <<"=">>, "#")
      BY <3>3, <3>4, LacksConcat, SMTT(20)
    <3> QED
      BY <3>1, <3>3, <3>5, LacksConcat
  <2>2. "&" \in Symbol /\ "&" # "#"
    BY SeparatorFacts
  <2> QED
    BY <1>3, <2>1, <2>2, JoinLacks
<1> QED
  BY <1>3, <1>10, <1>14, <1>15, SMTT(20) DEF state

\* The token endpoint reads the client and its secret in the credentials.
LEMMA ClientRead ==
  ASSUME Good
  PROVE  BasicAuthDecode(TokenAuthorization(PageChain)) = <<home.client_id, home.client_secret>>
<1> DEFINE name == home.client_id
           secret == home.client_secret
           colon == ":"
           text == (name \o <<colon>>) \o secret
<1>1. name \in Text /\ secret \in Text /\ colon \in Symbol /\ Len(name) \in Nat
  BY HomeFacts, QuestionFacts DEF Text, Symbol, Reserved
<1>2. \A j \in 1..Len(name) : name[j] # colon
  <2>1. colon \notin Range(name)
    BY DEF Good, Usable, ConfigUsable, home
  <2> QED
    BY <1>1, <2>1, SMTT(20) DEF Range, Text
<1>3. TokenAuthorization(PageChain) = text
  BY DEF TokenAuthorization, EncodeBasicAuth, home
<1>4. BasicAuthDecode(text) = <<SubSeq(text, 1, Find(text, colon) - 1),
                                SubSeq(text, Find(text, colon) + 1, Len(text))>>
  BY DEF BasicAuthDecode
<1> HIDE DEF name, secret, colon
<1>5. /\ Find(text, colon) = Len(name) + 1
      /\ SubSeq(text, 1, Len(name)) = name
      /\ SubSeq(text, Len(name) + 2, Len(text)) = secret
  BY <1>1, <1>2, FindConcat
<1> HIDE DEF text
<1>6. Find(text, colon) - 1 = Len(name) /\ Find(text, colon) + 1 = Len(name) + 2
  BY <1>1, <1>5, SMTT(20)
<1> QED
  BY <1>3, <1>4, <1>5, <1>6, Zenon DEF name, secret

\* The token endpoint finds its code and the redirect URI.
LEMMA TokenReads ==
  ASSUME Good
  PROVE  IdpAccepts(PageChain, TokenAuthorization(PageChain),
                    FormDecode(EncodeFormData(TokenParams(PageChain, code))))
<1> DEFINE data == TokenParams(PageChain, code)
           P == {pair \in Seq(FormSafe) : Len(pair) = 2}
<1>1. /\ data # <<>> /\ Len(data) = 3
      /\ data[1] = <<<<"code">>, code>>
      /\ data[2] = <<<<"redirect_uri">>, home.callback_uri>>
      /\ data[3] = <<<<"grant_type">>, <<"authorization_code">>>>
      /\ {data[1], data[2], data[3]} \subseteq P => data \in Seq(P)
  BY TokenParamsFacts, Zenon DEF home
<1> HIDE DEF data
<1>2. ASSUME NEW x \in FormSafe, NEW y \in FormSafe
      PROVE  <<x, y>> \in P
  OBVIOUS
<1>3. code \in FormSafe
  <2>1. code \in Unencoded
    BY IdpEncodes DEF Good
  <2>2. \A i \in 1..Len(code) : code[i] \in Range(code)
    BY <2>1 DEF Unencoded, Range
  <2>3. "+" \notin Range(code)
    BY DEF Good, Usable, ProviderUsable
  <2> QED
    BY <2>1, <2>2, <2>3 DEF FormSafe
<1>4. home.callback_uri \in FormSafe
  <2>1. home.callback_uri \in Unencoded /\ Lacks(home.callback_uri, "+")
    BY CallbackText
  <2> QED
    BY <2>1 DEF FormSafe, Lacks
<1>5. ASSUME NEW c \in Word
      PROVE  <<c>> \in FormSafe
  <2>1. <<c>> \in Unencoded /\ Len(<<c>>) = 1 /\ <<c>>[1] = c
    BY DEF Unencoded
  <2>2. c # "+"
    BY WordFacts, Zenon
  <2>3. \A i \in 1..Len(<<c>>) : <<c>>[i] # "+"
    BY <2>1, <2>2, SMTT(20)
  <2> QED
    BY <2>1, <2>3, SMTT(20) DEF FormSafe
<1>6. /\ <<"code">> \in FormSafe /\ <<"redirect_uri">> \in FormSafe
      /\ <<"grant_type">> \in FormSafe /\ <<"authorization_code">> \in FormSafe
  BY <1>5, NameAssumption
<1>7. data[1] \in P /\ data[2] \in P /\ data[3] \in P
  BY <1>1, <1>2, <1>3, <1>4, <1>6
<1>8. data \in Seq(P)
  BY <1>1, <1>7
<1>9. FormDecode(EncodeFormData(data)) = data
  BY <1>1, <1>8, FormRoundTrip, SMTT(20)
<1>10. FindKey(data, <<"code">>) = code /\ FindKey(data, <<"redirect_uri">>) = home.callback_uri
  <2> DEFINE c == <<"code">>
             u == <<"redirect_uri">>
  <2>1. c # u
    OBVIOUS
  <2>2. /\ data[1][1] = c /\ data[1][2] = code /\ data[2][1] = u /\ data[2][2] = home.callback_uri
        /\ Len(data) \in Nat /\ 1 \in 1..Len(data) /\ 2 \in 1..Len(data)
    BY <1>1
  <2> HIDE DEF c, u
  <2>3. FindKey(data, c) = data[1][2]
    <3>1. \A j \in 1..(1 - 1) : data[j][1] # c
      OBVIOUS
    <3> QED
      BY <2>2, <3>1, FindKeyFirst
  <2>4. FindKey(data, u) = data[2][2]
    <3>1. \A j \in 1..(2 - 1) : data[j][1] # u
      BY <2>1, <2>2
    <3> QED
      BY <2>2, <3>1, FindKeyFirst
  <2> QED
    BY <2>2, <2>3, <2>4 DEF c, u
<1> QED
  BY <1>9, <1>10, ClientRead DEF IdpAccepts, home, data

LEMMA CallbackNotEmpty ==
  ASSUME world \in Worlds, GetConfig(config), NEW i \in 1..Len(chains)
  PROVE  chains[i].callback_uri \in Text /\ chains[i].callback_uri # <<>>
<1>1. chains[i].callback_uri \in Text
  BY ChainTexts DEF chains, config
<1>2. ValidateUri(chains[i].callback_uri, "https://")
  BY DEF GetConfig, chains
<1>3. Uri(chains[i].callback_uri) # NULL
  BY <1>2, SMTT(20) DEF ValidateUri
<1>4. Uri(<<>>) = NULL
  BY DEF Uri
<1> QED
  BY <1>1, <1>3, <1>4

\* A redirect the IdP agrees to goes to a callback URI, with the state.
LEMMA AnyAuth ==
  ASSUME world \in Worlds, GetConfig(config), NEW i \in 1..Len(chains), NEW id \in Ids
  PROVE  LET params == ReadMessage(AuthMessage(i, id))
             redirect == FindKey(params, <<"redirect_uri">>)
         IN /\ AuthMessage(i, id) \in Text
            /\ Registered(FindKey(params, <<"client_id">>), redirect) =>
                 redirect \in Text /\ redirect # <<>> /\ FindKey(params, <<"state">>) \in Text
<1> DEFINE m == AuthMessage(i, id)
           params == ReadMessage(m)
           redirect == FindKey(params, <<"redirect_uri">>)
<1>1. /\ chains[i].client_id \in Text /\ chains[i].callback_uri \in Text
      /\ chains[i].authorization_uri \in Text
  BY ChainTexts, SMTT(20) DEF chains, config
<1>2. AtEnd(chains[i].authorization_uri)
  <2>1. ValidateUri(chains[i].authorization_uri, "https://")
    BY DEF GetConfig, chains
  <2> QED
    BY <1>1, <2>1, UriAtEnd DEF ValidateUri
<1>3. m \in Text /\ (Reads(params, AuthParams(i, id)) \/ PathQueryFragment(m).query = <<>>)
  BY <1>1, <1>2, AuthQuery
<1> HIDE DEF m
<1>4. ASSUME Registered(FindKey(params, <<"client_id">>), redirect)
      PROVE  redirect \in Text /\ redirect # <<>>
  BY <1>4, CallbackNotEmpty DEF Registered
<1>5. CASE Reads(params, AuthParams(i, id))
  <2>1. FindKey(params, <<"state">>) = StateOf(id)
    BY <1>1, <1>5, AuthKeys
  <2> QED
    BY <1>3, <1>4, <2>1, StateFacts DEF m
<1>6. CASE PathQueryFragment(m).query = <<>>
  <2>1. redirect = NULL
    BY <1>6, EmptyRead DEF ReadMessage
  <2>2. ~Registered(FindKey(params, <<"client_id">>), redirect)
    BY <1>4, <2>1, NullAssumption
  <2> QED
    BY <1>3, <2>2 DEF m
<1> QED
  BY <1>3, <1>5, <1>6, SMTT(20)

-----------------------------------------------------------------------------
(***************************************************************************)
(* Texts holds, fact by fact.                                              *)
(***************************************************************************)
LEMMA ConfigHolds ==
  ASSUME world \in Worlds
  PROVE  ConfigTyped
<1>1. PageText(page)
  BY WorldsAssumption DEF page
<1>2. page.host \in Seq(Word) => page.host \in Text
  BY SeqMonotonic DEF Text, Symbol
<1>3. Typed(page) /\ Free(page.headers)
  BY <1>1, <1>2, SMTT(20) DEF PageText, Typed, Free
<1>4. Len(chains) \in Nat
  BY ChainListed, SMTT(20) DEF chains, config
<1>5. \A i \in 1..Len(chains) : chains[i].logout_path \in Text \cup {NULL}
  BY ChainTexts DEF chains, config
<1> QED
  BY <1>3, <1>4, <1>5 DEF ConfigTyped

\* The redirect of an IdP is a text, so that following it gives texts.
LEMMA AuthHolds ==
  ASSUME world \in Worlds
  PROVE  AuthTyped
<1> SUFFICES ASSUME GetConfig(config), NEW i \in 1..Len(chains), NEW id \in Ids
             PROVE  LET params   == ReadMessage(AuthMessage(i, id))
                        redirect == FindKey(params, <<"redirect_uri">>)
                        mark     == IF Find(redirect, "?") = 0 THEN <<"?">> ELSE <<>>
                        answer   == IdpQuery(FindKey(params, <<"state">>))
                    IN /\ AuthMessage(i, id) \in Text
                       /\ Registered(FindKey(params, <<"client_id">>), redirect) =>
                            \A cookies : Typed(Follow((redirect \o mark) \o answer, cookies))
  BY DEF AuthTyped
<1> DEFINE params == ReadMessage(AuthMessage(i, id))
           redirect == FindKey(params, <<"redirect_uri">>)
           mark == IF Find(redirect, "?") = 0 THEN <<"?">> ELSE <<>>
           state == FindKey(params, <<"state">>)
           q == IdpQuery(state)
           url == (redirect \o mark) \o q
           agreed == Registered(FindKey(params, <<"client_id">>), redirect)
<1>1. AuthMessage(i, id) \in Text /\ (agreed => redirect \in Text /\ redirect # <<>> /\ state \in Text)
  BY AnyAuth
<1>2. ASSUME agreed, NEW cookies
      PROVE  Typed(Follow(url, cookies))
  <2> HIDE DEF agreed, redirect, state
  <2>1. redirect \in Text /\ redirect # <<>> /\ state \in Text
    BY <1>1, <1>2, SMTT(20)
  <2>2. q \in Text
    BY <2>1, IdpPartsFacts
  <2>3. mark \in Text
    BY QuestionFacts, EmptySeq DEF Text
  <2> HIDE DEF mark, q
  <2>4. /\ redirect \o mark \in Text /\ Len(redirect \o mark) = Len(redirect) + Len(mark)
        /\ Len(redirect) \in Nat /\ Len(mark) \in Nat
    BY <2>1, <2>3, ConcatText
  <2>5. Len(redirect) # 0
    BY <2>1 DEF Text
  <2>6. url \in Text /\ Len(url) = Len(redirect \o mark) + Len(q) /\ Len(q) \in Nat
    BY <2>2, <2>4, ConcatText
  <2> HIDE DEF url
  <2>7. url # <<>>
    <3>1. Len(<<>>) = 0
      OBVIOUS
    <3> QED
      BY <2>4, <2>5, <2>6, <3>1, SMTT(20)
  <2> QED
    BY <2>6, <2>7, FollowText DEF Typed
<1> QED
  BY <1>1, <1>2, SMTT(20)

LEMMA TokenHolds ==
  ASSUME world \in Worlds
  PROVE  TokenTyped
<1> SUFFICES ASSUME NEW i \in 1..Len(chains), NEW path \in Text
             PROVE  LET data     == DecodeQueryData(PathQueryFragment(path).query)
                        received == FindKey(data, <<"code">>)
                    IN data # NULL /\ received # NULL
                         => EncodeFormData(TokenParams(i, received)) \in Text
  BY DEF TokenTyped
<1> DEFINE query == PathQueryFragment(path).query
           data == DecodeQueryData(query)
           received == FindKey(data, <<"code">>)
<1>1. query \in Text
  BY QueryText
<1> HIDE DEF query
<1>2. data # NULL /\ received # NULL => received \in Text
  BY <1>1, DecodedText, SMTT(20)
<1>3. chains[i].callback_uri \in Text
  BY ChainTexts DEF chains, config
<1> HIDE DEF data, received
<1>4. received \in Text => EncodeFormData(TokenParams(i, received)) \in Text
  BY <1>3, TokenText
<1> QED
  BY <1>2, <1>4 DEF data, received, query

LEMMA TypedHolds ==
  ASSUME world \in Worlds
  PROVE  TypedTexts
<1>1. FirstFound
  BY FirstIndex DEF FirstFound
<1>2. BrowseAsks
  BY BrowseIs DEF BrowseAsks, Free
<1>3. UrlTyped
  BY UrlText DEF UrlTyped, Typed
<1>4. FollowTyped
  BY FollowText DEF FollowTyped, Typed
<1>5. PairTyped
  BY PairText DEF PairTyped
<1>6. RulesTyped
  BY RulesThrowMalformed, SMTT(20) DEF RulesTyped
<1> QED
  BY <1>1, <1>2, <1>3, <1>4, <1>5, <1>6, ConfigHolds, AuthHolds, TokenHolds DEF TypedTexts

-----------------------------------------------------------------------------
LEMMA CookieHolds ==
  ASSUME Good
  PROVE  CookieRead
<1>1. PageChain \in 1..Len(chains) /\ world \in Worlds /\ CookiesUsable
  BY HomeFacts DEF Good, Usable
<1>2. IsName(GetCookieName(chains[PageChain]))
  BY HomeFacts DEF home
<1> QED
  BY <1>1, <1>2, SessionCookieFound DEF CookieRead, Free, home

LEMMA PairHolds ==
  ASSUME Good
  PROVE  PairRead
<1> SUFFICES ASSUME NEW v \in Word, NEW max_age
             PROVE  LET pair == CookiePair(SessionCookie(PageChain, <<v>>, max_age).pair)
                    IN pair # NULL /\ pair = <<GetCookieName(home), <<v>>>>
  BY Zenon DEF PairRead
<1> DEFINE n == GetCookieName(home)
<1>1. IsName(n)
  BY HomeFacts
<1>2. SessionCookie(PageChain, <<v>>, max_age).pair = (n \o <<"=">>) \o <<v>>
  BY DEF SessionCookie, EncodeSetCookie, home
<1> HIDE DEF n
<1>3. LET pair == CookiePair((n \o <<"=">>) \o <<v>>)
      IN pair # NULL /\ pair = <<n, <<v>>>>
  BY <1>1, PairOwn, SMTT(20)
<1> QED
  BY <1>2, <1>3, Zenon DEF n

LEMMA PathsHold ==
  ASSUME Good
  PROVE  PathsRead
<1>1. home.logout_path # NULL => PathQueryFragment(home.logout_path).path = home.logout_path
  <2> DEFINE path == home.logout_path
  <2> SUFFICES ASSUME path # NULL PROVE PathQueryFragment(path).path = path
    OBVIOUS
  <2>1. path \in Text
    BY HomeFacts
  <2>2. \A j \in 1..Len(path) : path[j] # "?" /\ path[j] # "#"
    <3>1. Range(path) \cap {"?", "#"} = {}
      BY HomeFacts, Zenon DEF Good, Stable, home
    <3> QED
      BY <2>1, <3>1, SMTT(20) DEF Range, Text
  <2> HIDE DEF path
  <2> QED
    BY <2>1, <2>2, PathAlone, SMTT(20)
<1>2. PathQueryFragment(CallbackPath).path = CallbackPath
  BY CallbackPathFacts, PathAlone, SMTT(20)
<1>3. ASSUME NEW id \in Ids
      PROVE  LET parts == PathQueryFragment(CallbackTarget(Answer(id)))
             IN parts.path = CallbackPath /\ parts.query = Answer(id)
  <2> DEFINE query == Answer(id)
  <2>1. query \in Text /\ \A j \in 1..Len(query) : query[j] # "#"
    BY IdpAnswer DEF Lacks, Answer
  <2> HIDE DEF query
  <2>2. /\ PathQueryFragment(CallbackTarget(query)).path = CallbackPath
        /\ PathQueryFragment(CallbackTarget(query)).query = query
    BY <2>1, CallbackPathFacts, PathWithQuery DEF CallbackTarget
  <2> QED
    BY <2>2 DEF query
<1> QED
  BY <1>1, <1>2, <1>3, SMTT(20) DEF PathsRead

LEMMA MessagesHold ==
  ASSUME Good
  PROVE  AuthRead /\ AnswerRead /\ TokenRead
<1>1. Find(home.callback_uri, "?") = 0 /\ Find(home.callback_uri, "#") = 0
  BY CallbackText, FindNone DEF Lacks
<1>2. AuthRead
  BY <1>1, AuthReads DEF AuthRead
<1>3. code # NULL
  BY IdpEncodes, NullAssumption, SMTT(20) DEF Good
<1>4. AnswerRead
  BY <1>3, IdpAnswer DEF AnswerRead, Answer
<1>5. TokenRead
  BY TokenReads DEF TokenRead
<1> QED
  BY <1>2, <1>4, <1>5

LEMMA UrlsHold ==
  ASSUME Good
  PROVE  UrlsFollowed
<1> DEFINE yes == TRUE
           none == <<>>
<1> HIDE DEF yes, none
<1>1. \A cookies : Follow(PageUrl, cookies) = Browse(page.host, page.path, none, cookies, yes)
  BY FollowPage, Zenon DEF PageUrl, yes, none
<1>2. ASSUME NEW cookies, NEW id \in Ids
      PROVE  Follow((home.callback_uri \o <<"?">>) \o Answer(id), cookies)
               = Browse(CallbackHost, CallbackTarget(Answer(id)), none, cookies, yes)
  <2>1. Lacks(Answer(id), "#")
    BY IdpAnswer DEF Answer
  <2> QED
    BY <2>1, FollowCallback, Zenon DEF CallbackTarget, yes, none
<1> QED
  BY <1>1, <1>2 DEF UrlsFollowed, yes, none

LEMMA ReadHolds ==
  ASSUME Good
  PROVE  ReadTexts
<1>1. HomeKnown
  BY HomeFacts, RequestFacts, Zenon DEF HomeKnown
<1>2. HostsShared
  BY HomeHosts, SMTT(20) DEF HostsShared
<1>3. CallbackUriRead
  <2>1. page.host # HostPort(Callback.host, "443")
    BY PageFacts
  <2> QED
    BY <2>1, CallbackUri, HostColon, SMTT(20) DEF CallbackUriRead
<1> QED
  BY <1>1, <1>2, <1>3, CookieHolds, PairHolds, PathsHold, MessagesHold, UrlsHold, SMTT(20) DEF ReadTexts

LEMMA TextsHold == Texts
BY TypedHolds, ReadHolds DEF Texts

-----------------------------------------------------------------------------
(***************************************************************************)
(* The properties of LoginFlow.                                            *)
(***************************************************************************)
(***************************************************************************)
(* For all configurations, pages and answers of the IdP: an exception      *)
(* reaches Check only for want of what GetConfig does not look at.  The    *)
(* URIs parsed for a request were parsed before, a stored session has a    *)
(* URL to go back to, and the rules throw for a malformed regular          *)
(* expression only.                                                        *)
(***************************************************************************)
THEOREM LoginThrowsOnlyUnvalidated == Spec => []ThrowsOnlyUnvalidated
BY TextsHold, ThrowsHold, PTL

(***************************************************************************)
(* Whatever the deployment, the texts of requests and messages are texts,  *)
(* a message is there exactly while one is on its way to the IdP, every    *)
(* session belongs to a chain and has a URL to go back to, and the browser *)
(* keeps cookies whose names and values are texts.                         *)
(***************************************************************************)
THEOREM LoginTypeOK == Spec => []TypeOK
BY TextsHold, TypesHold, PTL

(***************************************************************************)
(* For all configurations, pages, foreign cookies and answers of the IdP   *)
(* that are usable, and any number of restarts: RedirectToIdp is reached   *)
(* once, and once more for each restart, and Forward serves the page that  *)
(* was asked for.  Every hop of the text is part of the argument.          *)
(***************************************************************************)
THEOREM LoginNoLoop == Spec => []NoLoginLoop
BY TextsHold, NoLoop, PTL

(***************************************************************************)
(* In every usable deployment RetrieveToken and the token endpoint refuse  *)
(* a login only when a restart lost its session: the state, the code and   *)
(* the redirect URI come back as they were sent, whatever their text.      *)
(***************************************************************************)
THEOREM LoginFailsOnlyAfterRestart == Spec => []FailsOnlyAfterRestart
BY TextsHold, FailsAfterRestart, PTL

(***************************************************************************)
(* After SetLogoutHeaders and RemoveSession the browser has no cookie of   *)
(* the chain, in any deployment, and the store has no tokens, in a usable  *)
(* one: the session that was removed is the only one there is.             *)
(***************************************************************************)
THEOREM LogoutIsComplete == Spec => []LogoutComplete
BY TextsHold, LogoutCompletes, PTL

=============================================================================
