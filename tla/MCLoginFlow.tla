------------------------------- MODULE MCLoginFlow -------------------------------
(***************************************************************************)
(* Instances of LoginFlow: configurations that differ in one respect from  *)
(* a plain one, and combinations where two respects interact.              *)
(***************************************************************************)
EXTENDS LoginFlow, TLC

Words == STRING \ (Reserved \cup Escapes \cup {CookieSeparator})

Ports == "443" :> 443 @@ "8443" :> 8443 @@ "80" :> 80 @@ "70000" :> 70000

PlainCallback == [scheme |-> "https://", host |-> "h", port |-> "",
                  path |-> <<"/", "cb">>, tail |-> <<>>]

Chain(match, callback, client_id, prefix) ==
  [match |-> match, filters |-> 1, callback |-> callback, callback_uri |-> UriText(callback),
   authorization_uri |-> <<"https://", "idp", "/", "auth">>,
   token_uri |-> <<"https://", "idp", ":", "8443", "/", "token">>,
   proxy_uri |-> <<>>, client_id |-> client_id, client_secret |-> <<"a", ":", "b">>,
   cookie_name_prefix |-> prefix,
   logout_path |-> <<"/", "bye">>, id_token_header |-> "authorization"]

Plain == Chain(NULL, PlainCallback, <<"id">>, <<>>)

One(c) == [trigger_rules |-> <<>>, chains |-> <<c>>]

\* Variations of the callback URI, among them some that GetConfig refuses.
CallbackConfigs ==
  {One(Chain(NULL, c, <<"my", "+", "app">>, <<>>)) :
     c \in {PlainCallback,
            [PlainCallback EXCEPT !.path = <<>>],
            [PlainCallback EXCEPT !.port = "443"],
            [PlainCallback EXCEPT !.port = "8443"],
            [PlainCallback EXCEPT !.port = "70000"],
            [PlainCallback EXCEPT !.port = "x"],
            [PlainCallback EXCEPT !.scheme = "http://"],
            [PlainCallback EXCEPT !.tail = <<"?">>],
            [PlainCallback EXCEPT !.tail = <<"#">>],
            [PlainCallback EXCEPT !.tail = <<"?", "a">>],
            [PlainCallback EXCEPT !.tail = <<"?", "#">>],
            [PlainCallback EXCEPT !.path = <<"/", "bye">>],
            [PlainCallback EXCEPT !.path = <<"/", "c", "+", "b">>]}}

Prefix(text) == [type |-> "prefix", value |-> text]
Exact(text)  == [type |-> "exact", value |-> text]
Suffix(text) == [type |-> "suffix", value |-> text]
Regex(texts) == [type |-> "regex", value |-> texts]

Malformed    == [type |-> "regex", value |-> NULL]
Untyped      == [type |-> "none"]

Rule(excluded, included) == [excluded_paths |-> excluded, included_paths |-> included]

App == Prefix(<<"/", "app">>)
Cb  == Exact(<<"/", "cb">>)

RuleConfigs ==
  {[One(Plain) EXCEPT !.trigger_rules = rules] :
     rules \in {<<Rule(<<>>, <<App>>)>>,
                <<Rule(<<>>, <<App>>), Rule(<<>>, <<Cb>>)>>,
                <<Rule(<<Untyped, Suffix(<<"css">>)>>, <<>>)>>,
                <<Rule(<<Cb>>, <<Regex({<<"/", "app">>, <<"/", "cb">>})>>)>>,
                <<Rule(<<>>, <<App, Cb, Malformed>>)>>,
                <<Rule(<<Cb, Malformed>>, <<>>), Rule(<<>>, <<>>)>>}}

Tenant == [header |-> "x-tenant", criteria |-> "equality", value |-> <<"t">>]
OnCookie == [header |-> "cookie", criteria |-> "prefix", value |-> <<"__Host-authservice-session-id-cookie">>]
OnHost == [header |-> ":authority", criteria |-> "prefix", value |-> <<"h">>]

Other == Chain(NULL, [PlainCallback EXCEPT !.path = <<"/", "cb2">>], <<"id2">>, <<>>)

ChainConfigs ==
  {[trigger_rules |-> <<>>, chains |-> cs] :
     cs \in {<<Chain(Tenant, PlainCallback, <<"id">>, <<"t">>), Other>>,
             <<Chain(OnHost, PlainCallback, <<"id">>, <<>>), Other>>,
             <<Other, Plain>>,
             <<Chain(Tenant, [PlainCallback EXCEPT !.tail = <<"?", "#">>], <<"id">>, <<"t">>), Other>>,
             <<Chain(OnHost, PlainCallback, <<"id">>, <<>>)>>,
             <<Chain(OnCookie, PlainCallback, <<"id">>, <<>>), Other>>,
             <<[Plain EXCEPT !.filters = 2]>>,
             <<[Plain EXCEPT !.cookie_name_prefix = <<"my", Space, "app">>]>>,
             <<[Plain EXCEPT !.cookie_name_prefix = <<"a", "=", "b">>]>>,
             <<[Plain EXCEPT !.cookie_name_prefix = <<"a", CookieSeparator, "b">>]>>,
             <<[Plain EXCEPT !.token_uri = <<"https://", "/", "token">>]>>,
             <<[Plain EXCEPT !.token_uri = <<"https://", "long", "/", "token">>]>>,
             <<[Plain EXCEPT !.client_id = <<"urn", ":", "app">>]>>,
             <<[Plain EXCEPT !.authorization_uri = @ \o <<"#">>]>>,
             <<[Plain EXCEPT !.authorization_uri = @ \o <<"?">>]>>,
             <<[Plain EXCEPT !.id_token_header = "cookie"]>>,
             <<[Plain EXCEPT !.logout_path = <<"/", "bye", "?", "now">>]>>,
             <<[Plain EXCEPT !.logout_path = NULL]>>}}

MCConfigs == CallbackConfigs \cup RuleConfigs \cup ChainConfigs

Get(host, path, headers) == [host |-> host, path |-> path, headers |-> headers]

MCPages ==
  {Get(<<"h">>, <<"/", "app">>, <<>>),
   Get(<<"h">>, <<"/", "app", "?", "q", "=", "%26">>, <<>>),
   Get(<<"h">>, <<"/", "x", "css">>, <<>>),
   Get(<<"h">>, <<"/", "app">>, "x-tenant" :> <<"t">>),
   Get(<<"h">>, <<"/", "app">>, "authorization" :> <<"jwt">>),
   Get(<<"h", ":", "8443">>, <<"/", "app">>, <<>>),
   Get(<<"k">>, <<"/", "app">>, <<>>),
   Get(<<"h">>, <<"/", "cb">>, <<>>),
   Get(<<"h">>, <<"/", "bye">>, <<>>)}

MCOtherCookies == {<<>>, << <<"a", "=", "b", "=">>, <<"c", "=">> >>, << <<"a">> >>}

Style(raw, lower, extra) == [raw |-> raw, lower |-> lower, extra |-> extra]

MCStyles ==
  {Style({}, FALSE, <<>>),
   Style({}, TRUE, <<>>),
   Style({"/", ":"}, FALSE, << <<"iss", "=", "i", "%2F">>, <<"x", "=">> >>),
   Style({}, FALSE, << <<"scope", "=", "openid", "+", "email">> >>),
   Style({}, FALSE, << <<"iss", "=", "i", "%2f">> >>),
   Style({}, FALSE, << <<"flag">> >>)}

MCCodes == {<<"c">>, <<"c", "/", "d">>, <<"c", "+", "d">>, <<"c", Space, "&">>}

\* Every configuration with every page, and every IdP with every code.
MCWorlds ==
  [config : MCConfigs, page : MCPages, others : MCOtherCookies,
   style : {Style({}, FALSE, <<>>)}, code : {<<"c">>}]
    \cup
  [config : {One(Plain), One(Chain(NULL, [PlainCallback EXCEPT !.port = "8443"], <<"id">>, <<"p">>))},
   page : {Get(<<"h">>, <<"/", "app">>, <<>>)}, others : MCOtherCookies,
   style : MCStyles, code : MCCodes]

\* IdPs that encode all that is reserved and add nothing.
PlainProviderWorlds == {w \in MCWorlds : w.style = Style({}, FALSE, <<>>)}

MCLongHosts == {<<"long">>}

MCSessionIds == <<"s1", "s2", "s3">>

MCStates == [id \in Range(MCSessionIds) |-> "state-" \o id]

=============================================================================
