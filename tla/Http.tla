---------------------------------- MODULE Http ----------------------------------
(***************************************************************************)
(* The text the service reads and writes (src/common/http/http.cc): URIs,  *)
(* percent encoding, query strings and forms, cookies.                     *)
(*                                                                         *)
(* A text is a sequence of symbols.  A symbol is a word of unreserved      *)
(* characters, one of the reserved characters that some function looks     *)
(* for, a scheme prefix, the cookie separator, or the percent encoding of  *)
(* one of these.  Percent encoding matters in three ways only: upper-case  *)
(* digits, lower-case digits, or a "%" that starts no encoding at all.     *)
(***************************************************************************)
EXTENDS Integers, Sequences, FiniteSetsExt, Functions

CONSTANTS NULL,     \* a failed conversion: nullopt, or an exception
          Word,     \* the words of unreserved characters
          PortValue \* the numeric words, with their values

Space == " "
CookieSeparator == "; "

Reserved == {"https://", "http://", ":", "/", "?", "#", "=", "&", "+", Space, "%"}

Escaped(c) ==
  CASE c = "https://" -> "https%3A%2F%2F" [] c = "http://" -> "http%3A%2F%2F"
    [] c = ":" -> "%3A" [] c = "/" -> "%2F" [] c = "?" -> "%3F" [] c = "#" -> "%23"
    [] c = "=" -> "%3D" [] c = "&" -> "%26" [] c = "+" -> "%2B" [] c = Space -> "%20"
    [] c = "%" -> "%25"

\* Of the reserved characters, those with a letter among their hex digits have
\* a second, lower-case encoding.
HasHexLetter == {"https://", "http://", ":", "/", "?", "=", "+"}

EscapedLower(c) ==
  CASE c = "https://" -> "https%3a%2f%2f" [] c = "http://" -> "http%3a%2f%2f"
    [] c = ":" -> "%3a" [] c = "/" -> "%2f" [] c = "?" -> "%3f" [] c = "=" -> "%3d"
    [] c = "+" -> "%2b" [] OTHER -> Escaped(c)

UpperEscapes == {Escaped(c) : c \in Reserved}
LowerEscapes == {EscapedLower(c) : c \in HasHexLetter}
Escapes      == UpperEscapes \cup LowerEscapes

Symbol    == Word \cup Reserved \cup Escapes \cup {CookieSeparator}
Text      == Seq(Symbol)
Unencoded == Seq(Word \cup Reserved)

ASSUME WordAssumption == \A c \in Reserved \cup Escapes \cup {CookieSeparator} : c \notin Word

ASSUME NullAssumption ==
  NULL \notin Word \cup Nat \cup Text \cup Seq(Text) \cup Seq(Seq(Text))

ASSUME PortAssumption ==
  /\ PortValue \in [DOMAIN PortValue -> Nat]
  /\ \A p, q \in DOMAIN PortValue : PortValue[p] = PortValue[q] => p = q
  /\ "443" \in DOMAIN PortValue /\ PortValue["443"] = 443

\* The first of some places in a sequence; 0 for npos, end() or nullptr.
First(places) == IF places = {} THEN 0 ELSE Min(places)

Find(text, c) == First({i \in 1..Len(text) : text[i] = c})

FindFirstOf(text, set) == First({i \in 1..Len(text) : text[i] \in set})

StartsWith(text, prefix) ==
  Len(prefix) <= Len(text) /\ SubSeq(text, 1, Len(prefix)) = prefix

EndsWith(text, suffix) ==
  /\ Len(suffix) <= Len(text)
  /\ SubSeq(text, Len(text) - Len(suffix) + 1, Len(text)) = suffix

\* The texts between the separators; at least one.
Split(text, separator) ==
  LET Parts[t \in Text] ==
        LET i == Find(t, separator)
        IN IF i = 0 THEN <<t>>
           ELSE <<SubSeq(t, 1, i - 1)>> \o Parts[SubSeq(t, i + 1, Len(t))]
  IN Parts[text]

Join(texts, separator) ==
  LET Joined[ts \in Seq(Text)] ==
        IF ts = <<>> THEN <<>>
        ELSE IF Tail(ts) = <<>> THEN Head(ts)
        ELSE (Head(ts) \o <<separator>>) \o Joined[Tail(ts)]
  IN Joined[texts]

Map(Op(_), seq) == [i \in 1..Len(seq) |-> Op(seq[i])]

Replace(text, old, new) == Map(LAMBDA c : IF c = old THEN new ELSE c, text)

-----------------------------------------------------------------------------
\* IsUrlSafeCharacter leaves none of Reserved as it is, IsFormDataSafeCharacter "+".
SafeEncode(text, unescaped) ==
  Map(LAMBDA c : IF c \in Reserved \ unescaped THEN Escaped(c) ELSE c, text)

\* Only upper-case digits count, and every reserved character must be encoded.
UrlSafeDecode(text) ==
  IF Range(text) \cap (Reserved \cup LowerEscapes) = {}
  THEN Map(LAMBDA c : IF c \in UpperEscapes THEN CHOOSE r \in Reserved : c = Escaped(r)
                                            ELSE c, text)
  ELSE NULL

\* A multimap is a sequence of pairs; find gives the first value of a key.
FindKey(data, key) ==
  LET i == First({k \in 1..Len(data) : data[k][1] = key})
  IN IF i = 0 THEN NULL ELSE data[i][2]

\* A space becomes %20: the text with "+" for spaces is built and not used.
EncodeQueryData(data) ==
  Join(Map(LAMBDA pair : SafeEncode(pair[1], {}) \o <<"=">> \o SafeEncode(pair[2], {}),
           data), "&")

EncodeFormData_SpacesOnly(data) ==
  Join(Map(LAMBDA pair : Replace(pair[1], Space, "+") \o <<"=">> \o Replace(pair[2], Space, "+"),
           data), "&")

\* A space becomes "+", and a "+" stays as it is.
EncodeFormData(data) ==
  Join(Map(LAMBDA pair : SafeEncode(Replace(pair[1], Space, "+"), {"+"}) \o <<"=">>
                           \o SafeEncode(Replace(pair[2], Space, "+"), {"+"}),
           data), "&")

\* One part that is not key=value, or cannot be decoded, spoils all of it.
DecodeQueryData(query) ==
  LET Decode(part) == Map(UrlSafeDecode, Split(part, "="))
      pairs        == Map(Decode, Split(query, "&"))
  IN IF \A pair \in Range(pairs) : Len(pair) = 2 /\ NULL \notin Range(pair)
     THEN pairs ELSE NULL

\* What an IdP reads of a query or form: application/x-www-form-urlencoded (external).
FormValue(text) ==
  Map(LAMBDA c : IF c = "+" THEN Space
                 ELSE IF c \in Escapes
                 THEN CHOOSE r \in Reserved : c \in {Escaped(r), EscapedLower(r)}
                 ELSE c, text)

FormDecode(text) == Map(LAMBDA part : Map(FormValue, Split(part, "=")), Split(text, "&"))

\* Whoever reads the header undoes its base64 encoding, which is left out.
EncodeBasicAuth(username, password) == (username \o <<":">>) \o password

-----------------------------------------------------------------------------
\* The browser reads the directives one by one, as they were given.
EncodeSetCookie(name, value, directives) ==
  [pair |-> (name \o <<"=">>) \o value, directives |-> directives]

\* A name ends at the first "=".
NameValue(cookie) ==
  <<SubSeq(cookie, 1, Find(cookie, "=") - 1),
    SubSeq(cookie, Find(cookie, "=") + 1, Len(cookie))>>

DecodeCookies_SplitAtEach(header) ==
  LET cookies == Map(LAMBDA cookie : Split(cookie, "="), Split(header, CookieSeparator))
  IN IF \A cookie \in Range(cookies) : Len(cookie) = 2 THEN cookies ELSE NULL

\* One cookie without any "=" spoils the whole header.
DecodeCookies(header) ==
  LET cookies == Split(header, CookieSeparator)
  IN IF \A cookie \in Range(cookies) : Find(cookie, "=") # 0
     THEN Map(NameValue, cookies) ELSE NULL

-----------------------------------------------------------------------------
\* A "?" after the "#" belongs to the fragment.
PathQueryFragment(text) ==
  LET end      == Len(text) + 1
      h        == Find(text, "#")
      hashtag  == IF h = 0 THEN end ELSE h
      q        == Find(text, "?")
      question == IF q = 0 \/ q > hashtag THEN hashtag ELSE q
  IN [path     |-> SubSeq(text, 1, question - 1),
      query    |-> SubSeq(text, question + 1, hashtag - 1),
      fragment |-> SubSeq(text, hashtag + 1, Len(text))]

\* std::stoi reads the number a text starts with and ignores the rest.
stoi(text) ==
  IF text = <<>> \/ Head(text) \notin DOMAIN PortValue THEN NULL ELSE PortValue[Head(text)]

MaxPort == 65535

\* NULL stands for the exceptions: a scheme other than http and https, nothing
\* or a ":" right after it, and a port that is no number or is out of range.
Uri(uri) ==
  LET rest      == Tail(uri)
      end       == FindFirstOf(rest, {"/", "?", "#"})
      authority == IF end = 0 THEN rest ELSE SubSeq(rest, 1, end - 1)
      tail      == IF end = 0 THEN <<>> ELSE SubSeq(rest, end, Len(rest))
      target    == IF StartsWith(tail, <<"/">>) THEN tail ELSE <<"/">> \o tail
      colon     == Find(authority, ":")
      port      == IF colon > 0
                   THEN stoi(SubSeq(authority, colon + 1, Len(authority)))
                   ELSE IF Head(uri) = "https://" THEN 443 ELSE 80
  IN IF \/ uri = <<>>
        \/ Head(uri) \notin {"https://", "http://"}
        \/ rest = <<>>
        \/ colon = 1
        \/ port = NULL
        \/ port > MaxPort
     THEN NULL
     ELSE [scheme            |-> Head(uri),
           host              |-> IF colon > 0 THEN SubSeq(authority, 1, colon - 1) ELSE authority,
           port              |-> port,
           pathQueryFragment |-> target,
           parts             |-> PathQueryFragment(target)]

=============================================================================
