--------------------------- MODULE TokenResponseParser ---------------------------
(***************************************************************************)
(* TokenResponse and TokenResponseParserImpl                               *)
(* (src/filters/oidc/token_response.cc): what the filter makes of the body *)
(* the identity provider answers a POST with.                              *)
(*                                                                         *)
(* Token strings are reduced to whether they are empty, which is how       *)
(* TokenResponse tells an absent token.  The check of an ID token's        *)
(* signature and audience is reduced to its outcome, a field of the token. *)
(***************************************************************************)
EXTENDS Integers

CONSTANTS Nonce,        \* the nonces of the logins
          NULL,         \* the null pointer, nullopt, or an absent JSON field
          ExpiryMargin, \* 5 in the code: knocked off the access token's life
          VerifySkew    \* how long after exp verifyJwt accepts an ID token

\* A JWT: its nonce claim, whether it is signed with one of the configured keys
\* for the configured client id, and its exp claim (0 if there is none).
IdToken == [nonce : Nonce \cup {NULL}, verified : BOOLEAN, exp : Nat]

TokenResponse == [id_token            : IdToken,
                  access_token        : BOOLEAN,
                  refresh_token       : BOOLEAN,
                  access_token_expiry : Int]

\* The fields of a body that parses as JSON: id_token is NULL when the field
\* is missing or is not a JWT, access_token says whether the string is there
\* and not empty, and bearer whether token_type is "bearer" in any case.
TokenBody == [id_token      : IdToken \cup {NULL},
              access_token  : BOOLEAN,
              refresh_token : {"absent", "empty", "present"},
              expires_in    : Int \cup {NULL},
              bearer        : BOOLEAN]

\* Only an expiry other than 0 is an expiry.
GetAccessTokenExpiry(token_response) ==
  IF token_response.access_token_expiry # 0
  THEN token_response.access_token_expiry ELSE NULL

IsInvalid(body) ==
  \/ ~body.bearer
  \/ body.expires_in # NULL /\ body.expires_in <= 0

\* google::jwt_verify::verifyJwt.
verifyJwt(id_token, time) ==
  id_token.verified /\ (id_token.exp = 0 \/ time <= id_token.exp + VerifySkew)

IsIDTokenInvalid_NonceIgnored(nonce, id_token, time) == ~verifyJwt(id_token, time)

IsIDTokenInvalid(nonce, id_token, time) ==
  ~verifyJwt(id_token, time) \/ id_token.nonce = NULL \/ id_token.nonce # nonce

ParseAccessTokenExpiry(body, time) ==
  IF body.expires_in = NULL THEN 0 ELSE time + body.expires_in - ExpiryMargin

\* body is NULL when it is not JSON; the result is NULL on every error.
Parse(nonce, body, time) ==
  IF \/ body = NULL
     \/ body.id_token = NULL
     \/ IsIDTokenInvalid(nonce, body.id_token, time)
     \/ IsInvalid(body)
  THEN NULL
  ELSE [id_token            |-> body.id_token,
        access_token        |-> body.access_token,
        refresh_token       |-> body.refresh_token = "present",
        access_token_expiry |-> ParseAccessTokenExpiry(body, time)]

\* A refresh keeps the existing ID token and refresh token when the body does
\* not bring new ones, and never keeps the existing access token.
ParseRefreshTokenResponse(existing, body, time) ==
  IF body = NULL \/ IsInvalid(body)
  THEN NULL
  ELSE [id_token            |-> IF body.id_token # NULL
                                THEN body.id_token ELSE existing.id_token,
        access_token        |-> body.access_token,
        refresh_token       |-> IF body.refresh_token = "absent"
                                THEN existing.refresh_token
                                ELSE body.refresh_token = "present",
        access_token_expiry |-> ParseAccessTokenExpiry(body, time)]

=============================================================================
