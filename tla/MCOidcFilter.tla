------------------------------ MODULE MCOidcFilter ------------------------------
(* OidcFilter for TLC.                                                        *)
EXTENDS OidcFilter, TLC

CONSTANTS id1, id2, id3, strange, w1, w2, home

ThreeSessions == {id1, id2, id3, strange}

Body(id_token, access_token, refresh_token, expires_in) ==
  [id_token |-> id_token, access_token |-> access_token,
   refresh_token |-> refresh_token, expires_in |-> expires_in, bearer |-> TRUE]

Jwt(nonce, verified) == [nonce |-> nonce, verified |-> verified, exp |-> StartTime]

\* What the IdP may answer: the tokens of any login, whose ID token expires
\* when the clock moves; on a refresh, an ID token of no login without an
\* access token, or an access token without an ID token; a body that is
\* invalid because of its type or its expiry; and what is not JSON.
SomeBodies ==
  {Body(Jwt(id, TRUE), TRUE, "present", NULL) : id \in SessionId \ {strange}}
  \cup {Body(Jwt(strange, FALSE), FALSE, "empty", NULL),
        Body(NULL, TRUE, "absent", NULL),
        Body(NULL, TRUE, "absent", 0),
        [Body(NULL, TRUE, "absent", NULL) EXCEPT !.bearer = FALSE],
        NULL}

\* Workers are alike, and so are the session ids that can be issued.
Symmetry == Permutations(Worker) \cup Permutations(SessionId \ {strange})
=============================================================================
