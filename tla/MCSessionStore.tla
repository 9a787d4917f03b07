----------------------------- MODULE MCSessionStore -----------------------------
(* SessionStore for TLC: two sessions, one token response, one login state.  *)
EXTENDS SessionStore

CONSTANTS id1, id2, tokens, login

MCSessionId          == {id1, id2}
MCTokenResponse      == {tokens}
MCAuthorizationState == {login}
=============================================================================
