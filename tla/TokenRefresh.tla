------------------------------ MODULE TokenRefresh ------------------------------
(***************************************************************************)
(* The refresh of one session's tokens: OidcFilter::Process from the look  *)
(* at the stored tokens on, RefreshToken, and HttpImpl::Post               *)
(* (src/common/http/http.cc) step by step, on several worker threads that  *)
(* serve requests with the same session cookie, against an identity        *)
(* provider (IdP) that may rotate refresh tokens, and may go on honouring  *)
(* those it has replaced.  OidcFilter leaves the IdP free to answer        *)
(* anything; here it has a state of its own, and the question is whether   *)
(* the store and the IdP stay in step.                                     *)
(*                                                                         *)
(* Refresh tokens are numbered in the order the IdP issues them.  An       *)
(* access token is the epoch it was issued in and expires with it.         *)
(***************************************************************************)
EXTENDS Integers

CONSTANTS Worker,    \* the threads of the service
          NULL,      \* the null pointer, or nothing
          Asked,     \* a request the IdP has not answered yet
          Refused,   \* a response with a status other than 200
          HasProxy,  \* !proxy_uri.empty()
          Faults,    \* whether connections break, the IdP errs and others
                     \* remove the session
          MaxEpoch   \* the bound on how often access tokens expire

VARIABLES
  stored,   \* the token response of the session, NULL without a session
  pc,       \* where each worker is
  seen,     \* token_response in Process
  answer,   \* what there is to read on a worker's connection, and then the
            \* refreshed token response
  epoch,    \* IdP and clock: the current epoch
  newest,   \* IdP: the refresh token it issued last
  honoured, \* IdP: the refresh tokens it honours
  policy,   \* IdP: what it does about refresh tokens
  late,     \* IdP: requests still to be served whose sender has given up
  lost      \* history: a new refresh token has been issued and not received

vars == <<stored, pc, seen, answer, epoch, newest, honoured, policy, late, lost>>

\* What the IdP answers with status 200, and what becomes of it; there may be
\* no refresh token.
TokenResponse == [refresh_token : Nat \cup {NULL}, access_token : Nat]

\* An IdP issues no refresh tokens, issues one for the whole session, or puts a
\* new one into each answer; it then revokes the old one at once, or goes on
\* honouring it for a while (RFC 6749, section 6, leaves both to the IdP).
Policies == {"none", "keeps", "rotates", "lenient"}

ASSUME RefreshAssumption ==
  /\ HasProxy \in BOOLEAN /\ Faults \in BOOLEAN /\ MaxEpoch \in Nat
  /\ NULL \notin TokenResponse \cup Nat
  /\ Asked \notin TokenResponse \cup {NULL}
  /\ Refused \notin TokenResponse \cup {NULL, Asked}

Granted(w) == answer[w] \notin {NULL, Asked, Refused}

\* The worker has been given a refresh token that it has not stored yet.
Carries(w) == Granted(w) /\ answer[w].refresh_token # NULL

GoTo(w, label) == pc' = [pc EXCEPT ![w] = label]

RequiredTokensExpired(token_response) == token_response.access_token < epoch

-----------------------------------------------------------------------------
GetTokenResponse(w) ==
  /\ pc[w] = "idle"
  /\ seen' = [seen EXCEPT ![w] = stored]
  /\ GoTo(w, IF stored = NULL THEN "discard" ELSE "check")
  /\ UNCHANGED <<stored, answer, epoch, newest, honoured, policy, late, lost>>

\* A session with tokens that have not expired is forwarded as it is; one
\* that has no refresh token is given up.
CheckExpiry(w) ==
  /\ pc[w] = "check"
  /\ \/ /\ RequiredTokensExpired(seen[w])
        /\ GoTo(w, IF seen[w].refresh_token = NULL THEN "discard" ELSE "connect")
        /\ UNCHANGED seen
     \/ /\ ~RequiredTokensExpired(seen[w])
        /\ GoTo(w, "idle")
        /\ seen' = [seen EXCEPT ![w] = NULL]
  /\ UNCHANGED <<stored, answer, epoch, newest, honoured, policy, late, lost>>

(***************************************************************************)
(* Post.  Resolving and connecting, the CONNECT request to a proxy and its *)
(* answer, the TLS handshake, the request, the response, the shutdown.     *)
(***************************************************************************)
Connect(w) ==
  /\ pc[w] = "connect"
  /\ GoTo(w, IF HasProxy THEN "tunnel" ELSE "handshake")
  /\ UNCHANGED <<stored, seen, answer, epoch, newest, honoured, policy, late, lost>>

Tunnel(w) ==
  /\ pc[w] = "tunnel"
  /\ GoTo(w, "handshake")
  /\ UNCHANGED <<stored, seen, answer, epoch, newest, honoured, policy, late, lost>>

Handshake(w) ==
  /\ pc[w] = "handshake"
  /\ GoTo(w, "write")
  /\ UNCHANGED <<stored, seen, answer, epoch, newest, honoured, policy, late, lost>>

Write(w) ==
  /\ pc[w] = "write"
  /\ answer' = [answer EXCEPT ![w] = Asked]
  /\ GoTo(w, "read")
  /\ UNCHANGED <<stored, seen, epoch, newest, honoured, policy, late, lost>>

Read(w) ==
  /\ pc[w] = "read"
  /\ answer[w] # Asked
  /\ GoTo(w, "shutdown")
  /\ UNCHANGED <<stored, seen, answer, epoch, newest, honoured, policy, late, lost>>

\* Each step of Post but the shutdown throws when it fails, and so does a
\* proxy that answers with a status other than 200; Post returns null.  A
\* request the IdP already has may be served all the same.
PostThrows(w) ==
  /\ Faults
  /\ pc[w] \in {"connect", "tunnel", "handshake", "write", "read"}
  /\ GoTo(w, "discard")
  /\ late' = IF answer[w] = Asked THEN late \cup {seen[w].refresh_token} ELSE late
  /\ lost' = (lost \/ Carries(w))
  /\ answer' = [answer EXCEPT ![w] = NULL]
  /\ UNCHANGED <<stored, seen, epoch, newest, honoured, policy>>

\* A shutdown error other than not_connected and stream_truncated makes Post
\* return null too, although it has read the whole response.
ShutdownFails_Retries(w) ==
  /\ Faults
  /\ pc[w] = "shutdown"
  /\ GoTo(w, "connect")
  /\ lost' = (lost \/ Carries(w))
  /\ answer' = [answer EXCEPT ![w] = NULL]
  /\ UNCHANGED <<stored, seen, epoch, newest, honoured, policy, late>>

ShutdownFails(w) ==
  /\ Faults
  /\ pc[w] = "shutdown"
  /\ GoTo(w, "discard")
  /\ lost' = (lost \/ Carries(w))
  /\ answer' = [answer EXCEPT ![w] = NULL]
  /\ UNCHANGED <<stored, seen, epoch, newest, honoured, policy, late>>

ParseRefreshTokenResponse_KeepsToken(existing, body) ==
  [refresh_token |-> existing.refresh_token,
   access_token  |-> body.access_token]

ParseRefreshTokenResponse_CopiesField(existing, body) ==
  [refresh_token |-> body.refresh_token,
   access_token  |-> body.access_token]

ParseRefreshTokenResponse(existing, body) ==
  [refresh_token |-> IF body.refresh_token = NULL THEN existing.refresh_token
                                                  ELSE body.refresh_token,
   access_token  |-> body.access_token]

\* RefreshToken with Post's response: its status and then its body.
RefreshToken(w) ==
  /\ pc[w] = "shutdown"
  /\ \/ /\ Granted(w)
        /\ GoTo(w, "store")
        /\ answer' = [answer EXCEPT ![w] = ParseRefreshTokenResponse(seen[w], @)]
        /\ UNCHANGED lost
     \/ /\ Granted(w) => Faults  \* the parser refuses the body
        /\ GoTo(w, "discard")
        /\ answer' = [answer EXCEPT ![w] = NULL]
        /\ lost' = (lost \/ Carries(w))
  /\ UNCHANGED <<stored, seen, epoch, newest, honoured, policy, late>>

\* SetTokenResponse, which brings back a session that is gone.
StoreRefreshed(w) ==
  /\ pc[w] = "store"
  /\ stored' = answer[w]
  /\ answer' = [answer EXCEPT ![w] = NULL]
  /\ seen' = [seen EXCEPT ![w] = NULL]
  /\ GoTo(w, "idle")
  /\ UNCHANGED <<epoch, newest, honoured, policy, late, lost>>

DiscardSession_RestoresTokens(w) ==
  /\ pc[w] = "discard"
  /\ stored' = seen[w]
  /\ seen' = [seen EXCEPT ![w] = NULL]
  /\ GoTo(w, "idle")
  /\ UNCHANGED <<answer, epoch, newest, honoured, policy, late, lost>>

\* RedirectToIdp removes the session; the new login has another session id.
DiscardSession(w) ==
  /\ pc[w] = "discard"
  /\ stored' = NULL
  /\ seen' = [seen EXCEPT ![w] = NULL]
  /\ GoTo(w, "idle")
  /\ UNCHANGED <<answer, epoch, newest, honoured, policy, late, lost>>

\* A logout request, or the periodic cleanup, removes the session.
RemoveSession(w) ==
  /\ pc[w] = "idle"
  /\ Faults
  /\ stored' = NULL
  /\ UNCHANGED <<pc, seen, answer, epoch, newest, honoured, policy, late, lost>>

-----------------------------------------------------------------------------
(***************************************************************************)
(* The identity provider.                                                  *)
(***************************************************************************)
Rotates == policy \in {"rotates", "lenient"}

\* A refresh token is used.
Renew ==
  /\ newest' = IF Rotates THEN newest + 1 ELSE newest
  /\ honoured' = IF policy = "lenient" THEN honoured \cup {newest'} ELSE {newest'}

IdpGrants(w) ==
  /\ answer[w] = Asked
  /\ seen[w].refresh_token \in honoured
  /\ Renew
  /\ answer' = [answer EXCEPT ![w] =
                  [refresh_token |-> IF Rotates THEN newest' ELSE NULL,
                   access_token  |-> epoch]]
  /\ UNCHANGED <<stored, pc, seen, epoch, policy, late, lost>>

IdpRefuses(w) ==
  /\ answer[w] = Asked
  /\ Faults \/ seen[w].refresh_token \notin honoured
  /\ answer' = [answer EXCEPT ![w] = Refused]
  /\ UNCHANGED <<stored, pc, seen, epoch, newest, honoured, policy, late, lost>>

\* It serves a request although nobody waits for the answer any more.
IdpServesLate ==
  \E token \in late :
    /\ late' = late \ {token}
    /\ IF token \in honoured THEN Renew ELSE UNCHANGED <<newest, honoured>>
    /\ lost' = (lost \/ (token \in honoured /\ Rotates))
    /\ UNCHANGED <<stored, pc, seen, answer, epoch, policy>>

\* It stops honouring the refresh tokens it has replaced.
IdpRevokes ==
  /\ honoured # {newest}
  /\ honoured' = {newest}
  /\ UNCHANGED <<stored, pc, seen, answer, epoch, newest, policy, late, lost>>

Expire ==
  /\ epoch < MaxEpoch
  /\ epoch' = epoch + 1
  /\ UNCHANGED <<stored, pc, seen, answer, newest, honoured, policy, late, lost>>

-----------------------------------------------------------------------------
Init ==
  /\ policy \in Policies
  /\ stored = [refresh_token |-> IF policy = "none" THEN NULL ELSE 0,
               access_token  |-> 0]
  /\ pc = [w \in Worker |-> "idle"]
  /\ seen = [w \in Worker |-> NULL]
  /\ answer = [w \in Worker |-> NULL]
  /\ epoch = 0
  /\ newest = 0
  /\ honoured = {0}
  /\ late = {}
  /\ lost = FALSE

Continue(w) ==
  \/ CheckExpiry(w)
  \/ Connect(w)
  \/ Tunnel(w)
  \/ Handshake(w)
  \/ Write(w)
  \/ Read(w)
  \/ PostThrows(w)
  \/ ShutdownFails(w)
  \/ RefreshToken(w)
  \/ StoreRefreshed(w)
  \/ DiscardSession(w)

Idp(w) == IdpGrants(w) \/ IdpRefuses(w)

Next ==
  \/ \E w \in Worker : GetTokenResponse(w) \/ RemoveSession(w) \/ Continue(w) \/ Idp(w)
  \/ IdpServesLate
  \/ IdpRevokes
  \/ Expire

Spec == Init /\ [][Next]_vars

\* A worker does not stop within a handler, and the IdP answers what it is
\* asked or the connection breaks: Post has no timeout of its own.
FairSpec == Spec /\ \A w \in Worker : WF_vars(Continue(w)) /\ WF_vars(Idp(w))

-----------------------------------------------------------------------------
\* The stored token response has a refresh token if the IdP issues any: a
\* refreshed response has one of its own or the one it replaces.
TypeOK ==
  /\ stored \in TokenResponse \cup {NULL}
  /\ stored # NULL => (stored.refresh_token = NULL <=> policy = "none")
  /\ pc \in [Worker -> {"idle", "check", "connect", "tunnel", "handshake", "write",
                        "read", "shutdown", "store", "discard"}]
  /\ seen \in [Worker -> TokenResponse \cup {NULL}]
  /\ answer \in [Worker -> TokenResponse \cup {NULL, Asked, Refused}]
  /\ epoch \in Nat /\ newest \in Nat /\ honoured \subseteq Nat
  /\ policy \in Policies /\ lost \in BOOLEAN
  /\ late \subseteq Nat

(***************************************************************************)
(* The store keeps up with an IdP that honours only the refresh token it   *)
(* issued last: the session holds that token, unless a request is just     *)
(* bringing it or it was lost with an answer that Post or the parser       *)
(* dropped.  Refreshes of the same session on several threads, each with   *)
(* its own copy of the tokens, do not overwrite it.                        *)
(***************************************************************************)
NewestTokenStored ==
  policy \in {"keeps", "rotates"} =>
    \/ stored = NULL
    \/ stored.refresh_token = newest
    \/ lost
    \/ \E w \in Worker : Carries(w) /\ answer[w].refresh_token = newest

(***************************************************************************)
(* SetTokenResponse, which does not look at what it replaces, puts back an *)
(* older refresh token only with an IdP that goes on honouring tokens it   *)
(* has replaced.  Even then what it puts back is newer than the token its  *)
(* own request had read: only refreshes that overlap undo each other.      *)
(***************************************************************************)
StoreGoesBackOnlyIfTolerated ==
  [][(stored # NULL /\ stored' \notin {NULL, stored}) =>
       \/ stored'.refresh_token >= stored.refresh_token
       \/ /\ policy = "lenient"
          /\ \E w \in Worker : /\ stored' = answer[w]
                               /\ seen[w].refresh_token < stored'.refresh_token]_vars

(***************************************************************************)
(* A request that refreshes tokens is answered, whichever step of Post     *)
(* fails, as long as the IdP answers or the connection breaks.             *)
(***************************************************************************)
RefreshEnds == \A w \in Worker : pc[w] # "idle" ~> pc[w] = "idle"

(***************************************************************************)
(* Expired tokens are refreshed automatically: with an IdP that honours    *)
(* the refresh token it issued last and connections that do not break, no  *)
(* user of a session that has a refresh token has to log in again.  Two    *)
(* requests that refresh at the same time break this when the IdP rotates. *)
(***************************************************************************)
SessionKept == stored # NULL \/ policy = "none"

=============================================================================
