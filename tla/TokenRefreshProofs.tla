--------------------------- MODULE TokenRefreshProofs ---------------------------
(***************************************************************************)
(* Proofs about TokenRefresh, for any number of threads and of expiries.   *)
(***************************************************************************)
EXTENDS TokenRefresh, TLAPS

(***************************************************************************)
(* NewestTokenStored is not inductive.  It rests on the newest refresh     *)
(* token being in one place at a time when the IdP revokes the one it      *)
(* replaces: while a worker carries the newest to the store, nobody else   *)
(* has a copy, so the IdP cannot grant another refresh in the meantime.    *)
(***************************************************************************)
HoldsOld(token_response) ==
  token_response # NULL =>
    /\ policy = "none" <=> token_response.refresh_token = NULL
    /\ policy # "none" => token_response.refresh_token <= newest
    /\ policy = "keeps" => token_response.refresh_token = newest

\* What a worker brings to the store is newer than what it read there.
CarriesNew(w) ==
  Carries(w) =>
    /\ answer[w].refresh_token <= newest
    /\ policy # "lenient" => answer[w].refresh_token = newest
    /\ Rotates => seen[w].refresh_token < answer[w].refresh_token

WorkerOK(w) ==
  /\ pc[w] \notin {"idle", "discard"} => seen[w] # NULL
  /\ pc[w] \notin {"idle", "discard", "check"} => policy # "none"
  /\ answer[w] # NULL => pc[w] \in {"read", "shutdown", "store"}
  /\ pc[w] \in {"read", "shutdown"} => answer[w] # NULL
  /\ pc[w] = "shutdown" => answer[w] # Asked
  /\ pc[w] = "store" => Carries(w)
  /\ (Rotates /\ Granted(w)) => Carries(w)
  /\ HoldsOld(seen[w])

CarriedAlone(w) ==
  (policy = "rotates" /\ Carries(w)) =>
    /\ stored # NULL => stored.refresh_token # newest
    /\ newest \notin late
    /\ \A v \in Worker : /\ v # w => ~Carries(v)
                         /\ seen[v] # NULL => seen[v].refresh_token # newest

IdpOK ==
  /\ policy # "lenient" => honoured = {newest}
  /\ \A token \in late : token <= newest

IInv ==
  /\ TypeOK
  /\ HoldsOld(stored)
  /\ IdpOK
  /\ \A w \in Worker : WorkerOK(w) /\ CarriesNew(w) /\ CarriedAlone(w)
  /\ NewestTokenStored

USE RefreshAssumption

\* The tokens that are compared are numbers.
LEMMA TokenTypes ==
  ASSUME IInv
  PROVE  /\ newest \in Nat
         /\ (stored # NULL /\ policy # "none") => stored.refresh_token \in Nat
         /\ \A w \in Worker :
              /\ (seen[w] # NULL /\ policy # "none") => seen[w].refresh_token \in Nat
              /\ Granted(w) => answer[w] \in TokenResponse
              /\ Carries(w) => /\ answer[w].refresh_token \in Nat
                               /\ policy # "none" /\ seen[w] # NULL
<1>1. newest \in Nat
  BY DEF IInv, TypeOK
<1>2. (stored # NULL /\ policy # "none") => stored.refresh_token \in Nat
  BY DEF IInv, TypeOK, TokenResponse
<1>3. ASSUME NEW w \in Worker
      PROVE  /\ (seen[w] # NULL /\ policy # "none") => seen[w].refresh_token \in Nat
             /\ Granted(w) => answer[w] \in TokenResponse
             /\ Carries(w) => /\ answer[w].refresh_token \in Nat
                              /\ policy # "none" /\ seen[w] # NULL
  <2>1. (seen[w] # NULL /\ policy # "none") => seen[w].refresh_token \in Nat
    BY DEF IInv, TypeOK, TokenResponse, WorkerOK, HoldsOld
  <2>2. Granted(w) => answer[w] \in TokenResponse
    BY DEF IInv, TypeOK, Granted
  <2>3. Carries(w) => answer[w].refresh_token \in Nat
    BY <2>2 DEF Carries, TokenResponse
  <2>4. Carries(w) => policy # "none" /\ seen[w] # NULL
    BY DEF IInv, WorkerOK, Carries, Granted
  <2>5. QED
    BY <2>1, <2>2, <2>3, <2>4
<1>4. QED
  BY <1>1, <1>2, <1>3

\* The session starts with the token the IdP issued.
LEMMA InitInvariant == Init => IInv
<1> SUFFICES ASSUME Init PROVE IInv
  OBVIOUS
<1>1. TypeOK
  <2>1. /\ stored \in TokenResponse
        /\ stored.refresh_token = NULL <=> policy = "none"
    <3>1. CASE policy = "none"
      BY <3>1 DEF Init, TokenResponse
    <3>2. CASE policy # "none"
      BY <3>2 DEF Init, TokenResponse
    <3>3. QED
      BY <3>1, <3>2
  <2>2. /\ pc \in [Worker -> {"idle", "check", "connect", "tunnel", "handshake", "write",
                              "read", "shutdown", "store", "discard"}]
        /\ seen \in [Worker -> TokenResponse \cup {NULL}]
        /\ answer \in [Worker -> TokenResponse \cup {NULL, Asked, Refused}]
    BY DEF Init
  <2>3. policy \in Policies /\ lost \in BOOLEAN
    BY Zenon DEF Init
  <2>4. epoch = 0 /\ newest = 0 /\ honoured = {0} /\ late = {}
    BY Zenon DEF Init
  <2>5. QED
    BY <2>1, <2>2, <2>3, <2>4 DEF TypeOK
<1>2. \A w \in Worker : ~Carries(w) /\ ~Granted(w)
  BY DEF Init, Carries, Granted
<1>3. HoldsOld(stored) /\ NewestTokenStored /\ IdpOK
  BY DEF Init, HoldsOld, NewestTokenStored, IdpOK, Policies
<1>4. \A w \in Worker : WorkerOK(w) /\ CarriesNew(w) /\ CarriedAlone(w)
  BY <1>2 DEF Init, WorkerOK, CarriesNew, CarriedAlone, HoldsOld
<1>5. QED
  BY <1>1, <1>3, <1>4 DEF IInv

\* What a step does that neither the IdP nor the store notices: a worker moves
\* on, keeps or forgets its copy, and keeps the token it carries.
LEMMA LocalStep ==
  ASSUME IInv, NEW w \in Worker, TypeOK',
         UNCHANGED <<stored, newest, honoured, policy, late, lost>>,
         \A v \in Worker : v # w => /\ pc'[v] = pc[v]
                                    /\ seen'[v] = seen[v]
                                    /\ answer'[v] = answer[v],
         seen'[w] \in {seen[w], NULL},
         Carries(w)' <=> Carries(w),
         Carries(w) => /\ seen'[w] = seen[w]
                       /\ answer'[w].refresh_token = answer[w].refresh_token,
         WorkerOK(w)'
  PROVE  IInv'
<1>1. \A v \in Worker : /\ Carries(v)' <=> Carries(v)
                        /\ Carries(v) => answer'[v].refresh_token = answer[v].refresh_token
  BY DEF Carries, Granted
<1>2. HoldsOld(stored)' /\ IdpOK'
  BY DEF IInv, HoldsOld, IdpOK
<1>3. ASSUME NEW v \in Worker PROVE WorkerOK(v)'
  <2>1. CASE v = w
    BY <2>1
  <2>2. CASE v # w
    <3>1. Granted(v)' <=> Granted(v)
      BY <2>2 DEF Granted
    <3>2. QED
      BY <1>1, <2>2, <3>1 DEF IInv, WorkerOK, HoldsOld, Rotates
  <2>3. QED
    BY <2>1, <2>2
<1>4. ASSUME NEW v \in Worker PROVE CarriesNew(v)'
  BY <1>1 DEF IInv, CarriesNew, Rotates
<1>5. ASSUME NEW v \in Worker PROVE CarriedAlone(v)'
  BY <1>1 DEF IInv, CarriedAlone
<1>6. NewestTokenStored'
  BY <1>1 DEF IInv, NewestTokenStored
<1>7. QED
  BY <1>2, <1>3, <1>4, <1>5, <1>6 DEF IInv

\* A worker gives up its request, and with it the token it may carry.
LEMMA DropAnswer ==
  ASSUME IInv, NEW w \in Worker, pc[w] # "idle", GoTo(w, "discard"),
         answer' = [answer EXCEPT ![w] = NULL],
         lost' = (lost \/ Carries(w)),
         UNCHANGED <<stored, seen, epoch, newest, honoured, policy>>,
         late' = late \/ (answer[w] = Asked /\ late' = late \cup {seen[w].refresh_token})
  PROVE  IInv'
<1>1. answer[w] = Asked =>
        /\ seen[w] # NULL /\ policy # "none"
        /\ seen[w].refresh_token \in Nat /\ seen[w].refresh_token <= newest
  BY TokenTypes DEF IInv, WorkerOK, HoldsOld
<1>2. TypeOK'
  BY <1>1 DEF GoTo, IInv, TypeOK
<1>3. /\ ~Carries(w)' /\ ~Granted(w)'
      /\ \A v \in Worker : v # w => /\ Carries(v)' <=> Carries(v)
                                    /\ Granted(v)' <=> Granted(v)
                                    /\ answer'[v] = answer[v]
  BY DEF IInv, TypeOK, Carries, Granted
<1>4. HoldsOld(stored)' /\ IdpOK'
  BY <1>1 DEF IInv, HoldsOld, IdpOK
<1>5. ASSUME NEW v \in Worker PROVE WorkerOK(v)'
  <2>1. CASE v = w
    BY <1>3, <2>1 DEF GoTo, IInv, TypeOK, WorkerOK, HoldsOld, Rotates
  <2>2. CASE v # w
    BY <1>3, <2>2 DEF GoTo, IInv, TypeOK, WorkerOK, HoldsOld, Rotates
  <2>3. QED
    BY <2>1, <2>2
<1>6. ASSUME NEW v \in Worker PROVE CarriesNew(v)'
  BY <1>3 DEF IInv, CarriesNew, Rotates
<1>7. ASSUME NEW v \in Worker PROVE CarriedAlone(v)'
  BY <1>1, <1>3 DEF IInv, CarriedAlone
<1>8. NewestTokenStored'
  BY <1>3 DEF IInv, NewestTokenStored
<1>9. QED
  BY <1>2, <1>4, <1>5, <1>6, <1>7, <1>8 DEF IInv

-----------------------------------------------------------------------------
\* A worker reads the session's tokens.
LEMMA ReadInvariant ==
  ASSUME IInv, NEW w \in Worker, GetTokenResponse(w)
  PROVE  IInv'
<1>1. TypeOK'
  BY DEF GetTokenResponse, GoTo, IInv, TypeOK
<1>2. /\ \A v \in Worker : (Carries(v)' <=> Carries(v)) /\ (Granted(v)' <=> Granted(v))
      /\ ~Carries(w) /\ ~Granted(w)
  BY DEF GetTokenResponse, Carries, Granted, IInv, WorkerOK
<1>3. HoldsOld(stored)' /\ IdpOK' /\ NewestTokenStored'
  BY <1>2 DEF GetTokenResponse, IInv, HoldsOld, IdpOK, NewestTokenStored
<1>4. ASSUME NEW v \in Worker PROVE WorkerOK(v)'
  BY <1>2 DEF GetTokenResponse, GoTo, IInv, TypeOK, WorkerOK, HoldsOld, Rotates
<1>5. ASSUME NEW v \in Worker PROVE CarriesNew(v)' /\ CarriedAlone(v)'
  BY <1>2 DEF GetTokenResponse, IInv, TypeOK, CarriesNew, CarriedAlone, Rotates
<1>6. QED
  BY <1>1, <1>3, <1>4, <1>5 DEF IInv

\* RefreshToken turns the answer into the token response to store.
LEMMA RefreshInvariantStep ==
  ASSUME IInv, NEW w \in Worker, RefreshToken(w)
  PROVE  IInv'
<1>1. CASE /\ Granted(w) /\ GoTo(w, "store")
           /\ answer' = [answer EXCEPT ![w] = ParseRefreshTokenResponse(seen[w], @)]
           /\ UNCHANGED <<stored, seen, epoch, newest, honoured, policy, late, lost>>
  <2>1. /\ answer[w] \in TokenResponse /\ seen[w] # NULL /\ policy # "none"
        /\ seen[w].refresh_token \in Nat /\ pc[w] = "shutdown"
    BY <1>1, TokenTypes DEF RefreshToken, IInv, WorkerOK
  <2>2. /\ answer'[w] \in TokenResponse /\ answer'[w].refresh_token \in Nat
        /\ answer'[w].refresh_token = IF answer[w].refresh_token = NULL
                                      THEN seen[w].refresh_token
                                      ELSE answer[w].refresh_token
    BY <1>1, <2>1 DEF IInv, TypeOK, ParseRefreshTokenResponse, TokenResponse
  <2>3. TypeOK'
    BY <1>1, <2>2 DEF GoTo, IInv, TypeOK
  <2>4. /\ Carries(w)' /\ Granted(w)'
        /\ \A v \in Worker : v # w => /\ Carries(v)' <=> Carries(v)
                                      /\ Granted(v)' <=> Granted(v)
                                      /\ answer'[v] = answer[v]
    BY <1>1, <2>2 DEF Carries, Granted, IInv, TypeOK
  <2>5. CASE Rotates
    <3>1. Carries(w)
      BY <1>1, <2>5 DEF IInv, WorkerOK
    <3>2. answer'[w].refresh_token = answer[w].refresh_token
      BY <2>2, <3>1 DEF Carries
    <3>3. WorkerOK(w)'
      BY <1>1, <2>1, <2>4 DEF GoTo, IInv, TypeOK, WorkerOK, HoldsOld
    <3>4. QED
      BY <1>1, <2>3, <2>4, <3>1, <3>2, <3>3, LocalStep DEF GoTo, IInv, TypeOK
  <2>6. CASE ~Rotates
    <3>1. policy = "keeps"
      BY <2>1, <2>6 DEF IInv, TypeOK, Policies, Rotates
    <3>2. answer'[w].refresh_token = newest
      BY <1>1, <2>1, <2>2, <3>1 DEF IInv, WorkerOK, CarriesNew, HoldsOld, Carries
    <3>3. ASSUME NEW v \in Worker PROVE WorkerOK(v)'
      BY <1>1, <2>1, <2>4 DEF GoTo, IInv, TypeOK, WorkerOK, HoldsOld, Rotates
    <3>4. ASSUME NEW v \in Worker PROVE CarriesNew(v)' /\ CarriedAlone(v)'
      BY <1>1, <2>4, <2>6, <3>1, <3>2, TokenTypes
         DEF IInv, CarriesNew, CarriedAlone, Rotates
    <3>5. HoldsOld(stored)' /\ IdpOK' /\ NewestTokenStored'
      BY <1>1, <2>4, <3>2 DEF IInv, HoldsOld, IdpOK, NewestTokenStored
    <3>6. QED
      BY <2>3, <3>3, <3>4, <3>5 DEF IInv
  <2>7. QED
    BY <2>5, <2>6
<1>2. CASE /\ GoTo(w, "discard")
           /\ answer' = [answer EXCEPT ![w] = NULL]
           /\ lost' = (lost \/ Carries(w))
           /\ UNCHANGED <<stored, seen, epoch, newest, honoured, policy, late>>
  BY <1>2, DropAnswer DEF RefreshToken
<1>3. QED
  BY <1>1, <1>2 DEF RefreshToken

\* The store gets the token that a worker carried.
LEMMA StoreInvariantStep ==
  ASSUME IInv, NEW w \in Worker, StoreRefreshed(w)
  PROVE  IInv'
<1>1. /\ answer[w] \in TokenResponse /\ Carries(w) /\ policy # "none"
      /\ answer[w].refresh_token \in Nat
  BY TokenTypes DEF StoreRefreshed, IInv, WorkerOK, Carries
<1>2. TypeOK'
  BY <1>1 DEF StoreRefreshed, GoTo, IInv, TypeOK
<1>3. /\ ~Carries(w)' /\ ~Granted(w)'
      /\ \A v \in Worker : v # w => /\ Carries(v)' <=> Carries(v)
                                    /\ Granted(v)' <=> Granted(v)
                                    /\ answer'[v] = answer[v]
  BY DEF StoreRefreshed, IInv, TypeOK, Carries, Granted
<1>4. ASSUME NEW v \in Worker PROVE WorkerOK(v)'
  <2>1. CASE v = w
    BY <1>3, <2>1 DEF StoreRefreshed, GoTo, IInv, TypeOK, WorkerOK, HoldsOld
  <2>2. CASE v # w
    BY <1>3, <2>2 DEF StoreRefreshed, GoTo, IInv, TypeOK, WorkerOK, HoldsOld, Rotates
  <2>3. QED
    BY <2>1, <2>2
<1>5. ASSUME NEW v \in Worker PROVE CarriesNew(v)'
  BY <1>3 DEF StoreRefreshed, IInv, TypeOK, CarriesNew, Rotates
<1>6. ASSUME NEW v \in Worker PROVE CarriedAlone(v)'
  BY <1>1, <1>3 DEF StoreRefreshed, IInv, CarriedAlone
<1>7. /\ stored' # NULL /\ stored'.refresh_token = answer[w].refresh_token
      /\ stored'.refresh_token <= newest
      /\ policy # "lenient" => stored'.refresh_token = newest
  BY <1>1 DEF StoreRefreshed, IInv, CarriesNew
<1>8. HoldsOld(stored)' /\ IdpOK' /\ NewestTokenStored'
  BY <1>1, <1>7 DEF StoreRefreshed, IInv, HoldsOld, IdpOK, NewestTokenStored
<1>9. QED
  BY <1>2, <1>4, <1>5, <1>6, <1>8 DEF IInv

\* The session is removed.
LEMMA RemoveInvariant ==
  ASSUME IInv, NEW w \in Worker, DiscardSession(w) \/ RemoveSession(w)
  PROVE  IInv'
<1>1. TypeOK'
  BY DEF DiscardSession, RemoveSession, GoTo, IInv, TypeOK
<1>2. /\ \A v \in Worker : /\ Carries(v)' <=> Carries(v)
                           /\ Granted(v)' <=> Granted(v)
                           /\ seen'[v] \in {seen[v], NULL}
                           /\ Carries(v) => seen'[v] = seen[v]
      /\ UNCHANGED <<answer, newest, honoured, policy, late, lost>> /\ stored' = NULL
  BY DEF DiscardSession, RemoveSession, Carries, Granted, IInv, TypeOK, WorkerOK
<1>3. ASSUME NEW v \in Worker PROVE WorkerOK(v)'
  BY <1>2 DEF DiscardSession, RemoveSession, GoTo, IInv, TypeOK, WorkerOK, HoldsOld, Rotates
<1>4. ASSUME NEW v \in Worker PROVE CarriesNew(v)' /\ CarriedAlone(v)'
  BY <1>2 DEF IInv, CarriesNew, CarriedAlone, Rotates
<1>5. HoldsOld(stored)' /\ IdpOK' /\ NewestTokenStored'
  BY <1>2 DEF IInv, HoldsOld, IdpOK, NewestTokenStored
<1>6. QED
  BY <1>1, <1>3, <1>4, <1>5 DEF IInv

-----------------------------------------------------------------------------
\* A refresh token is used: a new one is the newest there is, and whoever holds
\* a copy of a token holds an older one.
LEMMA RenewOK ==
  ASSUME IInv, Renew, UNCHANGED <<stored, seen, policy>>, late' \subseteq late
  PROVE  /\ newest' \in Nat /\ honoured' \subseteq Nat
         /\ newest' = IF Rotates THEN newest + 1 ELSE newest
         /\ HoldsOld(stored)' /\ IdpOK'
         /\ \A v \in Worker : HoldsOld(seen[v])'
         /\ Rotates =>
              /\ \A v \in Worker : (seen[v] # NULL /\ policy # "none") =>
                                      seen[v].refresh_token < newest'
              /\ (stored # NULL /\ policy # "none") => stored.refresh_token # newest'
              /\ newest' \notin late
<1>1. newest \in Nat /\ newest' = IF Rotates THEN newest + 1 ELSE newest
  BY TokenTypes DEF Renew
<1>2. newest' \in Nat /\ newest <= newest'
  BY <1>1
<1>3. honoured' \subseteq Nat
  BY <1>2 DEF Renew, IInv, TypeOK
<1>4. IdpOK'
  BY <1>1, <1>2 DEF Renew, IInv, IdpOK, TypeOK
<1>5. ASSUME NEW t, HoldsOld(t), t # NULL => policy = "none" \/ t.refresh_token \in Nat
      PROVE  /\ t # NULL => /\ policy = "none" <=> t.refresh_token = NULL
                            /\ policy # "none" => t.refresh_token <= newest'
                            /\ policy = "keeps" => t.refresh_token = newest'
             /\ (Rotates /\ t # NULL /\ policy # "none") => t.refresh_token < newest'
  BY <1>1, <1>2, <1>5 DEF HoldsOld, Rotates
<1>6. HoldsOld(stored)' /\ \A v \in Worker : HoldsOld(seen[v])'
  BY <1>5, TokenTypes DEF IInv, WorkerOK, HoldsOld
<1>7. Rotates =>
        /\ \A v \in Worker : (seen[v] # NULL /\ policy # "none") =>
                                seen[v].refresh_token < newest'
        /\ (stored # NULL /\ policy # "none") => stored.refresh_token # newest'
  BY <1>2, <1>5, TokenTypes DEF IInv, WorkerOK
<1>8. Rotates => newest' \notin late
  BY <1>1 DEF IInv, IdpOK, TypeOK
<1>9. QED
  BY <1>1, <1>2, <1>3, <1>4, <1>6, <1>7, <1>8

\* With an IdP that revokes what it replaces, nobody carries a token when the
\* newest is used: there is only the copy that was used.
LEMMA RenewAlone ==
  ASSUME IInv, policy = "rotates", NEW token,
         token \in late \/ \E w \in Worker : seen[w] # NULL /\ token = seen[w].refresh_token,
         token \in honoured
  PROVE  token = newest /\ \A v \in Worker : ~Carries(v)
<1>1. token = newest
  BY DEF IInv, IdpOK
<1>2. QED
  BY <1>1 DEF IInv, CarriedAlone

\* The IdP grants a refresh: the worker that asked carries the new token.
LEMMA GrantInvariant ==
  ASSUME IInv, NEW w \in Worker, IdpGrants(w)
  PROVE  IInv'
<1>1. /\ answer[w] = Asked /\ pc[w] = "read" /\ seen[w] # NULL /\ policy # "none"
      /\ Renew /\ UNCHANGED <<stored, pc, seen, epoch, policy, late, lost>>
  BY DEF IdpGrants, IInv, WorkerOK, Carries, Granted
<1>2. /\ newest' \in Nat /\ newest \in Nat /\ honoured' \subseteq Nat
      /\ newest' = IF Rotates THEN newest + 1 ELSE newest
      /\ HoldsOld(stored)' /\ IdpOK'
      /\ \A v \in Worker : HoldsOld(seen[v])'
  BY <1>1, RenewOK, TokenTypes
<1>3. answer'[w] = [refresh_token |-> IF Rotates THEN newest' ELSE NULL,
                    access_token  |-> epoch] /\ answer'[w] \in TokenResponse
  BY <1>2 DEF IdpGrants, IInv, TypeOK, TokenResponse
<1>4. TypeOK'
  BY <1>1, <1>2, <1>3 DEF IdpGrants, IInv, TypeOK
<1>5. Granted(w)' /\ (Carries(w)' <=> Rotates)
  BY <1>2, <1>3 DEF Granted, Carries
<1>6. \A v \in Worker : v # w => /\ Carries(v)' <=> Carries(v)
                                 /\ Granted(v)' <=> Granted(v)
                                 /\ answer'[v] = answer[v]
  BY DEF IdpGrants, Carries, Granted, IInv, TypeOK
<1>7. policy = "rotates" => \A v \in Worker : ~Carries(v)
  BY <1>1, RenewAlone DEF IdpGrants
<1>8. ASSUME NEW v \in Worker PROVE WorkerOK(v)'
  <2>1. CASE v = w
    BY <1>1, <1>2, <1>3, <1>5, <2>1 DEF WorkerOK, Rotates
  <2>2. CASE v # w
    BY <1>1, <1>2, <1>6, <2>2 DEF IInv, WorkerOK, Rotates
  <2>3. QED
    BY <2>1, <2>2
<1>9. ASSUME NEW v \in Worker PROVE CarriesNew(v)'
  <2>1. CASE v = w
    <3>1. Rotates => seen[w].refresh_token < newest'
      BY <1>1, RenewOK
    <3>2. QED
      BY <1>1, <1>2, <1>3, <1>5, <2>1, <3>1 DEF CarriesNew, Rotates
  <2>2. CASE v # w
    <3> SUFFICES ASSUME Carries(v)' PROVE CarriesNew(v)'
      BY DEF CarriesNew
    <3>1. Carries(v) /\ answer'[v] = answer[v] /\ answer[v].refresh_token \in Nat
      BY <1>6, <2>2, TokenTypes
    <3>2. policy # "lenient" => newest' = newest
      BY <1>2, <1>7, <3>1 DEF Rotates
    <3>3. QED
      BY <1>1, <1>2, <3>1, <3>2 DEF IInv, CarriesNew, Rotates
  <2>3. QED
    BY <2>1, <2>2
<1>10. ASSUME NEW v \in Worker PROVE CarriedAlone(v)'
  <2> SUFFICES ASSUME policy' = "rotates", Carries(v)' PROVE CarriedAlone(v)'
    BY DEF CarriedAlone
  <2>1. policy = "rotates" /\ Rotates /\ v = w
    BY <1>1, <1>6, <1>7 DEF Rotates
  <2>2. \A u \in Worker : u # w => ~Carries(u)'
    BY <1>6, <1>7, <2>1
  <2>3. /\ \A u \in Worker : seen[u] # NULL => seen[u].refresh_token # newest'
        /\ stored # NULL => stored.refresh_token # newest'
        /\ newest' \notin late
    BY <1>1, <1>2, <2>1, RenewOK, TokenTypes
  <2>4. QED
    BY <1>1, <2>1, <2>2, <2>3 DEF CarriedAlone
<1>11. NewestTokenStored'
  <2>1. CASE policy = "rotates"
    BY <1>1, <1>3, <1>5, <2>1 DEF NewestTokenStored, Rotates
  <2>2. CASE policy # "rotates"
    BY <1>1, <1>2, <2>2 DEF HoldsOld, NewestTokenStored
  <2>3. QED
    BY <2>1, <2>2
<1>12. QED
  BY <1>2, <1>4, <1>8, <1>9, <1>10, <1>11 DEF IInv

\* The IdP serves a request that nobody waits for: the new token is lost.
LEMMA LateInvariant ==
  ASSUME IInv, IdpServesLate
  PROVE  IInv'
<1>1. PICK token \in late :
        /\ late' = late \ {token}
        /\ IF token \in honoured THEN Renew ELSE UNCHANGED <<newest, honoured>>
        /\ lost' = (lost \/ (token \in honoured /\ Rotates))
        /\ UNCHANGED <<stored, pc, seen, answer, epoch, policy>>
  BY DEF IdpServesLate
<1>2. \A v \in Worker : /\ Carries(v)' <=> Carries(v)
                        /\ Granted(v)' <=> Granted(v)
  BY <1>1 DEF Carries, Granted
<1>3. CASE token \in honoured
  <2>1. /\ newest' \in Nat /\ newest \in Nat /\ honoured' \subseteq Nat
        /\ newest' = IF Rotates THEN newest + 1 ELSE newest
        /\ HoldsOld(stored)' /\ IdpOK'
        /\ \A v \in Worker : HoldsOld(seen[v])'
    BY <1>1, <1>3, RenewOK, TokenTypes
  <2>2. TypeOK'
    BY <1>1, <2>1 DEF IInv, TypeOK
  <2>3. policy = "rotates" => \A v \in Worker : ~Carries(v)
    BY <1>1, <1>3, RenewAlone
  <2>4. ASSUME NEW v \in Worker PROVE WorkerOK(v)'
    BY <1>1, <1>2, <2>1 DEF IInv, WorkerOK, Rotates
  <2>5. ASSUME NEW v \in Worker PROVE CarriesNew(v)' /\ CarriedAlone(v)'
    <3> SUFFICES ASSUME Carries(v) PROVE CarriesNew(v)' /\ CarriedAlone(v)'
      BY <1>2 DEF CarriesNew, CarriedAlone
    <3>1. policy # "rotates" /\ answer[v].refresh_token \in Nat
      BY <2>3, TokenTypes
    <3>2. policy # "lenient" => newest' = newest
      BY <2>1, <3>1 DEF Rotates
    <3>3. QED
      BY <1>1, <2>1, <3>1, <3>2 DEF IInv, CarriesNew, CarriedAlone, Rotates
  <2>6. NewestTokenStored'
    <3>1. CASE Rotates
      BY <1>1, <1>3, <3>1 DEF NewestTokenStored
    <3>2. CASE ~Rotates
      BY <1>1, <2>1, <3>2 DEF HoldsOld, NewestTokenStored, Rotates
    <3>3. QED
      BY <3>1, <3>2
  <2>7. QED
    BY <2>1, <2>2, <2>4, <2>5, <2>6 DEF IInv
<1>4. CASE token \notin honoured
  <2>1. UNCHANGED <<newest, honoured, lost>>
    BY <1>1, <1>4 DEF IInv, TypeOK
  <2>2. TypeOK'
    BY <1>1, <2>1 DEF IInv, TypeOK
  <2>3. ASSUME NEW v \in Worker PROVE WorkerOK(v)' /\ CarriesNew(v)' /\ CarriedAlone(v)'
    BY <1>1, <1>2, <2>1 DEF IInv, WorkerOK, CarriesNew, CarriedAlone, HoldsOld, Rotates
  <2>4. HoldsOld(stored)' /\ IdpOK' /\ NewestTokenStored'
    BY <1>1, <1>2, <2>1 DEF IInv, HoldsOld, IdpOK, NewestTokenStored
  <2>5. QED
    BY <2>2, <2>3, <2>4 DEF IInv
<1>5. QED
  BY <1>3, <1>4

\* Time passes, or the IdP stops honouring old tokens.
LEMMA AsideInvariant ==
  ASSUME IInv, IdpRevokes \/ Expire \/ UNCHANGED vars
  PROVE  IInv'
<1>1. /\ UNCHANGED <<stored, pc, seen, answer, newest, policy, late, lost>>
      /\ epoch' \in Nat /\ honoured' \in {honoured, {newest}}
  BY DEF IdpRevokes, Expire, vars, IInv, TypeOK
<1>2. TypeOK'
  BY <1>1 DEF IInv, TypeOK
<1>3. \A v \in Worker : /\ Carries(v)' <=> Carries(v)
                        /\ Granted(v)' <=> Granted(v)
  BY <1>1 DEF Carries, Granted
<1>4. ASSUME NEW v \in Worker PROVE WorkerOK(v)' /\ CarriesNew(v)' /\ CarriedAlone(v)'
  BY <1>1, <1>3 DEF IInv, WorkerOK, CarriesNew, CarriedAlone, HoldsOld, Rotates
<1>5. HoldsOld(stored)' /\ IdpOK' /\ NewestTokenStored'
  BY <1>1, <1>3 DEF IInv, HoldsOld, IdpOK, NewestTokenStored
<1>6. QED
  BY <1>2, <1>4, <1>5 DEF IInv

-----------------------------------------------------------------------------
\* Every step of a worker, of the IdP and of the clock keeps the invariant.
LEMMA NextInvariant == IInv /\ [Next]_vars => IInv'
<1> SUFFICES ASSUME IInv, [Next]_vars PROVE IInv'
  BY Zenon
<1>1. ASSUME NEW w \in Worker, CheckExpiry(w) PROVE IInv'
  <2>1. TypeOK' /\ (Carries(w)' <=> Carries(w)) /\ ~Carries(w)
    BY <1>1, SMTT(20) DEF CheckExpiry, GoTo, IInv, TypeOK, WorkerOK, Carries, Granted
  <2>2. WorkerOK(w)'
    BY <1>1, <2>1, SMTT(20) DEF CheckExpiry, GoTo, IInv, TypeOK, WorkerOK, Granted, HoldsOld
  <2>3. QED
    BY <1>1, <2>1, <2>2, LocalStep, SMTT(20) DEF CheckExpiry, GoTo, IInv, TypeOK
<1>2. ASSUME NEW w \in Worker, Connect(w) \/ Tunnel(w) \/ Handshake(w) PROVE IInv'
  <2>0. UNCHANGED <<stored, seen, answer, epoch, newest, honoured, policy, late, lost>>
    BY <1>2, Zenon DEF Connect, Tunnel, Handshake
  <2>1. TypeOK' /\ (Carries(w)' <=> Carries(w)) /\ ~Carries(w)
    <3>1. TypeOK'
      BY <1>2, <2>0 DEF Connect, Tunnel, Handshake, GoTo, IInv, TypeOK
    <3>2. answer[w] = NULL /\ answer'[w] = NULL
      BY <1>2, <2>0 DEF Connect, Tunnel, Handshake, IInv, WorkerOK
    <3>3. QED
      BY <3>1, <3>2 DEF Carries, Granted
  <2>2. WorkerOK(w)'
    BY <1>2, <2>1, SMTT(20) DEF Connect, Tunnel, Handshake, GoTo, IInv, TypeOK, WorkerOK, Granted,
                      HoldsOld
  <2>3. QED
    BY <1>2, <2>1, <2>2, LocalStep, SMTT(20) DEF Connect, Tunnel, Handshake, GoTo, IInv, TypeOK
<1>3. ASSUME NEW w \in Worker, Write(w) PROVE IInv'
  <2>1. TypeOK' /\ ~Carries(w)' /\ ~Carries(w) /\ ~Granted(w)'
    BY <1>3 DEF Write, GoTo, IInv, TypeOK, WorkerOK, Carries, Granted
  <2>2. WorkerOK(w)'
    BY <1>3, <2>1 DEF Write, GoTo, IInv, TypeOK, WorkerOK, HoldsOld
  <2>3. QED
    BY <1>3, <2>1, <2>2, LocalStep DEF Write, GoTo, IInv, TypeOK
<1>4. ASSUME NEW w \in Worker, Read(w) PROVE IInv'
  <2>1. TypeOK' /\ (Carries(w)' <=> Carries(w)) /\ (Granted(w)' <=> Granted(w))
    BY <1>4 DEF Read, GoTo, IInv, TypeOK, Carries, Granted
  <2>2. WorkerOK(w)'
    BY <1>4, <2>1 DEF Read, GoTo, IInv, TypeOK, WorkerOK, HoldsOld, Rotates
  <2>3. QED
    BY <1>4, <2>1, <2>2, LocalStep DEF Read, GoTo, IInv, TypeOK
<1>5. ASSUME NEW w \in Worker, PostThrows(w) \/ ShutdownFails(w) PROVE IInv'
  BY <1>5, DropAnswer DEF PostThrows, ShutdownFails
<1>6. ASSUME NEW w \in Worker, IdpRefuses(w) PROVE IInv'
  <2>1. TypeOK' /\ ~Carries(w)' /\ ~Carries(w) /\ ~Granted(w)'
    BY <1>6 DEF IdpRefuses, IInv, TypeOK, Carries, Granted
  <2>2. WorkerOK(w)'
    BY <1>6, <2>1 DEF IdpRefuses, IInv, TypeOK, WorkerOK, HoldsOld
  <2>3. QED
    BY <1>6, <2>1, <2>2, LocalStep DEF IdpRefuses, IInv, TypeOK
<1>7. QED
  BY <1>1, <1>2, <1>3, <1>4, <1>5, <1>6, ReadInvariant, RefreshInvariantStep,
     StoreInvariantStep, RemoveInvariant, GrantInvariant, LateInvariant, AsideInvariant
     DEF Next, Continue, Idp

\* The invariant holds throughout.
THEOREM RefreshInvariant == Spec => []IInv
BY InitInvariant, NextInvariant, PTL DEF Spec

(***************************************************************************)
(* However many requests refresh the session at once, and whichever of     *)
(* their connections break, the store holds the refresh token that an IdP  *)
(* with no patience for old ones honours, unless it is on its way there or *)
(* was lost.                                                               *)
(***************************************************************************)
THEOREM RefreshNewestTokenStored == Spec => []NewestTokenStored
<1>1. IInv => NewestTokenStored
  BY DEF IInv
<1>2. QED
  BY <1>1, RefreshInvariant, PTL

(***************************************************************************)
(* Concurrent refreshes put an older refresh token back only if the IdP    *)
(* honours tokens it has replaced, and then not one as old as the token    *)
(* that the slower of them had read.                                       *)
(***************************************************************************)
THEOREM RefreshStoreGoesBackOnlyIfTolerated == Spec => StoreGoesBackOnlyIfTolerated
<1>1. IInv /\ [Next]_vars =>
        [(stored # NULL /\ stored' \notin {NULL, stored}) =>
           \/ stored'.refresh_token >= stored.refresh_token
           \/ /\ policy = "lenient"
              /\ \E w \in Worker : /\ stored' = answer[w]
                                   /\ seen[w].refresh_token < stored'.refresh_token]_vars
  <2> SUFFICES ASSUME IInv, [Next]_vars, stored # NULL, stored' \notin {NULL, stored}
               PROVE  \/ stored'.refresh_token >= stored.refresh_token
                      \/ /\ policy = "lenient"
                         /\ \E w \in Worker :
                              /\ stored' = answer[w]
                              /\ seen[w].refresh_token < stored'.refresh_token
    OBVIOUS
  <2>1. CASE \E w \in Worker : StoreRefreshed(w)
    <3>1. PICK w \in Worker : StoreRefreshed(w)
      BY <2>1
    <3>2. stored' = answer[w] /\ Carries(w) /\ policy # "none"
      BY <3>1, TokenTypes DEF StoreRefreshed, IInv, WorkerOK
    <3>3. /\ answer[w].refresh_token \in Nat /\ stored.refresh_token \in Nat
          /\ newest \in Nat
      BY <3>2, TokenTypes
    <3>4. CASE policy = "lenient"
      BY <3>2, <3>4 DEF IInv, CarriesNew, Rotates
    <3>5. CASE policy # "lenient"
      BY <3>2, <3>3, <3>5 DEF IInv, CarriesNew, HoldsOld
    <3>6. QED
      BY <3>4, <3>5
  <2>2. CASE ~\E w \in Worker : StoreRefreshed(w)
    <3>1. stored' = stored \/ stored' = NULL
      BY <2>2 DEF Next, Continue, Idp, GetTokenResponse, RemoveSession, CheckExpiry, Connect,
                  Tunnel, Handshake, Write, Read, PostThrows, ShutdownFails, RefreshToken,
                  DiscardSession, IdpGrants, IdpRefuses, IdpServesLate, IdpRevokes, Expire,
                  vars
    <3>2. QED
      BY <3>1
  <2>3. QED
    BY <2>1, <2>2
<1>2. QED
  BY <1>1, RefreshInvariant, PTL DEF Spec, StoreGoesBackOnlyIfTolerated

\* The stored and the carried token responses stay well formed, however the
\* refreshes of a session interleave.
THEOREM RefreshTypeOK == Spec => []TypeOK
<1>1. IInv => TypeOK
  BY DEF IInv
<1>2. QED
  BY <1>1, RefreshInvariant, PTL

=============================================================================
