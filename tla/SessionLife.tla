------------------------------ MODULE SessionLife -------------------------------
(***************************************************************************)
(* What the OIDC filter promises about the life of a session, whatever its *)
(* threads do: a session id is given out for one login; the login ends and *)
(* is not taken up again; tokens are stored only after the login ended,    *)
(* and only by a request that found the session while it was alive.  So a  *)
(* session that is over, and that no request in progress has found, is     *)
(* over for good.                                                          *)
(*                                                                         *)
(* OidcFilter implements this specification.                               *)
(***************************************************************************)
CONSTANTS SessionId,
          Worker,    \* what serves requests, one at a time each
          NULL

VARIABLES phase,     \* the phase of life each session is in
          holding    \* the session each worker's request found, or NULL

vars == <<phase, holding>>

Phases == {"unissued", "login", "tokens", "over"}

TypeOK ==
  /\ phase \in [SessionId -> Phases]
  /\ holding \in [Worker -> SessionId \cup {NULL}]

Init ==
  /\ phase = [id \in SessionId |-> "unissued"]
  /\ holding = [w \in Worker |-> NULL]

\* A user is sent to log in.
Begin(id) ==
  /\ phase[id] = "unissued"
  /\ phase' = [phase EXCEPT ![id] = "login"]
  /\ UNCHANGED holding

\* A request finds a login in progress, or the tokens of one.
Find(w, id) ==
  /\ holding[w] = NULL
  /\ phase[id] \in {"login", "tokens"}
  /\ holding' = [holding EXCEPT ![w] = id]
  /\ UNCHANGED phase

\* A request ends without storing tokens.
LetGo(w) ==
  /\ holding' = [holding EXCEPT ![w] = NULL]
  /\ UNCHANGED phase

\* A request ends by storing tokens, new or refreshed.
Store(w) ==
  /\ holding[w] # NULL
  /\ phase[holding[w]] \in {"over", "tokens"}
  /\ phase' = [phase EXCEPT ![holding[w]] = "tokens"]
  /\ holding' = [holding EXCEPT ![w] = NULL]

\* Logins end and sessions are removed, several at once in a cleanup.
End ==
  /\ phase' \in [SessionId -> Phases]
  /\ \A id \in SessionId :
       phase'[id] # phase[id] => phase[id] # "unissued" /\ phase'[id] = "over"
  /\ UNCHANGED holding

Next ==
  \/ End
  \/ \E id \in SessionId : Begin(id)
  \/ \E w \in Worker, id \in SessionId : Find(w, id)
  \/ \E w \in Worker : LetGo(w) \/ Store(w)

Spec == Init /\ [][Next]_vars

=============================================================================
