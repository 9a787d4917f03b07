------------------------------ MODULE SessionStore ------------------------------
(***************************************************************************)
(* InMemorySessionStore (src/filters/oidc/in_memory_session_store.cc): the *)
(* map from session ids to sessions that all requests of one filter chain  *)
(* share.  Every public operation runs under one recursive mutex, so each  *)
(* is one atomic step here.  The exception is RemoveAllExpired, which      *)
(* reads the clock twice before it takes the mutex: it is three steps, and *)
(* any other operation, or the passing of time, may come between them.     *)
(*                                                                         *)
(* The operations are written as formulas about session_map only, so that  *)
(* OidcFilter can use them for the calls its handlers make.                *)
(***************************************************************************)
EXTENDS Integers

CONSTANTS SessionId,           \* the strings a session cookie can hold
          TokenResponse,       \* what a login stores
          AuthorizationState,  \* what a login in progress stores
          NULL,                \* the null pointer, or an absent map entry
          AbsoluteTimeout,     \* absolute_session_timeout_in_seconds_; 0: none
          IdleTimeout,         \* idle_session_timeout_in_seconds_; 0: none
          TimeModulus,         \* 2^32 in the code: the width of a stored time
          StartTime, MaxTime   \* the bounds of the clock

Session == [token_response      : TokenResponse \cup {NULL},
            authorization_state : AuthorizationState \cup {NULL},
            time_added          : Nat,
            time_accessed       : Nat]

ASSUME NullAssumption ==
  NULL \notin Session \cup TokenResponse \cup AuthorizationState

ASSUME TimeoutAssumption == AbsoluteTimeout \in Nat /\ IdleTimeout \in Nat

\* The clock stays below the width of a stored time (until February 2106).
ASSUME ClockAssumption ==
  /\ StartTime \in Nat /\ MaxTime \in Nat /\ TimeModulus \in Nat
  /\ StartTime <= MaxTime /\ MaxTime < TimeModulus

VARIABLES
  session_map,  \* session_map_, with NULL for the ids that are not in it
  now,          \* the system clock, in seconds since the epoch
  sweep_pc,     \* where the running RemoveAllExpired is, "idle" if none is
  earliest_time_added_to_keep,
  earliest_time_idle_to_keep,
  last_sweep    \* history: when the last completed RemoveAllExpired began

sweepVars == <<sweep_pc, earliest_time_added_to_keep,
               earliest_time_idle_to_keep, last_sweep>>

vars == <<session_map, now, sweepVars>>

-----------------------------------------------------------------------------
\* Times are read as int64_t and stored in the session as uint32_t.
Uint32(t) == t % TimeModulus

NewSession_TokenNotNulled == [token_response      |-> 0,
                              authorization_state |-> NULL,
                              time_added          |-> Uint32(now),
                              time_accessed       |-> Uint32(now)]

NewSession == [token_response      |-> NULL,
               authorization_state |-> NULL,
               time_added          |-> Uint32(now),
               time_accessed       |-> Uint32(now)]

FindSession(id) == session_map[id]

SetTimeMostRecentlyAccessed(session) ==
  [session EXCEPT !.time_accessed = Uint32(now)]

SessionToSet_Readded(id) ==
  IF FindSession(id) = NULL
  THEN NewSession
  ELSE [FindSession(id) EXCEPT !.time_added = Uint32(now),
                               !.time_accessed = Uint32(now)]

\* The session that Set hands to its lambda: the touched one that is there,
\* or a new one.
SessionToSet(id) ==
  IF FindSession(id) = NULL
  THEN NewSession
  ELSE SetTimeMostRecentlyAccessed(FindSession(id))

SetTokenResponse(id, token_response) ==
  session_map' = [session_map EXCEPT
    ![id] = [SessionToSet(id) EXCEPT !.token_response = token_response]]

SetAuthorizationState(id, authorization_state) ==
  session_map' = [session_map EXCEPT
    ![id] = [SessionToSet(id) EXCEPT
               !.authorization_state = authorization_state]]

\* What both getters do to the map: a session that is found is touched.
Access(id) ==
  session_map' = IF FindSession(id) = NULL
                 THEN session_map
                 ELSE [session_map EXCEPT
                         ![id] = SetTimeMostRecentlyAccessed(@)]

\* The values they return.
TokenResponseOf(id) ==
  IF FindSession(id) = NULL THEN NULL ELSE FindSession(id).token_response

AuthorizationStateOf(id) ==
  IF FindSession(id) = NULL THEN NULL ELSE FindSession(id).authorization_state

ClearAuthorizationState(id) ==
  session_map' = IF FindSession(id) = NULL
                 THEN session_map
                 ELSE [session_map EXCEPT
                         ![id] = [SetTimeMostRecentlyAccessed(@) EXCEPT
                                    !.authorization_state = NULL]]

RemoveSession(id) == session_map' = [session_map EXCEPT ![id] = NULL]

-----------------------------------------------------------------------------
(***************************************************************************)
(* RemoveAllExpired, run by the periodic cleanup only, so by one thread at *)
(* a time.  The two thresholds are int64_t and may be negative.            *)
(***************************************************************************)
ReadAddedThreshold_Unsigned ==
  /\ sweep_pc = "idle"
  /\ sweep_pc' = "added"
  /\ earliest_time_added_to_keep' = Uint32(now - AbsoluteTimeout)
  /\ UNCHANGED <<session_map, earliest_time_idle_to_keep, last_sweep>>

ReadAddedThreshold ==
  /\ sweep_pc = "idle"
  /\ sweep_pc' = "added"
  /\ earliest_time_added_to_keep' = now - AbsoluteTimeout
  /\ UNCHANGED <<session_map, earliest_time_idle_to_keep, last_sweep>>

ReadIdleThreshold ==
  /\ sweep_pc = "added"
  /\ sweep_pc' = "scan"
  /\ earliest_time_idle_to_keep' = now - IdleTimeout
  /\ UNCHANGED <<session_map, earliest_time_added_to_keep, last_sweep>>

ExpiredInScan_Both(session) ==
  /\ AbsoluteTimeout > 0 => session.time_added < earliest_time_added_to_keep
  /\ IdleTimeout > 0 => session.time_accessed < earliest_time_idle_to_keep

ExpiredInScan(session) ==
  \/ AbsoluteTimeout > 0 /\ session.time_added < earliest_time_added_to_keep
  \/ IdleTimeout > 0 /\ session.time_accessed < earliest_time_idle_to_keep

EraseExpired ==
  /\ sweep_pc = "scan"
  /\ session_map' = [id \in SessionId |->
       IF session_map[id] # NULL /\ ExpiredInScan(session_map[id])
       THEN NULL ELSE session_map[id]]
  /\ sweep_pc' = "idle"
  /\ last_sweep' = earliest_time_added_to_keep + AbsoluteTimeout
  /\ earliest_time_added_to_keep' = 0
  /\ earliest_time_idle_to_keep' = 0

RemoveAllExpired == ReadAddedThreshold \/ ReadIdleThreshold \/ EraseExpired

Tick ==
  /\ now < MaxTime
  /\ now' = now + 1
  /\ UNCHANGED <<session_map, sweepVars>>

-----------------------------------------------------------------------------
(***************************************************************************)
(* The store on its own: any thread calls any operation at any time.       *)
(***************************************************************************)
Init ==
  /\ session_map = [id \in SessionId |-> NULL]
  /\ now = StartTime
  /\ sweep_pc = "idle"
  /\ earliest_time_added_to_keep = 0
  /\ earliest_time_idle_to_keep = 0
  /\ last_sweep = StartTime

Call(id) ==
  /\ \/ \E token_response \in TokenResponse : SetTokenResponse(id, token_response)
     \/ \E state \in AuthorizationState : SetAuthorizationState(id, state)
     \/ Access(id)
     \/ ClearAuthorizationState(id)
     \/ RemoveSession(id)
  /\ UNCHANGED <<now, sweepVars>>

Next ==
  \/ \E id \in SessionId : Call(id)
  \/ RemoveAllExpired /\ UNCHANGED now
  \/ Tick

Spec == Init /\ [][Next]_vars

\* The timer re-arms itself after every sweep and time does not stop.
FairSpec == Spec /\ WF_vars(RemoveAllExpired /\ UNCHANGED now) /\ WF_vars(Tick)

-----------------------------------------------------------------------------
\* The map holds sessions with times of the clock.
TypeOK ==
  /\ session_map \in [SessionId -> Session \cup {NULL}]
  /\ now \in StartTime..MaxTime
  /\ sweep_pc \in {"idle", "added", "scan"}
  /\ earliest_time_added_to_keep \in Int
  /\ earliest_time_idle_to_keep \in Int
  /\ last_sweep \in Int

\* A session has outlived one of the two timeouts at time t: the meaning the
\* configuration gives to absolute_session_timeout and idle_session_timeout.
Expired(session, t) ==
  \/ AbsoluteTimeout > 0 /\ t - session.time_added > AbsoluteTimeout
  \/ IdleTimeout > 0 /\ t - session.time_accessed > IdleTimeout

(***************************************************************************)
(* The sweep erases no session that is within its timeouts at the moment   *)
(* it is erased, although RemoveAllExpired compares with thresholds it     *)
(* computed before it took the mutex, and sessions were added and accessed *)
(* since.                                                                  *)
(***************************************************************************)
SweepRemovesOnlyExpired ==
  [][(sweep_pc = "scan" /\ sweep_pc' = "idle") =>
       \A id \in SessionId :
         (session_map[id] # NULL /\ session_map'[id] = NULL)
           => Expired(session_map[id], now)]_vars

(***************************************************************************)
(* How far the store may lag behind the timeouts: no session in it had     *)
(* expired when the last completed sweep began.  Nothing but the sweep     *)
(* enforces the timeouts, so this is what a request can count on.          *)
(***************************************************************************)
SweptClean ==
  \A id \in SessionId :
    session_map[id] # NULL => ~Expired(session_map[id], last_sweep)

(***************************************************************************)
(* Calls on a session, however many, do not keep it beyond its absolute    *)
(* timeout: once Set has added it, it is erased after the timeout, unless  *)
(* RemoveSession was faster.  (The last times of the bounded clock leave   *)
(* no room for that and are left out.)                                     *)
(***************************************************************************)
AbsoluteTimeoutEnforced ==
  \A id \in SessionId, t \in StartTime..(MaxTime - AbsoluteTimeout - 1) :
    (session_map[id] # NULL /\ session_map[id].time_added = t)
      ~> session_map[id] = NULL

=============================================================================
