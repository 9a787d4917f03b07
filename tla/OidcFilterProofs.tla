---------------------------- MODULE OidcFilterProofs ----------------------------
(***************************************************************************)
(* Proofs about OidcFilter, for any number of worker threads, session ids, *)
(* urls, answers of the IdP, timeouts and clock bounds: the sessions in    *)
(* the store under its sweep; the invariants of the filter; the life of a  *)
(* session, which is that of SessionLife and, with one thread, has no      *)
(* surprises.                                                              *)
(***************************************************************************)
EXTENDS OidcFilter, TLAPS

-----------------------------------------------------------------------------
(***************************************************************************)
(* The session store on its own, with the sessions the filter puts into    *)
(* it: any thread calls any operation at any time.  StoreInv is the        *)
(* inductive invariant.                                                    *)
(***************************************************************************)

\* The times of a session and of the last sweep are read from the clock, so
\* they are not in the future.
TimesPast ==
  /\ last_sweep <= now
  /\ \A id \in SessionId :
       session_map[id] # NULL => /\ session_map[id].time_added <= now
                                 /\ session_map[id].time_accessed <= now

\* The running sweep read the clock for the first threshold not after it read
\* the clock for the second one, and neither time is in the future.
SweepReadClockPast ==
  LET added_read == earliest_time_added_to_keep + AbsoluteTimeout
      idle_read  == earliest_time_idle_to_keep + IdleTimeout
  IN  /\ sweep_pc # "idle" => added_read <= now
      /\ sweep_pc = "scan" => added_read <= idle_read /\ idle_read <= now

StoreInv == Store!TypeOK /\ TimesPast /\ SweepReadClockPast /\ Store!SweptClean

-----------------------------------------------------------------------------
(***************************************************************************)
(* What a call may make of the session under an id: nothing, the session   *)
(* that was there, or one accessed now that was added now or when it was.  *)
(***************************************************************************)
Touched(old, new) ==
  \/ new = NULL
  \/ new = old
  \/ /\ new \in Store!Session
     /\ new.time_accessed = now
     /\ \/ new.time_added = now
        \/ old # NULL /\ new.time_added = old.time_added

\* A time of the clock survives being stored as uint32_t.
LEMMA Uint32Identity == \A t \in StartTime..MaxTime : Store!Uint32(t) = t
BY StoreAssumption DEF Store!Uint32

\* Set hands a session accessed now to its lambda, added now if it is new.
LEMMA SessionToSetTouched ==
  ASSUME Store!TypeOK, NEW id \in SessionId
  PROVE  /\ Store!SessionToSet(id) \in Store!Session
         /\ Store!SessionToSet(id).time_accessed = now
         /\ \/ Store!SessionToSet(id).time_added = now
            \/ /\ session_map[id] # NULL
               /\ Store!SessionToSet(id).time_added = session_map[id].time_added
BY Uint32Identity, StoreAssumption, NullAssumption
DEF Store!SessionToSet, Store!NewSession, Store!SetTimeMostRecentlyAccessed,
    Store!FindSession,
    Store!Session, Store!TypeOK

\* Every call of the store keeps the map well formed and touches each session
\* only in the ways above.
LEMMA CallTouches ==
  ASSUME Store!TypeOK, NEW id \in SessionId, Store!Call(id)
  PROVE  /\ session_map' \in [SessionId -> Store!Session \cup {NULL}]
         /\ \A i \in SessionId : Touched(session_map[i], session_map'[i])
<1> DEFINE new == Store!SessionToSet(id)
<1>t. /\ new \in Store!Session
      /\ new.time_accessed = now
      /\ \/ new.time_added = now
         \/ session_map[id] # NULL /\ new.time_added = session_map[id].time_added
  BY SessionToSetTouched
<1>u. \A s \in Store!Session :
        /\ Store!SetTimeMostRecentlyAccessed(s) \in Store!Session
        /\ Store!SetTimeMostRecentlyAccessed(s).time_accessed = now
        /\ Store!SetTimeMostRecentlyAccessed(s).time_added = s.time_added
  BY Uint32Identity, StoreAssumption DEF Store!SetTimeMostRecentlyAccessed,
                                         Store!Session, Store!TypeOK
<1> HIDE DEF new
<1>1. ASSUME NEW t \in TokenResponse, Store!SetTokenResponse(id, t)
      PROVE  /\ session_map' \in [SessionId -> Store!Session \cup {NULL}]
             /\ \A i \in SessionId : Touched(session_map[i], session_map'[i])
  <2>1. session_map' = [session_map EXCEPT ![id] = [new EXCEPT !.token_response = t]]
    BY <1>1 DEF Store!SetTokenResponse, new
  <2>2. QED
    BY <2>1, <1>t DEF Touched, Store!Session, Store!TypeOK
<1>2. ASSUME NEW a \in AuthorizationState, Store!SetAuthorizationState(id, a)
      PROVE  /\ session_map' \in [SessionId -> Store!Session \cup {NULL}]
             /\ \A i \in SessionId : Touched(session_map[i], session_map'[i])
  <2>1. session_map' = [session_map EXCEPT
                          ![id] = [new EXCEPT !.authorization_state = a]]
    BY <1>2 DEF Store!SetAuthorizationState, new
  <2>2. QED
    BY <2>1, <1>t DEF Touched, Store!Session, Store!TypeOK
<1>3. CASE Store!Access(id)
  BY <1>3, <1>u DEF Store!Access, Store!FindSession, Touched, Store!TypeOK
<1>4. CASE Store!ClearAuthorizationState(id)
  BY <1>4, <1>u DEF Store!ClearAuthorizationState, Store!FindSession, Touched,
                    Store!Session, Store!TypeOK
<1>5. CASE Store!RemoveSession(id)
  BY <1>5 DEF Store!RemoveSession, Touched, Store!TypeOK
<1>6. QED
  BY <1>1, <1>2, <1>3, <1>4, <1>5 DEF Store!Call

-----------------------------------------------------------------------------
\* A call keeps the invariant: the sessions it leaves are as old as they were,
\* or were added or accessed after the last sweep.
LEMMA CallInvariant ==
  ASSUME StoreInv, NEW id \in SessionId, Store!Call(id)
  PROVE  StoreInv'
<1> USE DEF StoreInv
<1>u. UNCHANGED <<now, sweep_pc, earliest_time_added_to_keep,
                  earliest_time_idle_to_keep, last_sweep>>
  BY DEF Store!Call, Store!sweepVars
<1>t. /\ session_map' \in [SessionId -> Store!Session \cup {NULL}]
      /\ \A i \in SessionId : Touched(session_map[i], session_map'[i])
  BY CallTouches
<1>1. Store!TypeOK'
  BY <1>u, <1>t DEF Store!TypeOK
<1>2. TimesPast'
  BY <1>u, <1>t, StoreAssumption DEF TimesPast, Touched, Store!TypeOK,
                                     Store!Session
<1>3. SweepReadClockPast'
  BY <1>u DEF SweepReadClockPast
<1>4. Store!SweptClean'
  <2> SUFFICES ASSUME NEW i \in SessionId, session_map'[i] # NULL
               PROVE  ~Store!Expired(session_map'[i], last_sweep)
    BY <1>u DEF Store!SweptClean, Store!Expired
  <2> DEFINE old == session_map[i]
             new == session_map'[i]
  <2>1. old # NULL => ~Store!Expired(old, last_sweep)
    BY DEF Store!SweptClean
  <2>2. last_sweep <= now /\ last_sweep \in Int /\ now \in Int
    BY StoreAssumption DEF TimesPast, Store!TypeOK
  <2>3. new = old \/ /\ new \in Store!Session /\ new.time_accessed = now
                     /\ \/ new.time_added = now
                        \/ old # NULL /\ new.time_added = old.time_added
    BY <1>t DEF Touched
  <2> HIDE DEF old, new
  <2>4. CASE new = old
    BY <2>1, <2>4 DEF new
  <2>5. CASE new # old
    <3>1. /\ new.time_accessed = now /\ new \in Store!Session
          /\ \/ new.time_added = now
             \/ old # NULL /\ new.time_added = old.time_added
      BY <2>3, <2>5
    <3>2. IdleTimeout > 0 => ~(last_sweep - new.time_accessed > IdleTimeout)
      BY <2>2, <3>1, StoreAssumption
    <3>3. AbsoluteTimeout > 0 => ~(last_sweep - new.time_added > AbsoluteTimeout)
      BY <2>1, <2>2, <3>1, StoreAssumption DEF Store!Expired
    <3> QED
      BY <3>2, <3>3 DEF Store!Expired, new
  <2> QED
    BY <2>4, <2>5
<1>5. QED
  BY <1>1, <1>2, <1>3, <1>4

\* The sweep keeps the invariant; its last step establishes SweptClean anew.
LEMMA SweepInvariant ==
  ASSUME StoreInv, Store!RemoveAllExpired, UNCHANGED now
  PROVE  StoreInv'
<1> USE StoreAssumption DEF StoreInv
<1>1. CASE Store!ReadAddedThreshold
  <2> USE <1>1 DEF Store!ReadAddedThreshold
  <2>1. Store!TypeOK'
    BY DEF Store!TypeOK
  <2>2. TimesPast' /\ Store!SweptClean'
    BY DEF TimesPast, Store!SweptClean, Store!Expired
  <2>3. SweepReadClockPast'
    BY DEF SweepReadClockPast, Store!TypeOK
  <2>4. QED
    BY <2>1, <2>2, <2>3
<1>2. CASE Store!ReadIdleThreshold
  <2> USE <1>2 DEF Store!ReadIdleThreshold
  <2>1. Store!TypeOK'
    BY DEF Store!TypeOK
  <2>2. TimesPast' /\ Store!SweptClean'
    BY DEF TimesPast, Store!SweptClean, Store!Expired
  <2>3. SweepReadClockPast'
    BY DEF SweepReadClockPast, Store!TypeOK
  <2>4. QED
    BY <2>1, <2>2, <2>3
<1>3. CASE Store!EraseExpired
  <2> USE <1>3 DEF Store!EraseExpired
  <2>1. Store!TypeOK'
    BY DEF Store!TypeOK, SweepReadClockPast
  <2>2. TimesPast'
    BY DEF TimesPast, Store!TypeOK, SweepReadClockPast
  <2>3. SweepReadClockPast'
    BY DEF SweepReadClockPast
  <2>4. Store!SweptClean'
    BY DEF Store!SweptClean, Store!Expired, Store!ExpiredInScan,
           SweepReadClockPast, Store!TypeOK, Store!Session
  <2>5. QED
    BY <2>1, <2>2, <2>3, <2>4
<1>4. QED
  BY <1>1, <1>2, <1>3 DEF Store!RemoveAllExpired

\* Initially, and after each step.
LEMMA StoreInit == Store!Init => StoreInv
BY StoreAssumption DEF Store!Init, StoreInv, Store!TypeOK, TimesPast,
                       SweepReadClockPast, Store!SweptClean

\* Every action keeps the invariant.
LEMMA StoreNext == StoreInv /\ [Store!Next]_(Store!vars) => StoreInv'
<1> SUFFICES ASSUME StoreInv, [Store!Next]_(Store!vars) PROVE StoreInv'
  OBVIOUS
<1>1. ASSUME NEW id \in SessionId, Store!Call(id) PROVE StoreInv'
  BY <1>1, CallInvariant
<1>2. CASE Store!RemoveAllExpired /\ UNCHANGED now
  BY <1>2, SweepInvariant
<1>3. CASE Store!Tick
  <2>1. /\ now' = now + 1 /\ now' \in StartTime..MaxTime
        /\ UNCHANGED <<session_map, sweep_pc, earliest_time_added_to_keep,
                       earliest_time_idle_to_keep, last_sweep>>
    BY <1>3, StoreAssumption DEF Store!Tick, Store!sweepVars, StoreInv, Store!TypeOK
  <2>2. Store!TypeOK'
    BY <2>1 DEF StoreInv, Store!TypeOK
  <2>3. now \in Int /\ last_sweep \in Int
    BY StoreAssumption DEF StoreInv, Store!TypeOK
  <2>4. \A t \in Int : t <= now => t <= now'
    BY <2>1, <2>3
  <2>5. TimesPast'
    <3>1. \A id \in SessionId : session_map[id] # NULL =>
            session_map[id].time_added \in Int /\ session_map[id].time_accessed \in Int
      BY DEF StoreInv, Store!TypeOK, Store!Session
    <3> QED
      BY <2>1, <2>3, <2>4, <3>1 DEF StoreInv, TimesPast
  <2>6. SweepReadClockPast'
    <3>1. /\ earliest_time_added_to_keep + AbsoluteTimeout \in Int
          /\ earliest_time_idle_to_keep + IdleTimeout \in Int
      BY StoreAssumption DEF StoreInv, Store!TypeOK
    <3> QED
      BY <2>1, <2>4, <3>1 DEF StoreInv, SweepReadClockPast
  <2>7. Store!SweptClean'
    BY <2>1 DEF StoreInv, Store!SweptClean, Store!Expired
  <2> QED
    BY <2>2, <2>5, <2>6, <2>7 DEF StoreInv
<1>4. CASE UNCHANGED Store!vars
  BY <1>4 DEF Store!vars, Store!sweepVars, StoreInv, Store!TypeOK, TimesPast,
              SweepReadClockPast,
              Store!SweptClean, Store!Expired
<1>5. QED
  BY <1>1, <1>2, <1>3, <1>4 DEF Store!Next

(***************************************************************************)
(* The inductive invariant holds of every reachable state of the store.    *)
(***************************************************************************)
THEOREM StoreInvariant == Store!Spec => []StoreInv
BY StoreInit, StoreNext, PTL DEF Store!Spec

(***************************************************************************)
(* The session map of the store is well formed, whatever the interleaving  *)
(* of Set, the getters, RemoveSession and RemoveAllExpired.                *)
(***************************************************************************)
THEOREM StoreTypeOK == Store!Spec => []Store!TypeOK
BY StoreInvariant, PTL DEF StoreInv

(***************************************************************************)
(* No session in the store had outlived its timeouts when the last         *)
(* RemoveAllExpired began, for any timeouts.                               *)
(***************************************************************************)
THEOREM StoreSweptClean == Store!Spec => []Store!SweptClean
BY StoreInvariant, PTL DEF StoreInv

(***************************************************************************)
(* RemoveAllExpired erases only sessions that have outlived a timeout at   *)
(* that moment, for any timeouts and although its thresholds are stale.    *)
(***************************************************************************)
THEOREM StoreSweepRemovesOnlyExpired == Store!Spec => Store!SweepRemovesOnlyExpired
<1> DEFINE A == (sweep_pc = "scan" /\ sweep_pc' = "idle") =>
                  \A id \in SessionId :
                    (session_map[id] # NULL /\ session_map'[id] = NULL)
                      => Store!Expired(session_map[id], now)
<1>1. StoreInv /\ [Store!Next]_(Store!vars) => [A]_(Store!vars)
  <2> SUFFICES ASSUME StoreInv, [Store!Next]_(Store!vars),
                      sweep_pc = "scan", sweep_pc' = "idle", NEW id \in SessionId,
                      session_map[id] # NULL, session_map'[id] = NULL
               PROVE  Store!Expired(session_map[id], now)
    OBVIOUS
  <2>1. Store!EraseExpired
    BY DEF Store!Next, Store!Call, Store!RemoveAllExpired,
           Store!ReadAddedThreshold, Store!ReadIdleThreshold,
           Store!Tick, Store!vars, Store!sweepVars
  <2>2. Store!ExpiredInScan(session_map[id])
    BY <2>1 DEF Store!EraseExpired, StoreInv, Store!TypeOK
  <2>3. QED
    BY <2>2, StoreAssumption
    DEF Store!ExpiredInScan, Store!Expired, StoreInv, Store!TypeOK,
        SweepReadClockPast, Store!Session
<1>2. QED
  BY StoreInvariant, <1>1, PTL DEF Store!Spec, Store!SweepRemovesOnlyExpired

-----------------------------------------------------------------------------
(***************************************************************************)
(* What the invariant says of the store: the session is there, its tokens, *)
(* its login in progress.                                                  *)
(***************************************************************************)
Has(id) == session_map[id] # NULL
Tok(id) == Store!TokenResponseOf(id)
Aut(id) == Store!AuthorizationStateOf(id)

StoreType == session_map \in [SessionId -> Store!Session \cup {NULL}]

\* The lemmas on the store's calls: what each makes of every session.
LEMMA ContentsType ==
  ASSUME StoreType, NEW id \in SessionId
  PROVE  /\ Tok(id) \in TokenResponse \cup {NULL}
         /\ Aut(id) \in AuthorizationState \cup {NULL}
         /\ ~Has(id) => Tok(id) = NULL /\ Aut(id) = NULL
BY DEF StoreType, Tok, Aut, Has, Store!TokenResponseOf, Store!AuthorizationStateOf,
       Store!FindSession, Store!Session

\* A time is stored as a natural number.
LEMMA Uint32Nat == now \in StartTime..MaxTime => Store!Uint32(now) \in Nat
BY StoreAssumption DEF Store!Uint32

\* Set starts from what the session holds, or from an empty one.
LEMMA SessionToSetContents ==
  ASSUME StoreType, now \in StartTime..MaxTime, NEW id \in SessionId
  PROVE  /\ Store!SessionToSet(id) \in Store!Session
         /\ Store!SessionToSet(id).token_response = Tok(id)
         /\ Store!SessionToSet(id).authorization_state = Aut(id)
BY Uint32Nat, NullAssumption
DEF StoreType, Tok, Aut, Store!TokenResponseOf, Store!AuthorizationStateOf,
    Store!FindSession, Store!Session, Store!SessionToSet, Store!NewSession,
    Store!SetTimeMostRecentlyAccessed

\* A getter changes no session's contents.
LEMMA AccessContents ==
  ASSUME StoreType, now \in StartTime..MaxTime, NEW id \in SessionId,
         Store!Access(id)
  PROVE  /\ StoreType'
         /\ \A i \in SessionId : /\ Has(i)' <=> Has(i)
                                 /\ Tok(i)' = Tok(i) /\ Aut(i)' = Aut(i)
BY Uint32Nat, NullAssumption
DEF StoreType, Has, Tok, Aut, Store!TokenResponseOf, Store!AuthorizationStateOf,
    Store!FindSession, Store!Session, Store!Access,
    Store!SetTimeMostRecentlyAccessed

\* RemoveSession removes its session and leaves the others.
LEMMA RemoveContents ==
  ASSUME StoreType, NEW id \in SessionId, Store!RemoveSession(id)
  PROVE  /\ StoreType'
         /\ ~Has(id)'
         /\ \A i \in SessionId \ {id} : /\ Has(i)' <=> Has(i)
                                        /\ Tok(i)' = Tok(i) /\ Aut(i)' = Aut(i)
BY DEF StoreType, Has, Tok, Aut, Store!TokenResponseOf, Store!AuthorizationStateOf,
       Store!FindSession, Store!RemoveSession

\* ClearAuthorizationState clears the login of its session only.
LEMMA ClearContents ==
  ASSUME StoreType, now \in StartTime..MaxTime, NEW id \in SessionId,
         Store!ClearAuthorizationState(id)
  PROVE  /\ StoreType'
         /\ Aut(id)' = NULL
         /\ \A i \in SessionId : (Has(i)' <=> Has(i)) /\ Tok(i)' = Tok(i)
         /\ \A i \in SessionId \ {id} : Aut(i)' = Aut(i)
BY Uint32Nat, NullAssumption
DEF StoreType, Has, Tok, Aut, Store!TokenResponseOf, Store!AuthorizationStateOf,
    Store!FindSession, Store!Session, Store!ClearAuthorizationState,
    Store!SetTimeMostRecentlyAccessed

\* SetTokenResponse replaces the tokens of its session only.
LEMMA SetTokenContents ==
  ASSUME StoreType, now \in StartTime..MaxTime, NEW id \in SessionId,
         NEW t \in TokenResponse, Store!SetTokenResponse(id, t)
  PROVE  /\ StoreType'
         /\ Has(id)' /\ Tok(id)' = t /\ Aut(id)' = Aut(id)
         /\ \A i \in SessionId \ {id} : /\ Has(i)' <=> Has(i)
                                        /\ Tok(i)' = Tok(i) /\ Aut(i)' = Aut(i)
<1> DEFINE s == Store!SessionToSet(id)
<1>1. s \in Store!Session /\ s.authorization_state = Aut(id)
  BY SessionToSetContents
<1>2. session_map' = [session_map EXCEPT ![id] = [s EXCEPT !.token_response = t]]
  BY DEF Store!SetTokenResponse
<1> HIDE DEF s
<1>3. QED
  BY <1>1, <1>2, NullAssumption
  DEF StoreType, Has, Tok, Aut, Store!TokenResponseOf, Store!AuthorizationStateOf,
      Store!FindSession, Store!Session

\* SetAuthorizationState replaces the login of its session only.
LEMMA SetStateContents ==
  ASSUME StoreType, now \in StartTime..MaxTime, NEW id \in SessionId,
         NEW a \in AuthorizationState, Store!SetAuthorizationState(id, a)
  PROVE  /\ StoreType'
         /\ Has(id)' /\ Tok(id)' = Tok(id) /\ Aut(id)' = a
         /\ \A i \in SessionId \ {id} : /\ Has(i)' <=> Has(i)
                                        /\ Tok(i)' = Tok(i) /\ Aut(i)' = Aut(i)
<1> DEFINE s == Store!SessionToSet(id)
<1>1. s \in Store!Session /\ s.token_response = Tok(id)
  BY SessionToSetContents
<1>2. session_map' = [session_map EXCEPT
                        ![id] = [s EXCEPT !.authorization_state = a]]
  BY DEF Store!SetAuthorizationState
<1> HIDE DEF s
<1>3. QED
  BY <1>1, <1>2, NullAssumption
  DEF StoreType, Has, Tok, Aut, Store!TokenResponseOf, Store!AuthorizationStateOf,
      Store!FindSession, Store!Session

\* A step of the sweep keeps a session as it is or removes it.
LEMMA SweepContents ==
  ASSUME StoreType, Store!RemoveAllExpired
  PROVE  /\ StoreType'
         /\ \A i \in SessionId :
              \/ ~Has(i)'
              \/ (Has(i)' <=> Has(i)) /\ Tok(i)' = Tok(i) /\ Aut(i)' = Aut(i)
BY DEF StoreType, Has, Tok, Aut, Store!TokenResponseOf, Store!AuthorizationStateOf,
       Store!FindSession, Store!RemoveAllExpired, Store!ReadAddedThreshold,
       Store!ReadIdleThreshold, Store!EraseExpired

-----------------------------------------------------------------------------
(***************************************************************************)
(* The inductive invariant.                                                *)
(***************************************************************************)

\* A session in the store was issued, holds either a login in progress with
\* its own nonce or the tokens that login earned, and never both.
SessionOK(id) ==
  /\ Has(id) => issued[id] # NULL
  /\ Tok(id) # NULL => Aut(id) = NULL /\ EarnedBy(id, Tok(id))
  /\ Aut(id) # NULL => Aut(id).nonce = id

\* What a worker holds while it is between two calls on the store.
WorkerOK(w) ==
  /\ pc[w] \in {"exchange", "clear", "save"}
       => auth[w] # NULL /\ auth[w].nonce = cookie[w]
  /\ pc[w] \in {"check", "refresh", "store", "clear", "save", "exchange"}
       => cookie[w] \in SessionId /\ issued[cookie[w]] # NULL
  /\ pc[w] \in {"check", "refresh", "store", "clear", "save"}
       => tokens[w] # NULL /\ EarnedBy(cookie[w], tokens[w])
  /\ pc[w] \in {"check", "refresh", "store", "save"} => Aut(cookie[w]) = NULL
  /\ pc[w] = "discard" => cookie[w] \in SessionId
  /\ pc[w] \in {"check", "refresh", "discard", "login"} => url[w] # NULL
  /\ reply[w] # NULL => pc[w] = "done"
  /\ reply[w] # NULL /\ reply[w].tokens # NULL
       => cookie[w] \in SessionId /\ EarnedBy(cookie[w], reply[w].tokens)

IInv ==
  /\ TypeOK
  /\ \A id \in SessionId : SessionOK(id)
  /\ \A w \in Worker : WorkerOK(w)

\* The steps that keep what other workers rely on: no issued session id gets a
\* new login, and none is forgotten.
Kept ==
  /\ refreshed \subseteq refreshed'
  /\ \A id \in SessionId : issued[id] # NULL =>
       issued'[id] # NULL /\ (Aut(id) = NULL => Aut(id)' = NULL)

\* The worker's own variables are as before.
Still(w) == /\ pc'[w] = pc[w] /\ cookie'[w] = cookie[w] /\ url'[w] = url[w]
            /\ auth'[w] = auth[w] /\ tokens'[w] = tokens[w]
            /\ reply'[w] = reply[w]

\* A worker that takes no step keeps its part of the invariant.
LEMMA WorkerFrame ==
  ASSUME TypeOK, NEW w \in Worker, WorkerOK(w), Kept, Still(w)
  PROVE  WorkerOK(w)'
BY DEF WorkerOK, Kept, Still, EarnedBy

\* A session whose contents do not change keeps its part.
LEMMA SessionFrame ==
  ASSUME NEW id \in SessionId, SessionOK(id),
         refreshed \subseteq refreshed', issued[id] # NULL => issued'[id] # NULL,
         Has(id)' => Has(id), Tok(id)' = Tok(id), Aut(id)' = Aut(id)
  PROVE  SessionOK(id)'
BY DEF SessionOK, EarnedBy

\* A session that is not in the store has nothing to keep.
LEMMA SessionAbsent ==
  ASSUME NEW id \in SessionId, StoreType', ~Has(id)'
  PROVE  SessionOK(id)'
BY DEF SessionOK, Has, Tok, Aut, Store!TokenResponseOf,
       Store!AuthorizationStateOf, Store!FindSession

\* What is left to prove of a step of one worker.
LEMMA WorkerStep ==
  ASSUME IInv, NEW w \in Worker,
         TypeOK', Kept, WorkerOK(w)',
         \A id \in SessionId : SessionOK(id)',
         \A v \in Worker \ {w} : Still(v)
  PROVE  IInv'
<1>1. ASSUME NEW v \in Worker PROVE WorkerOK(v)'
  <2>1. CASE v = w
    BY <2>1
  <2>2. CASE v # w
    BY <2>2, WorkerFrame DEF IInv
  <2>3. QED
    BY <2>1, <2>2
<1>2. QED
  BY <1>1 DEF IInv

\* The store is not touched: its contents are as before.
LEMMA ContentsFrame ==
  ASSUME UNCHANGED session_map
  PROVE  \A id \in SessionId : /\ Has(id)' <=> Has(id)
                               /\ Tok(id)' = Tok(id) /\ Aut(id)' = Aut(id)
BY DEF Has, Tok, Aut, Store!TokenResponseOf, Store!AuthorizationStateOf,
       Store!FindSession

-----------------------------------------------------------------------------
(***************************************************************************)
(* What the parser returns.                                                *)
(***************************************************************************)
\* Parse accepts only a verified ID token with the nonce it was asked for.
LEMMA ParseResult ==
  ASSUME NEW nonce \in SessionId, NEW body \in Bodies, now \in StartTime..MaxTime,
         NEW parsed, parsed = Parser!Parse(nonce, body, now)
  PROVE  /\ parsed \in TokenResponse \cup {NULL}
         /\ parsed # NULL => /\ parsed.id_token.verified
                            /\ parsed.id_token.nonce = nonce
BY ConstantAssumption, StoreAssumption, NullAssumption
DEF TokenResponse, Parser!TokenResponse, Parser!Parse, Parser!TokenBody,
    Parser!IdToken, Parser!IsIDTokenInvalid, Parser!verifyJwt, Parser!IsInvalid,
    Parser!ParseAccessTokenExpiry

\* ParseRefreshTokenResponse takes the ID token from the body or keeps the old.
LEMMA RefreshResult ==
  ASSUME NEW old \in TokenResponse, NEW body \in Bodies, now \in StartTime..MaxTime,
         NEW parsed, parsed = Parser!ParseRefreshTokenResponse(old, body, now)
  PROVE  /\ parsed \in TokenResponse \cup {NULL}
         /\ (parsed # NULL /\ body.id_token = NULL) => parsed.id_token = old.id_token
<1> DEFINE id_token == IF body.id_token # NULL THEN body.id_token ELSE old.id_token
           refresh_token == IF body.refresh_token = "absent" THEN old.refresh_token
                            ELSE body.refresh_token = "present"
           expiry == Parser!ParseAccessTokenExpiry(body, now)
<1>1. CASE body = NULL \/ Parser!IsInvalid(body)
  BY <1>1 DEF Parser!ParseRefreshTokenResponse
<1>2. CASE ~(body = NULL \/ Parser!IsInvalid(body))
  <2>1. body \in Parser!TokenBody
    BY <1>2, ConstantAssumption
  <2>2. id_token \in Parser!IdToken
    BY <2>1 DEF Parser!TokenBody, TokenResponse, Parser!TokenResponse
  <2>3. refresh_token \in BOOLEAN
    BY <2>1 DEF Parser!TokenBody, TokenResponse, Parser!TokenResponse
  <2>4. expiry \in Int
    BY <2>1, ConstantAssumption, StoreAssumption
    DEF Parser!TokenBody, Parser!ParseAccessTokenExpiry
  <2>5. body.access_token \in BOOLEAN
    BY <2>1 DEF Parser!TokenBody
  <2>6. parsed = [id_token            |-> id_token,
                  access_token        |-> body.access_token,
                  refresh_token       |-> refresh_token,
                  access_token_expiry |-> expiry]
    BY <1>2 DEF Parser!ParseRefreshTokenResponse
  <2>7. body.id_token = NULL => id_token = old.id_token
    OBVIOUS
  <2> HIDE DEF id_token, refresh_token, expiry
  <2>8. QED
    BY <2>2, <2>3, <2>4, <2>5, <2>6, <2>7 DEF TokenResponse, Parser!TokenResponse
<1>3. QED
  BY <1>1, <1>2

-----------------------------------------------------------------------------
(***************************************************************************)
(* The steps that leave the store alone.                                   *)
(***************************************************************************)
LEMMA LocalFrame ==
  ASSUME IInv, UNCHANGED <<storeVars, issued>>, refreshed \subseteq refreshed'
  PROVE  /\ Kept
         /\ \A id \in SessionId : SessionOK(id)'
<1>1. \A id \in SessionId : /\ Has(id)' <=> Has(id)
                           /\ Tok(id)' = Tok(id) /\ Aut(id)' = Aut(id)
  BY ContentsFrame DEF storeVars
<1>2. Kept
  BY <1>1 DEF Kept
<1>3. \A id \in SessionId : SessionOK(id)'
  BY <1>1, SessionFrame DEF IInv
<1>4. QED
  BY <1>2, <1>3

\* Requests answered, or redirected, before any call on the store.
LEMMA ReceiveLocalInvariant ==
  ASSUME IInv, NEW w \in Worker,
         \/ MissingHttp(w) \/ IdTokenHeaderPresent(w)
         \/ NoSessionCookie(w) \/ MalformedCallback(w)
  PROVE  IInv'
<1> USE DEF CanReceive, GoTo, Answer, KnownId, Issued
<1>1. /\ UNCHANGED <<storeVars, history, auth, tokens>>
      /\ pc[w] = "idle"
  BY DEF MissingHttp, IdTokenHeaderPresent, NoSessionCookie, MalformedCallback
<1>2. Kept /\ \A id \in SessionId : SessionOK(id)'
  BY <1>1, LocalFrame DEF history
<1>3. TypeOK'
  BY <1>1, NullAssumption, ConstantAssumption
  DEF IInv, TypeOK, Store!TypeOK, storeVars, sweepVars, history, Reply, Codes,
      MissingHttp, IdTokenHeaderPresent, NoSessionCookie, MalformedCallback
<1>4. WorkerOK(w)'
  <2>1. CASE MissingHttp(w) \/ IdTokenHeaderPresent(w) \/ MalformedCallback(w)
    <3>1. pc'[w] = "done" /\ reply'[w].tokens = NULL
      BY <2>1 DEF IInv, TypeOK, MissingHttp, IdTokenHeaderPresent, MalformedCallback
    <3>2. QED
      BY <3>1 DEF WorkerOK
  <2>2. CASE NoSessionCookie(w)
    <3>1. pc'[w] = "login" /\ url'[w] # NULL /\ reply'[w] = NULL
      BY <1>1, <2>2, NullAssumption DEF IInv, TypeOK, WorkerOK, NoSessionCookie
    <3>2. QED
      BY <3>1 DEF WorkerOK
  <2>3. QED
    BY <2>1, <2>2
<1>5. \A v \in Worker \ {w} : Still(v)
  BY DEF IInv, TypeOK, Still,
         MissingHttp, IdTokenHeaderPresent, NoSessionCookie, MalformedCallback
<1>6. QED
  BY <1>2, <1>3, <1>4, <1>5, WorkerStep

\* CheckExpiry forwards tokens that the session's login earned.
LEMMA CheckExpiryInvariant ==
  ASSUME IInv, NEW w \in Worker, CheckExpiry(w) \/ RefreshFailed(w)
  PROVE  IInv'
<1> USE DEF GoTo, Answer
<1>1. Kept /\ \A id \in SessionId : SessionOK(id)'
  BY LocalFrame DEF CheckExpiry, RefreshFailed, history
<1>2. TypeOK'
  BY DEF IInv, TypeOK, Store!TypeOK, WorkerOK, storeVars, sweepVars, history,
         Reply, Codes, CheckExpiry, RefreshFailed
<1>3. WorkerOK(w)'
  <2>1. \A id \in SessionId : Aut(id)' = Aut(id)
    BY ContentsFrame DEF CheckExpiry, RefreshFailed, storeVars
  <2>2. QED
    BY <2>1 DEF IInv, TypeOK, WorkerOK, EarnedBy, history, CheckExpiry, RefreshFailed
<1>4. \A v \in Worker \ {w} : Still(v)
  BY DEF IInv, TypeOK, Still, CheckExpiry, RefreshFailed
<1>5. QED
  BY <1>1, <1>2, <1>3, <1>4, WorkerStep

\* A refreshed response is the old one's heir, or the session is marked.
LEMMA RefreshAnsweredInvariant ==
  ASSUME IInv, NEW w \in Worker, RefreshAnswered(w)
  PROVE  IInv'
<1> USE DEF GoTo
<1>1. PICK body \in Bodies :
        LET parsed == Parser!ParseRefreshTokenResponse(tokens[w], body, now) IN
        /\ pc' = [pc EXCEPT ![w] = IF parsed = NULL THEN "discard" ELSE "store"]
        /\ tokens' = [tokens EXCEPT ![w] = IF parsed = NULL THEN @ ELSE parsed]
        /\ refreshed' = IF parsed # NULL /\ body.id_token # NULL
                        THEN refreshed \cup {cookie[w]} ELSE refreshed
  BY DEF RefreshAnswered
<1> DEFINE parsed == Parser!ParseRefreshTokenResponse(tokens[w], body, now)
<1>2. /\ pc[w] = "refresh"
      /\ UNCHANGED <<storeVars, cookie, url, auth, reply, issued, ended>>
  BY DEF RefreshAnswered
<1>3. /\ tokens[w] \in TokenResponse
      /\ cookie[w] \in SessionId
      /\ now \in StartTime..MaxTime
  BY <1>2 DEF IInv, TypeOK, Store!TypeOK, WorkerOK
<1>4. /\ parsed \in TokenResponse \cup {NULL}
      /\ (parsed # NULL /\ body.id_token = NULL)
           => parsed.id_token = tokens[w].id_token
  BY <1>3, RefreshResult
<1> HIDE DEF parsed
<1>5. /\ pc' = [pc EXCEPT ![w] = IF parsed = NULL THEN "discard" ELSE "store"]
      /\ tokens' = [tokens EXCEPT ![w] = IF parsed = NULL THEN @ ELSE parsed]
      /\ refreshed' = IF parsed # NULL /\ body.id_token # NULL
                      THEN refreshed \cup {cookie[w]} ELSE refreshed
  BY <1>1 DEF parsed
<1>6. Kept /\ \A id \in SessionId : SessionOK(id)'
  BY <1>2, <1>5, LocalFrame
<1>7. TypeOK'
  BY <1>2, <1>3, <1>4, <1>5 DEF IInv, TypeOK, Store!TypeOK, storeVars, sweepVars
<1>8. WorkerOK(w)'
  <2>1. \A id \in SessionId : Aut(id)' = Aut(id)
    BY <1>2, ContentsFrame DEF storeVars
  <2>2. QED
    BY <2>1, <1>2, <1>3, <1>4, <1>5 DEF IInv, TypeOK, WorkerOK, EarnedBy
<1>9. \A v \in Worker \ {w} : Still(v)
  BY <1>2, <1>5 DEF IInv, TypeOK, Still
<1>10. QED
  BY <1>6, <1>7, <1>8, <1>9, WorkerStep

\* The exchange leads on only with tokens that carry the login's nonce.
LEMMA ExchangeInvariant ==
  ASSUME IInv, NEW w \in Worker, ExchangeFailed(w) \/ ExchangeAnswered(w)
  PROVE  IInv'
<1> USE DEF GoTo, Answer
<1>1. /\ pc[w] = "exchange"
      /\ UNCHANGED <<storeVars, cookie, url, auth, history>>
  BY DEF ExchangeFailed, ExchangeAnswered
<1>2. /\ auth[w] \in AuthorizationState /\ auth[w].nonce = cookie[w]
      /\ cookie[w] \in SessionId
      /\ now \in StartTime..MaxTime
  BY <1>1 DEF IInv, TypeOK, Store!TypeOK, WorkerOK
<1>3. Kept /\ \A id \in SessionId : SessionOK(id)'
  BY <1>1, LocalFrame DEF history
<1>4. CASE ExchangeFailed(w)
  <2>1. TypeOK'
    BY <1>1, <1>4 DEF IInv, TypeOK, Store!TypeOK, storeVars, sweepVars, history,
                      Reply, Codes, ExchangeFailed
  <2>2. WorkerOK(w)'
    BY <1>1, <1>4 DEF IInv, TypeOK, WorkerOK, ExchangeFailed
  <2>3. \A v \in Worker \ {w} : Still(v)
    BY <1>1, <1>4 DEF IInv, TypeOK, Still, ExchangeFailed
  <2>4. QED
    BY <1>3, <2>1, <2>2, <2>3, WorkerStep
<1>5. CASE ExchangeAnswered(w)
  <2>1. PICK body \in Bodies :
          LET parsed == Parser!Parse(auth[w].nonce, body, now) IN
          \/ /\ ~RequiredTokensPresent(parsed)
             /\ Answer(w, "INVALID_ARGUMENT", "none", NULL)
             /\ UNCHANGED tokens
          \/ /\ RequiredTokensPresent(parsed)
             /\ GoTo(w, "clear")
             /\ tokens' = [tokens EXCEPT ![w] = parsed]
             /\ UNCHANGED reply
    BY <1>5 DEF ExchangeAnswered
  <2> DEFINE parsed == Parser!Parse(auth[w].nonce, body, now)
  <2>2. /\ parsed \in TokenResponse \cup {NULL}
        /\ parsed # NULL => /\ parsed.id_token.verified
                           /\ parsed.id_token.nonce = cookie[w]
    BY <1>2, ParseResult
  <2> HIDE DEF parsed
  <2>3. \/ /\ Answer(w, "INVALID_ARGUMENT", "none", NULL)
           /\ UNCHANGED tokens
        \/ /\ parsed # NULL
           /\ GoTo(w, "clear")
           /\ tokens' = [tokens EXCEPT ![w] = parsed]
           /\ UNCHANGED reply
    BY <2>1 DEF parsed, RequiredTokensPresent
  <2>4. TypeOK'
    BY <1>1, <2>2, <2>3 DEF IInv, TypeOK, Store!TypeOK, storeVars, sweepVars,
                            history, Reply, Codes
  <2>5. WorkerOK(w)'
    <3>1. /\ cookie' = cookie /\ auth' = auth /\ url' = url /\ issued' = issued
          /\ \/ /\ pc'[w] = "done"
                /\ reply'[w].tokens = NULL
             \/ /\ pc'[w] = "clear" /\ reply'[w] = reply[w]
                /\ parsed # NULL /\ tokens'[w] = parsed
      BY <1>1, <2>3 DEF IInv, TypeOK, history
    <3>2. reply[w] = NULL /\ issued[cookie[w]] # NULL
      BY <1>1 DEF IInv, WorkerOK
    <3>3. CASE pc'[w] = "done"
      BY <3>1, <3>3 DEF WorkerOK
    <3>4. CASE pc'[w] = "clear"
      <4>1. tokens'[w] # NULL /\ EarnedBy(cookie[w], tokens[w])'
        BY <2>2, <3>1, <3>4 DEF EarnedBy
      <4>2. auth'[w] # NULL /\ auth'[w].nonce = cookie'[w]
        BY <1>1, <1>2, <3>1 DEF IInv, WorkerOK
      <4>3. QED
        BY <1>2, <3>1, <3>2, <3>4, <4>1, <4>2 DEF WorkerOK
    <3>5. QED
      BY <3>1, <3>3, <3>4
  <2>6. \A v \in Worker \ {w} : Still(v)
    BY <1>1, <2>3 DEF IInv, TypeOK, Still
  <2>7. QED
    BY <1>3, <2>4, <2>5, <2>6, WorkerStep
<1>6. QED
  BY <1>4, <1>5

\* A worker that has answered forgets its request.
LEMMA RespondInvariant ==
  ASSUME IInv, NEW w \in Worker, Respond(w)
  PROVE  IInv'
<1> USE DEF GoTo, Respond
<1>1. Kept /\ \A id \in SessionId : SessionOK(id)'
  BY LocalFrame DEF history
<1>2. TypeOK'
  BY DEF IInv, TypeOK, Store!TypeOK, storeVars, sweepVars, history
<1>3. WorkerOK(w)'
  BY DEF IInv, TypeOK, WorkerOK
<1>4. \A v \in Worker \ {w} : Still(v)
  BY DEF IInv, TypeOK, Still
<1>5. QED
  BY <1>1, <1>2, <1>3, <1>4, WorkerStep

-----------------------------------------------------------------------------
(***************************************************************************)
(* The steps that call the store.                                          *)
(***************************************************************************)
\* Removing a session.
LEMMA RemoveFrame ==
  ASSUME IInv, NEW id \in SessionId, Store!RemoveSession(id),
         UNCHANGED <<issued, refreshed>>
  PROVE  StoreType' /\ Kept /\ \A i \in SessionId : SessionOK(i)'
<1>1. StoreType
  BY DEF IInv, TypeOK, Store!TypeOK, StoreType
<1>2. /\ StoreType'
      /\ ~Has(id)'
      /\ \A i \in SessionId \ {id} : /\ Has(i)' <=> Has(i)
                                     /\ Tok(i)' = Tok(i) /\ Aut(i)' = Aut(i)
  BY <1>1, RemoveContents
<1>3. Aut(id)' = NULL
  BY <1>2 DEF Has, Aut, Store!AuthorizationStateOf, Store!FindSession
<1>4. Kept
  BY <1>2, <1>3 DEF Kept
<1>5. \A i \in SessionId : SessionOK(i)'
  BY <1>2, SessionFrame, SessionAbsent DEF IInv
<1>6. QED
  BY <1>2, <1>4, <1>5

\* Touching a session.
LEMMA AccessFrame ==
  ASSUME IInv, NEW id \in SessionId, Store!Access(id), UNCHANGED <<issued, refreshed>>
  PROVE  /\ StoreType' /\ Kept /\ \A i \in SessionId : SessionOK(i)'
         /\ \A i \in SessionId : Aut(i)' = Aut(i)
<1>1. StoreType /\ now \in StartTime..MaxTime
  BY DEF IInv, TypeOK, Store!TypeOK, StoreType
<1>2. /\ StoreType'
      /\ \A i \in SessionId : /\ Has(i)' <=> Has(i)
                              /\ Tok(i)' = Tok(i) /\ Aut(i)' = Aut(i)
  BY <1>1, AccessContents
<1>3. Kept
  BY <1>2 DEF Kept
<1>4. \A i \in SessionId : SessionOK(i)'
  BY <1>2, SessionFrame DEF IInv
<1>5. QED
  BY <1>2, <1>3, <1>4

\* Storing tokens that the session's login earned, once the login is cleared.
LEMMA SetTokenFrame ==
  ASSUME IInv, NEW id \in SessionId, NEW t \in TokenResponse,
         Store!SetTokenResponse(id, t), UNCHANGED <<issued, refreshed>>,
         issued[id] # NULL, Aut(id) = NULL, EarnedBy(id, t)
  PROVE  StoreType' /\ Kept /\ \A i \in SessionId : SessionOK(i)'
<1>1. StoreType /\ now \in StartTime..MaxTime
  BY DEF IInv, TypeOK, Store!TypeOK, StoreType
<1>2. /\ StoreType'
      /\ Has(id)' /\ Tok(id)' = t /\ Aut(id)' = Aut(id)
      /\ \A i \in SessionId \ {id} : /\ Has(i)' <=> Has(i)
                                     /\ Tok(i)' = Tok(i) /\ Aut(i)' = Aut(i)
  BY <1>1, SetTokenContents
<1>3. Kept
  BY <1>2 DEF Kept
<1>4. SessionOK(id)'
  BY <1>2 DEF SessionOK, EarnedBy
<1>5. \A i \in SessionId : SessionOK(i)'
  BY <1>2, <1>4, SessionFrame DEF IInv
<1>6. QED
  BY <1>2, <1>3, <1>5

\* Logout removes a session, which no part of the invariant forbids.
LEMMA LogoutInvariant ==
  ASSUME IInv, NEW w \in Worker, Logout(w)
  PROVE  IInv'
<1> USE DEF GoTo, Answer
<1>1. PICK c \in KnownId \cup {NULL} :
        /\ cookie' = [cookie EXCEPT ![w] = c]
        /\ IF c = NULL
           THEN UNCHANGED <<session_map, ended>>
           ELSE Store!RemoveSession(c) /\ ended' = ended \cup {c}
  BY DEF Logout
<1>2. c \in SessionId \cup {NULL}
  BY ConstantAssumption DEF KnownId, Issued
<1>3. /\ UNCHANGED <<now, sweepVars, url, auth, tokens, issued, refreshed>>
      /\ pc' = [pc EXCEPT ![w] = "done"]
      /\ reply' = [reply EXCEPT ![w] = [code |-> "UNAUTHENTICATED",
                                       location |-> "logout", tokens |-> NULL]]
  BY DEF Logout
<1>4. StoreType' /\ Kept /\ \A i \in SessionId : SessionOK(i)'
  <2>1. CASE c = NULL
    BY <1>1, <1>3, <2>1, LocalFrame DEF storeVars, StoreType, IInv, TypeOK, Store!TypeOK
  <2>2. CASE c # NULL
    BY <1>1, <1>2, <1>3, <2>2, RemoveFrame
  <2>3. QED
    BY <2>1, <2>2
<1>5. TypeOK'
  BY <1>1, <1>2, <1>3, <1>4, Zenon
  DEF IInv, TypeOK, Store!TypeOK, StoreType, sweepVars, Reply, Codes
<1>6. WorkerOK(w)'
  BY <1>3 DEF IInv, TypeOK, WorkerOK
<1>7. \A v \in Worker \ {w} : Still(v)
  BY <1>1, <1>3 DEF IInv, TypeOK, Still
<1>8. QED
  BY <1>4, <1>5, <1>6, <1>7, WorkerStep

\* A callback goes on only with the login of its own session.
LEMMA CallbackInvariant ==
  ASSUME IInv, NEW w \in Worker, Callback(w)
  PROVE  IInv'
<1> USE DEF GoTo, Answer
<1>1. PICK c \in KnownId, state \in KnownId :
        /\ Store!Access(c)
        /\ cookie' = [cookie EXCEPT ![w] = c]
        /\ \/ /\ Answer(w, "UNAUTHENTICATED", "none", NULL)
              /\ UNCHANGED auth
           \/ /\ Answer(w, "INVALID_ARGUMENT", "none", NULL)
              /\ UNCHANGED auth
           \/ /\ Aut(c) # NULL
              /\ GoTo(w, "exchange")
              /\ auth' = [auth EXCEPT ![w] = Aut(c)]
              /\ UNCHANGED reply
  BY Zenon DEF Callback, Aut
<1>2. /\ UNCHANGED <<now, sweepVars, url, tokens, history>>
      /\ pc[w] = "idle"
  BY DEF Callback, CanReceive
<1>3. /\ c \in SessionId
      /\ Aut(c) \in AuthorizationState \cup {NULL}
      /\ Aut(c) # NULL => issued[c] # NULL /\ Aut(c).nonce = c
  <2>1. c \in SessionId
    BY ConstantAssumption DEF KnownId, Issued
  <2>2. StoreType
    BY DEF IInv, TypeOK, Store!TypeOK, StoreType
  <2>3. QED
    BY <2>1, <2>2, ContentsType DEF IInv, SessionOK
<1>4. /\ StoreType' /\ Kept /\ \A i \in SessionId : SessionOK(i)'
  BY <1>1, <1>2, <1>3, AccessFrame DEF history
<1>5. TypeOK'
  <2>1. Store!TypeOK'
    BY <1>2, <1>4 DEF IInv, TypeOK, Store!TypeOK, StoreType, sweepVars
  <2>2. /\ auth' \in [Worker -> AuthorizationState \cup {NULL}]
        /\ cookie' \in [Worker -> SessionId \cup {NULL}]
    BY <1>1, <1>3 DEF IInv, TypeOK
  <2>3. reply' \in [Worker -> Reply \cup {NULL}]
    BY <1>1 DEF IInv, TypeOK, Reply, Codes
  <2>4. QED
    BY <1>1, <1>2, <2>1, <2>2, <2>3 DEF IInv, TypeOK, history
<1>6. WorkerOK(w)'
  <2>1. /\ cookie'[w] = c /\ tokens' = tokens /\ url' = url /\ issued' = issued
        /\ \/ /\ pc'[w] = "done"
              /\ reply'[w] # NULL => reply'[w].tokens = NULL
           \/ /\ pc'[w] = "exchange" /\ reply'[w] = reply[w]
              /\ Aut(c) # NULL /\ auth'[w] = Aut(c)
    BY <1>1, <1>2 DEF IInv, TypeOK, history
  <2>2. reply[w] = NULL
    BY <1>2, Zenon DEF IInv, WorkerOK
  <2>3. CASE pc'[w] = "done"
    BY <2>1, <2>3, Zenon DEF WorkerOK
  <2>4. CASE pc'[w] = "exchange"
    BY <2>1, <2>2, <2>4, <1>3 DEF WorkerOK
  <2>5. QED
    BY <2>1, <2>3, <2>4
<1>7. \A v \in Worker \ {w} : Still(v)
  BY <1>1, <1>2 DEF IInv, TypeOK, Still
<1>8. QED
  BY <1>4, <1>5, <1>6, <1>7, WorkerStep

\* The tokens that Process reads were earned by the session's login.
LEMMA GetTokenResponseInvariant ==
  ASSUME IInv, NEW w \in Worker, GetTokenResponse(w)
  PROVE  IInv'
<1>1. PICK c \in KnownId, u \in Url :
        /\ Store!Access(c)
        /\ cookie' = [cookie EXCEPT ![w] = c]
        /\ url' = [url EXCEPT ![w] = u]
        /\ tokens' = [tokens EXCEPT ![w] = Tok(c)]
        /\ pc' = [pc EXCEPT ![w] = IF RequiredTokensPresent(Tok(c))
                                  THEN "check" ELSE "discard"]
  BY DEF GetTokenResponse, GoTo, Tok
<1>2. /\ UNCHANGED <<now, sweepVars, auth, reply, history>>
      /\ pc[w] = "idle"
  BY DEF GetTokenResponse, CanReceive
<1>3. /\ c \in SessionId
      /\ Tok(c) \in TokenResponse \cup {NULL}
      /\ Tok(c) # NULL => issued[c] # NULL /\ Aut(c) = NULL /\ EarnedBy(c, Tok(c))
  <2>1. c \in SessionId
    BY ConstantAssumption DEF KnownId, Issued
  <2>2. StoreType
    BY DEF IInv, TypeOK, Store!TypeOK, StoreType
  <2>3. QED
    BY <2>1, <2>2, ContentsType DEF IInv, SessionOK
<1>4. /\ StoreType' /\ Kept /\ \A i \in SessionId : SessionOK(i)'
      /\ \A i \in SessionId : Aut(i)' = Aut(i)
  BY <1>1, <1>2, <1>3, AccessFrame DEF history
<1>5. TypeOK'
  BY <1>1, <1>2, <1>3, <1>4
  DEF IInv, TypeOK, Store!TypeOK, StoreType, sweepVars, history
<1>6. WorkerOK(w)'
  <2>1. u # NULL
    BY NullAssumption
  <2>2. CASE RequiredTokensPresent(Tok(c))
    BY <1>1, <1>2, <1>3, <1>4, <2>1, <2>2, Zenon
    DEF IInv, TypeOK, WorkerOK, EarnedBy, history, RequiredTokensPresent
  <2>3. CASE ~RequiredTokensPresent(Tok(c))
    BY <1>1, <1>2, <1>3, <2>1, <2>3, Zenon DEF IInv, TypeOK, WorkerOK, history
  <2>4. QED
    BY <2>2, <2>3
<1>7. \A v \in Worker \ {w} : Still(v)
  BY <1>1, <1>2 DEF IInv, TypeOK, Still
<1>8. QED
  BY <1>4, <1>5, <1>6, <1>7, WorkerStep

\* The refreshed tokens go back to the session they came from.
LEMMA StoreRefreshedInvariant ==
  ASSUME IInv, NEW w \in Worker, StoreRefreshed(w)
  PROVE  IInv'
<1> USE DEF GoTo, Answer, StoreRefreshed
<1>1. /\ cookie[w] \in SessionId /\ tokens[w] \in TokenResponse
      /\ issued[cookie[w]] # NULL /\ Aut(cookie[w]) = NULL
      /\ EarnedBy(cookie[w], tokens[w])
  BY Zenon DEF IInv, TypeOK, WorkerOK
<1>2. StoreType' /\ Kept /\ \A i \in SessionId : SessionOK(i)'
  BY <1>1, SetTokenFrame, Zenon DEF history
<1>3. TypeOK'
  BY <1>1, <1>2, Zenon
  DEF IInv, TypeOK, Store!TypeOK, StoreType, sweepVars, history, Reply, Codes
<1>4. WorkerOK(w)'
  BY <1>1, Zenon DEF IInv, TypeOK, WorkerOK, EarnedBy, history
<1>5. \A v \in Worker \ {w} : Still(v)
  BY DEF IInv, TypeOK, Still
<1>6. QED
  BY <1>2, <1>3, <1>4, <1>5, WorkerStep, Zenon

\* RedirectToIdp removes the old session.
LEMMA DiscardSessionInvariant ==
  ASSUME IInv, NEW w \in Worker, DiscardSession(w)
  PROVE  IInv'
<1> USE DEF GoTo, DiscardSession
<1>1. cookie[w] \in SessionId /\ url[w] # NULL
  BY DEF IInv, WorkerOK
<1>2. StoreType' /\ Kept /\ \A i \in SessionId : SessionOK(i)'
  BY <1>1, RemoveFrame
<1>3. TypeOK'
  BY <1>1, <1>2 DEF IInv, TypeOK, Store!TypeOK, StoreType, sweepVars
<1>4. WorkerOK(w)'
  BY <1>1 DEF IInv, TypeOK, WorkerOK
<1>5. \A v \in Worker \ {w} : Still(v)
  BY DEF IInv, TypeOK, Still
<1>6. QED
  BY <1>2, <1>3, <1>4, <1>5, WorkerStep

\* A new login goes under an id that was not issued, so there is no session.
LEMMA BeginLoginInvariant ==
  ASSUME IInv, NEW w \in Worker, BeginLogin(w)
  PROVE  IInv'
<1> USE DEF GoTo, Answer
<1>1. PICK new \in SessionId \ KnownId :
        /\ Store!SetAuthorizationState(new,
             [state |-> new, nonce |-> new, requested_url |-> url[w]])
        /\ issued' = [issued EXCEPT ![new] = url[w]]
  BY DEF BeginLogin
<1> DEFINE a == [state |-> new, nonce |-> new, requested_url |-> url[w]]
<1>2. /\ pc[w] = "login"
      /\ UNCHANGED <<now, sweepVars, cookie, url, auth, tokens, ended, refreshed>>
      /\ pc' = [pc EXCEPT ![w] = "done"]
      /\ reply' = [reply EXCEPT ![w] = [code |-> "UNAUTHENTICATED",
                                       location |-> "idp", tokens |-> NULL]]
  BY DEF BeginLogin
<1>3. url[w] \in Url
  BY <1>2 DEF IInv, TypeOK, WorkerOK
<1>4. new \in SessionId /\ issued[new] = NULL
  BY DEF KnownId, Issued
<1>5. a \in AuthorizationState /\ a.nonce = new
  BY <1>3, <1>4 DEF AuthorizationState
<1>6. StoreType /\ now \in StartTime..MaxTime
  BY DEF IInv, TypeOK, Store!TypeOK, StoreType
<1>7. Tok(new) = NULL
  BY <1>4, <1>6, ContentsType, Zenon DEF IInv, SessionOK
<1> HIDE DEF a
<1>8. /\ StoreType'
      /\ Has(new)' /\ Tok(new)' = NULL /\ Aut(new)' = a
      /\ \A i \in SessionId \ {new} : /\ Has(i)' <=> Has(i)
                                      /\ Tok(i)' = Tok(i) /\ Aut(i)' = Aut(i)
  BY <1>1, <1>4, <1>5, <1>6, <1>7, SetStateContents DEF a
<1>9. /\ issued' \in [SessionId -> Url \cup {NULL}]
      /\ issued'[new] # NULL
      /\ \A i \in SessionId \ {new} : issued'[i] = issued[i]
  BY <1>1, <1>3, <1>4, NullAssumption DEF IInv, TypeOK
<1>10. Kept
  BY <1>2, <1>4, <1>8, <1>9 DEF Kept
<1>11. \A i \in SessionId : SessionOK(i)'
  <2>1. SessionOK(new)'
    BY <1>5, <1>8, <1>9, Zenon DEF SessionOK
  <2>2. \A i \in SessionId \ {new} : SessionOK(i)'
    BY <1>2, <1>8, <1>9, SessionFrame DEF IInv
  <2>3. QED
    BY <2>1, <2>2
<1>12. TypeOK'
  BY <1>2, <1>8, <1>9, Zenon
  DEF IInv, TypeOK, Store!TypeOK, StoreType, sweepVars, Reply, Codes
<1>13. WorkerOK(w)'
  BY <1>2, Zenon DEF IInv, TypeOK, WorkerOK
<1>14. \A v \in Worker \ {w} : Still(v)
  BY <1>2 DEF IInv, TypeOK, Still
<1>15. QED
  BY <1>10, <1>11, <1>12, <1>13, <1>14, WorkerStep

\* From here on the session has no login in progress.
LEMMA ClearStateInvariant ==
  ASSUME IInv, NEW w \in Worker, ClearState(w)
  PROVE  IInv'
<1> USE DEF GoTo, ClearState
<1>1. /\ cookie[w] \in SessionId
      /\ StoreType /\ now \in StartTime..MaxTime
  BY DEF IInv, TypeOK, Store!TypeOK, StoreType, WorkerOK
<1>2. /\ StoreType'
      /\ Aut(cookie[w])' = NULL
      /\ \A i \in SessionId : (Has(i)' <=> Has(i)) /\ Tok(i)' = Tok(i)
      /\ \A i \in SessionId \ {cookie[w]} : Aut(i)' = Aut(i)
  <2>1. PICK c \in SessionId : cookie[w] = c /\ cookie'[w] = c
    BY <1>1
  <2>2. /\ StoreType'
        /\ Aut(c)' = NULL
        /\ \A i \in SessionId : (Has(i)' <=> Has(i)) /\ Tok(i)' = Tok(i)
        /\ \A i \in SessionId \ {c} : Aut(i)' = Aut(i)
    BY <1>1, <2>1, ClearContents
  <2>3. QED
    BY <2>1, <2>2
<1>3. Kept
  BY <1>2 DEF Kept, history
<1>4. \A i \in SessionId : SessionOK(i)'
  BY <1>2 DEF IInv, SessionOK, EarnedBy, history
<1>5. TypeOK'
  BY <1>2 DEF IInv, TypeOK, Store!TypeOK, StoreType, sweepVars, history
<1>6. WorkerOK(w)'
  BY <1>2, Zenon DEF IInv, TypeOK, WorkerOK, EarnedBy, history
<1>7. \A v \in Worker \ {w} : Still(v)
  BY DEF IInv, TypeOK, Still
<1>8. QED
  BY <1>3, <1>4, <1>5, <1>6, <1>7, WorkerStep

\* The tokens of a login join a session without one, or make a new one.
LEMMA SaveTokensInvariant ==
  ASSUME IInv, NEW w \in Worker, SaveTokens(w)
  PROVE  IInv'
<1> USE DEF GoTo, Answer, SaveTokens
<1>1. /\ cookie[w] \in SessionId /\ tokens[w] \in TokenResponse
      /\ auth[w] \in AuthorizationState
      /\ issued[cookie[w]] # NULL /\ Aut(cookie[w]) = NULL
      /\ EarnedBy(cookie[w], tokens[w])
  BY Zenon DEF IInv, TypeOK, WorkerOK
<1>2. StoreType' /\ Kept /\ \A i \in SessionId : SessionOK(i)'
  BY <1>1, SetTokenFrame, Zenon DEF history
<1>3. TypeOK'
  BY <1>1, <1>2, Zenon
  DEF IInv, TypeOK, Store!TypeOK, StoreType, sweepVars, history, Reply, Codes,
      AuthorizationState
<1>4. WorkerOK(w)'
  BY <1>1, Zenon DEF IInv, TypeOK, WorkerOK
<1>5. \A v \in Worker \ {w} : Still(v)
  BY DEF IInv, TypeOK, Still
<1>6. QED
  BY <1>2, <1>3, <1>4, <1>5, WorkerStep

-----------------------------------------------------------------------------
(***************************************************************************)
(* The cleanup and the clock.                                              *)
(***************************************************************************)
LEMMA CleanupInvariant ==
  ASSUME IInv, Cleanup
  PROVE  IInv'
<1>1. /\ Store!RemoveAllExpired
      /\ UNCHANGED <<now, pc, cookie, url, auth, tokens, reply, issued, refreshed>>
      /\ ended' = ended \cup {id \in SessionId :
                               session_map[id] # NULL /\ session_map'[id] = NULL}
  BY DEF Cleanup, workerVars
<1>2. StoreType
  BY DEF IInv, TypeOK, Store!TypeOK, StoreType
<1>3. /\ StoreType'
      /\ \A i \in SessionId :
           \/ ~Has(i)'
           \/ (Has(i)' <=> Has(i)) /\ Tok(i)' = Tok(i) /\ Aut(i)' = Aut(i)
  BY <1>1, <1>2, SweepContents
<1>4. \A i \in SessionId : ~Has(i)' => Aut(i)' = NULL
  BY DEF Has, Aut, Store!AuthorizationStateOf, Store!FindSession
<1>5. Kept
  BY <1>1, <1>3, <1>4 DEF Kept
<1>6. \A i \in SessionId : SessionOK(i)'
  BY <1>1, <1>3, SessionFrame, SessionAbsent DEF IInv
<1>7. Store!TypeOK'
  BY <1>1, <1>3, StoreAssumption
  DEF IInv, TypeOK, Store!TypeOK, StoreType, Store!RemoveAllExpired,
      Store!ReadAddedThreshold, Store!ReadIdleThreshold, Store!EraseExpired
<1>8. TypeOK'
  BY <1>1, <1>7, Zenon DEF IInv, TypeOK
<1>9. \A w \in Worker : WorkerOK(w)'
  BY <1>1, <1>5, WorkerFrame DEF IInv, Still
<1>10. QED
  BY <1>6, <1>8, <1>9 DEF IInv

\* Steps after which only the clock may differ.
LEMMA TickInvariant ==
  ASSUME IInv, Tick \/ UNCHANGED vars
  PROVE  IInv'
<1>1. /\ UNCHANGED <<session_map, sweep_pc, earliest_time_added_to_keep,
                     earliest_time_idle_to_keep, last_sweep, pc, cookie, url,
                     auth, tokens, reply, issued, ended, refreshed>>
      /\ now' \in StartTime..MaxTime
  BY StoreAssumption
  DEF Tick, Store!Tick, Store!sweepVars, vars, storeVars, sweepVars, workerVars,
      history, IInv, TypeOK, Store!TypeOK
<1>2. \A id \in SessionId : /\ Has(id)' <=> Has(id)
                           /\ Tok(id)' = Tok(id) /\ Aut(id)' = Aut(id)
  BY <1>1, ContentsFrame
<1>3. Kept
  BY <1>1, <1>2 DEF Kept
<1>4. \A id \in SessionId : SessionOK(id)'
  BY <1>1, <1>2, SessionFrame DEF IInv
<1>5. TypeOK'
  BY <1>1 DEF IInv, TypeOK, Store!TypeOK
<1>6. \A w \in Worker : WorkerOK(w)'
  BY <1>1, <1>3, WorkerFrame DEF IInv, Still
<1>7. QED
  BY <1>4, <1>5, <1>6 DEF IInv

-----------------------------------------------------------------------------
\* Initially all workers are idle and the store is empty.
LEMMA InitInvariant == Init => IInv
<1> SUFFICES ASSUME Init PROVE IInv
  OBVIOUS
<1>1. TypeOK
  BY StoreAssumption DEF Init, Store!Init, TypeOK, Store!TypeOK
<1>2. \A id \in SessionId : SessionOK(id)
  BY DEF Init, Store!Init, SessionOK, Has, Tok, Aut, Store!TokenResponseOf,
         Store!AuthorizationStateOf, Store!FindSession
<1>3. \A w \in Worker : WorkerOK(w)
  BY DEF Init, WorkerOK
<1>4. QED
  BY <1>1, <1>2, <1>3 DEF IInv

\* Every action keeps the invariant.
LEMMA NextInvariant == IInv /\ [Next]_vars => IInv'
<1> SUFFICES ASSUME IInv, [Next]_vars PROVE IInv'
  OBVIOUS
<1>1. ASSUME NEW w \in Worker, Receive(w) PROVE IInv'
  BY <1>1, ReceiveLocalInvariant, LogoutInvariant, CallbackInvariant,
     GetTokenResponseInvariant DEF Receive
<1>2. ASSUME NEW w \in Worker, Continue(w) PROVE IInv'
  BY <1>2, CheckExpiryInvariant, RefreshAnsweredInvariant, StoreRefreshedInvariant,
     DiscardSessionInvariant, BeginLoginInvariant, ExchangeInvariant,
     ClearStateInvariant, SaveTokensInvariant, RespondInvariant DEF Continue
<1>3. CASE Cleanup
  BY <1>3, CleanupInvariant
<1>4. CASE Tick \/ UNCHANGED vars
  BY <1>4, TickInvariant
<1>5. QED
  BY <1>1, <1>2, <1>3, <1>4 DEF Next

(***************************************************************************)
(* The inductive invariant holds of every reachable state of the filter.   *)
(***************************************************************************)
THEOREM FilterInvariant == Spec => []IInv
BY InitInvariant, NextInvariant, PTL DEF Spec

(***************************************************************************)
(* The state of the workers and of the store they share is well formed     *)
(* through every interleaving of Process, RedirectToIdp, RetrieveToken,    *)
(* RefreshToken and the cleanup.                                           *)
(***************************************************************************)
THEOREM FilterTypeOK == Spec => []TypeOK
BY FilterInvariant, PTL DEF IInv

(***************************************************************************)
(* The store holds sessions only under session ids that RedirectToIdp      *)
(* generated.                                                              *)
(***************************************************************************)
THEOREM FilterOnlyIssuedSessions == Spec => []OnlyIssuedSessions
<1>1. IInv => OnlyIssuedSessions
  BY Zenon DEF IInv, SessionOK, Has, OnlyIssuedSessions
<1>2. QED
  BY <1>1, FilterInvariant, PTL

(***************************************************************************)
(* No session holds the tokens and the temporary information of a login at *)
(* once, although RetrieveToken clears the one and stores the other in two *)
(* calls that other threads may come between.                              *)
(***************************************************************************)
THEOREM FilterLoginStateCleared == Spec => []LoginStateCleared
<1>1. IInv => LoginStateCleared
  BY Zenon DEF IInv, SessionOK, Tok, Aut, LoginStateCleared
<1>2. QED
  BY <1>1, FilterInvariant, PTL

(***************************************************************************)
(* Tokens that RetrieveToken stored or Process forwards are those of the   *)
(* login that the session id was issued for, unless they were refreshed.   *)
(***************************************************************************)
THEOREM FilterTokensBoundToLogin == Spec => []TokensBoundToLogin
<1>1. IInv => TokensBoundToLogin
  BY DEF IInv, SessionOK, WorkerOK, Tok, TokensBoundToLogin
<1>2. QED
  BY <1>1, FilterInvariant, PTL

-----------------------------------------------------------------------------
(***************************************************************************)
(* The handlers use the store as SessionStore specifies it: every step of  *)
(* the filter is a call of the store, a step of RemoveAllExpired, a tick   *)
(* of the clock, or leaves the store alone.                                *)
(***************************************************************************)
LEMMA NextUsesStore == IInv /\ [Next]_vars => [Store!Next]_(Store!vars)
<1> SUFFICES ASSUME IInv, [Next]_vars, ~ UNCHANGED Store!vars PROVE Store!Next
  BY DEF vars, storeVars, Store!vars
<1> USE DEF sweepVars, Store!sweepVars
<1>1. ASSUME NEW w \in Worker, Receive(w) PROVE Store!Next
  <2>1. \A id \in KnownId : id \in SessionId
    BY ConstantAssumption DEF KnownId, Issued
  <2>2. CASE Logout(w)
    BY <2>1, <2>2 DEF Logout, Store!Next, Store!Call, Store!vars
  <2>3. CASE Callback(w)
    BY <2>1, <2>3, Zenon DEF Callback, Store!Next, Store!Call
  <2>4. CASE GetTokenResponse(w)
    BY <2>1, <2>4 DEF GetTokenResponse, Store!Next, Store!Call
  <2>5. QED
    BY <1>1, <2>2, <2>3, <2>4
    DEF Receive, MissingHttp, IdTokenHeaderPresent, NoSessionCookie,
        MalformedCallback, storeVars, Store!vars
<1>2. ASSUME NEW w \in Worker, Continue(w) PROVE Store!Next
  <2>1. /\ pc[w] \in {"store", "clear", "save", "discard"} => cookie[w] \in SessionId
        /\ pc[w] \in {"store", "save"} => tokens[w] \in TokenResponse
        /\ pc[w] = "login" => url[w] \in Url
    BY Zenon DEF IInv, TypeOK, WorkerOK
  <2>2. CASE StoreRefreshed(w) \/ SaveTokens(w)
    BY <2>1, <2>2, Zenon DEF StoreRefreshed, SaveTokens, Store!Next, Store!Call
  <2>3. CASE DiscardSession(w)
    BY <2>1, <2>3, Zenon DEF DiscardSession, Store!Next, Store!Call
  <2>4. CASE ClearState(w)
    BY <2>1, <2>4, Zenon DEF ClearState, Store!Next, Store!Call
  <2>5. CASE BeginLogin(w)
    <3>1. PICK new \in SessionId :
            Store!SetAuthorizationState(new,
              [state |-> new, nonce |-> new, requested_url |-> url[w]])
      BY <2>5, Zenon DEF BeginLogin
    <3>2. [state |-> new, nonce |-> new, requested_url |-> url[w]]
            \in AuthorizationState
      BY <2>1, <2>5 DEF BeginLogin, AuthorizationState
    <3>3. QED
      BY <3>1, <3>2, <2>5, Zenon DEF BeginLogin, Store!Next, Store!Call
  <2>6. QED
    BY <1>2, <2>2, <2>3, <2>4, <2>5, Zenon
    DEF Continue, CheckExpiry, RefreshFailed, RefreshAnswered, ExchangeFailed,
        ExchangeAnswered, Respond, storeVars, Store!vars
<1>3. CASE Cleanup
  BY <1>3 DEF Cleanup, Store!Next
<1>4. CASE Tick
  BY <1>4 DEF Tick, Store!Next
<1>5. QED
  BY <1>1, <1>2, <1>3, <1>4 DEF Next, vars, storeVars, Store!vars

\* Whatever the filter does, the store behaves as the store on its own may.
THEOREM FilterUsesStore == Spec => Store!Spec
<1>1. Init => Store!Init
  BY DEF Init
<1>2. QED
  BY <1>1, NextUsesStore, FilterInvariant, PTL DEF Spec, Store!Spec

-----------------------------------------------------------------------------
(***************************************************************************)
(* The filter implements SessionLife.                                      *)
(***************************************************************************)
LifePhase   == [id \in SessionId |-> Phase(id)]
LifeHolding == [w \in Worker |-> Holding(w)]

\* The phase of a session is determined by what the lemmas above speak of.
LEMMA PhaseOf ==
  ASSUME IInv, NEW id \in SessionId
  PROVE  /\ Phase(id) \in Life!Phases
         /\ Phase(id) = "unissued" <=> issued[id] = NULL
         /\ Phase(id) = "login" <=> Aut(id) # NULL
         /\ Phase(id) = "tokens" <=> Tok(id) # NULL
<1>1. StoreType
  BY DEF IInv, TypeOK, Store!TypeOK, StoreType
<1>2. /\ Aut(id) # NULL => issued[id] # NULL
      /\ Tok(id) # NULL => issued[id] # NULL /\ Aut(id) = NULL
  BY <1>1, ContentsType DEF IInv, SessionOK
<1>3. QED
  BY <1>2 DEF Phase, Life!Phases, Aut, Tok

\* Steps that change no session and let the worker go on or let go.
LEMMA LifeLetsGo ==
  ASSUME NEW w \in Worker,
         \A id \in SessionId : Phase(id)' = Phase(id),
         \A v \in Worker \ {w} : Holding(v)' = Holding(v),
         Holding(w)' \in {NULL, Holding(w)}
  PROVE  [Life!Next]_(Life!vars)
<1>1. LifePhase' = LifePhase
  BY DEF LifePhase
<1>2. CASE Holding(w)' = Holding(w)
  <2>1. LifeHolding' = LifeHolding
    BY <1>2 DEF LifeHolding
  <2>2. QED
    BY <1>1, <2>1 DEF Life!vars, LifePhase, LifeHolding
<1>3. CASE Holding(w)' = NULL
  <2>1. LifeHolding' = [LifeHolding EXCEPT ![w] = NULL]
    BY <1>3, Zenon DEF LifeHolding
  <2>2. Life!LetGo(w)
    BY <1>1, <2>1 DEF Life!LetGo, LifePhase, LifeHolding
  <2>3. QED
    BY <2>2 DEF Life!Next
<1>4. QED
  BY <1>2, <1>3

\* Steps that end sessions.
LEMMA LifeEnds ==
  ASSUME \A id \in SessionId :
           \/ Phase(id)' = Phase(id)
           \/ Phase(id) # "unissued" /\ Phase(id)' = "over",
         \A w \in Worker : Holding(w)' = Holding(w)
  PROVE  [Life!Next]_(Life!vars)
<1>1. LifeHolding' = LifeHolding
  BY DEF LifeHolding
<1>2. \A id \in SessionId : Phase(id)' \in Life!Phases
  BY DEF Phase, Life!Phases
<1>3. Life!End
  BY <1>1, <1>2 DEF Life!End, LifeHolding
<1>4. QED
  BY <1>3 DEF Life!Next

\* Steps that find a session.
LEMMA LifeFinds ==
  ASSUME NEW w \in Worker, NEW c \in SessionId,
         Phase(c) \in {"login", "tokens"},
         \A id \in SessionId : Phase(id)' = Phase(id),
         \A v \in Worker \ {w} : Holding(v)' = Holding(v),
         Holding(w) = NULL, Holding(w)' = c
  PROVE  [Life!Next]_(Life!vars)
<1>1. LifePhase' = LifePhase
  BY DEF LifePhase
<1>2. LifeHolding' = [LifeHolding EXCEPT ![w] = c]
  BY Zenon DEF LifeHolding
<1>3. LifePhase[c] = Phase(c) /\ LifeHolding[w] = Holding(w)
  BY DEF LifePhase, LifeHolding
<1>4. Life!Find(w, c)
  BY <1>1, <1>2, <1>3 DEF Life!Find, LifePhase, LifeHolding
<1>5. QED
  BY <1>4 DEF Life!Next

\* Steps that store tokens.
LEMMA LifeStores ==
  ASSUME NEW w \in Worker, NEW c \in SessionId,
         Holding(w) = c, Phase(c) \in {"over", "tokens"},
         Phase(c)' = "tokens",
         \A id \in SessionId \ {c} : Phase(id)' = Phase(id),
         \A v \in Worker \ {w} : Holding(v)' = Holding(v),
         Holding(w)' = NULL
  PROVE  [Life!Next]_(Life!vars)
<1>1. LifePhase' = [LifePhase EXCEPT ![c] = "tokens"]
  BY Zenon DEF LifePhase
<1>2. LifeHolding' = [LifeHolding EXCEPT ![w] = NULL]
  BY Zenon DEF LifeHolding
<1>3. LifePhase[c] = Phase(c) /\ LifeHolding[w] = c
  BY DEF LifePhase, LifeHolding
<1>4. c # NULL
  BY NullAssumption
<1>5. Life!Store(w)
  BY <1>1, <1>2, <1>3, <1>4 DEF Life!Store, LifePhase, LifeHolding
<1>6. QED
  BY <1>5 DEF Life!Next

\* Steps that begin a login.
LEMMA LifeBegins ==
  ASSUME NEW c \in SessionId,
         Phase(c) = "unissued", Phase(c)' = "login",
         \A id \in SessionId \ {c} : Phase(id)' = Phase(id),
         \A w \in Worker : Holding(w)' = Holding(w)
  PROVE  [Life!Next]_(Life!vars)
<1>1. LifePhase' = [LifePhase EXCEPT ![c] = "login"]
  BY Zenon DEF LifePhase
<1>2. LifeHolding' = LifeHolding
  BY DEF LifeHolding
<1>3. LifePhase[c] = Phase(c)
  BY DEF LifePhase
<1>4. Life!Begin(c)
  BY <1>1, <1>2, <1>3 DEF Life!Begin, LifePhase, LifeHolding
<1>5. QED
  BY <1>4 DEF Life!Next

\* A session keeps its phase while its contents stay.
LEMMA PhaseFrame ==
  ASSUME NEW id \in SessionId, issued'[id] = issued[id],
         Tok(id)' = Tok(id), Aut(id)' = Aut(id)
  PROVE  Phase(id)' = Phase(id)
BY DEF Phase, Tok, Aut

\* A worker that takes no step holds what it held.
LEMMA HoldingFrame ==
  ASSUME NEW w \in Worker, Still(w)
  PROVE  Holding(w)' = Holding(w)
BY DEF Holding, Still

\* The steps that leave the store alone.
LocalStep(w) ==
  \/ MissingHttp(w) \/ IdTokenHeaderPresent(w)
  \/ NoSessionCookie(w) \/ MalformedCallback(w)
  \/ CheckExpiry(w) \/ RefreshFailed(w) \/ RefreshAnswered(w)
  \/ ExchangeFailed(w) \/ ExchangeAnswered(w) \/ Respond(w)

\* They find no session.
LEMMA LocalHolding ==
  ASSUME IInv, NEW w \in Worker, LocalStep(w)
  PROVE  /\ UNCHANGED <<storeVars, issued, ended>>
         /\ \A v \in Worker \ {w} : Still(v)
         /\ Holding(w)' \in {NULL, Holding(w)}
         /\ pc'[w] = "discard" => pc[w] \in {"check", "refresh"}
                                /\ cookie'[w] = cookie[w]
<1> USE DEF GoTo, Answer
<1>1. UNCHANGED <<storeVars, issued, ended>>
  BY Zenon DEF LocalStep, MissingHttp, IdTokenHeaderPresent, NoSessionCookie,
         MalformedCallback, CheckExpiry, RefreshFailed, RefreshAnswered,
         ExchangeFailed, ExchangeAnswered, Respond, history
<1>2. \A v \in Worker \ {w} : Still(v)
  BY Zenon DEF IInv, TypeOK, Still, LocalStep,
         MissingHttp, IdTokenHeaderPresent, NoSessionCookie, MalformedCallback,
         CheckExpiry, RefreshFailed, RefreshAnswered, ExchangeFailed,
         ExchangeAnswered, Respond
<1>3. CASE \/ MissingHttp(w) \/ IdTokenHeaderPresent(w)
           \/ NoSessionCookie(w) \/ MalformedCallback(w) \/ Respond(w)
  <2>1. pc'[w] \in {"done", "login", "idle"}
    BY <1>3, Zenon DEF IInv, TypeOK, MissingHttp, IdTokenHeaderPresent,
                NoSessionCookie, MalformedCallback, Respond
  <2>2. QED
    BY <1>1, <1>2, <2>1 DEF Holding
<1>4. CASE \/ CheckExpiry(w) \/ RefreshFailed(w) \/ RefreshAnswered(w)
           \/ ExchangeFailed(w) \/ ExchangeAnswered(w)
  <2>1. /\ cookie' = cookie
        /\ pc[w] \in {"check", "refresh", "exchange"}
        /\ pc'[w] = "discard" => pc[w] \in {"check", "refresh"}
    BY <1>4, Zenon DEF CheckExpiry, RefreshFailed, RefreshAnswered, ExchangeFailed,
                ExchangeAnswered, IInv, TypeOK
  <2>2. QED
    BY <1>1, <1>2, <2>1, Zenon DEF Holding
<1>5. QED
  BY <1>3, <1>4, Zenon DEF LocalStep

LEMMA LocalLife ==
  ASSUME IInv, NEW w \in Worker, LocalStep(w)
  PROVE  [Life!Next]_(Life!vars)
<1>1. \A id \in SessionId : Phase(id)' = Phase(id)
  BY LocalHolding, ContentsFrame, PhaseFrame DEF storeVars
<1>2. QED
  BY <1>1, LocalHolding, HoldingFrame, LifeLetsGo, Zenon

\* What the lemmas on the store's calls assume.
LEMMA StoreFacts ==
  ASSUME IInv
  PROVE  StoreType /\ now \in StartTime..MaxTime
BY DEF IInv, TypeOK, Store!TypeOK, StoreType

\* A request that reads the store may find a session.
LEMMA ReadLife ==
  ASSUME IInv, NEW w \in Worker, Callback(w) \/ GetTokenResponse(w)
  PROVE  [Life!Next]_(Life!vars)
<1> USE DEF GoTo, Answer
<1>1. PICK c \in KnownId :
        /\ Store!Access(c)
        /\ cookie' = [cookie EXCEPT ![w] = c]
        /\ \/ pc'[w] \in {"done", "discard"}
           \/ Aut(c) # NULL /\ pc'[w] = "exchange"
           \/ Tok(c) # NULL /\ pc'[w] = "check"
  <2>1. CASE Callback(w)
    BY <2>1, Zenon DEF Callback, Aut, IInv, TypeOK
  <2>2. CASE GetTokenResponse(w)
    BY <2>2, Zenon DEF GetTokenResponse, Tok, RequiredTokensPresent, IInv, TypeOK
  <2>3. QED
    BY <2>1, <2>2
<1>2. c \in SessionId
  BY ConstantAssumption DEF KnownId, Issued
<1>3. UNCHANGED issued /\ pc[w] = "idle"
  BY DEF Callback, GetTokenResponse, CanReceive, history
<1>4. \A id \in SessionId : Phase(id)' = Phase(id)
  BY <1>1, <1>2, <1>3, StoreFacts, AccessContents, PhaseFrame, Zenon
<1>5. \A v \in Worker \ {w} : Holding(v)' = Holding(v)
  <2>1. \A v \in Worker \ {w} : Still(v)
    BY DEF IInv, TypeOK, Still, Callback, GetTokenResponse
  <2>2. QED
    BY <2>1, HoldingFrame
<1>6. Holding(w) = NULL
  BY <1>3 DEF Holding
<1>7. CASE pc'[w] \in {"done", "discard"}
  <2>1. Holding(w)' = NULL
    BY <1>7 DEF Holding
  <2>2. QED
    BY <1>4, <1>5, <2>1, LifeLetsGo
<1>8. CASE pc'[w] \in {"exchange", "check"}
  <2>1. Holding(w)' = c
    BY <1>1, <1>8 DEF Holding, IInv, TypeOK
  <2>2. Phase(c) \in {"login", "tokens"}
    BY <1>1, <1>2, <1>8, PhaseOf
  <2>3. QED
    BY <1>2, <1>4, <1>5, <1>6, <2>1, <2>2, LifeFinds
<1>9. QED
  BY <1>1, <1>7, <1>8

\* A session that is not in the store is over, if its id was ever given out.
LEMMA AbsentIsOver ==
  ASSUME NEW id \in SessionId, UNCHANGED issued, ~Has(id)'
  PROVE  \/ Phase(id)' = Phase(id)
         \/ Phase(id) # "unissued" /\ Phase(id)' = "over"
BY DEF Phase, Has, Store!TokenResponseOf, Store!AuthorizationStateOf,
       Store!FindSession

\* Logout and RedirectToIdp remove the session of the cookie.
LEMMA RemoveLife ==
  ASSUME IInv, NEW w \in Worker, Logout(w) \/ DiscardSession(w)
  PROVE  [Life!Next]_(Life!vars)
<1> USE DEF GoTo, Answer
<1>1. PICK c \in SessionId \cup {NULL} :
        IF c = NULL THEN UNCHANGED session_map ELSE Store!RemoveSession(c)
  <2>1. CASE Logout(w)
    BY <2>1, ConstantAssumption, Zenon DEF Logout, KnownId, Issued
  <2>2. CASE DiscardSession(w)
    BY <2>2, NullAssumption, Zenon DEF DiscardSession, IInv, WorkerOK
  <2>3. QED
    BY <2>1, <2>2
<1>2. UNCHANGED issued
  BY DEF Logout, DiscardSession
<1>3. \A id \in SessionId :
        \/ Phase(id)' = Phase(id)
        \/ Phase(id) # "unissued" /\ Phase(id)' = "over"
  <2>1. CASE c = NULL
    BY <1>1, <1>2, <2>1, ContentsFrame, PhaseFrame
  <2>2. CASE c # NULL
    BY <1>1, <1>2, <2>2, StoreFacts, RemoveContents, PhaseFrame, AbsentIsOver
  <2>3. QED
    BY <2>1, <2>2
<1>4. Holding(w) = NULL /\ Holding(w)' = NULL
  BY DEF Holding, Logout, DiscardSession, CanReceive, IInv, TypeOK
<1>5. \A v \in Worker \ {w} : Holding(v)' = Holding(v)
  <2>1. \A v \in Worker \ {w} : Still(v)
    BY DEF IInv, TypeOK, Still, Logout, DiscardSession
  <2>2. QED
    BY <2>1, HoldingFrame
<1>6. QED
  BY <1>3, <1>4, <1>5, LifeEnds

\* RefreshToken and RetrieveToken store tokens once the login has ended.
LEMMA StoreLife ==
  ASSUME IInv, IInv', NEW w \in Worker, StoreRefreshed(w) \/ SaveTokens(w)
  PROVE  [Life!Next]_(Life!vars)
<1> USE DEF GoTo, Answer
<1>1. /\ pc[w] \in {"store", "save"} /\ pc'[w] = "done"
      /\ Store!SetTokenResponse(cookie[w], tokens[w])
      /\ UNCHANGED issued
  BY DEF StoreRefreshed, SaveTokens, history, IInv, TypeOK
<1>2. /\ cookie[w] \in SessionId /\ tokens[w] \in TokenResponse
      /\ issued[cookie[w]] # NULL /\ Aut(cookie[w]) = NULL
  BY <1>1, Zenon DEF IInv, TypeOK, WorkerOK
<1>3. PICK c \in SessionId, t \in TokenResponse :
        c = cookie[w] /\ t = tokens[w] /\ Store!SetTokenResponse(c, t)
  BY <1>1, <1>2
<1>4. /\ Tok(c)' = t /\ Aut(c)' = NULL
      /\ \A id \in SessionId \ {c} : Tok(id)' = Tok(id) /\ Aut(id)' = Aut(id)
  BY <1>2, <1>3, StoreFacts, SetTokenContents, Zenon
<1>5. t # NULL
  BY NullAssumption
<1>6. Phase(c) \in {"over", "tokens"}
  BY <1>2, <1>3, Zenon DEF Phase, Aut
<1>7. Phase(c)' = "tokens"
  BY <1>1, <1>2, <1>3, <1>4, <1>5, Zenon DEF Phase, Aut, Tok
<1>8. \A id \in SessionId \ {c} : Phase(id)' = Phase(id)
  BY <1>1, <1>4, PhaseFrame, Zenon
<1>9. Holding(w) = c /\ Holding(w)' = NULL
  BY <1>1, <1>3 DEF Holding
<1>10. \A v \in Worker \ {w} : Holding(v)' = Holding(v)
  <2>1. \A v \in Worker \ {w} : Still(v)
    BY DEF IInv, TypeOK, Still, StoreRefreshed, SaveTokens
  <2>2. QED
    BY <2>1, HoldingFrame
<1>11. QED
  BY <1>6, <1>7, <1>8, <1>9, <1>10, LifeStores

\* RedirectToIdp begins a login under an id that was not given out before.
LEMMA BeginLife ==
  ASSUME IInv, NEW w \in Worker, BeginLogin(w)
  PROVE  [Life!Next]_(Life!vars)
<1> USE DEF GoTo, Answer
<1>1. PICK new \in SessionId \ KnownId :
        /\ Store!SetAuthorizationState(new,
             [state |-> new, nonce |-> new, requested_url |-> url[w]])
        /\ issued' = [issued EXCEPT ![new] = url[w]]
  BY Zenon DEF BeginLogin
<1>2. url[w] \in Url /\ pc[w] = "login" /\ pc'[w] = "done"
  BY Zenon DEF BeginLogin, IInv, TypeOK, WorkerOK
<1>3. issued[new] = NULL
  BY DEF KnownId, Issued
<1>4. PICK a \in AuthorizationState : Store!SetAuthorizationState(new, a)
  BY <1>1, <1>2, Zenon DEF AuthorizationState
<1>5. /\ Aut(new)' = a
      /\ \A id \in SessionId \ {new} : Tok(id)' = Tok(id) /\ Aut(id)' = Aut(id)
  BY <1>4, StoreFacts, SetStateContents
<1>6. /\ issued'[new] # NULL
      /\ \A id \in SessionId \ {new} : issued'[id] = issued[id]
  BY <1>1, <1>2, NullAssumption DEF IInv, TypeOK
<1>7. Phase(new) = "unissued" /\ Phase(new)' = "login"
  <2>1. a # NULL
    BY NullAssumption
  <2>2. QED
    BY <1>3, <1>5, <1>6, <2>1 DEF Phase, Aut
<1>8. \A id \in SessionId \ {new} : Phase(id)' = Phase(id)
  BY <1>5, <1>6, PhaseFrame
<1>9. \A v \in Worker : Holding(v)' = Holding(v)
  <2>1. \A v \in Worker \ {w} : Still(v)
    BY DEF IInv, TypeOK, Still, BeginLogin
  <2>2. Holding(w)' = Holding(w)
    BY <1>2 DEF Holding
  <2>3. QED
    BY <2>1, <2>2, HoldingFrame
<1>10. QED
  BY <1>7, <1>8, <1>9, LifeBegins

\* RetrieveToken ends the login before it stores the tokens.
LEMMA ClearLife ==
  ASSUME IInv, NEW w \in Worker, ClearState(w)
  PROVE  [Life!Next]_(Life!vars)
<1> USE DEF GoTo
<1>1. /\ pc[w] = "clear" /\ pc'[w] = "save"
      /\ UNCHANGED <<issued, cookie>>
  BY DEF ClearState, history, IInv, TypeOK
<1>2. PICK c \in SessionId :
        c = cookie[w] /\ issued[c] # NULL /\ Store!ClearAuthorizationState(c)
  BY <1>1, Zenon DEF ClearState, IInv, WorkerOK
<1>3. /\ Aut(c)' = NULL
      /\ \A id \in SessionId : Tok(id)' = Tok(id)
      /\ \A id \in SessionId \ {c} : Aut(id)' = Aut(id)
  BY <1>2, StoreFacts, ClearContents
<1>4. \/ Phase(c)' = Phase(c)
      \/ Phase(c) # "unissued" /\ Phase(c)' = "over"
  <2>1. CASE Aut(c) = NULL
    BY <1>1, <1>3, <2>1, PhaseFrame
  <2>2. CASE Aut(c) # NULL
    <3>1. Tok(c) = NULL
      BY <2>2 DEF IInv, SessionOK
    <3>2. QED
      BY <1>1, <1>2, <1>3, <3>1, Zenon DEF Phase, Aut, Tok
  <2>3. QED
    BY <2>1, <2>2
<1>5. \A id \in SessionId \ {c} : Phase(id)' = Phase(id)
  BY <1>1, <1>3, PhaseFrame
<1>6. \A v \in Worker : Holding(v)' = Holding(v)
  <2>1. \A v \in Worker \ {w} : Still(v)
    BY DEF IInv, TypeOK, Still, ClearState
  <2>2. Holding(w)' = Holding(w)
    BY <1>1 DEF Holding
  <2>3. QED
    BY <2>1, <2>2, HoldingFrame
<1>7. QED
  BY <1>4, <1>5, <1>6, LifeEnds

\* The cleanup removes sessions and the clock changes none.
LEMMA CleanupLife ==
  ASSUME IInv, Cleanup \/ Tick \/ UNCHANGED vars
  PROVE  [Life!Next]_(Life!vars)
<1>1. UNCHANGED <<issued, workerVars>>
  BY DEF Cleanup, Tick, vars, history
<1>2. \A id \in SessionId :
        \/ Phase(id)' = Phase(id)
        \/ Phase(id) # "unissued" /\ Phase(id)' = "over"
  <2>1. CASE Cleanup
    BY <1>1, <2>1, StoreFacts, SweepContents, PhaseFrame, AbsentIsOver, Zenon DEF Cleanup
  <2>2. CASE Tick \/ UNCHANGED vars
    <3>1. UNCHANGED session_map
      BY <2>2 DEF Tick, Store!Tick, vars, storeVars
    <3>2. QED
      BY <1>1, <3>1, ContentsFrame, PhaseFrame
  <2>3. QED
    BY <2>1, <2>2
<1>3. \A w \in Worker : Holding(w)' = Holding(w)
  BY <1>1 DEF Holding, workerVars
<1>4. QED
  BY <1>2, <1>3, LifeEnds

\* Every step of the filter is a step of SessionLife or changes nothing there.
LEMMA NextLife == IInv /\ [Next]_vars => [Life!Next]_(Life!vars)
<1> SUFFICES ASSUME IInv, [Next]_vars PROVE [Life!Next]_(Life!vars)
  OBVIOUS
<1>1. IInv'
  BY NextInvariant
<1>2. ASSUME NEW w \in Worker, Receive(w) PROVE [Life!Next]_(Life!vars)
  BY <1>2, LocalLife, RemoveLife, ReadLife DEF Receive, LocalStep
<1>3. ASSUME NEW w \in Worker, Continue(w) PROVE [Life!Next]_(Life!vars)
  BY <1>1, <1>3, LocalLife, RemoveLife, StoreLife, BeginLife, ClearLife
  DEF Continue, LocalStep
<1>4. CASE Cleanup \/ Tick \/ UNCHANGED vars
  BY <1>4, CleanupLife
<1>5. QED
  BY <1>2, <1>3, <1>4 DEF Next

(***************************************************************************)
(* The filter implements SessionLife: an id serves one login, the login is *)
(* not taken up again once it ended, tokens are stored only after that,    *)
(* and a session that is over comes back only through SetTokenResponse of  *)
(* a request that had read it while it was alive.                          *)
(***************************************************************************)
THEOREM FilterSessionLife == Spec => SessionLifeKept
<1>1. Init => Life!Init
  <2> SUFFICES ASSUME Init PROVE Life!Init
    OBVIOUS
  <2>1. \A id \in SessionId : Phase(id) = "unissued"
    BY DEF Init, Phase
  <2>2. \A w \in Worker : Holding(w) = NULL
    BY DEF Init, Holding
  <2>3. QED
    BY <2>1, <2>2 DEF Life!Init
<1>2. QED
  BY <1>1, NextLife, FilterInvariant, PTL DEF Spec, SessionLifeKept, Life!Spec

=============================================================================
