--------------------------- MODULE AsyncServiceProofs ---------------------------
(***************************************************************************)
(* Proofs about AsyncService, for any number of calls and worker threads:  *)
(* the safety of the states that the completion queue, the coroutines and  *)
(* the threads point to.                                                   *)
(***************************************************************************)
EXTENDS AsyncService, FiniteSetTheorems, TLAPS

\* Exactly one call can take the next client, without counting.
Listener == loop = "serve" => \E c \in Call : \A d \in Call : Listening(d) <=> d = c

\* What the invariants need besides each other: a call has one event in the
\* queue at most, and a CompleteState lives from Finish until its Proceed.
Lifetimes ==
  /\ \A e, f \in cq : e.call = f.call => e = f
  /\ \A c \in Call : processing[c] = "finishing" => complete[c] = "live"
  /\ \A c \in Call : complete[c] = "live" => processing[c] \in {"finishing", "finished"}

\* NoDanglingState, by its parts.
WorkersOwn ==
  \A w \in Worker : worker[w] \in Call =>
    /\ processing[worker[w]] = "running"
    /\ \A v \in Worker \ {w} : worker[v] # worker[w]

TasksOwn ==
  /\ \A i, j \in DOMAIN tasks : tasks[i] = tasks[j] => i = j
  /\ \A i \in DOMAIN tasks : processing[tasks[i]] = "spawned"

EventsOwn ==
  \A event \in cq :
    /\ event.kind = "check" => processing[event.call] \in {"accepted", "cancelled"}
    /\ event.kind = "finish" => /\ processing[event.call] = "finished"
                                /\ complete[event.call] = "live"

StatesOK ==
  /\ TypeOK /\ Listener /\ Lifetimes /\ NoLeakWhileServing
  /\ WorkersOwn /\ TasksOwn /\ EventsOwn

-----------------------------------------------------------------------------
\* The initial state: one call waits for the first client, nothing else exists.
LEMMA StatesInit == Init => StatesOK
<1> SUFFICES ASSUME Init PROVE StatesOK
  OBVIOUS
<1>1. TypeOK
  BY DEF Init, TypeOK
<1>2. Listener
  BY DEF Init, Listener, Listening
<1>3. Lifetimes /\ WorkersOwn /\ TasksOwn /\ EventsOwn
  BY AsyncServiceAssumption DEF Init, Lifetimes, WorkersOwn, TasksOwn, EventsOwn
<1>4. NoLeakWhileServing
  BY DEF Init, NoLeakWhileServing
<1> QED
  BY <1>1, <1>2, <1>3, <1>4 DEF StatesOK

\* An event is a record, and the queue holds events only.
LEMMA EventType ==
  ASSUME NEW c \in Call, NEW kind \in {"check", "finish"}, NEW ok \in BOOLEAN
  PROVE  /\ Event(c, kind, ok) \in [call : Call, kind : {"check", "finish"}, ok : BOOLEAN]
         /\ Event(c, kind, ok).call = c
         /\ Event(c, kind, ok).kind = kind
  BY DEF Event

\* A call that is in no state an event belongs to has no event in the queue.
LEMMA NoEvent ==
  ASSUME StatesOK, NEW c \in Call, processing[c] \notin {"accepted", "cancelled", "finished"}
  PROVE  \A e \in cq : e.call # c
  BY DEF StatesOK, TypeOK, EventsOwn

\* gRPC hands the waiting call to a client.
LEMMA StatesClientCalls ==
  ASSUME StatesOK, NEW c \in Call, ClientCalls(c)
  PROVE  StatesOK'
<1> DEFINE new == Event(c, "check", TRUE)
<1>0. /\ new \in [call : Call, kind : {"check", "finish"}, ok : BOOLEAN]
      /\ new.call = c /\ new.kind = "check"
      /\ \A e \in cq : e.call # c
  BY EventType, NoEvent, Zenon DEF ClientCalls
<1>a. cq' = cq \cup {new}
  BY DEF ClientCalls
<1> HIDE DEF new
<1> USE DEF StatesOK, TypeOK
<1>1. TypeOK'
  BY <1>0, <1>a, Zenon DEF ClientCalls
<1>2. Listener'
  BY DEF Listener, Listening, ClientCalls
<1>3. Lifetimes'
  BY <1>0, <1>a, Zenon DEF Lifetimes, ClientCalls
<1>4. WorkersOwn' /\ TasksOwn'
  BY DEF WorkersOwn, TasksOwn, ClientCalls
<1>5. EventsOwn'
  BY <1>0, <1>a, Zenon DEF EventsOwn, ClientCalls
<1>6. NoLeakWhileServing'
  BY <1>a, Zenon DEF NoLeakWhileServing, ClientCalls
<1> QED
  BY <1>1, <1>2, <1>3, <1>4, <1>5, <1>6, Zenon

\* A client that goes away leaves its event, and the call that took it, behind.
LEMMA StatesClientLeaves ==
  ASSUME StatesOK, NEW c \in Call, ClientLeaves(c)
  PROVE  StatesOK'
<1> USE DEF StatesOK, TypeOK, ClientLeaves
<1>1. TypeOK'
  OBVIOUS
<1>2. Listener'
  BY DEF Listener, Listening
<1>3. Lifetimes'
  BY DEF Lifetimes
<1>4. WorkersOwn' /\ TasksOwn'
  BY DEF WorkersOwn, TasksOwn
<1>5. EventsOwn'
  BY DEF EventsOwn
<1>6. NoLeakWhileServing'
  BY DEF NoLeakWhileServing
<1> QED
  BY <1>1, <1>2, <1>3, <1>4, <1>5, <1>6, Zenon

\* gRPC has sent the response, or has given it up.
LEMMA StatesFinishDone ==
  ASSUME StatesOK, NEW c \in Call, FinishDone(c)
  PROVE  StatesOK'
<1> PICK ok \in BOOLEAN : cq' = cq \cup {Event(c, "finish", ok)}
  BY DEF FinishDone
<1> DEFINE new == Event(c, "finish", ok)
<1>0. /\ new \in [call : Call, kind : {"check", "finish"}, ok : BOOLEAN]
      /\ new.call = c /\ new.kind = "finish"
      /\ \A e \in cq : e.call # c
  BY EventType, NoEvent DEF FinishDone
<1>a. cq' = cq \cup {new}
  OBVIOUS
<1> HIDE DEF new
<1> USE DEF StatesOK, TypeOK
<1>1. TypeOK'
  BY <1>0, <1>a DEF FinishDone
<1>2. Listener'
  BY DEF Listener, Listening, FinishDone
<1>3. Lifetimes'
  BY <1>0, <1>a DEF Lifetimes, FinishDone
<1>4. WorkersOwn' /\ TasksOwn'
  BY DEF WorkersOwn, TasksOwn, FinishDone
<1>5. EventsOwn'
  BY <1>0, <1>a DEF EventsOwn, Lifetimes, FinishDone
<1>6. NoLeakWhileServing'
  BY <1>0, <1>a DEF NoLeakWhileServing, FinishDone
<1> QED
  BY <1>1, <1>2, <1>3, <1>4, <1>5, <1>6, Zenon

-----------------------------------------------------------------------------
\* Proceed of a ProcessingState: the successor takes over the listening.
LEMMA StatesProceedProcessing ==
  ASSUME StatesOK, NEW c \in Call, ProceedProcessing(c)
  PROVE  StatesOK'
<1> DEFINE old == Event(c, "check", TRUE)
<1> PICK new \in Call :
      /\ processing[new] = "free" /\ complete[new] = "free"
      /\ processing' = [processing EXCEPT ![c] = "spawned", ![new] = "waiting"]
  BY Zenon DEF ProceedProcessing
<1>e. old.call = c /\ old.kind = "check"
  BY EventType, Zenon
<1>f. old \in cq /\ cq' = cq \ {old}
  BY Zenon DEF ProceedProcessing
<1> HIDE DEF old
<1>0. processing[c] \in {"accepted", "cancelled"} /\ c # new
  BY <1>e, <1>f DEF StatesOK, EventsOwn
<1>a. \A e \in cq' : e.call # c /\ e.call # new
  <2>1. \A e \in cq : e.call # new
    BY NoEvent
  <2> QED
    BY <2>1, <1>e, <1>f DEF StatesOK, Lifetimes
<1>b. \A d \in Call : processing'[d] = IF d = c THEN "spawned"
                                       ELSE IF d = new THEN "waiting" ELSE processing[d]
  BY <1>0 DEF StatesOK, TypeOK
<1>c. UNCHANGED <<loop, complete, worker, timer, sent>> /\ tasks' = Append(tasks, c)
  BY DEF ProceedProcessing
<1> USE DEF StatesOK, TypeOK
<1>1. TypeOK'
  BY <1>f, <1>c
<1>2. Listener'
  BY <1>0, <1>b, <1>c DEF Listener, Listening
<1>3. Lifetimes'
  <2>1. \A e, f \in cq' : e.call = f.call => e = f
    BY <1>f DEF Lifetimes
  <2>2. \A d \in Call : processing'[d] = "finishing" => complete'[d] = "live"
    BY <1>b, <1>c DEF Lifetimes
  <2>3. \A d \in Call : complete'[d] = "live" => processing'[d] \in {"finishing", "finished"}
    BY <1>0, <1>b, <1>c DEF Lifetimes
  <2> QED
    BY <2>1, <2>2, <2>3 DEF Lifetimes
<1>4. WorkersOwn'
  BY <1>0, <1>b, <1>c DEF WorkersOwn
<1>5. TasksOwn'
  <2>1. \A i \in DOMAIN tasks : tasks[i] \in Call /\ tasks[i] # c /\ tasks[i] # new
    BY <1>0 DEF TasksOwn
  <2>2. /\ DOMAIN tasks' = DOMAIN tasks \cup {Len(tasks) + 1}
        /\ \A i \in DOMAIN tasks : tasks'[i] = tasks[i]
        /\ tasks'[Len(tasks) + 1] = c
    BY <1>c
  <2> QED
    BY <2>1, <2>2, <1>b DEF TasksOwn
<1>6. EventsOwn'
  BY <1>f, <1>a, <1>b, <1>c, SMTT(20) DEF EventsOwn
<1>7. NoLeakWhileServing'
  <2>1. \A d \in Call \ {c, new} : processing'[d] = processing[d]
    BY <1>b
  <2>2. \A e \in cq : e.call \in Call \ {c, new} => e \in cq'
    BY <1>e, <1>f
  <2>3. complete[c] # "live" /\ processing'[c] = "spawned" /\ processing'[new] = "waiting"
    BY <1>0, <1>b, SMTT(20) DEF Lifetimes
  <2> QED
    BY <2>1, <2>2, <2>3, <1>c, SMTT(20) DEF NoLeakWhileServing
<1> QED
  BY <1>1, <1>2, <1>3, <1>4, <1>5, <1>6, <1>7, Zenon

\* Proceed of a CompleteState: both states of the call are deleted, and no
\* other event of the call is left.
LEMMA StatesProceedComplete ==
  ASSUME StatesOK, NEW c \in Call, ProceedComplete(c)
  PROVE  StatesOK'
<1> DEFINE old == Event(c, "finish", TRUE)
<1>e. old.call = c /\ old.kind = "finish"
  BY EventType, Zenon
<1>f. old \in cq /\ cq' = cq \ {old}
  BY Zenon DEF ProceedComplete
<1> HIDE DEF old
<1>0. processing[c] = "finished"
  BY <1>e, <1>f DEF StatesOK, EventsOwn
<1>a. \A e \in cq' : e.call # c
  BY <1>e, <1>f DEF StatesOK, Lifetimes
<1>b. /\ processing' = [processing EXCEPT ![c] = "free"]
      /\ complete' = [complete EXCEPT ![c] = "free"]
      /\ sent' = [sent EXCEPT ![c] = NULL]
      /\ UNCHANGED <<loop, tasks, worker, timer>>
  BY DEF ProceedComplete
<1> USE DEF StatesOK, TypeOK
<1>1. TypeOK'
  BY <1>f, <1>b
<1>2. Listener'
  BY <1>0, <1>b DEF Listener, Listening
<1>3. Lifetimes'
  BY <1>f, <1>b DEF Lifetimes
<1>4. WorkersOwn' /\ TasksOwn'
  BY <1>0, <1>b DEF WorkersOwn, TasksOwn
<1>5. EventsOwn'
  BY <1>f, <1>a, <1>b DEF EventsOwn
<1>6. NoLeakWhileServing'
  BY <1>e, <1>f, <1>b DEF NoLeakWhileServing
<1> QED
  BY <1>1, <1>2, <1>3, <1>4, <1>5, <1>6

\* The event that ends the loop is dropped; what it points to stays.
LEMMA StatesBreakLoop ==
  ASSUME StatesOK, NEW c \in Call, BreakLoop(c)
  PROVE  StatesOK'
<1> USE DEF StatesOK, TypeOK, BreakLoop
<1>1. TypeOK'
  BY Zenon
<1>a. Listener' /\ NoLeakWhileServing'
  BY Zenon DEF Listener, NoLeakWhileServing
<1>b. Lifetimes'
  BY Zenon DEF Lifetimes
<1>2. EventsOwn'
  BY Zenon DEF EventsOwn
<1>3. WorkersOwn' /\ TasksOwn'
  BY DEF WorkersOwn, TasksOwn
<1> QED
  BY <1>1, <1>a, <1>b, <1>2, <1>3, Zenon

\* Shutting the server down ends the wait of every call that still listens.
LEMMA StatesShutdownServer ==
  ASSUME StatesOK, ShutdownServer
  PROVE  StatesOK'
<1> DEFINE waiting == {c \in Call : processing[c] = "waiting"}
           new     == {Event(c, "check", FALSE) : c \in waiting}
<1>0. /\ cq' = cq \cup new
      /\ processing' = [c \in Call |-> IF c \in waiting THEN "cancelled" ELSE processing[c]]
      /\ loop' = "stopping"
      /\ UNCHANGED <<complete, tasks, worker, timer, sent>>
  BY DEF ShutdownServer
<1>a. /\ \A e \in new : /\ e \in [call : Call, kind : {"check", "finish"}, ok : BOOLEAN]
                        /\ e.call \in waiting /\ e.kind = "check"
      /\ \A e, f \in new : e.call = f.call => e = f
  <2>1. \A c \in waiting :
          /\ Event(c, "check", FALSE) \in [call : Call, kind : {"check", "finish"}, ok : BOOLEAN]
          /\ Event(c, "check", FALSE).call = c
          /\ Event(c, "check", FALSE).kind = "check"
    BY EventType, Zenon
  <2>2. \A e \in new : \E c \in waiting : e = Event(c, "check", FALSE)
    BY Zenon
  <2> HIDE DEF waiting, new
  <2>3. ASSUME NEW e \in new
        PROVE  /\ e \in [call : Call, kind : {"check", "finish"}, ok : BOOLEAN]
               /\ e.call \in waiting /\ e.kind = "check"
               /\ e = Event(e.call, "check", FALSE)
    <3>1. PICK c \in waiting : e = Event(c, "check", FALSE)
      BY <2>2, Zenon
    <3> QED
      BY <3>1, <2>1, Zenon
  <2> QED
    BY <2>3, Zenon
<1>b. \A e \in cq : e.call \notin waiting
  BY NoEvent
<1>c. waiting \subseteq Call /\ \A c \in waiting : processing[c] = "waiting"
  OBVIOUS
<1> HIDE DEF waiting, new
<1> USE DEF StatesOK, TypeOK
<1>1. TypeOK' /\ Listener' /\ NoLeakWhileServing'
  BY <1>0, <1>a DEF Listener, NoLeakWhileServing
<1>2. Lifetimes'
  <2>1. \A e, f \in cq' : e.call = f.call => e = f
    BY <1>0, <1>a, <1>b DEF Lifetimes
  <2>2. \A d \in Call : processing'[d] = "finishing" => complete'[d] = "live"
    BY <1>0 DEF Lifetimes
  <2>3. \A d \in Call : complete'[d] = "live" => processing'[d] \in {"finishing", "finished"}
    BY <1>0, <1>c DEF Lifetimes
  <2> QED
    BY <2>1, <2>2, <2>3 DEF Lifetimes
<1>3. WorkersOwn'
  BY <1>0, <1>c DEF WorkersOwn
<1>4. TasksOwn'
  BY <1>0, <1>c DEF TasksOwn
<1>5. EventsOwn'
  BY <1>0, <1>a, <1>b, <1>c, SMTT(20) DEF EventsOwn
<1> QED
  BY <1>1, <1>2, <1>3, <1>4, <1>5, Zenon

\* Draining deletes what one event points to, and no other event points there.
LEMMA StatesDrain ==
  ASSUME StatesOK, NEW event \in cq, Drain(event)
  PROVE  StatesOK'
<1>0. /\ event.call \in Call
      /\ loop' = "drain" /\ cq' = cq \ {event}
      /\ UNCHANGED <<tasks, worker, timer, sent>>
  BY DEF Drain, StatesOK, TypeOK
<1>a. \A e \in cq' : e.call # event.call
  BY <1>0 DEF StatesOK, Lifetimes
<1> USE DEF StatesOK, TypeOK
<1>1. CASE event.kind = "check" /\ UNCHANGED complete
           /\ processing' = [processing EXCEPT ![event.call] = "free"]
  <2>0. processing[event.call] \in {"accepted", "cancelled"}
    BY <1>1 DEF EventsOwn
  <2>1. TypeOK' /\ Listener' /\ NoLeakWhileServing'
    BY <1>0, <1>1 DEF Listener, NoLeakWhileServing
  <2>2. Lifetimes'
    BY <1>0, <1>1, <2>0 DEF Lifetimes
  <2>3. WorkersOwn' /\ TasksOwn'
    BY <1>0, <1>1, <2>0, SMTT(20) DEF WorkersOwn, TasksOwn
  <2>4. EventsOwn'
    BY <1>0, <1>a, <1>1, SMTT(20) DEF EventsOwn
  <2> QED
    BY <2>1, <2>2, <2>3, <2>4, SMTT(20)
<1>2. CASE event.kind = "finish" /\ UNCHANGED processing
           /\ complete' = [complete EXCEPT ![event.call] = "free"]
  <2>0. processing[event.call] = "finished"
    BY <1>2 DEF EventsOwn
  <2>1. TypeOK' /\ Listener' /\ NoLeakWhileServing'
    BY <1>0, <1>2 DEF Listener, NoLeakWhileServing
  <2>2. Lifetimes'
    BY <1>0, <1>2, <2>0, SMTT(20) DEF Lifetimes
  <2>3. WorkersOwn' /\ TasksOwn'
    BY <1>0, <1>2 DEF WorkersOwn, TasksOwn
  <2>4. EventsOwn'
    BY <1>0, <1>a, <1>2 DEF EventsOwn
  <2> QED
    BY <2>1, <2>2, <2>3, <2>4
<1> QED
  BY <1>1, <1>2 DEF Drain

-----------------------------------------------------------------------------
\* A thread starts the oldest coroutine, which no other thread runs.
LEMMA StatesStartCheck ==
  ASSUME StatesOK, NEW w \in Worker, StartCheck(w)
  PROVE  StatesOK'
<1> DEFINE c == Head(tasks)
<1>0. /\ c \in Call /\ tasks # <<>> /\ tasks \in Seq(Call)
      /\ processing[c] = "spawned" /\ worker[w] = "idle"
      /\ c = tasks[1]
  BY DEF StartCheck, StatesOK, TypeOK, TasksOwn
<1>a. /\ tasks' = Tail(tasks)
      /\ worker' = [worker EXCEPT ![w] = c]
      /\ processing' = [processing EXCEPT ![c] = "running"]
      /\ UNCHANGED <<loop, complete, cq, timer, sent>>
  BY DEF StartCheck
<1>b. tasks' \in Seq(Call) /\ \A i \in DOMAIN tasks' : i + 1 \in DOMAIN tasks /\ i + 1 # 1
                                                       /\ tasks'[i] = tasks[i + 1]
  BY <1>0, <1>a
<1> HIDE DEF c
<1> USE DEF StatesOK, TypeOK
<1>1. TypeOK'
  BY <1>0, <1>a, <1>b
<1>2. Listener' /\ NoLeakWhileServing'
  BY <1>0, <1>a DEF Listener, Listening, NoLeakWhileServing
<1>3. Lifetimes' /\ EventsOwn'
  BY <1>0, <1>a DEF Lifetimes, EventsOwn
<1>4. WorkersOwn'
  <2>1. \A v \in Worker \ {w} : worker[v] # c /\ worker'[v] = worker[v]
    BY <1>0, <1>a DEF WorkersOwn
  <2>2. worker'[w] = c /\ processing'[c] = "running"
    BY <1>0, <1>a
  <2> QED
    BY <2>1, <2>2, <1>a DEF WorkersOwn
<1>5. TasksOwn'
  <2>1. \A i, j \in DOMAIN tasks' : tasks'[i] = tasks'[j] => i = j
    <3> SUFFICES ASSUME NEW i \in DOMAIN tasks', NEW j \in DOMAIN tasks',
                        tasks'[i] = tasks'[j]
                 PROVE  i = j
      OBVIOUS
    <3>1. i + 1 = j + 1
      BY <1>b DEF TasksOwn
    <3>2. i \in Int /\ j \in Int
      BY <1>b
    <3> QED
      BY <3>1, <3>2
  <2>2. \A i \in DOMAIN tasks' : tasks'[i] # c /\ tasks'[i] \in Call
                                 /\ processing[tasks'[i]] = "spawned"
    <3>1. 1 \in DOMAIN tasks
      BY <1>0
    <3> QED
      BY <3>1, <1>0, <1>b DEF TasksOwn
  <2> QED
    BY <2>1, <2>2, <1>a DEF TasksOwn
<1> QED
  BY <1>1, <1>2, <1>3, <1>4, <1>5, Zenon

\* Finish makes the CompleteState, whose event comes later.
LEMMA StatesFinishCheck ==
  ASSUME StatesOK, NEW w \in Worker, FinishCheck(w)
  PROVE  StatesOK'
<1> DEFINE c == worker[w]
<1>0. c \in Call /\ processing[c] = "running" /\ \A v \in Worker \ {w} : worker[v] # c
  BY DEF FinishCheck, StatesOK, WorkersOwn
<1>a. /\ worker' = [worker EXCEPT ![w] = "idle"]
      /\ processing' = [processing EXCEPT ![c] = "finishing"]
      /\ complete' = [complete EXCEPT ![c] = "live"]
      /\ UNCHANGED <<loop, cq, tasks, timer>>
  BY DEF FinishCheck
<1>b. \E outcome \in Outcome :
        sent' = [sent EXCEPT ![c] = [outcome |-> outcome, status |-> "OK",
                                     code |-> ResponseCode(outcome)]]
  BY Zenon DEF FinishCheck
<1>c. \A e \in cq : e.call # c
  BY <1>0, NoEvent
<1> HIDE DEF c
<1> USE DEF StatesOK, TypeOK
<1>1. TypeOK'
  <2>1. \A outcome \in Outcome :
          [outcome |-> outcome, status |-> "OK", code |-> ResponseCode(outcome)]
            \in [outcome : Outcome, status : {"OK"}, code : Codes]
    BY DEF ResponseCode, Codes
  <2>2. sent' \in [Call -> [outcome : Outcome, status : {"OK"}, code : Codes] \cup {NULL}]
    BY <2>1, <1>0, <1>b
  <2> QED
    BY <2>2, <1>0, <1>a
<1>2. Listener' /\ NoLeakWhileServing'
  BY <1>0, <1>a DEF Listener, Listening, NoLeakWhileServing
<1>3. Lifetimes'
  BY <1>0, <1>a DEF Lifetimes
<1>4. EventsOwn'
  BY <1>0, <1>a, <1>c DEF EventsOwn
<1>5. WorkersOwn'
  BY <1>0, <1>a, AsyncServiceAssumption DEF WorkersOwn
<1>6. TasksOwn'
  BY <1>0, <1>a DEF TasksOwn
<1> QED
  BY <1>1, <1>2, <1>3, <1>4, <1>5, <1>6, Zenon

\* The steps that touch no state of a call: the timer, the cleanup, the end of
\* the threads and of Run.
LEMMA StatesAside ==
  ASSUME StatesOK,
         UNCHANGED <<processing, complete, cq, tasks, sent>>,
         loop' = loop \/ loop' \in {"drain", "join", "returned"},
         timer' \in {"waiting", "expired", "running", "lost"},
         \/ UNCHANGED worker
         \/ \E w \in Worker, task \in {"idle", "cleanup", "ended"} :
              worker' = [worker EXCEPT ![w] = task]
  PROVE  StatesOK'
<1> USE DEF StatesOK, TypeOK
<1>1. TypeOK'
  OBVIOUS
<1>a. Listener'
  BY DEF Listener, Listening
<1>b. NoLeakWhileServing'
  BY DEF NoLeakWhileServing
<1>2. Lifetimes' /\ EventsOwn' /\ TasksOwn'
  BY DEF Lifetimes, EventsOwn, TasksOwn
<1>3. WorkersOwn'
  BY AsyncServiceAssumption DEF WorkersOwn
<1> QED
  BY <1>1, <1>a, <1>b, <1>2, <1>3

-----------------------------------------------------------------------------
\* Every step of the service keeps the invariant.
LEMMA StatesNext == StatesOK /\ [Next]_vars => StatesOK'
<1> SUFFICES ASSUME StatesOK, [Next]_vars PROVE StatesOK'
  OBVIOUS
<1>1. CASE Grpc
  BY <1>1, StatesClientCalls, StatesClientLeaves, StatesFinishDone DEF Grpc
<1>2. CASE Loop
  <2>1. ASSUME NEW c \in Call, ProceedProcessing(c) \/ ProceedComplete(c) \/ BreakLoop(c)
        PROVE  StatesOK'
    BY <2>1, StatesProceedProcessing, StatesProceedComplete, StatesBreakLoop
  <2>2. CASE ShutdownServer
    BY <2>2, StatesShutdownServer
  <2>3. ASSUME NEW event \in cq, Drain(event) PROVE StatesOK'
    BY <2>3, StatesDrain
  <2>4. CASE ServerStopped \/ ResetWork \/ JoinAll
    BY <2>4, StatesAside DEF ServerStopped, ResetWork, JoinAll, StatesOK, TypeOK
  <2> QED
    BY <1>2, <2>1, <2>2, <2>3, <2>4 DEF Loop
<1>3. CASE TimerExpires
  BY <1>3, StatesAside DEF TimerExpires
<1>4. ASSUME NEW w \in Worker, Thread(w) PROVE StatesOK'
  <2>1. CASE StartCheck(w)
    BY <2>1, StatesStartCheck
  <2>2. CASE FinishCheck(w)
    BY <2>2, StatesFinishCheck
  <2>3. CASE StartCleanup(w)
    BY <2>3, StatesAside, Zenon DEF StartCleanup
  <2>4. CASE FinishCleanup(w)
    BY <2>4, StatesAside, Zenon DEF FinishCleanup
  <2>5. CASE CleanupFails(w)
    BY <2>5, StatesAside, Zenon DEF CleanupFails
  <2>6. CASE EndThread(w)
    BY <2>6, StatesAside, Zenon DEF EndThread, StatesOK, TypeOK
  <2> QED
    BY <1>4, <2>1, <2>2, <2>3, <2>4, <2>5, <2>6, SMTT(20) DEF Thread
<1>5. CASE UNCHANGED vars
  BY <1>5, StatesAside DEF vars, StatesOK, TypeOK
<1> QED
  BY <1>1, <1>2, <1>3, <1>4, <1>5 DEF Next

\* The strengthened invariant holds in every reachable state, for any number of
\* calls and threads.
THEOREM ServiceInvariant == Spec => []StatesOK
  BY StatesInit, StatesNext, PTL DEF Spec

\* One ProcessingState, and only one, can take the next client as long as Run
\* is in its loop, whatever the number of calls in progress.
THEOREM ServiceOneListening == Spec => []OneListening
<1>1. StatesOK => OneListening
  <2> SUFFICES ASSUME StatesOK, loop = "serve"
               PROVE  Cardinality({c \in Call : Listening(c)}) = 1
    BY DEF OneListening
  <2>1. PICK c \in Call : \A d \in Call : Listening(d) <=> d = c
    BY DEF StatesOK, Listener
  <2>2. {d \in Call : Listening(d)} = {c}
    BY <2>1, SMTT(20)
  <2> QED
    BY <2>2, FS_Singleton
<1> QED
  BY <1>1, ServiceInvariant, PTL

\* Neither a coroutine nor a tag of the completion queue points to a state that
\* Proceed or the draining has deleted, and no two threads share one.
THEOREM ServiceNoDanglingState == Spec => []NoDanglingState
<1>1. StatesOK => NoDanglingState
  <2> SUFFICES ASSUME StatesOK PROVE NoDanglingState
    OBVIOUS
  <2>1. /\ IsInjective(tasks)
        /\ \A c \in ToSet(tasks) : processing[c] = "spawned"
    BY DEF StatesOK, TasksOwn, IsInjective, ToSet
  <2>2. \A event \in cq :
          IF event.kind = "check"
          THEN processing[event.call] \in {"accepted", "cancelled"}
          ELSE processing[event.call] = "finished" /\ complete[event.call] = "live"
    BY DEF StatesOK, TypeOK, EventsOwn
  <2> QED
    BY <2>1, <2>2 DEF StatesOK, WorkersOwn, NoDanglingState
<1> QED
  BY <1>1, ServiceInvariant, PTL

\* As long as Run is in its loop, a finished call has an event in the queue
\* whose Proceed deletes both of its states.
THEOREM ServiceNoLeak == Spec => []NoLeakWhileServing
<1>1. StatesOK => NoLeakWhileServing
  BY DEF StatesOK
<1> QED
  BY <1>1, ServiceInvariant, PTL

\* The variables of the service keep their types, from its construction to the
\* end of Run.
THEOREM ServiceTypeOK == Spec => []TypeOK
<1>1. StatesOK => TypeOK
  BY DEF StatesOK
<1> QED
  BY <1>1, ServiceInvariant, PTL

=============================================================================
