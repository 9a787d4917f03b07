------------------------------ MODULE AsyncService ------------------------------
(***************************************************************************)
(* AsyncAuthServiceImpl (src/service/async_service_impl.cc) and what it    *)
(* calls in AuthServiceImpl::Check (src/service/service_impl.cc): the      *)
(* thread that runs the gRPC completion queue, the worker threads of the   *)
(* io_context, the cleanup timer, and the objects the events point to.     *)
(*                                                                         *)
(* A member of Call stands for a ProcessingState and for the CompleteState *)
(* made for it.  What Check comes to is chosen freely; OidcFilter says     *)
(* more about that.                                                        *)
(***************************************************************************)
EXTENDS Integers, FiniteSets, SequencesExt

CONSTANTS Call,           \* the bound on calls that exist at one time
          Worker,         \* the threads of io_context_ (config_.threads())
          NULL            \* no response yet

ASSUME AsyncServiceAssumption ==
  /\ IsFiniteSet(Call) /\ Cardinality(Call) > 1
  /\ Call \cap {"idle", "cleanup", "ended"} = {}

VARIABLES
  loop,        \* where Run is, after it has started the threads
  processing,  \* the life of each ProcessingState
  complete,    \* the life of each CompleteState
  cq,          \* the completion queue: events that Next has not returned
  tasks,       \* coroutines spawned on io_context_ and not yet started
  worker,      \* what each thread does
  timer,       \* the state of timer_: "lost" when nobody waits for it
  sent         \* what Finish was called with, and what Check came to

vars == <<loop, processing, complete, cq, tasks, worker, timer, sent>>

Codes == {"OK", "UNAUTHENTICATED", "INVALID_ARGUMENT", "INTERNAL", "UNKNOWN"}

\* What Check comes to: the result of the first chain that matches, no rule or
\* chain that matches, or an exception.
Outcome == Codes \cup {"no match", "exception"}

\* Check's return value.
CheckStatus(outcome) ==
  CASE outcome \in {"OK", "UNAUTHENTICATED", "no match"} -> "OK"
    [] outcome = "INVALID_ARGUMENT"                      -> "INVALID_ARGUMENT"
    [] OTHER                                             -> "INTERNAL"

ResponseCode_AnyOutcome(outcome) == outcome

\* The code in the CheckResponse, which Pipe::Process sets; it is OK otherwise.
ResponseCode(outcome) == IF outcome \in Codes THEN outcome ELSE "OK"

Event(call, kind, ok) == [call |-> call, kind |-> kind, ok |-> ok]

\* Waiting or matched with a client, and not yet given to Proceed.
Listening(c) == processing[c] \in {"waiting", "accepted", "cancelled"}

-----------------------------------------------------------------------------
\* gRPC: a client calls, and the call is matched with the waiting RequestCheck.
ClientCalls(c) ==
  /\ loop \in {"serve", "shutdown"}
  /\ processing[c] = "waiting"
  /\ processing' = [processing EXCEPT ![c] = "accepted"]
  /\ cq' = cq \cup {Event(c, "check", TRUE)}
  /\ UNCHANGED <<loop, complete, tasks, worker, timer, sent>>

\* gRPC: the client goes away before Proceed gets its call; the event stays.
ClientLeaves(c) ==
  /\ processing[c] = "accepted"
  /\ processing' = [processing EXCEPT ![c] = "cancelled"]
  /\ UNCHANGED <<loop, complete, cq, tasks, worker, timer, sent>>

\* gRPC: the response has gone out, or the client has gone away (not ok).
FinishDone(c) ==
  /\ processing[c] = "finishing"
  /\ processing' = [processing EXCEPT ![c] = "finished"]
  /\ \E ok \in BOOLEAN : cq' = cq \cup {Event(c, "finish", ok)}
  /\ UNCHANGED <<loop, complete, tasks, worker, timer, sent>>

-----------------------------------------------------------------------------
(***************************************************************************)
(* The loop of Run.  Proceed of a ProcessingState first makes the next one *)
(* and has it wait for a client, then spawns the coroutine.  The storage   *)
(* of a deleted state is used again.                                       *)
(***************************************************************************)
ProceedProcessing_NoSuccessor(c) ==
  /\ loop = "serve"
  /\ Event(c, "check", TRUE) \in cq
  /\ cq' = cq \ {Event(c, "check", TRUE)}
  /\ processing' = [processing EXCEPT ![c] = "spawned"]
  /\ tasks' = Append(tasks, c)
  /\ UNCHANGED <<loop, complete, worker, timer, sent>>

ProceedProcessing(c) ==
  /\ loop = "serve"
  /\ Event(c, "check", TRUE) \in cq
  /\ cq' = cq \ {Event(c, "check", TRUE)}
  /\ \E new \in Call :
       /\ processing[new] = "free" /\ complete[new] = "free"
       /\ processing' = [processing EXCEPT ![c] = "spawned", ![new] = "waiting"]
  /\ tasks' = Append(tasks, c)
  /\ UNCHANGED <<loop, complete, worker, timer, sent>>

\* CompleteState::Proceed deletes the ProcessingState and itself.
ProceedComplete_KeepsProcessor(c) ==
  /\ loop = "serve"
  /\ Event(c, "finish", TRUE) \in cq
  /\ cq' = cq \ {Event(c, "finish", TRUE)}
  /\ complete' = [complete EXCEPT ![c] = "free"]
  /\ UNCHANGED <<loop, processing, tasks, worker, timer, sent>>

ProceedComplete(c) ==
  /\ loop = "serve"
  /\ Event(c, "finish", TRUE) \in cq
  /\ cq' = cq \ {Event(c, "finish", TRUE)}
  /\ processing' = [processing EXCEPT ![c] = "free"]
  /\ complete' = [complete EXCEPT ![c] = "free"]
  /\ sent' = [sent EXCEPT ![c] = NULL]
  /\ UNCHANGED <<loop, tasks, worker, timer>>

\* An event that is not ok ends the loop; its state is not looked at again.
BreakLoop(c) ==
  /\ loop = "serve"
  /\ Event(c, "finish", FALSE) \in cq
  /\ cq' = cq \ {Event(c, "finish", FALSE)}
  /\ loop' = "shutdown"
  /\ UNCHANGED <<processing, complete, tasks, worker, timer, sent>>

\* server_->Shutdown: the RequestCheck that still waits completes with an event
\* that is not ok ...
ShutdownServer ==
  /\ loop = "shutdown"
  /\ LET waiting == {c \in Call : processing[c] = "waiting"} IN
     /\ cq' = cq \cup {Event(c, "check", FALSE) : c \in waiting}
     /\ processing' = [c \in Call |->
          IF c \in waiting THEN "cancelled" ELSE processing[c]]
  /\ loop' = "stopping"
  /\ UNCHANGED <<complete, tasks, worker, timer, sent>>

\* ... and it returns when every call is over.  Nobody takes events off the
\* queue meanwhile, so a call that Proceed did not get ends with its client.
ServerStopped ==
  /\ loop = "stopping"
  /\ \A c \in Call :
       processing[c] \notin {"accepted", "spawned", "running", "finishing"}
  /\ loop' = "drain"
  /\ UNCHANGED <<processing, complete, cq, tasks, worker, timer, sent>>

\* Draining deletes the state the event points to, and only that one.
Drain(event) ==
  /\ loop = "drain"
  /\ event \in cq
  /\ cq' = cq \ {event}
  /\ \/ /\ event.kind = "check"
        /\ processing' = [processing EXCEPT ![event.call] = "free"]
        /\ UNCHANGED complete
     \/ /\ event.kind = "finish"
        /\ complete' = [complete EXCEPT ![event.call] = "free"]
        /\ UNCHANGED processing
  /\ UNCHANGED <<loop, tasks, worker, timer, sent>>

\* Next returns false once the queue is empty; then work.reset() lets the
\* threads end when they have nothing left to do.
ResetWork ==
  /\ loop = "drain"
  /\ cq = {}
  /\ loop' = "join"
  /\ UNCHANGED <<processing, complete, cq, tasks, worker, timer, sent>>

JoinAll ==
  /\ loop = "join"
  /\ \A w \in Worker : worker[w] = "ended"
  /\ loop' = "returned"
  /\ UNCHANGED <<processing, complete, cq, tasks, worker, timer, sent>>

-----------------------------------------------------------------------------
\* A thread starts the oldest coroutine ...
StartCheck(w) ==
  /\ worker[w] = "idle"
  /\ tasks # <<>>
  /\ tasks' = Tail(tasks)
  /\ worker' = [worker EXCEPT ![w] = Head(tasks)]
  /\ processing' = [processing EXCEPT ![Head(tasks)] = "running"]
  /\ UNCHANGED <<loop, complete, cq, timer, sent>>

FinishCheck_DeletesProcessor(w) ==
  /\ worker[w] \in Call
  /\ LET c == worker[w] IN
     /\ \E outcome \in Outcome :
          sent' = [sent EXCEPT ![c] = [outcome |-> outcome, status |-> "OK",
                                       code |-> ResponseCode(outcome)]]
     /\ processing' = [processing EXCEPT ![c] = "free"]
     /\ complete' = [complete EXCEPT ![c] = "live"]
     /\ \E ok \in BOOLEAN : cq' = cq \cup {Event(c, "finish", ok)}
  /\ worker' = [worker EXCEPT ![w] = "idle"]
  /\ UNCHANGED <<loop, tasks, timer>>

FinishCheck_OnlyIfOk(w) ==
  /\ worker[w] \in Call
  /\ LET c == worker[w] IN
       \E outcome \in Outcome :
         IF CheckStatus(outcome) # "OK"
         THEN UNCHANGED <<sent, processing, complete>>
         ELSE /\ sent' = [sent EXCEPT ![c] = [outcome |-> outcome, status |-> "OK",
                                              code |-> ResponseCode(outcome)]]
              /\ processing' = [processing EXCEPT ![c] = "finishing"]
              /\ complete' = [complete EXCEPT ![c] = "live"]
  /\ worker' = [worker EXCEPT ![w] = "idle"]
  /\ UNCHANGED <<loop, cq, tasks, timer>>

\* ... and stays with it until Check returns and Finish is called, always with
\* grpc::Status::OK: the status that Check returns is dropped.
FinishCheck(w) ==
  /\ worker[w] \in Call
  /\ LET c == worker[w] IN
     /\ \E outcome \in Outcome :
          sent' = [sent EXCEPT ![c] = [outcome |-> outcome, status |-> "OK",
                                       code |-> ResponseCode(outcome)]]
     /\ processing' = [processing EXCEPT ![c] = "finishing"]
     /\ complete' = [complete EXCEPT ![c] = "live"]
  /\ worker' = [worker EXCEPT ![w] = "idle"]
  /\ UNCHANGED <<loop, cq, tasks, timer>>

TimerExpires ==
  /\ timer = "waiting"
  /\ timer' = "expired"
  /\ UNCHANGED <<loop, processing, complete, cq, tasks, worker, sent>>

StartCleanup_ThreadsIdle(w) ==
  /\ \A v \in Worker : worker[v] = "idle"
  /\ timer = "expired"
  /\ timer' = "running"
  /\ worker' = [worker EXCEPT ![w] = "cleanup"]
  /\ UNCHANGED <<loop, processing, complete, cq, tasks, sent>>

StartCleanup(w) ==
  /\ worker[w] = "idle"
  /\ timer = "expired"
  /\ timer' = "running"
  /\ worker' = [worker EXCEPT ![w] = "cleanup"]
  /\ UNCHANGED <<loop, processing, complete, cq, tasks, sent>>

\* The handler waits for the timer again.
FinishCleanup(w) ==
  /\ worker[w] = "cleanup"
  /\ worker' = [worker EXCEPT ![w] = "idle"]
  /\ timer' = "waiting"
  /\ UNCHANGED <<loop, processing, complete, cq, tasks, sent>>

\* An exception leaves the handler before that; the thread goes on.
CleanupFails(w) ==
  /\ worker[w] = "cleanup"
  /\ worker' = [worker EXCEPT ![w] = "idle"]
  /\ timer' = "lost"
  /\ UNCHANGED <<loop, processing, complete, cq, tasks, sent>>

\* io_context::run returns when it has neither work nor anything to wait for.
EndThread(w) ==
  /\ worker[w] = "idle"
  /\ loop = "join"
  /\ tasks = <<>>
  /\ timer = "lost"
  /\ worker' = [worker EXCEPT ![w] = "ended"]
  /\ UNCHANGED <<loop, processing, complete, cq, tasks, timer, sent>>

-----------------------------------------------------------------------------
Init ==
  /\ loop = "serve"
  /\ \E first \in Call :
       processing = [c \in Call |-> IF c = first THEN "waiting" ELSE "free"]
  /\ complete = [c \in Call |-> "free"]
  /\ cq = {}
  /\ tasks = <<>>
  /\ worker = [w \in Worker |-> "idle"]
  /\ timer = "waiting"
  /\ sent = [c \in Call |-> NULL]

Grpc == \E c \in Call : ClientCalls(c) \/ ClientLeaves(c) \/ FinishDone(c)

Loop ==
  \/ \E c \in Call : ProceedProcessing(c) \/ ProceedComplete(c) \/ BreakLoop(c)
  \/ ShutdownServer
  \/ ServerStopped
  \/ \E event \in cq : Drain(event)
  \/ ResetWork
  \/ JoinAll

Thread(w) ==
  \/ StartCheck(w)
  \/ FinishCheck(w)
  \/ StartCleanup(w)
  \/ FinishCleanup(w)
  \/ CleanupFails(w)
  \/ EndThread(w)

Next == Grpc \/ Loop \/ TimerExpires \/ \E w \in Worker : Thread(w)

Spec == Init /\ [][Next]_vars

\* Threads do not stop within a handler, gRPC completes every operation, and
\* Check returns, which it does if the IdP answers or drops its connection.  The
\* io_context runs what is ready in the order in which it became ready, so a
\* coroutine or an expired timer is not passed over by each thread for ever.
FairSpec ==
  /\ Spec
  /\ \A c \in Call : WF_vars(FinishDone(c))
  /\ WF_vars(Loop)
  /\ WF_vars(TimerExpires)
  /\ SF_vars(\E w \in Worker : StartCheck(w))
  /\ SF_vars(\E w \in Worker : StartCleanup(w))
  /\ \A w \in Worker : /\ WF_vars(FinishCheck(w))
                       /\ WF_vars(FinishCleanup(w) \/ CleanupFails(w))
                       /\ WF_vars(EndThread(w))

-----------------------------------------------------------------------------
\* The queues hold calls and their events, and each call is in one of its states.
TypeOK ==
  /\ loop \in {"serve", "shutdown", "stopping", "drain", "join", "returned"}
  /\ processing \in [Call -> {"free", "waiting", "accepted", "cancelled", "spawned",
                              "running", "finishing", "finished"}]
  /\ complete \in [Call -> {"free", "live"}]
  /\ cq \subseteq [call : Call, kind : {"check", "finish"}, ok : BOOLEAN]
  /\ tasks \in Seq(Call)
  /\ worker \in [Worker -> {"idle", "cleanup", "ended"} \cup Call]
  /\ timer \in {"waiting", "expired", "running", "lost"}
  /\ sent \in [Call -> [outcome : Outcome, status : {"OK"}, code : Codes] \cup {NULL}]

(***************************************************************************)
(* As long as Run is in its loop there is exactly one ProcessingState that *)
(* can take the next client: Proceed makes a new one for each that it puts *)
(* to work, however the events of several calls are ordered.               *)
(***************************************************************************)
OneListening ==
  loop = "serve" => Cardinality({c \in Call : Listening(c)}) = 1

(***************************************************************************)
(* Nothing points to a deleted state: a coroutine runs on a ProcessingState *)
(* that is alive and that no other thread uses, and every tag in the       *)
(* completion queue is an object that Proceed or the final draining can    *)
(* use, also when the service shuts down with calls in progress.           *)
(***************************************************************************)
NoDanglingState ==
  /\ \A w \in Worker : worker[w] \in Call =>
       /\ processing[worker[w]] = "running"
       /\ \A v \in Worker \ {w} : worker[v] # worker[w]
  /\ IsInjective(tasks)
  /\ \A c \in ToSet(tasks) : processing[c] = "spawned"
  /\ \A event \in cq :
       IF event.kind = "check"
       THEN processing[event.call] \in {"accepted", "cancelled"}
       ELSE processing[event.call] = "finished" /\ complete[event.call] = "live"

(***************************************************************************)
(* While the service runs, no state is left behind: one that has finished  *)
(* still has its event in the queue, whose Proceed deletes it.             *)
(***************************************************************************)
NoLeakWhileServing ==
  loop = "serve" =>
    \A c \in Call :
      (processing[c] = "finished" \/ (complete[c] = "live" /\ processing[c] # "finishing"))
        => \E event \in cq : event.call = c

(***************************************************************************)
(* Every call that the loop hands to the workers is answered, even when    *)
(* another call's event has ended the loop in the meantime.                *)
(***************************************************************************)
CallAnswered ==
  \A c \in Call : processing[c] = "spawned" ~> processing[c] = "finishing"

(***************************************************************************)
(* The cleanup runs again and again, whatever load the service is under,   *)
(* unless DoPeriodicCleanup throws: then the timer is lost, and it is the  *)
(* last cleanup.                                                           *)
(***************************************************************************)
CleanupRepeats == []<>(timer = "running") \/ <>[](timer = "lost")

(***************************************************************************)
(* Once the loop has ended and the work object is reset, the threads       *)
(* finish what is outstanding, end, and Run returns.  The code does not    *)
(* keep this: the cleanup's handler always waits for the timer again, so   *)
(* the io_context is never out of work and join_all blocks for ever.       *)
(***************************************************************************)
ServiceEnds == loop = "join" ~> loop = "returned"

(***************************************************************************)
(* The caller learns of an error: where Check returns a status other than  *)
(* OK, the gRPC status or the code in the response is not OK either.       *)
(***************************************************************************)
ErrorRelayed ==
  \A c \in Call :
    (sent[c] # NULL /\ CheckStatus(sent[c].outcome) # "OK")
      => sent[c].status # "OK" \/ sent[c].code # "OK"

=============================================================================
