------------------------------- MODULE FilterChain -------------------------------
(***************************************************************************)
(* FilterChainImpl (src/filters/filter_chain.cc): New makes a filter for   *)
(* each request and, for the first one, the session store they all share.  *)
(* New runs on every worker thread, without a lock: oidc_session_store_ is *)
(* a plain std::shared_ptr.                                                *)
(*                                                                         *)
(* Copying the pointer into the filter is not atomic.  It reads which      *)
(* store to share and then counts a reference to it, and an assignment by  *)
(* another thread may drop the last reference in between; the copy is then *)
(* a dangling pointer.  DoPeriodicCleanup, which the timer runs on one of  *)
(* the same threads, calls the store through the pointer and counts no     *)
(* reference at all.                                                       *)
(***************************************************************************)
EXTENDS Integers, FiniteSets

CONSTANTS Worker,  \* the threads of the service
          Store,   \* the places in memory a session store may be made in
          NULL,    \* the null pointer
          Dangling \* a pointer to a store that was destroyed

\* Each thread keeps one store alive at most, and the chain another.
ASSUME StoreAssumption ==
  /\ IsFiniteSet(Worker) /\ IsFiniteSet(Store)
  /\ NULL \notin Store /\ Dangling \notin Store \cup {NULL}
  /\ Cardinality(Store) > Cardinality(Worker)

VARIABLES
  oidc_session_store,  \* the chain's pointer
  pc,                  \* where each worker is
  read,                \* the store a worker found in the pointer, no reference counted
  filter_store,        \* the session_store_ of the filter a worker runs
  creations            \* history: how many stores each worker has made, up to 2

vars == <<oidc_session_store, pc, read, filter_store, creations>>

\* The stores somebody holds a counted reference to.
Live ==
  ({oidc_session_store} \cup {filter_store[w] : w \in Worker}) \ {NULL, Dangling}

GoTo(w, label) == pc' = [pc EXCEPT ![w] = label]

\* What an uncounted pointer is worth after the step.
Surviving(pointer) == IF pointer \in Live' \cup {NULL} THEN pointer ELSE Dangling

\* New, up to the test of the pointer.
TestPointer_Negated(w) ==
  /\ pc[w] = "idle"
  /\ GoTo(w, IF oidc_session_store = NULL THEN "copy" ELSE "create")
  /\ UNCHANGED <<oidc_session_store, read, filter_store, creations>>

TestPointer_Skipped(w) ==
  /\ pc[w] = "idle"
  /\ GoTo(w, "create")
  /\ UNCHANGED <<oidc_session_store, read, filter_store, creations>>

TestPointer(w) ==
  /\ pc[w] = "idle"
  /\ GoTo(w, IF oidc_session_store = NULL THEN "create" ELSE "copy")
  /\ UNCHANGED <<oidc_session_store, read, filter_store, creations>>

\* The assignment.  When another thread has assigned since the test, the two
\* assignments may overlap: each swaps the pointer and then its reference
\* count, and the pointer of one is left with the count of the other.
CreateStore(w) ==
  /\ pc[w] = "create"
  /\ \/ oidc_session_store' \in Store \ Live
     \/ oidc_session_store # NULL /\ oidc_session_store' = Dangling
  /\ creations' = [creations EXCEPT ![w] = IF @ < 2 THEN @ + 1 ELSE @]
  /\ GoTo(w, "copy")
  /\ UNCHANGED filter_store
  /\ read' = [v \in Worker |-> Surviving(read[v])]

\* The copy of the pointer: it reads the store ...
ReadPointer(w) ==
  /\ pc[w] = "copy"
  /\ read' = [read EXCEPT ![w] = oidc_session_store]
  /\ GoTo(w, "count")
  /\ UNCHANGED <<oidc_session_store, filter_store, creations>>

\* ... and counts the reference.  From here on the filter has its store.
CountReference(w) ==
  /\ pc[w] = "count"
  /\ filter_store' = [filter_store EXCEPT ![w] = read[w]]
  /\ read' = [read EXCEPT ![w] = NULL]
  /\ GoTo(w, "process")
  /\ UNCHANGED <<oidc_session_store, creations>>

\* Process has returned and the filter is destroyed.
Finish_Resets(w) ==
  /\ pc[w] = "process"
  /\ filter_store' = [filter_store EXCEPT ![w] = NULL]
  /\ oidc_session_store' = NULL
  /\ GoTo(w, "idle")
  /\ UNCHANGED creations
  /\ read' = [v \in Worker |-> Surviving(read[v])]

Finish(w) ==
  /\ pc[w] = "process"
  /\ filter_store' = [filter_store EXCEPT ![w] = NULL]
  /\ GoTo(w, "idle")
  /\ UNCHANGED <<oidc_session_store, creations>>
  /\ read' = [v \in Worker |-> Surviving(read[v])]

\* DoPeriodicCleanup, up to the test of the pointer.  The timer is armed again
\* when the cleanup is over, so no two threads are in it.
StartCleanup(w) ==
  /\ pc[w] = "idle"
  /\ \A v \in Worker : pc[v] \notin {"cleanup", "sweep"}
  /\ oidc_session_store # NULL
  /\ GoTo(w, "cleanup")
  /\ UNCHANGED <<oidc_session_store, read, filter_store, creations>>

\* The call of RemoveAllExpired on the store the pointer now names.
CallSweep(w) ==
  /\ pc[w] = "cleanup"
  /\ read' = [read EXCEPT ![w] = oidc_session_store]
  /\ GoTo(w, "sweep")
  /\ UNCHANGED <<oidc_session_store, filter_store, creations>>

EndCleanup(w) ==
  /\ pc[w] = "sweep"
  /\ read' = [read EXCEPT ![w] = NULL]
  /\ GoTo(w, "idle")
  /\ UNCHANGED <<oidc_session_store, filter_store, creations>>

Init_Uninitialized ==
  /\ oidc_session_store = "uninitialized"
  /\ pc = [w \in Worker |-> "idle"]
  /\ read = [w \in Worker |-> NULL]
  /\ filter_store = [w \in Worker |-> NULL]
  /\ creations = [w \in Worker |-> 0]

Init ==
  /\ oidc_session_store = NULL
  /\ pc = [w \in Worker |-> "idle"]
  /\ read = [w \in Worker |-> NULL]
  /\ filter_store = [w \in Worker |-> NULL]
  /\ creations = [w \in Worker |-> 0]

\* A request arrives, or the timer expires.
Begin(w) == TestPointer(w) \/ StartCleanup(w)

Continue(w) ==
  \/ CreateStore(w)
  \/ ReadPointer(w)
  \/ CountReference(w)
  \/ Finish(w)
  \/ CallSweep(w)
  \/ EndCleanup(w)

Next == \E w \in Worker : Begin(w) \/ Continue(w)

Spec == Init /\ [][Next]_vars

\* Threads do not stop in New, in Process or in the cleanup; requests need not
\* arrive.
FairSpec == Spec /\ \A w \in Worker : WF_vars(Continue(w))

-----------------------------------------------------------------------------
\* Pointers name a store, nothing, or what was destroyed.
TypeOK ==
  /\ oidc_session_store \in Store \cup {NULL, Dangling}
  /\ pc \in [Worker -> {"idle", "create", "copy", "count", "process", "cleanup", "sweep"}]
  /\ read \in [Worker -> Store \cup {NULL, Dangling}]
  /\ filter_store \in [Worker -> Store \cup {NULL, Dangling}]
  /\ creations \in [Worker -> 0..2]

\* Two threads have each found the pointer null and made a store.
TwoCreators == \E v, w \in Worker : v # w /\ creations[v] > 0 /\ creations[w] > 0

(***************************************************************************)
(* No thread makes a second store, since the pointer never becomes null    *)
(* again; and every filter at work has the chain's own store, alive,       *)
(* unless two threads have each made one.                                  *)
(***************************************************************************)
CreatesOnce ==
  \A w \in Worker :
    /\ creations[w] <= 1
    /\ pc[w] = "process" =>
         \/ filter_store[w] \in Store /\ filter_store[w] = oidc_session_store
         \/ filter_store[w] # NULL /\ TwoCreators

(***************************************************************************)
(* A store is destroyed under a filter or a sweep only when two threads    *)
(* have each made one: a single thread's New never replaces the store it   *)
(* made, and neither a finished filter nor the cleanup, which holds no     *)
(* reference, takes the last reference away.                               *)
(***************************************************************************)
DestroyedOnlyByTwoCreators ==
  (\E w \in Worker : read[w] = Dangling \/ filter_store[w] = Dangling) => TwoCreators

(***************************************************************************)
(* Once New has been called the threads settle on one store: from some     *)
(* point on the pointer names it and every filter has it, so that logins   *)
(* are lost at the start of the service only.  The one exception is what   *)
(* the assignments of two creators may leave when they overlap, a pointer  *)
(* that dangles for good.                                                  *)
(***************************************************************************)
SettlesOnOneStore ==
  <>(\E w \in Worker : pc[w] # "idle") =>
    \/ \E store \in Store :
         <>[](/\ oidc_session_store = store
              /\ \A w \in Worker : filter_store[w] \in {NULL, store})
    \/ <>[](oidc_session_store = Dangling /\ TwoCreators)

(***************************************************************************)
(* Each instance that New returns shares the same session store: a filter  *)
(* at work uses the store that the next filter of the chain will get.  Two *)
(* threads that both find the pointer null break this.                     *)
(***************************************************************************)
SharedStore ==
  \A w \in Worker : filter_store[w] # NULL => filter_store[w] = oidc_session_store

=============================================================================
