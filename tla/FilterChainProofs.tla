---------------------------- MODULE FilterChainProofs ----------------------------
(***************************************************************************)
(* Proofs about FilterChain, for any number of threads.                    *)
(***************************************************************************)
EXTENDS FilterChain, TLAPS

(***************************************************************************)
(* CreatesOnce is not inductive: a thread about to create a store must not *)
(* have made one before.  That rests on the pointer, which is not null any *)
(* more once a thread has made a store or has passed the test.             *)
(***************************************************************************)
WorkerOK(w) ==
  /\ creations[w] <= 1
  /\ creations[w] > 0 => oidc_session_store # NULL
  /\ pc[w] \in {"copy", "count", "process", "cleanup"} => oidc_session_store # NULL
  /\ pc[w] = "create" => creations[w] = 0
  /\ pc[w] = "count" => read[w] # NULL
  /\ pc[w] = "process" => filter_store[w] # NULL

(***************************************************************************)
(* As long as one thread at most has made a store, the pointer names that  *)
(* store and so does whatever was copied from it; and somebody has made    *)
(* the store the pointer names, so that the next creator is the second.    *)
(***************************************************************************)
OneStoreOK ==
  /\ oidc_session_store # NULL => \E w \in Worker : creations[w] > 0
  /\ ~TwoCreators =>
       /\ oidc_session_store # Dangling
       /\ \A w \in Worker : /\ read[w] \in {NULL, oidc_session_store}
                            /\ filter_store[w] \in {NULL, oidc_session_store}

IInv == TypeOK /\ (\A w \in Worker : WorkerOK(w)) /\ OneStoreOK

\* The constructor leaves a null pointer and no thread has called New.
LEMMA InitInvariant == Init => IInv
<1> SUFFICES ASSUME Init PROVE IInv
  OBVIOUS
<1>1. TypeOK /\ \A w \in Worker : WorkerOK(w)
  BY DEF Init, TypeOK, WorkerOK
<1>2. OneStoreOK
  BY StoreAssumption DEF Init, OneStoreOK, TwoCreators
<1>3. QED
  BY <1>1, <1>2 DEF IInv

\* A step that leaves the pointer and the creations alone cannot make a copy
\* of anything but the pointer, and what it copies is the pointer.
LEMMA SameStoreOK ==
  ASSUME IInv,
         UNCHANGED <<oidc_session_store, creations>>,
         \A w \in Worker : /\ read'[w] \in {NULL, oidc_session_store, read[w]}
                           /\ filter_store'[w] \in {NULL, filter_store[w], read[w]}
  PROVE  OneStoreOK'
<1>1. TwoCreators' <=> TwoCreators
  BY DEF TwoCreators
<1>2. QED
  BY <1>1 DEF OneStoreOK, IInv

\* Each step of New, on whatever thread, keeps the invariant.
LEMMA NextInvariant == IInv /\ [Next]_vars => IInv'
<1> SUFFICES ASSUME IInv, [Next]_vars PROVE IInv'
  OBVIOUS
<1>1. ASSUME NEW w \in Worker, TestPointer(w) PROVE IInv'
  <2>1. TypeOK' /\ \A v \in Worker : WorkerOK(v)'
    BY <1>1 DEF TestPointer, GoTo, IInv, TypeOK, WorkerOK
  <2>2. OneStoreOK'
    BY <1>1, SameStoreOK DEF TestPointer, IInv, TypeOK
  <2>3. QED
    BY <2>1, <2>2 DEF IInv
<1>2. ASSUME NEW w \in Worker, CreateStore(w) PROVE IInv'
  <2>1. oidc_session_store' \in (Store \cup {Dangling}) \ {NULL}
    BY <1>2, StoreAssumption DEF CreateStore
  <2>2. \A v \in Worker : read'[v] \in {read[v], Dangling}
    BY <1>2 DEF CreateStore, Surviving
  <2>3. TypeOK'
    BY <1>2, <2>1 DEF CreateStore, GoTo, IInv, TypeOK, Surviving
  <2>4. ASSUME NEW v \in Worker PROVE WorkerOK(v)'
    BY <1>2, <2>1, <2>2, StoreAssumption DEF CreateStore, GoTo, IInv, TypeOK, WorkerOK
  <2>5. OneStoreOK'
    <3>1. creations'[w] > 0 /\ \A v \in Worker : v # w => creations'[v] = creations[v]
      BY <1>2 DEF CreateStore, IInv, TypeOK
    <3>2. CASE oidc_session_store = NULL
      <4>1. ~TwoCreators /\ \A v \in Worker : read[v] = NULL /\ filter_store[v] = NULL
        BY <3>2 DEF IInv, WorkerOK, OneStoreOK, TwoCreators
      <4>2. oidc_session_store' # Dangling /\ filter_store' = filter_store
        BY <1>2, <3>2, StoreAssumption DEF CreateStore
      <4>3. \A v \in Worker : read'[v] = NULL
        BY <1>2, <4>1 DEF CreateStore, Surviving
      <4>4. QED
        BY <3>1, <4>1, <4>2, <4>3 DEF OneStoreOK
    <3>3. CASE oidc_session_store # NULL
      <4>1. PICK v \in Worker : creations[v] > 0
        BY <3>3 DEF IInv, OneStoreOK
      <4>2. v # w
        BY <1>2, <4>1 DEF CreateStore, IInv, WorkerOK
      <4>3. TwoCreators'
        BY <3>1, <4>1, <4>2 DEF TwoCreators
      <4>4. QED
        BY <3>1, <4>3 DEF OneStoreOK
    <3>4. QED
      BY <3>2, <3>3
  <2>6. QED
    BY <2>3, <2>4, <2>5 DEF IInv
<1>3. ASSUME NEW w \in Worker, ReadPointer(w) PROVE IInv'
  <2>1. TypeOK' /\ \A v \in Worker : WorkerOK(v)'
    BY <1>3 DEF ReadPointer, GoTo, IInv, TypeOK, WorkerOK
  <2>2. OneStoreOK'
    BY <1>3, SameStoreOK DEF ReadPointer, IInv, TypeOK
  <2>3. QED
    BY <2>1, <2>2 DEF IInv
<1>4. ASSUME NEW w \in Worker, CountReference(w) PROVE IInv'
  <2>1. TypeOK' /\ \A v \in Worker : WorkerOK(v)'
    BY <1>4, StoreAssumption DEF CountReference, GoTo, IInv, TypeOK, WorkerOK
  <2>2. OneStoreOK'
    BY <1>4, SameStoreOK DEF CountReference, IInv, TypeOK
  <2>3. QED
    BY <2>1, <2>2 DEF IInv
<1>5. ASSUME NEW w \in Worker, Finish(w) PROVE IInv'
  <2>1. \A v \in Worker : read'[v] \in {read[v], Dangling}
    BY <1>5 DEF Finish, Surviving
  <2>2. TypeOK'
    BY <1>5, <2>1 DEF Finish, GoTo, IInv, TypeOK, Surviving
  <2>3. \A v \in Worker : WorkerOK(v)'
    BY <1>5, <2>1, StoreAssumption DEF Finish, GoTo, IInv, TypeOK, WorkerOK
  <2>4. OneStoreOK'
    <3>1. CASE TwoCreators
      BY <1>5, <3>1 DEF Finish, IInv, OneStoreOK, TwoCreators
    <3>2. CASE ~TwoCreators
      <4>1. oidc_session_store' \in Live' \cup {NULL}
        BY <1>5, <3>2 DEF Finish, Live, IInv, TypeOK, OneStoreOK
      <4>2. \A v \in Worker : read'[v] = read[v]
        BY <1>5, <3>2, <4>1 DEF Finish, Surviving, IInv, OneStoreOK
      <4>3. \A v \in Worker : filter_store'[v] \in {NULL, filter_store[v]}
        BY <1>5 DEF Finish, IInv, TypeOK
      <4>4. QED
        BY <1>5, <4>2, <4>3, SameStoreOK DEF Finish
    <3>3. QED
      BY <3>1, <3>2
  <2>5. QED
    BY <2>2, <2>3, <2>4 DEF IInv
<1>6. ASSUME NEW w \in Worker, StartCleanup(w) PROVE IInv'
  <2>1. TypeOK' /\ \A v \in Worker : WorkerOK(v)'
    BY <1>6 DEF StartCleanup, GoTo, IInv, TypeOK, WorkerOK
  <2>2. OneStoreOK'
    BY <1>6, SameStoreOK DEF StartCleanup, IInv, TypeOK
  <2>3. QED
    BY <2>1, <2>2 DEF IInv
<1>7. ASSUME NEW w \in Worker, CallSweep(w) PROVE IInv'
  <2>1. TypeOK' /\ \A v \in Worker : WorkerOK(v)'
    BY <1>7 DEF CallSweep, GoTo, IInv, TypeOK, WorkerOK
  <2>2. OneStoreOK'
    BY <1>7, SameStoreOK DEF CallSweep, IInv, TypeOK
  <2>3. QED
    BY <2>1, <2>2 DEF IInv
<1>8. ASSUME NEW w \in Worker, EndCleanup(w) PROVE IInv'
  <2>1. TypeOK' /\ \A v \in Worker : WorkerOK(v)'
    BY <1>8 DEF EndCleanup, GoTo, IInv, TypeOK, WorkerOK
  <2>2. OneStoreOK'
    BY <1>8, SameStoreOK DEF EndCleanup, IInv, TypeOK
  <2>3. QED
    BY <2>1, <2>2 DEF IInv
<1>9. CASE UNCHANGED vars
  <2>1. TypeOK' /\ \A v \in Worker : WorkerOK(v)'
    BY <1>9 DEF vars, IInv, TypeOK, WorkerOK
  <2>2. OneStoreOK'
    BY <1>9, SameStoreOK DEF vars
  <2>3. QED
    BY <2>1, <2>2 DEF IInv
<1>10. QED
  BY <1>1, <1>2, <1>3, <1>4, <1>5, <1>6, <1>7, <1>8, <1>9 DEF Next, Begin, Continue

(***************************************************************************)
(* However many threads call New at once, each makes one store at most,    *)
(* and a filter at work has the chain's own store, which is alive, unless  *)
(* two threads have each made one.                                         *)
(***************************************************************************)
THEOREM ChainCreatesOnce == Spec => []CreatesOnce
<1>1. IInv => CreatesOnce
  BY DEF IInv, TypeOK, WorkerOK, OneStoreOK, CreatesOnce
<1>2. QED
  BY <1>1, InitInvariant, NextInvariant, PTL DEF Spec

(***************************************************************************)
(* With any number of threads, filters and cleanups, nobody is left with a *)
(* destroyed store unless two threads have both found the pointer null.    *)
(***************************************************************************)
THEOREM ChainDestroyedOnlyByTwoCreators == Spec => []DestroyedOnlyByTwoCreators
<1>1. IInv => DestroyedOnlyByTwoCreators
  BY StoreAssumption DEF IInv, OneStoreOK, DestroyedOnlyByTwoCreators
<1>2. QED
  BY <1>1, InitInvariant, NextInvariant, PTL DEF Spec

\* The chain's variables keep their types.
THEOREM ChainTypeOK == Spec => []TypeOK
<1>1. IInv => TypeOK
  BY DEF IInv
<1>2. QED
  BY <1>1, InitInvariant, NextInvariant, PTL DEF Spec

=============================================================================
