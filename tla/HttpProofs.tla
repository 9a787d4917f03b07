------------------------------- MODULE HttpProofs -------------------------------
(***************************************************************************)
(* Proofs about the text functions of Http.                                *)
(***************************************************************************)
EXTENDS Http, SequenceTheorems, WellFoundedInduction, TLAPS

-----------------------------------------------------------------------------
(***************************************************************************)
(* Induction and recursion.  The theorems of the library that take an      *)
(* operator cannot be instantiated, so that these speak of sets and        *)
(* functions.                                                              *)
(***************************************************************************)

\* A set of natural numbers has a least element.
LEMMA LeastNat ==
  ASSUME NEW T \in SUBSET Nat, T # {}
  PROVE  \E m \in T : \A n \in T : m <= n
<1> DEFINE R == OpToRel(<, Nat)
<1>1. IsWellFoundedOn(R, Nat)
  BY NatLessThanWellFounded
<1>2. \A x, y \in Nat : x < y => <<x, y>> \in R
  BY DEF OpToRel
<1> HIDE DEF R
<1>3. PICK m \in T : \A n \in T : ~(<<n, m>> \in R)
  BY <1>1, WFMin
<1>4. \A n \in T : m <= n
  <2> SUFFICES ASSUME NEW n \in T PROVE m <= n
    OBVIOUS
  <2>1. ~(n < m)
    BY <1>2, <1>3
  <2> QED
    BY <2>1
<1> QED
  BY <1>4

\* A set that holds every number all of whose predecessors it holds is Nat.
LEMMA NatInductive ==
  ASSUME NEW S, \A n \in Nat : (\A k \in 0..(n - 1) : k \in S) => n \in S
  PROVE  \A n \in Nat : n \in S
<1> DEFINE T == {n \in Nat : n \notin S}
<1> SUFFICES ASSUME T # {} PROVE FALSE
  OBVIOUS
<1>1. PICK n \in T : \A k \in T : n <= k
  BY LeastNat
<1>2. \A k \in 0..(n - 1) : k \in S
  BY <1>1
<1> QED
  BY <1>1, <1>2

\* f calls itself with next, except for the arguments in B.
Recurses(f, D, B, b, h, next) ==
  f = [x \in D |-> IF x \in B THEN b[x] ELSE h[x] \o f[next[x]]]

\* A function whose recursive calls decrease a measure exists.
LEMMA Recursion ==
  ASSUME NEW D, NEW B, NEW b, NEW h, NEW next, NEW m \in [D -> Nat],
         \A x \in D \ B : next[x] \in D /\ m[next[x]] < m[x]
  PROVE  \E f : Recurses(f, D, B, b, h, next)
<1> DEFINE Upto(n) == {x \in D : m[x] <= n}
           Approx(g, n) == g = [x \in Upto(n) |-> IF x \in B THEN b[x] ELSE h[x] \o g[next[x]]]
<1>1. ASSUME NEW n \in Nat, NEW k \in Nat, NEW g, NEW g1, Approx(g, n), Approx(g1, k)
      PROVE  \A x \in Upto(n) \cap Upto(k) : g[x] = g1[x]
  <2> DEFINE S == {j \in Nat : \A x \in Upto(n) \cap Upto(k) : m[x] = j => g[x] = g1[x]}
  <2>1. ASSUME NEW j \in Nat, \A i \in 0..(j - 1) : i \in S
        PROVE  j \in S
    <3> SUFFICES ASSUME NEW x \in Upto(n) \cap Upto(k), m[x] = j PROVE g[x] = g1[x]
      OBVIOUS
    <3>1. CASE x \in B
      BY <1>1, <3>1
    <3>2. CASE x \notin B
      <4>1. next[x] \in D /\ m[next[x]] \in Nat /\ m[next[x]] < j
        BY <3>2
      <4>2. next[x] \in Upto(n) \cap Upto(k) /\ m[next[x]] \in S
        BY <4>1, <2>1
      <4>3. g[next[x]] = g1[next[x]]
        BY <4>1, <4>2, SMTT(20)
      <4>4. g[x] = h[x] \o g[next[x]] /\ g1[x] = h[x] \o g1[next[x]]
        BY <1>1, <3>2
      <4> QED
        BY <4>3, <4>4
    <3> QED
      BY <3>1, <3>2
  <2> HIDE DEF S
  <2>2. \A j \in Nat : j \in S
    BY <2>1, NatInductive
  <2> QED
    BY <2>2 DEF S
<1>2. \A n \in Nat : \E g : Approx(g, n)
  <2> DEFINE S == {n \in Nat : \E g : Approx(g, n)}
  <2>1. ASSUME NEW n \in Nat, \A i \in 0..(n - 1) : i \in S
        PROVE  n \in S
    <3>1. CASE n = 0
      <4> DEFINE g == [x \in Upto(n) |-> b[x]]
      <4>1. \A x \in Upto(n) : x \in B
        BY <3>1
      <4>2. Approx(g, n)
        BY <4>1
      <4> QED
        BY <4>2
    <3>2. CASE n # 0
      <4> DEFINE k == n - 1
      <4>0. k \in Nat /\ k \in 0..(n - 1) /\ \A i \in Nat : i < n => i <= k
        BY <3>2
      <4>1. PICK g : Approx(g, k)
        BY <2>1, <4>0
      <4> HIDE DEF k
      <4> DEFINE g1 == [x \in Upto(n) |-> IF x \in B THEN b[x] ELSE h[x] \o g[next[x]]]
      <4>2. Upto(k) \subseteq Upto(n)
        BY <4>0 DEF k
      <4>3. \A y \in Upto(k) : g1[y] = g[y]
        BY <4>1, <4>2
      <4>4. \A x \in Upto(n) \ B : next[x] \in Upto(k)
        BY <4>0
      <4>5. Approx(g1, n)
        BY <4>3, <4>4
      <4> QED
        BY <4>5
    <3> QED
      BY <3>1, <3>2
  <2> HIDE DEF S
  <2>2. \A n \in Nat : n \in S
    BY <2>1, NatInductive
  <2> QED
    BY <2>2 DEF S
<1> DEFINE A == [n \in Nat |-> CHOOSE g : Approx(g, n)]
           f == [x \in D |-> A[m[x]][x]]
<1>3. \A n \in Nat : Approx(A[n], n)
  BY <1>2
<1> HIDE DEF A, Approx
<1>4. ASSUME NEW x \in D
      PROVE  f[x] = IF x \in B THEN b[x] ELSE h[x] \o f[next[x]]
  <2>1. x \in Upto(m[x]) /\ m[x] \in Nat
    OBVIOUS
  <2>2. f[x] = IF x \in B THEN b[x] ELSE h[x] \o A[m[x]][next[x]]
    BY <1>3, <2>1, Zenon DEF Approx
  <2>3. ASSUME x \notin B PROVE A[m[x]][next[x]] = f[next[x]]
    <3>1. next[x] \in D /\ m[next[x]] \in Nat /\ m[next[x]] < m[x]
      BY <2>3
    <3>2. next[x] \in Upto(m[x]) \cap Upto(m[next[x]])
      BY <2>1, <3>1
    <3> QED
      BY <1>1, <1>3, <2>1, <3>1, <3>2
  <2> QED
    BY <2>2, <2>3
<1> HIDE DEF f
<1>5. f = [x \in D |-> IF x \in B THEN b[x] ELSE h[x] \o f[next[x]]]
  <2>1. f = [x \in D |-> f[x]]
    BY DEF f
  <2> QED
    BY <1>4, <2>1
<1> QED
  BY <1>5 DEF Recurses

-----------------------------------------------------------------------------
(***************************************************************************)
(* Find.                                                                   *)
(***************************************************************************)

\* The least of a set of places, or 0.
LEMMA FirstIndex ==
  ASSUME NEW I \in SUBSET (Nat \ {0})
  PROVE  /\ First(I) \in Nat
         /\ First(I) # 0 => First(I) \in I
         /\ \A j \in I : First(I) # 0 /\ First(I) <= j
<1>1. CASE I = {}
  BY <1>1 DEF First
<1>2. CASE I # {}
  <2>1. I \in SUBSET Nat
    OBVIOUS
  <2>2. \E m \in I : \A n \in I : m <= n
    BY <1>2, <2>1, LeastNat
  <2>3. Min(I) \in I /\ \A n \in I : Min(I) <= n
    BY <2>2 DEF Min
  <2>4. First(I) \in I /\ \A n \in I : First(I) <= n
    BY <1>2, <2>3 DEF First
  <2> QED
    BY <2>4
<1> QED
  BY <1>1, <1>2

LEMMA FirstIndexIs ==
  ASSUME NEW I \in SUBSET (Nat \ {0}), NEW i \in I, \A j \in 1..(i - 1) : j \notin I
  PROVE  First(I) = i
<1>1. First(I) \in Nat /\ First(I) \in I /\ First(I) <= i
  BY FirstIndex
<1>2. ~(First(I) < i)
  BY <1>1
<1> QED
  BY <1>1, <1>2

\* Find gives the first occurrence, or 0 when there is none.
LEMMA FindFirst ==
  ASSUME NEW text \in Text, NEW c
  PROVE  /\ Find(text, c) \in 0..Len(text)
         /\ Find(text, c) # 0 => text[Find(text, c)] = c
         /\ \A j \in 1..Len(text) : text[j] = c => Find(text, c) # 0 /\ Find(text, c) <= j
<1> DEFINE I == {i \in 1..Len(text) : text[i] = c}
<1>1. Find(text, c) = First(I)
  BY DEF Find
<1>2. I \in SUBSET (Nat \ {0}) /\ Len(text) \in Nat
  BY DEF Text
<1>3. \A j : j \in I <=> j \in 1..Len(text) /\ text[j] = c
  OBVIOUS
<1> HIDE DEF I
<1>4. /\ First(I) \in Nat
      /\ First(I) # 0 => First(I) \in I
      /\ \A j \in I : First(I) # 0 /\ First(I) <= j
  BY <1>2, FirstIndex
<1> QED
  BY <1>1, <1>2, <1>3, <1>4

\* An occurrence that none precedes is the one Find gives.
LEMMA FindIs ==
  ASSUME NEW text \in Text, NEW c, NEW i \in 1..Len(text), text[i] = c,
         \A j \in 1..(i - 1) : text[j] # c
  PROVE  Find(text, c) = i
<1>1. Find(text, c) # 0 /\ Find(text, c) <= i /\ Find(text, c) \in 1..Len(text)
  BY FindFirst DEF Text
<1>2. text[Find(text, c)] = c
  BY <1>1, FindFirst
<1>3. ~(Find(text, c) < i)
  BY <1>1, <1>2
<1> QED
  BY <1>1, <1>3

\* No occurrence, no place.
LEMMA FindNone ==
  ASSUME NEW text \in Text, NEW c, \A j \in 1..Len(text) : text[j] # c
  PROVE  Find(text, c) = 0
BY FindFirst DEF Text

\* The part before the first occurrence, and the part after it.
LEMMA FindConcat ==
  ASSUME NEW s \in Text, NEW t \in Text, NEW c \in Symbol, \A j \in 1..Len(s) : s[j] # c
  PROVE  LET text == (s \o <<c>>) \o t
         IN /\ text \in Text
            /\ Find(text, c) = Len(s) + 1
            /\ SubSeq(text, 1, Len(s)) = s
            /\ SubSeq(text, Len(s) + 2, Len(text)) = t
<1> DEFINE text == (s \o <<c>>) \o t
<1>1. /\ text \in Text /\ Len(text) = Len(s) + 1 + Len(t)
      /\ \A i \in 1..Len(s) : text[i] = s[i]
      /\ text[Len(s) + 1] = c
      /\ \A i \in 1..Len(t) : text[Len(s) + 1 + i] = t[i]
  <2> DEFINE u == s \o <<c>>
  <2>1. /\ u \in Text /\ Len(u) = Len(s) + 1
        /\ \A i \in 1..Len(s) : u[i] = s[i]
        /\ u[Len(s) + 1] = c
    BY DEF Text
  <2> HIDE DEF u
  <2>2. /\ u \o t \in Text /\ Len(u \o t) = Len(u) + Len(t)
        /\ \A i \in 1..Len(u) : (u \o t)[i] = u[i]
        /\ \A i \in 1..Len(t) : (u \o t)[Len(u) + i] = t[i]
    BY <2>1, SMTT(20) DEF Text
  <2>3. text = u \o t
    BY DEF u
  <2> HIDE DEF text
  <2> QED
    BY <2>1, <2>2, <2>3 DEF Text
<1> HIDE DEF text
<1>2. Find(text, c) = Len(s) + 1
  <2> DEFINE i == Len(s) + 1
  <2>1. i \in 1..Len(text) /\ text[i] = c /\ \A j \in 1..(i - 1) : text[j] # c
    BY <1>1, SMTT(20) DEF Text
  <2> HIDE DEF i
  <2>2. Find(text, c) = i
    BY <1>1, <2>1, FindIs
  <2> QED
    BY <2>2 DEF i
<1>3. SubSeq(text, 1, Len(s)) = s
  BY <1>1, SeqEqual DEF Text
<1>4. SubSeq(text, Len(s) + 2, Len(text)) = t
  <2> DEFINE u == SubSeq(text, Len(s) + 2, Len(text))
  <2>1. u \in Text /\ Len(u) = Len(t) /\ \A i \in 1..Len(t) : u[i] = text[Len(s) + 1 + i]
    BY <1>1 DEF Text
  <2> HIDE DEF u
  <2>2. u = t
    BY <1>1, <2>1, SeqEqual DEF Text
  <2> QED
    BY <2>2 DEF u
<1> QED
  BY <1>1, <1>2, <1>3, <1>4 DEF text

-----------------------------------------------------------------------------
(***************************************************************************)
(* Split and Join.                                                         *)
(***************************************************************************)
SplitEquation(f, separator) ==
  f = [t \in Text |->
         LET i == Find(t, separator)
         IN IF i = 0 THEN <<t>>
            ELSE <<SubSeq(t, 1, i - 1)>> \o f[SubSeq(t, i + 1, Len(t))]]

\* What follows the separator is a shorter text.
LEMMA AfterFind ==
  ASSUME NEW t \in Text, NEW c, Find(t, c) # 0
  PROVE  /\ SubSeq(t, 1, Find(t, c) - 1) \in Text
         /\ SubSeq(t, Find(t, c) + 1, Len(t)) \in Text
         /\ Len(SubSeq(t, Find(t, c) + 1, Len(t))) < Len(t)
<1>1. Find(t, c) \in 1..Len(t)
  BY FindFirst DEF Text
<1> QED
  BY <1>1 DEF Text

LEMMA SplitExists ==
  ASSUME NEW c
  PROVE  \E f : SplitEquation(f, c)
<1> DEFINE B == {t \in Text : Find(t, c) = 0}
           b == [t \in Text |-> <<t>>]
           h == [t \in Text |-> <<SubSeq(t, 1, Find(t, c) - 1)>>]
           next == [t \in Text |-> SubSeq(t, Find(t, c) + 1, Len(t))]
           m == [t \in Text |-> Len(t)]
<1>1. m \in [Text -> Nat]
  BY DEF Text
<1>2. \A t \in Text \ B : next[t] \in Text /\ m[next[t]] < m[t]
  BY AfterFind
<1> HIDE DEF B, b, h, next, m
<1>3. PICK f : Recurses(f, Text, B, b, h, next)
  BY <1>1, <1>2, Recursion
<1>4. \A t \in Text : /\ t \in B <=> Find(t, c) = 0
                      /\ b[t] = <<t>>
                      /\ h[t] = <<SubSeq(t, 1, Find(t, c) - 1)>>
                      /\ next[t] = SubSeq(t, Find(t, c) + 1, Len(t))
  BY DEF B, b, h, next
<1>5. SplitEquation(f, c)
  BY <1>3, <1>4 DEF SplitEquation, Recurses
<1> QED
  BY <1>5

\* Split is what its recursive definition says.
LEMMA SplitUnfold ==
  ASSUME NEW text \in Text, NEW c
  PROVE  /\ Find(text, c) = 0 => Split(text, c) = <<text>>
         /\ Find(text, c) # 0 =>
              Split(text, c) = <<SubSeq(text, 1, Find(text, c) - 1)>>
                                 \o Split(SubSeq(text, Find(text, c) + 1, Len(text)), c)
<1> DEFINE f == CHOOSE f : SplitEquation(f, c)
<1>1. \A t : Split(t, c) = f[t]
  BY DEF Split, SplitEquation
<1>2. SplitEquation(f, c)
  BY SplitExists
<1> HIDE DEF f
<1>3. f[text] = IF Find(text, c) = 0 THEN <<text>>
                ELSE <<SubSeq(text, 1, Find(text, c) - 1)>>
                       \o f[SubSeq(text, Find(text, c) + 1, Len(text))]
  BY <1>2 DEF SplitEquation
<1> QED
  BY <1>1, <1>3

JoinEquation(f, separator) ==
  f = [ts \in Seq(Text) |->
         IF ts = <<>> THEN <<>>
         ELSE IF Tail(ts) = <<>> THEN Head(ts)
         ELSE (Head(ts) \o <<separator>>) \o f[Tail(ts)]]

LEMMA JoinExists ==
  ASSUME NEW c
  PROVE  \E f : JoinEquation(f, c)
<1> DEFINE B == {ts \in Seq(Text) : ts = <<>> \/ Tail(ts) = <<>>}
           b == [ts \in Seq(Text) |-> IF ts = <<>> THEN <<>> ELSE Head(ts)]
           h == [ts \in Seq(Text) |-> Head(ts) \o <<c>>]
           next == [ts \in Seq(Text) |-> Tail(ts)]
           m == [ts \in Seq(Text) |-> Len(ts)]
<1>1. m \in [Seq(Text) -> Nat]
  OBVIOUS
<1>2. \A ts \in Seq(Text) \ B : next[ts] \in Seq(Text) /\ m[next[ts]] < m[ts]
  OBVIOUS
<1> HIDE DEF B, b, h, next, m
<1>3. PICK f : Recurses(f, Seq(Text), B, b, h, next)
  BY <1>1, <1>2, Recursion
<1>4. \A ts \in Seq(Text) : /\ ts \in B <=> (ts = <<>> \/ Tail(ts) = <<>>)
                            /\ b[ts] = IF ts = <<>> THEN <<>> ELSE Head(ts)
                            /\ h[ts] = Head(ts) \o <<c>>
                            /\ next[ts] = Tail(ts)
  BY DEF B, b, h, next
<1>5. JoinEquation(f, c)
  BY <1>3, <1>4, Zenon DEF JoinEquation, Recurses
<1> QED
  BY <1>5

\* Join is what its recursive definition says.
LEMMA JoinUnfold ==
  ASSUME NEW ts \in Seq(Text), NEW c
  PROVE  /\ ts = <<>> => Join(ts, c) = <<>>
         /\ ts # <<>> /\ Tail(ts) = <<>> => Join(ts, c) = Head(ts)
         /\ ts # <<>> /\ Tail(ts) # <<>> =>
              Join(ts, c) = (Head(ts) \o <<c>>) \o Join(Tail(ts), c)
<1> DEFINE f == CHOOSE f : JoinEquation(f, c)
<1>1. \A t : Join(t, c) = f[t]
  BY DEF Join, JoinEquation
<1>2. JoinEquation(f, c)
  BY JoinExists
<1> HIDE DEF f
<1>3. f[ts] = IF ts = <<>> THEN <<>>
              ELSE IF Tail(ts) = <<>> THEN Head(ts)
              ELSE (Head(ts) \o <<c>>) \o f[Tail(ts)]
  BY <1>2 DEF JoinEquation
<1> QED
  BY <1>1, <1>3

\* Split gives one text at least.
LEMMA SplitType ==
  ASSUME NEW c
  PROVE  \A text \in Text : Split(text, c) \in Seq(Text) /\ Len(Split(text, c)) > 0
<1> DEFINE S == {n \in Nat : \A t \in Text :
                   Len(t) = n => Split(t, c) \in Seq(Text) /\ Len(Split(t, c)) > 0}
<1>1. ASSUME NEW n \in Nat, \A k \in 0..(n - 1) : k \in S
      PROVE  n \in S
  <2> SUFFICES ASSUME NEW t \in Text, Len(t) = n
               PROVE  Split(t, c) \in Seq(Text) /\ Len(Split(t, c)) > 0
    OBVIOUS
  <2>1. CASE Find(t, c) = 0
    <3>1. Split(t, c) = <<t>>
      BY <2>1, SplitUnfold
    <3> QED
      BY <3>1
  <2>2. CASE Find(t, c) # 0
    <3> DEFINE u == SubSeq(t, Find(t, c) + 1, Len(t))
               v == SubSeq(t, 1, Find(t, c) - 1)
    <3>1. u \in Text /\ v \in Text /\ Len(u) \in Nat /\ Len(u) < n
      BY <2>2, AfterFind DEF Text
    <3>2. Split(t, c) = <<v>> \o Split(u, c)
      BY <2>2, SplitUnfold
    <3> HIDE DEF u, v
    <3>3. Split(u, c) \in Seq(Text)
      BY <1>1, <3>1
    <3> QED
      BY <3>1, <3>2, <3>3
  <2> QED
    BY <2>1, <2>2
<1> HIDE DEF S
<1>2. \A n \in Nat : n \in S
  BY <1>1, NatInductive
<1>3. \A t \in Text : Len(t) \in Nat
  BY DEF Text
<1> QED
  BY <1>2, <1>3 DEF S

LEMMA JoinType ==
  ASSUME NEW c \in Symbol
  PROVE  \A ts \in Seq(Text) : Join(ts, c) \in Text
<1> DEFINE S == {n \in Nat : \A ts \in Seq(Text) : Len(ts) = n => Join(ts, c) \in Text}
<1>1. ASSUME NEW n \in Nat, \A k \in 0..(n - 1) : k \in S
      PROVE  n \in S
  <2> SUFFICES ASSUME NEW ts \in Seq(Text), Len(ts) = n PROVE Join(ts, c) \in Text
    OBVIOUS
  <2>1. CASE ts = <<>>
    <3>1. Join(ts, c) = <<>>
      BY <2>1, JoinUnfold
    <3> QED
      BY <3>1 DEF Text
  <2>2. CASE ts # <<>> /\ Tail(ts) = <<>>
    <3>1. Join(ts, c) = Head(ts)
      BY <2>2, JoinUnfold
    <3> QED
      BY <2>2, <3>1
  <2>3. CASE ts # <<>> /\ Tail(ts) # <<>>
    <3>1. Tail(ts) \in Seq(Text) /\ Len(Tail(ts)) \in 0..(n - 1) /\ Head(ts) \in Text
      BY <2>3
    <3>2. Join(Tail(ts), c) \in Text
      BY <1>1, <3>1
    <3>3. Join(ts, c) = (Head(ts) \o <<c>>) \o Join(Tail(ts), c)
      BY <2>3, JoinUnfold
    <3> QED
      BY <3>1, <3>2, <3>3 DEF Text
  <2> QED
    BY <2>1, <2>2, <2>3
<1> HIDE DEF S
<1>2. \A n \in Nat : n \in S
  BY <1>1, NatInductive
<1> QED
  BY <1>2 DEF S

LEMMA OnlyHead ==
  ASSUME NEW S, NEW s \in Seq(S), s # <<>>, Tail(s) = <<>>
  PROVE  s = <<Head(s)>>
<1>1. Len(s) = 1
  <2>1. Len(Tail(s)) = Len(s) - 1 /\ Len(s) \in Nat
    OBVIOUS
  <2>2. Len(<<>>) = 0
    OBVIOUS
  <2>3. Len(Tail(s)) = 0
    BY <2>2
  <2> QED
    BY <2>1, <2>3
<1>2. Head(s) \in S /\ Head(s) = s[1]
  OBVIOUS
<1> DEFINE t == <<Head(s)>>
<1>3. t \in Seq(S) /\ Len(t) = 1 /\ t[1] = s[1]
  BY <1>2
<1> HIDE DEF t
<1>4. s = t
  BY <1>1, <1>3, SeqEqual
<1> QED
  BY <1>4 DEF t

\* The texts that Join puts together are those that Split finds, provided that
\* none of them has the separator in it.
LEMMA SplitJoin ==
  ASSUME NEW c \in Symbol
  PROVE  \A ts \in Seq(Text) :
           (ts # <<>> /\ \A i \in 1..Len(ts) : \A j \in 1..Len(ts[i]) : ts[i][j] # c)
             => Split(Join(ts, c), c) = ts
<1> DEFINE Apart(ts) == ts # <<>> /\ \A i \in 1..Len(ts) : \A j \in 1..Len(ts[i]) : ts[i][j] # c
           S == {n \in Nat : \A ts \in Seq(Text) :
                   Len(ts) = n /\ Apart(ts) => Split(Join(ts, c), c) = ts}
<1>1. ASSUME NEW n \in Nat, \A k \in 0..(n - 1) : k \in S
      PROVE  n \in S
  <2> SUFFICES ASSUME NEW ts \in Seq(Text), Len(ts) = n, Apart(ts)
               PROVE  Split(Join(ts, c), c) = ts
    OBVIOUS
  <2>1. Head(ts) \in Text /\ Head(ts) = ts[1] /\ \A j \in 1..Len(Head(ts)) : Head(ts)[j] # c
    OBVIOUS
  <2>2. CASE Tail(ts) = <<>>
    <3>1. Join(ts, c) = Head(ts)
      BY <2>2, JoinUnfold
    <3>3. ts = <<Head(ts)>>
      BY <2>2, OnlyHead
    <3>2. Find(Head(ts), c) = 0
      BY <2>1, FindNone
    <3>4. Split(Head(ts), c) = <<Head(ts)>>
      BY <2>1, <3>2, SplitUnfold
    <3> QED
      BY <3>1, <3>3, <3>4
  <2>3. CASE Tail(ts) # <<>>
    <3> DEFINE u == Tail(ts)
               s == Head(ts)
               r == Join(u, c)
               text == (s \o <<c>>) \o r
    <3>1. u \in Seq(Text) /\ Len(u) \in 0..(n - 1) /\ Apart(u) /\ ts = <<s>> \o u
      <4>1. u \in Seq(Text) /\ Len(u) = n - 1 /\ \A i \in 1..Len(u) : u[i] = ts[i + 1] /\ i + 1 \in 1..Len(ts)
        BY <2>3
      <4>2. Apart(u)
        BY <2>3, <4>1
      <4>3. ts = <<s>> \o u
        OBVIOUS
      <4> QED
        BY <2>3, <4>1, <4>2, <4>3
    <3> HIDE DEF u
    <3>2. Split(r, c) = u
      BY <1>1, <3>1
    <3>3. r \in Text
      BY <3>1, JoinType
    <3>4. Join(ts, c) = text
      BY <2>3, JoinUnfold DEF u
    <3> HIDE DEF r, s, Apart
    <3>5. s \in Text /\ Len(s) \in Nat /\ \A j \in 1..Len(s) : s[j] # c
      BY <2>1 DEF s, Text
    <3>6. /\ text \in Text
          /\ Find(text, c) = Len(s) + 1
          /\ SubSeq(text, 1, Len(s)) = s
          /\ SubSeq(text, Len(s) + 2, Len(text)) = r
      <4>1. \A a \in Text, b \in Text : (\A j \in 1..Len(a) : a[j] # c) =>
              /\ (a \o <<c>>) \o b \in Text
              /\ Find((a \o <<c>>) \o b, c) = Len(a) + 1
              /\ SubSeq((a \o <<c>>) \o b, 1, Len(a)) = a
              /\ SubSeq((a \o <<c>>) \o b, Len(a) + 2, Len((a \o <<c>>) \o b)) = b
        BY FindConcat
      <4> QED
        BY <3>3, <3>5, <4>1, Zenon
    <3> HIDE DEF text
    <3>7. Split(text, c) = <<s>> \o Split(r, c)
      <4>1. Split(text, c) = <<SubSeq(text, 1, Find(text, c) - 1)>>
                               \o Split(SubSeq(text, Find(text, c) + 1, Len(text)), c)
        <5>1. Find(text, c) # 0
          BY <3>5, <3>6
        <5> QED
          BY <3>6, <5>1, SplitUnfold
      <4>2. Find(text, c) - 1 = Len(s) /\ Find(text, c) + 1 = Len(s) + 2
        BY <3>5, <3>6
      <4> QED
        BY <3>6, <4>1, <4>2
    <3> QED
      BY <3>1, <3>2, <3>4, <3>7
  <2> QED
    BY <2>2, <2>3
<1> HIDE DEF S
<1>2. \A n \in Nat : n \in S
  BY <1>1, NatInductive
<1> QED
  BY <1>2 DEF S

-----------------------------------------------------------------------------
(***************************************************************************)
(* Percent encoding.                                                       *)
(***************************************************************************)


\* The character an encoding stands for.
Unescaped(e) ==
  CASE e = "https%3A%2F%2F" -> "https://" [] e = "http%3A%2F%2F" -> "http://"
    [] e = "%3A" -> ":" [] e = "%2F" -> "/" [] e = "%3F" -> "?" [] e = "%23" -> "#"
    [] e = "%3D" -> "=" [] e = "%26" -> "&" [] e = "%2B" -> "+" [] e = "%20" -> Space
    [] e = "%25" -> "%"

\* The encodings differ from one another and from all that needs encoding.
LEMMA EscapedFacts ==
  /\ \A c \in Reserved : Escaped(c) \notin Reserved \cup LowerEscapes
  /\ \A c, d \in Reserved : Escaped(c) = Escaped(d) => c = d
<1>1. \A c \in Reserved : Escaped(c) \notin Reserved
  BY Zenon DEF Reserved, Escaped, Space
<1>2. \A c \in Reserved : Unescaped(Escaped(c)) = c
  <2>1. /\ Escaped("https://") = "https%3A%2F%2F"
     /\ Escaped("http://") = "http%3A%2F%2F" /\ Escaped(":") = "%3A"
     /\ Escaped("/") = "%2F" /\ Escaped("?") = "%3F" /\ Escaped("#") = "%23"
     /\ Escaped("=") = "%3D" /\ Escaped("&") = "%26" /\ Escaped("+") = "%2B"
     /\ Escaped(Space) = "%20" /\ Escaped("%") = "%25"
    BY DEF Escaped, Space
  <2>2. /\ Unescaped("https%3A%2F%2F") = "https://"
     /\ Unescaped("http%3A%2F%2F") = "http://" /\ Unescaped("%3A") = ":"
     /\ Unescaped("%2F") = "/" /\ Unescaped("%3F") = "?"
     /\ Unescaped("%23") = "#" /\ Unescaped("%3D") = "="
     /\ Unescaped("%26") = "&" /\ Unescaped("%2B") = "+"
     /\ Unescaped("%20") = Space /\ Unescaped("%25") = "%"
    BY DEF Unescaped
  <2> QED
    BY <2>1, <2>2, Zenon DEF Reserved, Space
<1>3. LowerEscapes = {"https%3a%2f%2f", "http%3a%2f%2f", "%3a", "%2f", "%3f", "%3d", "%2b"}
  BY DEF LowerEscapes, HasHexLetter, EscapedLower
<1>4. \A c \in Reserved : Escaped(c) \notin LowerEscapes
  BY <1>3 DEF Reserved, Escaped, Space
<1> QED
  BY <1>1, <1>2, <1>4

LEMMA ReservedNotEscaped == Reserved \cap Escapes = {}
<1>1. Reserved \cap UpperEscapes = {}
  BY EscapedFacts DEF UpperEscapes
<1>2. LowerEscapes = {"https%3a%2f%2f", "http%3a%2f%2f", "%3a", "%2f", "%3f", "%3d", "%2b"}
  BY DEF LowerEscapes, HasHexLetter, EscapedLower
<1>3. Reserved \cap LowerEscapes = {}
  BY <1>2 DEF Reserved, Space
<1> QED
  BY <1>1, <1>3 DEF Escapes

LEMMA FunctionIsSeq ==
  ASSUME NEW T, NEW n \in Nat, NEW f \in [1..n -> T]
  PROVE  f \in Seq(T) /\ Len(f) = n
OBVIOUS

LEMMA UnencodedIsText == Unencoded \subseteq Text
BY SeqMonotonic DEF Unencoded, Text, Symbol

LEMMA EscapedSymbol == \A c \in Reserved : Escaped(c) \in UpperEscapes /\ Escaped(c) \in Symbol
BY DEF UpperEscapes, Escapes, Symbol

\* SafeEncode works on each symbol by itself.
LEMMA SafeEncodeAt ==
  ASSUME NEW t \in Text, NEW u
  PROVE  /\ SafeEncode(t, u) \in Text
         /\ Len(SafeEncode(t, u)) = Len(t)
         /\ \A i \in 1..Len(t) :
              /\ t[i] \in Reserved \ u => SafeEncode(t, u)[i] = Escaped(t[i])
              /\ t[i] \notin Reserved \ u => SafeEncode(t, u)[i] = t[i]
<1> DEFINE f == [i \in 1..Len(t) |-> IF t[i] \in Reserved \ u THEN Escaped(t[i]) ELSE t[i]]
<1>1. SafeEncode(t, u) = f
  BY DEF SafeEncode, Map
<1>2. Len(t) \in Nat /\ \A i \in 1..Len(t) : t[i] \in Symbol
  BY DEF Text
<1>3. f \in [1..Len(t) -> Symbol]
  BY <1>2, EscapedSymbol
<1>4. \A i \in 1..Len(t) : /\ t[i] \in Reserved \ u => f[i] = Escaped(t[i])
                           /\ t[i] \notin Reserved \ u => f[i] = t[i]
  OBVIOUS
<1> HIDE DEF f
<1>5. f \in Seq(Symbol) /\ Len(f) = Len(t)
  BY <1>2, <1>3, FunctionIsSeq
<1>6. f \in Text
  BY <1>5 DEF Text
<1> QED
  BY <1>1, <1>4, <1>5, <1>6

\* Nothing reserved is left but what was to be left.
LEMMA SafeEncodeHides ==
  ASSUME NEW t \in Unencoded, NEW u, NEW i \in 1..Len(SafeEncode(t, u))
  PROVE  SafeEncode(t, u)[i] \notin (Reserved \ u) \cup LowerEscapes
<1>1. t \in Text /\ i \in 1..Len(t) /\ t[i] \in Word \cup Reserved
  BY UnencodedIsText, SafeEncodeAt DEF Unencoded
<1>2. CASE t[i] \in Reserved \ u
  BY <1>1, <1>2, SafeEncodeAt, EscapedFacts
<1>3. CASE t[i] \notin Reserved \ u
  <2>1. SafeEncode(t, u)[i] = t[i]
    BY <1>1, <1>3, SafeEncodeAt
  <2>2. t[i] \notin LowerEscapes
    <3>1. t[i] \in Word => t[i] \notin LowerEscapes
      BY WordAssumption DEF Escapes
    <3>2. t[i] \in Reserved => t[i] \notin LowerEscapes
      BY ReservedNotEscaped DEF Escapes
    <3> QED
      BY <1>1, <3>1, <3>2
  <2> QED
    BY <1>3, <2>1, <2>2
<1> QED
  BY <1>2, <1>3

\* UrlSafeDecode works on each symbol by itself, and refuses some.
LEMMA UrlSafeDecodeAt ==
  ASSUME NEW t \in Text, \A i \in 1..Len(t) : t[i] \notin Reserved \cup LowerEscapes
  PROVE  /\ UrlSafeDecode(t) \in Text
         /\ UrlSafeDecode(t) # NULL
         /\ Len(UrlSafeDecode(t)) = Len(t)
         /\ \A i \in 1..Len(t) :
              /\ \A r \in Reserved : t[i] = Escaped(r) => UrlSafeDecode(t)[i] = r
              /\ t[i] \notin UpperEscapes => UrlSafeDecode(t)[i] = t[i]
<1> DEFINE f == [i \in 1..Len(t) |-> IF t[i] \in UpperEscapes
                                     THEN CHOOSE r \in Reserved : t[i] = Escaped(r) ELSE t[i]]
<1>1. Range(t) \cap (Reserved \cup LowerEscapes) = {}
  BY DEF Range, Text
<1>2. UrlSafeDecode(t) = f
  BY <1>1 DEF UrlSafeDecode, Map
<1>3. Len(t) \in Nat /\ \A i \in 1..Len(t) : t[i] \in Symbol
  BY DEF Text
<1>4. \A i \in 1..Len(t) : \A r \in Reserved : t[i] = Escaped(r) => f[i] = r
  BY EscapedFacts DEF UpperEscapes
<1>5. \A i \in 1..Len(t) : t[i] \notin UpperEscapes => f[i] = t[i]
  OBVIOUS
<1>6. \A i \in 1..Len(t) : f[i] \in Symbol
  <2> SUFFICES ASSUME NEW i \in 1..Len(t) PROVE f[i] \in Symbol
    OBVIOUS
  <2>1. CASE t[i] \in UpperEscapes
    <3>1. PICK r \in Reserved : t[i] = Escaped(r)
      BY <2>1 DEF UpperEscapes
    <3>2. f[i] = r
      BY <1>4, <3>1
    <3> QED
      BY <3>2 DEF Symbol
  <2>2. CASE t[i] \notin UpperEscapes
    BY <1>3, <1>5, <2>2
  <2> QED
    BY <2>1, <2>2
<1>7. f \in [1..Len(t) -> Symbol]
  BY <1>6, SMTT(20)
<1> HIDE DEF f
<1>8. f \in Text /\ Len(f) = Len(t)
  BY <1>3, <1>7, FunctionIsSeq DEF Text
<1>9. f # NULL
  BY <1>8, NullAssumption
<1> QED
  BY <1>2, <1>4, <1>5, <1>8, <1>9

\* UrlSafeDecode undoes UrlSafeEncode, on any text that is not encoded yet.
THEOREM UrlSafeRoundTrip ==
  \A t \in Unencoded : UrlSafeDecode(SafeEncode(t, {})) = t
<1> SUFFICES ASSUME NEW t \in Unencoded PROVE UrlSafeDecode(SafeEncode(t, {})) = t
  OBVIOUS
<1> DEFINE e == SafeEncode(t, {})
<1>1. t \in Text /\ \A i \in 1..Len(t) : t[i] \in Word \cup Reserved
  BY UnencodedIsText DEF Unencoded
<1>2. /\ e \in Text /\ Len(e) = Len(t)
      /\ \A i \in 1..Len(t) : /\ t[i] \in Reserved => e[i] = Escaped(t[i])
                              /\ t[i] \notin Reserved => e[i] = t[i]
  BY <1>1, SafeEncodeAt
<1>3. \A i \in 1..Len(e) : e[i] \notin Reserved \cup LowerEscapes
  BY SafeEncodeHides
<1> HIDE DEF e
<1> DEFINE d == UrlSafeDecode(e)
<1>4. /\ d \in Text /\ Len(d) = Len(e)
      /\ \A i \in 1..Len(e) : /\ \A r \in Reserved : e[i] = Escaped(r) => d[i] = r
                              /\ e[i] \notin UpperEscapes => d[i] = e[i]
  BY <1>2, <1>3, UrlSafeDecodeAt
<1> HIDE DEF d
<1>5. \A i \in 1..Len(d) : d[i] = t[i]
  <2> SUFFICES ASSUME NEW i \in 1..Len(d) PROVE d[i] = t[i]
    OBVIOUS
  <2>1. i \in 1..Len(t) /\ i \in 1..Len(e)
    BY <1>2, <1>4
  <2>2. CASE t[i] \in Reserved
    BY <1>2, <1>4, <2>1, <2>2
  <2>3. CASE t[i] \notin Reserved
    <3>1. t[i] \in Word /\ e[i] = t[i]
      BY <1>1, <1>2, <2>1, <2>3
    <3>2. t[i] \notin UpperEscapes
      BY <3>1, WordAssumption DEF Escapes
    <3> QED
      BY <1>4, <2>1, <3>1, <3>2
  <2> QED
    BY <2>2, <2>3
<1>6. d = t
  BY <1>1, <1>2, <1>4, <1>5, SeqEqual DEF Text
<1> QED
  BY <1>6 DEF d, e

-----------------------------------------------------------------------------
(***************************************************************************)
(* Queries and forms.                                                      *)
(***************************************************************************)

LEMMA TwoSeq ==
  ASSUME NEW S, NEW a \in S, NEW b \in S
  PROVE  <<a>> \o <<b>> = <<a, b>>
<1> DEFINE s == <<a>> \o <<b>>
           t == <<a, b>>
<1>1. s \in Seq(S) /\ Len(s) = 2 /\ s[1] = a /\ s[2] = b
  OBVIOUS
<1>2. t \in Seq(S) /\ Len(t) = 2 /\ t[1] = a /\ t[2] = b
  OBVIOUS
<1> HIDE DEF s, t
<1>3. \A i \in 1..2 : s[i] = t[i]
  <2>1. \A i \in 1..2 : i = 1 \/ i = 2
    OBVIOUS
  <2> QED
    BY <1>1, <1>2, <2>1
<1>4. s = t
  BY <1>1, <1>2, <1>3, SeqEqual
<1> QED
  BY <1>4 DEF s, t

LEMMA PairSeq ==
  ASSUME NEW S, NEW s \in Seq(S), Len(s) = 2
  PROVE  s = <<s[1], s[2]>>
<1> DEFINE a == s[1]
           b == s[2]
           t == <<a, b>>
<1>1. a \in S /\ b \in S
  <2>1. 1 \in 1..Len(s) /\ 2 \in 1..Len(s)
    OBVIOUS
  <2> QED
    BY <2>1, ElementOfSeq
<1> HIDE DEF a, b
<1>2. t \in Seq(S) /\ Len(t) = 2 /\ t[1] = a /\ t[2] = b
  BY <1>1
<1> HIDE DEF t
<1>3. \A i \in 1..2 : s[i] = t[i]
  <2>1. \A i \in 1..2 : i = 1 \/ i = 2
    OBVIOUS
  <2> QED
    BY <1>2, <2>1 DEF a, b
<1>4. s = t
  BY <1>2, <1>3, SeqEqual
<1> QED
  BY <1>4 DEF t, a, b

\* A text with one separator.
LEMMA SplitPair ==
  ASSUME NEW c \in Symbol, NEW a \in Text, NEW b \in Text,
         \A j \in 1..Len(a) : a[j] # c, \A j \in 1..Len(b) : b[j] # c
  PROVE  /\ (a \o <<c>>) \o b \in Text
         /\ Split((a \o <<c>>) \o b, c) = <<a, b>>
<1> DEFINE text == (a \o <<c>>) \o b
           n == Len(a) + 1
<1>1. /\ text \in Text
      /\ Find(text, c) = n
      /\ SubSeq(text, 1, Len(a)) = a
      /\ SubSeq(text, Len(a) + 2, Len(text)) = b
  BY FindConcat
<1>2. n # 0 /\ n - 1 = Len(a) /\ n + 1 = Len(a) + 2
  BY DEF Text
<1> HIDE DEF text, n
<1>3. Split(text, c) = <<a>> \o Split(b, c)
  <2>1. Split(text, c) = <<SubSeq(text, 1, n - 1)>> \o Split(SubSeq(text, n + 1, Len(text)), c)
    BY <1>1, <1>2, SplitUnfold
  <2> QED
    BY <1>1, <1>2, <2>1
<1>4. Split(b, c) = <<b>>
  BY FindNone, SplitUnfold
<1>5. <<a>> \o <<b>> = <<a, b>>
  BY TwoSeq
<1>6. Split(text, c) = <<a, b>>
  BY <1>3, <1>4, <1>5
<1> QED
  BY <1>1, <1>6 DEF text

\* A text UrlSafeDecode accepts.
Decodable(t) == t \in Text /\ \A i \in 1..Len(t) : t[i] \notin Reserved \cup LowerEscapes

LEMMA SeparatorFacts == "=" \in Reserved /\ "&" \in Reserved /\ "=" \in Symbol /\ "&" \in Symbol
BY DEF Reserved, Symbol

\* A part of a query, key=value, decoded.
LEMMA DecodePart ==
  ASSUME NEW a, NEW b, Decodable(a), Decodable(b)
  PROVE  LET part == (a \o <<"=">>) \o b
         IN /\ part \in Text
            /\ \A j \in 1..Len(part) : part[j] # "&"
            /\ Map(UrlSafeDecode, Split(part, "=")) = <<UrlSafeDecode(a), UrlSafeDecode(b)>>
<1> DEFINE part == (a \o <<"=">>) \o b
<1>1. a \in Text /\ \A j \in 1..Len(a) : a[j] # "=" /\ a[j] # "&"
  BY SeparatorFacts DEF Decodable
<1>2. b \in Text /\ \A j \in 1..Len(b) : b[j] # "=" /\ b[j] # "&"
  BY SeparatorFacts DEF Decodable
<1>3. part \in Text /\ Split(part, "=") = <<a, b>>
  BY <1>1, <1>2, SplitPair, SeparatorFacts
<1>4. \A j \in 1..Len(part) : part[j] # "&"
  <2> DEFINE u == a \o <<"=">>
  <2>1. u \in Text /\ Len(u) = Len(a) + 1 /\ \A j \in 1..Len(u) : u[j] = "=" \/ (j \in 1..Len(a) /\ u[j] = a[j])
    BY <1>1, SeparatorFacts DEF Text
  <2>2. \A j \in 1..Len(u) : u[j] # "&"
    BY <1>1, <2>1
  <2> HIDE DEF u
  <2>3. \A j \in 1..Len(u \o b) : (u \o b)[j] # "&"
    BY <1>2, <2>1, <2>2 DEF Text
  <2> QED
    BY <2>3 DEF u
<1>5. Map(UrlSafeDecode, <<a, b>>) = <<UrlSafeDecode(a), UrlSafeDecode(b)>>
  BY DEF Map
<1> QED
  BY <1>3, <1>4, <1>5

\* The parts of a query, from keys a and values b, and what they are decoded to.
AreParts(parts, a, b) ==
  /\ parts \in Seq(Text) /\ parts # <<>>
  /\ \A i \in 1..Len(parts) : /\ Decodable(a[i]) /\ Decodable(b[i])
                              /\ parts[i] = (a[i] \o <<"=">>) \o b[i]

DecodedParts(parts, a, b) ==
  [i \in 1..Len(parts) |-> <<UrlSafeDecode(a[i]), UrlSafeDecode(b[i])>>]

LEMMA DecodeParts ==
  ASSUME NEW parts, NEW a, NEW b, AreParts(parts, a, b)
  PROVE  /\ DecodedParts(parts, a, b) \in Seq(Seq(Text))
         /\ Len(DecodedParts(parts, a, b)) = Len(parts)
         /\ DecodedParts(parts, a, b) # NULL
         /\ DecodeQueryData(Join(parts, "&")) = DecodedParts(parts, a, b)
<1> USE DEF AreParts
<1> DEFINE data == [i \in 1..Len(parts) |-> <<UrlSafeDecode(a[i]), UrlSafeDecode(b[i])>>]
           query == Join(parts, "&")
           pairs == [i \in 1..Len(parts) |-> Map(UrlSafeDecode, Split(parts[i], "="))]
<1>1. ASSUME NEW i \in 1..Len(parts)
      PROVE  /\ \A j \in 1..Len(parts[i]) : parts[i][j] # "&"
             /\ Map(UrlSafeDecode, Split(parts[i], "=")) = <<UrlSafeDecode(a[i]), UrlSafeDecode(b[i])>>
  <2> DEFINE p == (a[i] \o <<"=">>) \o b[i]
  <2>1. /\ \A j \in 1..Len(p) : p[j] # "&"
        /\ Map(UrlSafeDecode, Split(p, "=")) = <<UrlSafeDecode(a[i]), UrlSafeDecode(b[i])>>
    BY DecodePart
  <2>2. p = parts[i]
    OBVIOUS
  <2> HIDE DEF p
  <2> QED
    BY <2>1, <2>2
<1>2. Split(query, "&") = parts
  BY <1>1, SplitJoin, SeparatorFacts
<1>3. pairs = data
  BY <1>1
<1>4. DecodeQueryData(query) = IF \A pair \in Range(pairs) : Len(pair) = 2 /\ NULL \notin Range(pair)
                               THEN pairs ELSE NULL
  <2> HIDE DEF query
  <2> QED
    BY <1>2 DEF DecodeQueryData, Map
<1>5. ASSUME NEW i \in 1..Len(parts)
      PROVE  /\ data[i] \in Seq(Text) /\ Len(data[i]) = 2
             /\ NULL \notin Range(data[i])
  <2> DEFINE x == UrlSafeDecode(a[i])
             y == UrlSafeDecode(b[i])
  <2>1. x \in Text /\ x # NULL /\ y \in Text /\ y # NULL
    BY UrlSafeDecodeAt DEF Decodable
  <2>2. data[i] = <<x, y>>
    OBVIOUS
  <2> HIDE DEF x, y, data
  <2>3. <<x, y>> \in Seq(Text) /\ Len(<<x, y>>) = 2 /\ \A k \in 1..2 : <<x, y>>[k] # NULL
    BY <2>1
  <2>4. NULL \notin Range(<<x, y>>)
    BY <2>3 DEF Range
  <2> QED
    BY <2>2, <2>3, <2>4
<1>6. data \in Seq(Seq(Text)) /\ Len(data) = Len(parts)
  <2>1. data \in [1..Len(parts) -> Seq(Text)]
    BY <1>5
  <2> HIDE DEF data
  <2> QED
    BY <2>1, FunctionIsSeq
<1>7. data # NULL
  BY <1>6, NullAssumption
<1>8. \A pair \in Range(data) : Len(pair) = 2 /\ NULL \notin Range(pair)
  <2>1. \A pair \in Range(data) : \E i \in 1..Len(parts) : pair = data[i]
    BY DEF Range
  <2> QED
    BY <1>5, <2>1, Zenon
<1>9. DecodeQueryData(query) = data
  BY <1>3, <1>4, <1>8
<1> QED
  BY <1>6, <1>7, <1>9 DEF DecodedParts

\* What the service encodes: pairs of texts that are not encoded yet.
Parameters == Seq({pair \in Seq(Unencoded) : Len(pair) = 2})

LEMMA ParameterFacts ==
  ASSUME NEW data \in Parameters
  PROVE  /\ Len(data) \in Nat
         /\ DOMAIN data = 1..Len(data)
         /\ \A i \in 1..Len(data) : /\ data[i] \in Seq(Unencoded) /\ Len(data[i]) = 2
                                    /\ data[i][1] \in Unencoded /\ data[i][2] \in Unencoded
BY DEF Parameters

\* The parts of an encoded query.
LEMMA EncodeQueryParts ==
  ASSUME NEW data \in Parameters
  PROVE  LET part(i) == (SafeEncode(data[i][1], {}) \o <<"=">>) \o SafeEncode(data[i][2], {})
             parts == [i \in 1..Len(data) |-> part(i)]
         IN /\ parts \in Seq(Text) /\ Len(parts) = Len(data)
            /\ EncodeQueryData(data) = Join(parts, "&")
            /\ \A i \in 1..Len(data) : /\ Decodable(SafeEncode(data[i][1], {}))
                                       /\ Decodable(SafeEncode(data[i][2], {}))
<1> DEFINE part(i) == (SafeEncode(data[i][1], {}) \o <<"=">>) \o SafeEncode(data[i][2], {})
           parts == [i \in 1..Len(data) |-> part(i)]
<1>1. \A t \in Unencoded : Decodable(SafeEncode(t, {}))
  <2> SUFFICES ASSUME NEW t \in Unencoded PROVE Decodable(SafeEncode(t, {}))
    OBVIOUS
  <2>1. SafeEncode(t, {}) \in Text
    BY UnencodedIsText, SafeEncodeAt
  <2>2. \A i \in 1..Len(SafeEncode(t, {})) : SafeEncode(t, {})[i] \notin Reserved \cup LowerEscapes
    BY SafeEncodeHides
  <2> QED
    BY <2>1, <2>2 DEF Decodable
<1>2. \A i \in 1..Len(data) : /\ Decodable(SafeEncode(data[i][1], {}))
                              /\ Decodable(SafeEncode(data[i][2], {}))
  BY <1>1, ParameterFacts
<1>3. \A i \in 1..Len(data) : part(i) \in Text
  BY <1>2, DecodePart
<1>4. EncodeQueryData(data) = Join(parts, "&")
  BY DEF EncodeQueryData, Map
<1>5. parts \in Seq(Text) /\ Len(parts) = Len(data)
  <2>1. parts \in [1..Len(data) -> Text]
    BY <1>3
  <2> HIDE DEF parts
  <2> QED
    BY <2>1, FunctionIsSeq, ParameterFacts
<1> QED
  BY <1>2, <1>4, <1>5

(***************************************************************************)
(* The query of a redirect says what was meant: DecodeQueryData gives back *)
(* the parameters that EncodeQueryData wrote, whatever reserved characters *)
(* are in them.                                                            *)
(***************************************************************************)
THEOREM QueryRoundTrip ==
  \A data \in Parameters : data # <<>> => DecodeQueryData(EncodeQueryData(data)) = data
<1> SUFFICES ASSUME NEW data \in Parameters, data # <<>>
             PROVE  DecodeQueryData(EncodeQueryData(data)) = data
  OBVIOUS
<1> DEFINE a == [i \in 1..Len(data) |-> SafeEncode(data[i][1], {})]
           b == [i \in 1..Len(data) |-> SafeEncode(data[i][2], {})]
           parts == [i \in 1..Len(data) |->
                       (SafeEncode(data[i][1], {}) \o <<"=">>) \o SafeEncode(data[i][2], {})]
           decoded == DecodedParts(parts, a, b)
<1>1. /\ parts \in Seq(Text) /\ Len(parts) = Len(data)
      /\ EncodeQueryData(data) = Join(parts, "&")
      /\ \A i \in 1..Len(data) : Decodable(a[i]) /\ Decodable(b[i])
  BY EncodeQueryParts
<1>2. \A i \in 1..Len(data) : parts[i] = (a[i] \o <<"=">>) \o b[i]
  OBVIOUS
<1>3. \A i \in 1..Len(data) : UrlSafeDecode(a[i]) = data[i][1] /\ UrlSafeDecode(b[i]) = data[i][2]
  BY UrlSafeRoundTrip, ParameterFacts
<1> HIDE DEF a, b, parts
<1>4. parts # <<>>
  <2>1. Len(data) # 0
    BY ParameterFacts, EmptySeq DEF Parameters
  <2> QED
    BY <1>1, <2>1, EmptySeq
<1>5. /\ DecodeQueryData(Join(parts, "&")) = decoded
      /\ decoded \in Seq(Seq(Text)) /\ Len(decoded) = Len(data)
  <2>1. AreParts(parts, a, b)
    BY <1>1, <1>2, <1>4 DEF AreParts
  <2> QED
    BY <1>1, <2>1, DecodeParts
<1>6. \A i \in 1..Len(data) : decoded[i] = data[i]
  <2> SUFFICES ASSUME NEW i \in 1..Len(data) PROVE decoded[i] = data[i]
    OBVIOUS
  <2>1. decoded[i] = <<data[i][1], data[i][2]>>
    BY <1>1, <1>3 DEF DecodedParts
  <2>2. data[i] = <<data[i][1], data[i][2]>>
    BY ParameterFacts, PairSeq
  <2> QED
    BY <2>1, <2>2
<1> HIDE DEF decoded
<1>7. data \in Seq(Seq(Text))
  <2>1. {pair \in Seq(Unencoded) : Len(pair) = 2} \subseteq Seq(Text)
    BY UnencodedIsText, SeqMonotonic
  <2> QED
    BY <2>1, SeqMonotonic DEF Parameters
<1>8. decoded = data
  BY <1>5, <1>6, <1>7, SeqEqual
<1> QED
  BY <1>1, <1>5, <1>8

-----------------------------------------------------------------------------
(***************************************************************************)
(* URIs.                                                                   *)
(***************************************************************************)

\* A text put together from two.
LEMMA ConcatText ==
  ASSUME NEW s \in Text, NEW t \in Text
  PROVE  /\ s \o t \in Text
         /\ Len(s) \in Nat /\ Len(t) \in Nat /\ Len(s \o t) = Len(s) + Len(t)
         /\ \A i \in 1..Len(s) : (s \o t)[i] = s[i]
         /\ \A i \in 1..Len(t) : (s \o t)[Len(s) + i] = t[i]
         /\ \A i \in 1..Len(s \o t) : \/ i \in 1..Len(s) /\ (s \o t)[i] = s[i]
                                      \/ i - Len(s) \in 1..Len(t) /\ (s \o t)[i] = t[i - Len(s)]
         /\ SubSeq(s \o t, 1, Len(s)) = s
         /\ SubSeq(s \o t, Len(s) + 1, Len(s \o t)) = t
<1> DEFINE text == s \o t
<1>1. /\ text \in Text
      /\ Len(s) \in Nat /\ Len(t) \in Nat /\ Len(text) = Len(s) + Len(t)
      /\ \A i \in 1..Len(s) : text[i] = s[i]
      /\ \A i \in 1..Len(t) : text[Len(s) + i] = t[i]
      /\ \A i \in 1..Len(text) : \/ i \in 1..Len(s) /\ text[i] = s[i]
                                 \/ i - Len(s) \in 1..Len(t) /\ text[i] = t[i - Len(s)]
  BY DEF Text
<1> HIDE DEF text
<1>2. SubSeq(text, 1, Len(s)) = s
  BY <1>1, SeqEqual DEF Text
<1>3. SubSeq(text, Len(s) + 1, Len(text)) = t
  <2> DEFINE u == SubSeq(text, Len(s) + 1, Len(text))
  <2>1. u \in Text /\ Len(u) = Len(t) /\ \A i \in 1..Len(t) : u[i] = text[Len(s) + i]
    BY <1>1 DEF Text
  <2> HIDE DEF u
  <2>2. u = t
    BY <1>1, <2>1, SeqEqual DEF Text
  <2> QED
    BY <2>2 DEF u
<1> QED
  BY <1>1, <1>2, <1>3 DEF text

\* What neither text has, their concatenation does not have.
LEMMA Absent ==
  ASSUME NEW s \in Text, NEW t \in Text, NEW c,
         \A j \in 1..Len(s) : s[j] # c, \A j \in 1..Len(t) : t[j] # c
  PROVE  \A j \in 1..Len(s \o t) : (s \o t)[j] # c
<1> SUFFICES ASSUME NEW j \in 1..Len(s \o t) PROVE (s \o t)[j] # c
  OBVIOUS
<1>1. \/ j \in 1..Len(s) /\ (s \o t)[j] = s[j]
      \/ j - Len(s) \in 1..Len(t) /\ (s \o t)[j] = t[j - Len(s)]
  BY ConcatText
<1> QED
  BY <1>1

\* A text that does not have c.
Lacks(t, c) == t \in Text /\ \A j \in 1..Len(t) : t[j] # c

LEMMA LacksConcat ==
  ASSUME NEW s, NEW t, NEW c, Lacks(s, c), Lacks(t, c)
  PROVE  Lacks(s \o t, c)
<1>1. s \in Text /\ t \in Text /\ s \o t \in Text
  BY ConcatText DEF Lacks
<1> QED
  BY <1>1, Absent DEF Lacks

LEMMA LacksOne ==
  ASSUME NEW d \in Symbol, NEW c, d # c
  PROVE  Lacks(<<d>>, c)
BY DEF Lacks, Text

LEMMA LacksNone ==
  ASSUME NEW c
  PROVE  Lacks(<<>>, c)
BY EmptySeq DEF Lacks, Text

LEMMA FindFirstOfFirst ==
  ASSUME NEW text \in Text, NEW S
  PROVE  /\ FindFirstOf(text, S) \in 0..Len(text)
         /\ FindFirstOf(text, S) # 0 => text[FindFirstOf(text, S)] \in S
         /\ \A j \in 1..Len(text) :
              text[j] \in S => FindFirstOf(text, S) # 0 /\ FindFirstOf(text, S) <= j
<1> DEFINE I == {i \in 1..Len(text) : text[i] \in S}
<1>1. FindFirstOf(text, S) = First(I)
  BY DEF FindFirstOf
<1>2. I \in SUBSET (Nat \ {0}) /\ Len(text) \in Nat
  BY DEF Text
<1>3. \A j : j \in I <=> j \in 1..Len(text) /\ text[j] \in S
  OBVIOUS
<1> HIDE DEF I
<1>4. /\ First(I) \in Nat
      /\ First(I) # 0 => First(I) \in I
      /\ \A j \in I : First(I) # 0 /\ First(I) <= j
  BY <1>2, FirstIndex
<1> QED
  BY <1>1, <1>2, <1>3, <1>4

\* The first of S stands where the second text begins.
LEMMA FindFirstOfConcat ==
  ASSUME NEW s \in Text, NEW t \in Text, NEW S, \A j \in 1..Len(s) : s[j] \notin S,
         t # <<>>, t[1] \in S
  PROVE  FindFirstOf(s \o t, S) = Len(s) + 1
<1> DEFINE text == s \o t
           n == FindFirstOf(text, S)
<1>1. /\ text \in Text
      /\ Len(s) \in Nat /\ Len(text) = Len(s) + Len(t)
      /\ \A i \in 1..Len(s) : text[i] = s[i]
      /\ \A i \in 1..Len(t) : text[Len(s) + i] = t[i]
  BY ConcatText
<1>2. 1 \in 1..Len(t)
  BY DEF Text
<1>3. text[Len(s) + 1] \in S /\ Len(s) + 1 \in 1..Len(text)
  BY <1>1, <1>2
<1> HIDE DEF text
<1>4. n \in 0..Len(text) /\ n # 0 /\ n <= Len(s) + 1 /\ text[n] \in S
  BY <1>1, <1>3, FindFirstOfFirst
<1> HIDE DEF n
<1>5. ~(n <= Len(s))
  BY <1>1, <1>4
<1>6. n = Len(s) + 1
  BY <1>1, <1>4, <1>5
<1> QED
  BY <1>6 DEF n, text

LEMMA QuestionFacts == "?" \in Symbol /\ "#" \in Symbol /\ "/" \in Symbol /\ ":" \in Symbol
BY DEF Symbol, Reserved

\* A path by itself.
LEMMA PathAlone ==
  ASSUME NEW path \in Text, \A j \in 1..Len(path) : path[j] # "?" /\ path[j] # "#"
  PROVE  PathQueryFragment(path).path = path
<1>1. Find(path, "#") = 0 /\ Find(path, "?") = 0
  BY FindNone
<1>2. Len(path) \in Nat /\ Len(path) + 1 - 1 = Len(path)
  BY DEF Text
<1>3. PathQueryFragment(path).path = SubSeq(path, 1, Len(path) + 1 - 1)
  BY <1>1 DEF PathQueryFragment
<1>4. SubSeq(path, 1, Len(path)) = path
  BY SubSeqFull DEF Text
<1> QED
  BY <1>2, <1>3, <1>4

\* A path with a query.
LEMMA PathWithQuery ==
  ASSUME NEW path \in Text, \A j \in 1..Len(path) : path[j] # "?" /\ path[j] # "#",
         NEW query \in Text, \A j \in 1..Len(query) : query[j] # "#"
  PROVE  LET text == (path \o <<"?">>) \o query
         IN PathQueryFragment(text).path = path /\ PathQueryFragment(text).query = query
<1> DEFINE text == (path \o <<"?">>) \o query
<1>1. /\ text \in Text
      /\ Find(text, "?") = Len(path) + 1
      /\ SubSeq(text, 1, Len(path)) = path
      /\ SubSeq(text, Len(path) + 2, Len(text)) = query
  BY FindConcat, QuestionFacts
<1>2. Len(path) \in Nat /\ Len(query) \in Nat /\ Len(text) = Len(path) + 1 + Len(query)
  BY QuestionFacts DEF Text
<1>3. \A j \in 1..Len(text) : text[j] # "#"
  <2> DEFINE u == path \o <<"?">>
  <2>1. u \in Text /\ \A j \in 1..Len(u) : u[j] = "?" \/ (j \in 1..Len(path) /\ u[j] = path[j])
    BY QuestionFacts DEF Text
  <2>2. \A j \in 1..Len(u) : u[j] # "#"
    BY <2>1
  <2> HIDE DEF u
  <2>3. \A j \in 1..Len(u \o query) : (u \o query)[j] # "#"
    BY <2>1, <2>2, Absent
  <2> QED
    BY <2>3 DEF u
<1> HIDE DEF text
<1>4. Find(text, "#") = 0
  BY <1>1, <1>3, FindNone
<1> DEFINE n == Len(path) + 1
           end == Len(text) + 1
<1>5. n # 0 /\ ~(n > end) /\ n - 1 = Len(path) /\ n + 1 = Len(path) + 2 /\ end - 1 = Len(text)
  BY <1>2
<1> HIDE DEF n, end
<1>6. /\ PathQueryFragment(text).path = SubSeq(text, 1, n - 1)
      /\ PathQueryFragment(text).query = SubSeq(text, n + 1, end - 1)
  <2>1. Find(text, "?") = n /\ Len(text) + 1 = end
    BY <1>1 DEF n, end
  <2> DEFINE hashtag == IF Find(text, "#") = 0 THEN Len(text) + 1 ELSE Find(text, "#")
             question == IF Find(text, "?") = 0 \/ Find(text, "?") > hashtag
                         THEN hashtag ELSE Find(text, "?")
  <2>2. /\ PathQueryFragment(text).path = SubSeq(text, 1, question - 1)
        /\ PathQueryFragment(text).query = SubSeq(text, question + 1, hashtag - 1)
    BY Zenon DEF PathQueryFragment
  <2>3. hashtag = end
    BY <1>4, <2>1
  <2>4. question = n
    BY <1>4, <1>5, <2>1, <2>3
  <2> HIDE DEF hashtag, question
  <2> QED
    BY <2>2, <2>3, <2>4
<1>7. PathQueryFragment(text).path = path /\ PathQueryFragment(text).query = query
  BY <1>1, <1>5, <1>6, SMTT(20)
<1> QED
  BY <1>7 DEF text

-----------------------------------------------------------------------------
(***************************************************************************)
(* Cookies.                                                                *)
(***************************************************************************)

\* A cookie header put together from name=value texts.
LEMMA DecodeCookieTexts ==
  ASSUME NEW texts \in Seq(Text), texts # <<>>,
         \A i \in 1..Len(texts) : /\ \A j \in 1..Len(texts[i]) : texts[i][j] # CookieSeparator
                                  /\ Find(texts[i], "=") # 0
  PROVE  DecodeCookies(Join(texts, CookieSeparator)) =
           [i \in 1..Len(texts) |-> <<SubSeq(texts[i], 1, Find(texts[i], "=") - 1),
                                      SubSeq(texts[i], Find(texts[i], "=") + 1, Len(texts[i]))>>]
<1> DEFINE header == Join(texts, CookieSeparator)
<1>1. CookieSeparator \in Symbol
  BY DEF Symbol
<1>2. Split(header, CookieSeparator) = texts
  BY <1>1, SplitJoin
<1> HIDE DEF header
<1>3. \A cookie \in Range(texts) : Find(cookie, "=") # 0
  <2>1. DOMAIN texts = 1..Len(texts)
    BY LenProperties
  <2> QED
    BY <2>1 DEF Range
<1>4. DecodeCookies(header) =
        [i \in 1..Len(texts) |-> <<SubSeq(texts[i], 1, Find(texts[i], "=") - 1),
                                   SubSeq(texts[i], Find(texts[i], "=") + 1, Len(texts[i]))>>]
  BY <1>2, <1>3 DEF DecodeCookies, NameValue, Map
<1> QED
  BY <1>4 DEF header

\* The first value of a key.
LEMMA FindKeyFirst ==
  ASSUME NEW data, Len(data) \in Nat, NEW key
  PROVE  /\ (\A i \in 1..Len(data) : data[i][1] # key) => FindKey(data, key) = NULL
         /\ \A i \in 1..Len(data) : (data[i][1] = key /\ \A j \in 1..(i - 1) : data[j][1] # key)
              => FindKey(data, key) = data[i][2]
<1> DEFINE I == {i \in 1..Len(data) : data[i][1] = key}
           n == First(I)
<1>1. FindKey(data, key) = IF n = 0 THEN NULL ELSE data[n][2]
  BY DEF FindKey
<1>2. I \in SUBSET (Nat \ {0})
  OBVIOUS
<1>3. ASSUME \A i \in 1..Len(data) : data[i][1] # key
      PROVE  n = 0
  BY <1>3 DEF First
<1>4. ASSUME NEW i \in 1..Len(data), data[i][1] = key, \A j \in 1..(i - 1) : data[j][1] # key
      PROVE  n = i /\ i # 0
  <2>1. i \in I /\ \A j \in 1..(i - 1) : j \notin I
    BY <1>4
  <2> HIDE DEF I
  <2> QED
    BY <1>2, <2>1, FirstIndexIs
<1> HIDE DEF n
<1> QED
  BY <1>1, <1>3, <1>4

-----------------------------------------------------------------------------
(***************************************************************************)
(* More about Join.                                                        *)
(***************************************************************************)

\* Join brings in nothing but the separator.
LEMMA JoinLacks ==
  ASSUME NEW c \in Symbol, NEW d, c # d
  PROVE  \A ts \in Seq(Text) : (\A i \in 1..Len(ts) : Lacks(ts[i], d)) => Lacks(Join(ts, c), d)
<1> DEFINE S == {n \in Nat : \A ts \in Seq(Text) :
                   (Len(ts) = n /\ \A i \in 1..Len(ts) : Lacks(ts[i], d)) => Lacks(Join(ts, c), d)}
<1>1. ASSUME NEW n \in Nat, \A k \in 0..(n - 1) : k \in S
      PROVE  n \in S
  <2> SUFFICES ASSUME NEW ts \in Seq(Text), Len(ts) = n, \A i \in 1..Len(ts) : Lacks(ts[i], d)
               PROVE  Lacks(Join(ts, c), d)
    OBVIOUS
  <2>1. CASE ts = <<>>
    <3>1. Join(ts, c) = <<>>
      BY <2>1, JoinUnfold
    <3> QED
      BY <3>1, LacksNone
  <2>2. CASE ts # <<>>
    <3>1. Head(ts) = ts[1] /\ 1 \in 1..Len(ts)
      BY <2>2
    <3>2. Lacks(Head(ts), d)
      BY <3>1
    <3>3. CASE Tail(ts) = <<>>
      <4>1. Join(ts, c) = Head(ts)
        BY <2>2, <3>3, JoinUnfold
      <4> QED
        BY <3>2, <4>1
    <3>4. CASE Tail(ts) # <<>>
      <4> DEFINE rest == Tail(ts)
      <4>1. /\ rest \in Seq(Text) /\ Len(rest) \in 0..(n - 1) /\ Len(rest) = Len(ts) - 1
            /\ \A i \in 1..Len(rest) : rest[i] = ts[i + 1] /\ i + 1 \in 1..Len(ts)
        BY <2>2
      <4>2. Join(ts, c) = (Head(ts) \o <<c>>) \o Join(rest, c)
        BY <2>2, <3>4, JoinUnfold, Zenon
      <4> HIDE DEF rest
      <4>3. Lacks(Join(rest, c), d)
        BY <1>1, <4>1
      <4>4. Lacks(<<c>>, d)
        BY LacksOne
      <4>5. Lacks(Head(ts) \o <<c>>, d)
        BY <3>2, <4>4, LacksConcat
      <4> QED
        BY <4>2, <4>3, <4>5, LacksConcat
    <3> QED
      BY <3>3, <3>4
  <2> QED
    BY <2>1, <2>2
<1> HIDE DEF S
<1>2. \A n \in Nat : n \in S
  BY <1>1, NatInductive
<1>3. \A ts \in Seq(Text) : Len(ts) \in Nat
  OBVIOUS
<1> QED
  BY <1>2, <1>3 DEF S

LEMMA TextAssoc ==
  ASSUME NEW r \in Text, NEW s \in Text, NEW t \in Text
  PROVE  (r \o s) \o t = r \o (s \o t)
BY ConcatAssociative DEF Text

\* What is put in front of the first text is in front of all.
LEMMA JoinPrefix ==
  ASSUME NEW c \in Symbol, NEW ts \in Seq(Text), ts # <<>>, NEW pre \in Text
  PROVE  /\ [ts EXCEPT ![1] = pre \o ts[1]] \in Seq(Text)
         /\ Len([ts EXCEPT ![1] = pre \o ts[1]]) = Len(ts)
         /\ Join([ts EXCEPT ![1] = pre \o ts[1]], c) = pre \o Join(ts, c)
<1> DEFINE us == [ts EXCEPT ![1] = pre \o ts[1]]
<1>1. ts[1] \in Text /\ Head(ts) = ts[1] /\ 1 \in 1..Len(ts) /\ Len(ts) \in Nat
  OBVIOUS
<1>2. pre \o ts[1] \in Text
  BY <1>1, ConcatText
<1>3. /\ us \in Seq(Text) /\ Len(us) = Len(ts)
      /\ us[1] = pre \o ts[1]
      /\ \A j \in 1..Len(ts) : j # 1 => us[j] = ts[j]
  BY <1>1, <1>2, ExceptSeq
<1> HIDE DEF us
<1>4. us # <<>> /\ Head(us) = us[1]
  BY <1>1, <1>3
<1>5. Tail(us) = Tail(ts)
  <2>1. /\ Tail(us) \in Seq(Text) /\ Len(Tail(us)) = Len(us) - 1
        /\ \A i \in 1..Len(Tail(us)) : Tail(us)[i] = us[i + 1]
    BY <1>3, <1>4, HeadTailProperties
  <2>2. /\ Tail(ts) \in Seq(Text) /\ Len(Tail(ts)) = Len(ts) - 1
        /\ \A i \in 1..Len(Tail(ts)) : Tail(ts)[i] = ts[i + 1]
    BY HeadTailProperties
  <2>3. \A i \in 1..Len(Tail(us)) : Tail(us)[i] = Tail(ts)[i]
    <3> SUFFICES ASSUME NEW i \in 1..Len(Tail(us)) PROVE Tail(us)[i] = Tail(ts)[i]
      OBVIOUS
    <3>1. i + 1 \in 1..Len(ts) /\ i + 1 # 1 /\ i \in 1..Len(Tail(ts))
      BY <1>1, <1>3, <2>1, <2>2
    <3> QED
      BY <1>3, <2>1, <2>2, <3>1
  <2> QED
    BY <1>3, <2>1, <2>2, <2>3, SeqEqual
<1>6. CASE Tail(ts) = <<>>
  <2>1. Join(ts, c) = ts[1] /\ Join(us, c) = us[1]
    BY <1>1, <1>3, <1>4, <1>5, <1>6, JoinUnfold
  <2> QED
    BY <1>3, <2>1 DEF us
<1>7. CASE Tail(ts) # <<>>
  <2> DEFINE rest == Join(Tail(ts), c)
  <2>1. rest \in Text
    BY JoinType, HeadTailProperties
  <2>2. /\ Join(ts, c) = (ts[1] \o <<c>>) \o rest
        /\ Join(us, c) = (us[1] \o <<c>>) \o rest
    BY <1>1, <1>3, <1>4, <1>5, <1>7, JoinUnfold
  <2> HIDE DEF rest
  <2>3. <<c>> \in Text /\ ts[1] \o <<c>> \in Text
    BY <1>1, ConcatText DEF Text
  <2>4. ((pre \o ts[1]) \o <<c>>) \o rest = (pre \o (ts[1] \o <<c>>)) \o rest
    BY <1>1, <2>3, TextAssoc
  <2>5. (pre \o (ts[1] \o <<c>>)) \o rest = pre \o ((ts[1] \o <<c>>) \o rest)
    BY <2>1, <2>3, TextAssoc, Zenon
  <2> QED
    BY <1>3, <2>2, <2>4, <2>5 DEF us
<1> QED
  BY <1>3, <1>6, <1>7 DEF us

-----------------------------------------------------------------------------
(***************************************************************************)
(* URIs that have neither a query nor a fragment.                          *)
(***************************************************************************)

\* A "#" can only be at the end, and a "?" only there or right before the "#".
AtEnd(t) ==
  \A j \in 1..Len(t) : /\ t[j] = "#" => j = Len(t)
                       /\ t[j] = "?" => j = Len(t) \/ (j = Len(t) - 1 /\ t[Len(t)] = "#")

LEMMA EmptySubSeq ==
  ASSUME NEW t \in Text, NEW m \in Nat \ {0}, NEW n \in Nat, n <= Len(t), SubSeq(t, m, n) = <<>>
  PROVE  n < m
<1> SUFFICES ASSUME m <= n PROVE FALSE
  OBVIOUS
<1>1. Len(SubSeq(t, m, n)) = n - m + 1
  <2>1. m \in Int /\ n \in Int /\ \A i \in m..n : t[i] \in Symbol
    BY DEF Text
  <2>2. Len(SubSeq(t, m, n)) = IF m <= n THEN n - m + 1 ELSE 0
    BY <2>1, SubSeqProperties, Zenon
  <2> QED
    BY <2>2
<1>2. Len(<<>>) = 0
  OBVIOUS
<1> QED
  BY <1>1, <1>2

LEMMA EmptyQueryShape ==
  ASSUME NEW t \in Text, PathQueryFragment(t).query = <<>>, PathQueryFragment(t).fragment = <<>>
  PROVE  AtEnd(t)
<1> DEFINE n == Len(t)
           h == Find(t, "#")
           q == Find(t, "?")
           hashtag == IF h = 0 THEN n + 1 ELSE h
           question == IF q = 0 \/ q > hashtag THEN hashtag ELSE q
<1>1. /\ n \in Nat /\ h \in 0..n /\ q \in 0..n
      /\ h # 0 => t[h] = "#"
      /\ q # 0 => t[q] = "?"
      /\ \A j \in 1..n : t[j] = "#" => h # 0 /\ h <= j
      /\ \A j \in 1..n : t[j] = "?" => q # 0 /\ q <= j
  BY FindFirst DEF Text
<1>2. SubSeq(t, question + 1, hashtag - 1) = <<>> /\ SubSeq(t, hashtag + 1, n) = <<>>
  BY DEF PathQueryFragment
<1> HIDE DEF n, h, q
<1>3. hashtag \in 1..(n + 1) /\ question \in 1..hashtag
  BY <1>1
<1> HIDE DEF hashtag, question
<1>4. hashtag + 1 > n
  <2>1. hashtag + 1 \in Nat \ {0} /\ n <= Len(t)
    BY <1>1, <1>3 DEF n
  <2> QED
    BY <1>1, <1>2, <2>1, EmptySubSeq
<1>5. question + 1 > hashtag - 1
  <2>1. question + 1 \in Nat \ {0} /\ hashtag - 1 \in Nat /\ hashtag - 1 <= Len(t)
    BY <1>1, <1>3 DEF n
  <2> QED
    BY <1>2, <2>1, EmptySubSeq
<1>6. \A j \in 1..n : t[j] = "#" => j = n /\ hashtag = n
  BY <1>1, <1>3, <1>4 DEF hashtag
<1>7. ASSUME NEW j \in 1..n, t[j] = "?"
      PROVE  j = n \/ (j = n - 1 /\ t[n] = "#")
  <2>1. q # 0 /\ q <= j
    BY <1>1, <1>7
  <2>2. CASE h = 0
    BY <1>1, <1>3, <1>5, <2>1, <2>2 DEF hashtag, question
  <2>3. CASE h # 0
    <3>1. h = n /\ hashtag = n /\ t[n] = "#"
      BY <1>1, <1>6, <2>3
    <3>2. q <= n
      BY <1>1
    <3>3. q >= n - 1
      BY <1>1, <1>5, <2>1, <3>1, <3>2 DEF question
    <3>4. j # n
      BY <1>7, <3>1
    <3> QED
      BY <1>1, <2>1, <3>1, <3>3, <3>4
  <2> QED
    BY <2>2, <2>3
<1> QED
  BY <1>6, <1>7 DEF AtEnd, n

LEMMA SubSeqText ==
  ASSUME NEW t \in Text, NEW m \in Nat \ {0}, NEW n \in 0..Len(t)
  PROVE  /\ SubSeq(t, m, n) \in Text
         /\ m <= n => Len(SubSeq(t, m, n)) = n - m + 1
         /\ \A j \in 1..(n - m + 1) : SubSeq(t, m, n)[j] = t[m + j - 1]
         /\ n < m => SubSeq(t, m, n) = <<>>
<1>1. CASE m <= n
  BY <1>1, SubSeqProperties DEF Text
<1>2. CASE n < m
  <2>1. SubSeq(t, m, n) = <<>>
    BY <1>2, SubSeqProperties DEF Text
  <2>2. <<>> \in Text
    BY DEF Text
  <2>3. 1..(n - m + 1) = {}
    BY <1>2
  <2> QED
    BY <1>2, <2>1, <2>2, <2>3
<1>3. m <= n \/ n < m
  OBVIOUS
<1> QED
  BY <1>1, <1>2, <1>3

\* The same of the URI that has the text as its end.
LEMMA UriAtEnd ==
  ASSUME NEW uri \in Text, Uri(uri) # NULL,
         Uri(uri).parts.query = <<>>, Uri(uri).parts.fragment = <<>>
  PROVE  AtEnd(uri)
<1> DEFINE rest   == Tail(uri)
           end    == FindFirstOf(rest, {"/", "?", "#"})
           tail   == IF end = 0 THEN <<>> ELSE SubSeq(rest, end, Len(rest))
           target == IF StartsWith(tail, <<"/">>) THEN tail ELSE <<"/">> \o tail
<1>1. /\ uri # <<>> /\ Head(uri) \in {"https://", "http://"}
      /\ Uri(uri).parts = PathQueryFragment(target)
  BY DEF Uri
<1>2. PathQueryFragment(target).query = <<>> /\ PathQueryFragment(target).fragment = <<>>
  BY <1>1
<1>3. /\ Len(uri) \in Nat \ {0} /\ uri[1] \notin {"?", "#"} /\ rest \in Text
      /\ Len(rest) = Len(uri) - 1 /\ \A k \in 1..Len(rest) : rest[k] = uri[k + 1]
  BY <1>1 DEF Text
<1>4. /\ end \in 0..Len(rest)
      /\ \A j \in 1..Len(rest) : rest[j] \in {"/", "?", "#"} => end # 0 /\ end <= j
  BY <1>3, FindFirstOfFirst
<1>5. /\ end = 0 => tail = <<>>
      /\ end # 0 => tail = SubSeq(rest, end, Len(rest))
      /\ target = tail \/ target = <<"/">> \o tail
  OBVIOUS
<1> HIDE DEF rest, end, tail, target
<1>6. CASE end = 0
  <2> SUFFICES ASSUME NEW k \in 1..Len(uri), uri[k] \in {"?", "#"} PROVE FALSE
    BY DEF AtEnd
  <2>1. k # 1 /\ k - 1 \in 1..Len(rest) /\ rest[k - 1] = uri[k]
    BY <1>3
  <2> QED
    BY <1>4, <1>6, <2>1
<1>7. CASE end # 0
  <2>1. /\ tail \in Text /\ Len(tail) = Len(rest) - end + 1
        /\ \A j \in 1..Len(tail) : tail[j] = rest[end + j - 1]
    <3>1. end \in Nat \ {0} /\ Len(rest) \in 0..Len(rest) /\ end <= Len(rest)
      BY <1>3, <1>4, <1>7
    <3>2. /\ SubSeq(rest, end, Len(rest)) \in Text
          /\ end <= Len(rest) => Len(SubSeq(rest, end, Len(rest))) = Len(rest) - end + 1
          /\ \A j \in 1..(Len(rest) - end + 1) : SubSeq(rest, end, Len(rest))[j] = rest[end + j - 1]
      BY <1>3, <3>1, SubSeqText, Zenon
    <3>3. tail = SubSeq(rest, end, Len(rest))
      BY <1>5, <1>7
    <3>4. /\ tail \in Text
          /\ end <= Len(rest) => Len(tail) = Len(rest) - end + 1
          /\ \A j \in 1..(Len(rest) - end + 1) : tail[j] = rest[end + j - 1]
      BY <3>2, <3>3
    <3> QED
      BY <3>1, <3>4
  <2>2. <<"/">> \in Text /\ Len(<<"/">>) = 1
    BY QuestionFacts DEF Text
  <2>3. PICK off \in {end, end - 1} :
          /\ target \in Text /\ Len(target) = Len(uri) - off
          /\ \A j \in 1..Len(tail) : target[j + (end - off)] = tail[j]
    <3>1. CASE target = tail
      <4>1. Len(target) = Len(uri) - end
        BY <1>3, <1>4, <2>1, <3>1
      <4>2. \A j \in 1..Len(tail) : target[j + (end - end)] = tail[j]
        BY <1>4, <2>1, <3>1 DEF Text
      <4> QED
        BY <2>1, <3>1, <4>1, <4>2
    <3>2. CASE target = <<"/">> \o tail
      <4>1. target \in Text /\ Len(target) = 1 + Len(tail) /\ \A j \in 1..Len(tail) : target[1 + j] = tail[j]
        BY <2>1, <2>2, <3>2, ConcatText, Zenon
      <4>2. Len(target) = Len(uri) - (end - 1)
        BY <1>3, <1>4, <2>1, <4>1
      <4>3. \A j \in 1..Len(tail) : target[j + (end - (end - 1))] = tail[j]
        <5> SUFFICES ASSUME NEW j \in 1..Len(tail) PROVE target[j + (end - (end - 1))] = tail[j]
          OBVIOUS
        <5>1. j + (end - (end - 1)) = 1 + j
          BY <1>4, <2>1 DEF Text
        <5> QED
          BY <4>1, <5>1
      <4> QED
        BY <4>1, <4>2, <4>3
    <3> QED
      BY <1>5, <3>1, <3>2
  <2>4. AtEnd(target)
    BY <1>2, <2>3, EmptyQueryShape
  <2>5. ASSUME NEW k \in 1..Len(uri), uri[k] \in {"?", "#"}
        PROVE  k - off \in 1..Len(target) /\ target[k - off] = uri[k]
    <3>1. k # 1 /\ k - 1 \in 1..Len(rest) /\ rest[k - 1] = uri[k]
      BY <1>3, <2>5
    <3>2. end <= k - 1
      BY <1>4, <2>5, <3>1
    <3>3. k - end \in 1..Len(tail)
      BY <1>3, <1>4, <1>7, <2>1, <3>1, <3>2
    <3>4. tail[k - end] = rest[k - 1]
      <4>1. end + (k - end) - 1 = k - 1
        BY <1>4
      <4> QED
        BY <2>1, <3>3, <4>1
    <3>5. (k - end) + (end - off) = k - off
      BY <1>4, <2>3
    <3>6. target[k - off] = tail[k - end]
      BY <2>3, <3>3, <3>5
    <3>7. k - off \in 1..Len(target)
      BY <1>3, <1>4, <1>7, <2>3, <3>2
    <3> QED
      BY <3>1, <3>4, <3>6, <3>7
  <2>6. ASSUME NEW k \in 1..Len(uri)
        PROVE  /\ uri[k] = "#" => k = Len(uri)
               /\ uri[k] = "?" => k = Len(uri) \/ (k = Len(uri) - 1 /\ uri[Len(uri)] = "#")
    <3>1. ASSUME uri[k] = "#" PROVE k = Len(uri)
      <4>1. k - off = Len(target)
        BY <2>4, <2>5, <3>1 DEF AtEnd
      <4> QED
        BY <1>3, <1>4, <2>3, <4>1
    <3>2. ASSUME uri[k] = "?" PROVE k = Len(uri) \/ (k = Len(uri) - 1 /\ uri[Len(uri)] = "#")
      <4>1. k - off = Len(target) \/ (k - off = Len(target) - 1 /\ target[Len(target)] = "#")
        BY <2>4, <2>5, <3>2 DEF AtEnd
      <4>2. CASE k - off = Len(target)
        BY <1>3, <1>4, <2>3, <4>2
      <4>3. CASE k - off = Len(target) - 1 /\ target[Len(target)] = "#"
        <5>1. k = Len(uri) - 1
          BY <1>3, <1>4, <2>3, <4>3
        <5>2. Len(uri) \in 1..Len(uri)
          BY <1>3
        <5>3. uri[Len(uri)] = target[Len(target)]
          <6>1. Len(target) = Len(uri) - off /\ Len(target) - (end - off) \in 1..Len(tail)
            BY <1>3, <1>4, <1>7, <2>1, <2>3, <4>3, <5>1
          <6>2. target[Len(target)] = tail[Len(tail)]
            <7>1. Len(target) - (end - off) = Len(tail)
              BY <1>3, <1>4, <2>1, <2>3
            <7>2. Len(tail) + (end - off) = Len(target)
              BY <1>3, <1>4, <2>1, <2>3
            <7> QED
              BY <2>3, <6>1, <7>1, <7>2
          <6>3. tail[Len(tail)] = rest[Len(rest)]
            <7>1. Len(tail) \in 1..Len(tail) /\ end + Len(tail) - 1 = Len(rest)
              BY <1>3, <1>4, <1>7, <2>1
            <7> QED
              BY <2>1, <7>1
          <6>4. rest[Len(rest)] = uri[Len(uri)]
            BY <1>3, <1>4, <1>7
          <6> QED
            BY <6>2, <6>3, <6>4
        <5> QED
          BY <4>3, <5>1, <5>3
      <4> QED
        BY <4>1, <4>2, <4>3
    <3> QED
      BY <3>1, <3>2
  <2> QED
    BY <2>6 DEF AtEnd
<1> QED
  BY <1>6, <1>7, SMTT(20)

\* The query of a URI that one is appended to: it has a second "?" when the URI
\* has one already, and is nothing when the URI ends with "#".
LEMMA AppendedQuery ==
  ASSUME NEW uri \in Text, AtEnd(uri), NEW enc, Lacks(enc, "#")
  PROVE  LET query == PathQueryFragment((uri \o <<"?">>) \o enc).query
         IN /\ ~Lacks(uri, "#") => query = <<>>
            /\ Lacks(uri, "#") => query \in {<<>> \o enc, <<"?">> \o enc}
<1> DEFINE text == (uri \o <<"?">>) \o enc
           n == Len(uri)
<1>1. /\ <<"?">> \in Text /\ Lacks(<<"?">>, "#") /\ enc \in Text /\ Len(<<"?">>) = 1
      /\ n \in Nat
  BY QuestionFacts, LacksOne DEF Lacks, Text
<1>2. /\ uri \o <<"?">> \in Text /\ Len(uri \o <<"?">>) = n + 1
      /\ \A i \in 1..n : (uri \o <<"?">>)[i] = uri[i]
  BY <1>1, ConcatText
<1>3. /\ text \in Text /\ Len(text) = n + 1 + Len(enc) /\ Len(enc) \in Nat
      /\ \A i \in 1..n : text[i] = uri[i]
  BY <1>1, <1>2, ConcatText
<1>4. ASSUME ~Lacks(uri, "#")
      PROVE  PathQueryFragment(text).query = <<>>
  <2>1. PICK k \in 1..n : uri[k] = "#"
    BY <1>4 DEF Lacks
  <2>2. k = n /\ n \in 1..n /\ uri[n] = "#"
    BY <2>1 DEF AtEnd
  <2>3. \A j \in 1..(n - 1) : text[j] # "#" /\ (text[j] = "?" => j = n - 1)
    BY <1>1, <1>3 DEF AtEnd
  <2> HIDE DEF text, n
  <2>4. Find(text, "#") = n
    BY <1>1, <1>3, <2>2, <2>3, FindIs
  <2>5. /\ Find(text, "?") \in 0..Len(text)
        /\ Find(text, "?") # 0 => text[Find(text, "?")] = "?"
    BY <1>3, FindFirst
  <2>6. Find(text, "?") = 0 \/ Find(text, "?") = n - 1 \/ Find(text, "?") > n
    <3>1. Find(text, "?") # n
      BY <1>3, <2>2, <2>5
    <3>2. Find(text, "?") \in 1..(n - 1) => Find(text, "?") = n - 1
      BY <2>3, <2>5
    <3> QED
      BY <1>1, <1>3, <2>5, <3>1, <3>2
  <2> DEFINE hashtag == IF Find(text, "#") = 0 THEN Len(text) + 1 ELSE Find(text, "#")
             question == IF Find(text, "?") = 0 \/ Find(text, "?") > hashtag
                         THEN hashtag ELSE Find(text, "?")
  <2>7. PathQueryFragment(text).query = SubSeq(text, question + 1, n - 1)
    <3>1. PathQueryFragment(text).query = SubSeq(text, question + 1, hashtag - 1)
      BY DEF PathQueryFragment
    <3>2. hashtag = n
      BY <1>1, <2>2, <2>4
    <3> QED
      BY <3>1, <3>2
  <2>8. question \in {n, n - 1}
    BY <1>1, <2>2, <2>4, <2>6
  <2> HIDE DEF question
  <2>9. question + 1 \in Int /\ n - 1 \in Int /\ n - 1 < question + 1
    BY <1>1, <2>8
  <2> QED
    BY <2>7, <2>9, SubSeqEmpty
<1>5. ASSUME Lacks(uri, "#")
      PROVE  PathQueryFragment(text).query \in {<<>> \o enc, <<"?">> \o enc}
  <2>1. CASE Lacks(uri, "?")
    <3>1. PathQueryFragment(text).query = enc
      BY <1>1, <1>5, <2>1, PathWithQuery DEF Lacks
    <3>2. <<>> \o enc = enc
      BY <1>1, ConcatEmptySeq DEF Text
    <3> QED
      BY <3>1, <3>2
  <2>2. CASE ~Lacks(uri, "?")
    <3>1. PICK k \in 1..n : uri[k] = "?"
      BY <2>2 DEF Lacks
    <3>2. \A j \in 1..n : uri[j] = "?" => j = n
      <4>1. \A j \in 1..n : uri[j] # "#"
        BY <1>5 DEF Lacks
      <4>2. n # 0 => n \in 1..n
        BY <1>1
      <4> QED
        BY <3>1, <4>1, <4>2 DEF AtEnd
    <3>3. n \in 1..n /\ n - 1 \in 0..n /\ uri[n] = "?"
      BY <1>1, <3>1, <3>2
    <3> DEFINE front == SubSeq(uri, 1, n - 1)
    <3>4. front \in Text /\ Len(front) = n - 1 /\ \A j \in 1..(n - 1) : front[j] = uri[j]
      BY <1>1, <3>3 DEF Text
    <3> HIDE DEF front
    <3>5. \A j \in 1..Len(front) : front[j] # "?" /\ front[j] # "#"
      BY <1>1, <1>5, <3>2, <3>4 DEF Lacks
    <3>6. front \o <<"?">> = uri
      <4> DEFINE u == front \o <<"?">>
      <4>1. u \in Text /\ Len(u) = n /\ \A j \in 1..(n - 1) : u[j] = front[j]
        BY <1>1, <3>4, ConcatText
      <4>2. u[n] = "?"
        <5>1. (n - 1) + 1 = n /\ 1 \in 1..1 /\ <<"?">>[1] = "?"
          BY <1>1
        <5>2. u[Len(front) + 1] = <<"?">>[1]
          <6> DEFINE mark == <<"?">>
          <6>1. mark \in Text /\ 1 \in 1..Len(mark)
            BY <1>1
          <6> HIDE DEF mark
          <6>2. (front \o mark)[Len(front) + 1] = mark[1]
            BY <3>4, <6>1, ConcatText, Zenon
          <6> QED
            BY <6>2 DEF mark
        <5> QED
          BY <3>4, <5>1, <5>2
      <4> HIDE DEF u
      <4>3. \A j \in 1..n : u[j] = uri[j]
        BY <1>1, <3>3, <3>4, <4>1, <4>2
      <4>4. u = uri
        BY <4>1, <4>3, SeqEqual DEF Text
      <4> QED
        BY <4>4 DEF u
    <3>7. text = (front \o <<"?">>) \o (<<"?">> \o enc)
      <4> DEFINE mark == <<"?">>
      <4>1. mark \in Text
        BY <1>1
      <4> HIDE DEF mark
      <4>2. (uri \o mark) \o enc = uri \o (mark \o enc)
        BY <1>1, <4>1, TextAssoc, Zenon
      <4> QED
        BY <3>6, <4>2, Zenon DEF mark
    <3>8. Lacks(<<"?">> \o enc, "#")
      BY <1>1, LacksConcat
    <3>9. PathQueryFragment(text).query = <<"?">> \o enc
      <4> DEFINE longer == <<"?">> \o enc
      <4>1. longer \in Text /\ \A j \in 1..Len(longer) : longer[j] # "#"
        BY <3>8 DEF Lacks
      <4>2. text = (front \o <<"?">>) \o longer
        BY <3>7, SMTT(20)
      <4> HIDE DEF longer, text
      <4>3. PathQueryFragment(text).query = longer
        BY <3>4, <3>5, <4>1, <4>2, PathWithQuery
      <4> QED
        BY <4>3 DEF longer
    <3> QED
      BY <3>9
  <2> QED
    BY <2>1, <2>2
<1> QED
  BY <1>4, <1>5

-----------------------------------------------------------------------------
(***************************************************************************)
(* Texts with a known shape: what is encoded, pairs, authorities, cookies. *)
(***************************************************************************)
LEMMA ReplaceEach ==
  ASSUME NEW t \in Text, NEW c, NEW d \in Symbol
  PROVE  /\ Replace(t, c, d) \in Text
         /\ Len(Replace(t, c, d)) = Len(t)
         /\ \A i \in 1..Len(t) : /\ t[i] = c => Replace(t, c, d)[i] = d
                                 /\ t[i] # c => Replace(t, c, d)[i] = t[i]
<1> DEFINE f == [i \in 1..Len(t) |-> IF t[i] = c THEN d ELSE t[i]]
<1>1. Replace(t, c, d) = f
  BY DEF Replace, Map
<1>2. Len(t) \in Nat /\ \A i \in 1..Len(t) : t[i] \in Symbol
  BY DEF Text
<1>3. f \in [1..Len(t) -> Symbol]
  BY <1>2
<1>4. \A i \in 1..Len(t) : (t[i] = c => f[i] = d) /\ (t[i] # c => f[i] = t[i])
  OBVIOUS
<1> HIDE DEF f
<1>5. f \in Text /\ Len(f) = Len(t)
  BY <1>2, <1>3, FunctionIsSeq DEF Text
<1> QED
  BY <1>1, <1>4, <1>5

\* What is encoded is not there any more.
LEMMA EncodedLacks ==
  ASSUME NEW t \in Text, NEW u, NEW c \in Reserved \ u
  PROVE  Lacks(SafeEncode(t, u), c)
<1> DEFINE e == SafeEncode(t, u)
<1>1. /\ e \in Text /\ Len(e) = Len(t)
      /\ \A i \in 1..Len(t) : t[i] \in Reserved \ u => e[i] = Escaped(t[i])
      /\ \A i \in 1..Len(t) : t[i] \notin Reserved \ u => e[i] = t[i]
  BY SafeEncodeAt
<1> HIDE DEF e
<1>2. \A i \in 1..Len(e) : e[i] # c
  BY <1>1, EscapedFacts
<1> QED
  BY <1>1, <1>2 DEF Lacks, e

TextPairs == {pair \in Seq(Text) : Len(pair) = 2}

LEMMA MakeTextPair ==
  ASSUME NEW a \in Text, NEW b \in Text
  PROVE  <<a, b>> \in TextPairs
<1>1. <<a, b>> \in Seq(Text) /\ Len(<<a, b>>) = 2
  OBVIOUS
<1> QED
  BY <1>1 DEF TextPairs

LEMMA TextPairFacts ==
  ASSUME NEW pair \in TextPairs
  PROVE  pair[1] \in Text /\ pair[2] \in Text
<1>1. pair \in Seq(Text) /\ Len(pair) = 2
  BY Zenon DEF TextPairs
<1>2. 1 \in 1..Len(pair) /\ 2 \in 1..Len(pair)
  BY <1>1
<1> QED
  BY <1>1, <1>2, ElementOfSeq

LEMMA WordFacts ==
  ASSUME NEW c \in Word
  PROVE  /\ c \in Symbol /\ <<c>> \in Text /\ Len(<<c>>) = 1 /\ <<c>>[1] = c
         /\ c \notin Reserved /\ c # CookieSeparator
         /\ c \notin {":", "/", "?", "#", "=", "&", "+", "https://"}
<1>1. c \in Symbol /\ c \notin Reserved /\ c # CookieSeparator
  BY WordAssumption DEF Symbol
<1>2. c \notin {":", "/", "?", "#", "=", "&", "+", "https://"}
  BY <1>1 DEF Reserved
<1> QED
  BY <1>1, <1>2 DEF Text

LEMMA TailCons ==
  ASSUME NEW c \in Symbol, NEW t \in Text
  PROVE  /\ <<c>> \in Text /\ <<c>> \o t \in Text /\ <<c>> \o t # <<>>
         /\ Len(<<c>> \o t) = 1 + Len(t) /\ (<<c>> \o t)[1] = c
         /\ Head(<<c>> \o t) = c /\ Tail(<<c>> \o t) = t
<1> DEFINE u == <<c>> \o t
<1>1. <<c>> \in Text /\ Len(<<c>>) = 1 /\ <<c>>[1] = c
  BY DEF Text
<1>2. /\ u \in Text /\ Len(u) = 1 + Len(t) /\ Len(t) \in Nat
      /\ \A i \in 1..Len(<<c>>) : u[i] = <<c>>[i]
      /\ \A i \in 1..Len(t) : u[1 + i] = t[i]
  BY <1>1, ConcatText
<1>3. u[1] = c
  <2>1. 1 \in 1..Len(<<c>>)
    BY <1>1
  <2> QED
    BY <1>1, <1>2, <2>1
<1> HIDE DEF u
<1>4. u # <<>>
  <2>1. Len(<<>>) = 0
    OBVIOUS
  <2> QED
    BY <1>2, <2>1
<1>5. /\ Head(u) = c /\ Tail(u) \in Seq(Symbol) /\ Len(Tail(u)) = Len(t)
      /\ \A i \in 1..Len(Tail(u)) : Tail(u)[i] = t[i]
  BY <1>2, <1>3, <1>4 DEF Text
<1>6. Tail(u) = t
  <2> DEFINE v == Tail(u)
  <2> HIDE DEF v
  <2>1. v \in Seq(Symbol) /\ Len(v) = Len(t) /\ \A i \in 1..Len(v) : v[i] = t[i]
    BY <1>5 DEF v
  <2>2. v = t
    BY <2>1, SeqEqual DEF Text
  <2> QED
    BY <2>2 DEF v
<1> QED
  BY <1>1, <1>2, <1>3, <1>4, <1>5, <1>6 DEF u

LEMMA StartsWithSlash ==
  ASSUME NEW t \in Text, t # <<>>
  PROVE  StartsWith(t, <<"/">>) <=> t[1] = "/"
<1> DEFINE u == SubSeq(t, 1, 1)
           s == <<"/">>
<1>1. Len(t) \in Nat /\ 1 <= Len(t)
  BY DEF Text
<1>2. Len(s) = 1 /\ s[1] = "/" /\ s \in Seq({"/"})
  OBVIOUS
<1>3. u \in Text /\ Len(u) = 1 /\ u[1] = t[1]
  BY <1>1 DEF Text
<1>4. StartsWith(t, s) <=> u = s
  BY <1>1, <1>2 DEF StartsWith
<1>5. s \in Text
  BY QuestionFacts DEF Text
<1> HIDE DEF u, s
<1>6. \A i \in 1..1 : i = 1
  OBVIOUS
<1>7. u = s <=> u[1] = "/"
  BY <1>2, <1>3, <1>5, <1>6, SeqEqual DEF Text
<1> QED
  BY <1>3, <1>4, <1>7 DEF s

\* What is before a path.
IsAuthority(a) == Lacks(a, "/") /\ Lacks(a, "?") /\ Lacks(a, "#") /\ a # <<>>

\* How the service reads a URI written from an authority and a path.
Denotes(a, host, port) ==
  /\ port \in Nat /\ port <= MaxPort /\ Find(a, ":") # 1
  /\ Find(a, ":") = 0 => port = 443 /\ host = a
  /\ Find(a, ":") # 0 => /\ stoi(SubSeq(a, Find(a, ":") + 1, Len(a))) = port
                         /\ host = SubSeq(a, 1, Find(a, ":") - 1)

LEMMA UriOf ==
  ASSUME NEW a, IsAuthority(a), NEW path, Lacks(path, "?"), Lacks(path, "#"),
         path = <<>> \/ path[1] = "/", NEW hostname, NEW port, Denotes(a, hostname, port)
  PROVE  LET uri == Uri((<<"https://">> \o a) \o path)
         IN /\ uri.scheme = "https://" /\ uri.port = port /\ uri.host = hostname
            /\ uri.pathQueryFragment = IF path = <<>> THEN <<"/">> ELSE path
<1> DEFINE text == (<<"https://">> \o a) \o path
           rest == a \o path
           end == FindFirstOf(rest, {"/", "?", "#"})
<1>1. a \in Text /\ path \in Text /\ "https://" \in Symbol /\ <<"https://">> \in Text
  BY DEF IsAuthority, Lacks, Symbol, Reserved, Text
<1>2. /\ rest \in Text /\ Tail(text) = rest /\ Head(text) = "https://" /\ text # <<>>
      /\ Len(rest) = Len(a) + Len(path)
  <2>1. text = <<"https://">> \o (a \o path)
    BY <1>1, TextAssoc
  <2>2. a \o path \in Text /\ Len(rest) = Len(a) + Len(path)
    BY <1>1, ConcatText
  <2> QED
    BY <1>1, <2>1, <2>2, TailCons
<1>3. Len(a) \in Nat /\ Len(a) > 0 /\ Len(path) \in Nat
  BY <1>1 DEF IsAuthority, Text
<1>4. rest # <<>>
  <2> HIDE DEF rest
  <2>1. Len(<<>>) = 0
    OBVIOUS
  <2> QED
    BY <1>2, <1>3, <2>1
<1>5. \A j \in 1..Len(a) : a[j] \notin {"/", "?", "#"}
  BY DEF IsAuthority, Lacks
<1> DEFINE authority == IF end = 0 THEN rest ELSE SubSeq(rest, 1, end - 1)
           tail == IF end = 0 THEN <<>> ELSE SubSeq(rest, end, Len(rest))
           target == IF StartsWith(tail, <<"/">>) THEN tail ELSE <<"/">> \o tail
<1>6. authority = a /\ target = IF path = <<>> THEN <<"/">> ELSE path
  <2>1. CASE path = <<>>
    <3>1. rest = a
      BY <1>1, <2>1, ConcatEmptySeq DEF Text
    <3>2. end = 0
      <4>1. end \in 0..Len(rest) /\ (end # 0 => rest[end] \in {"/", "?", "#"})
        <5> HIDE DEF rest
        <5> QED
          BY <1>2, FindFirstOfFirst
      <4> HIDE DEF end
      <4> QED
        BY <1>3, <1>5, <3>1, <4>1
    <3>3. authority = a /\ tail = <<>>
      BY <3>1, <3>2
    <3>4. ~StartsWith(<<>>, <<"/">>)
      BY DEF StartsWith
    <3>5. <<"/">> \o <<>> = <<"/">>
      OBVIOUS
    <3> HIDE DEF tail, authority
    <3> QED
      BY <2>1, <3>3, <3>4, <3>5
  <2>2. CASE path # <<>>
    <3>1. path[1] = "/"
      BY <2>2
    <3>2. end = Len(a) + 1
      BY <1>1, <1>5, <2>2, <3>1, FindFirstOfConcat
    <3>3. SubSeq(rest, 1, Len(a)) = a /\ SubSeq(rest, Len(a) + 1, Len(rest)) = path
      BY <1>1, ConcatText
    <3>4. end # 0 /\ end - 1 = Len(a)
      <4> HIDE DEF end
      <4> QED
        BY <1>3, <3>2
    <3>5. authority = a /\ tail = path
      <4> HIDE DEF end, rest
      <4> QED
        BY <3>2, <3>3, <3>4
    <3>6. StartsWith(path, <<"/">>)
      BY <1>1, <2>2, <3>1, StartsWithSlash
    <3> HIDE DEF tail, authority
    <3> QED
      BY <2>2, <3>5, <3>6
  <2> QED
    BY <2>1, <2>2, Zenon
<1> HIDE DEF text, rest, end
<1> DEFINE colon == Find(authority, ":")
           p == IF colon > 0 THEN stoi(SubSeq(authority, colon + 1, Len(authority)))
                ELSE IF Head(text) = "https://" THEN 443 ELSE 80
<1>7. Uri(text) = IF \/ text = <<>>
                     \/ Head(text) \notin {"https://", "http://"}
                     \/ rest = <<>>
                     \/ colon = 1
                     \/ p = NULL
                     \/ p > MaxPort
                  THEN NULL
                  ELSE [scheme |-> Head(text),
                        host |-> IF colon > 0 THEN SubSeq(authority, 1, colon - 1) ELSE authority,
                        port |-> p, pathQueryFragment |-> target,
                        parts |-> PathQueryFragment(target)]
  BY <1>2, ZenonT(30) DEF Uri, end
<1> HIDE DEF authority, target
<1>8. colon = Find(a, ":") /\ colon \in Nat
  BY <1>1, <1>6, FindFirst
<1>9. p = port
  BY <1>2, <1>6, <1>8 DEF Denotes
<1>10. port # NULL /\ ~(port > MaxPort) /\ colon # 1
  BY <1>8, NullAssumption DEF MaxPort, Denotes
<1> DEFINE host == IF colon > 0 THEN SubSeq(authority, 1, colon - 1) ELSE authority
<1> HIDE DEF colon, p
<1>11. Uri(text) = [scheme |-> "https://", host |-> host, port |-> port,
                    pathQueryFragment |-> target, parts |-> PathQueryFragment(target)]
  BY <1>2, <1>4, <1>7, <1>8, <1>9, <1>10, Zenon
<1> HIDE DEF host
<1>12. /\ Uri(text).scheme = "https://" /\ Uri(text).host = host /\ Uri(text).port = port
       /\ Uri(text).pathQueryFragment = target
  BY <1>11
<1>13. host = hostname
  BY <1>6, <1>8 DEF host, Denotes
<1> QED
  BY <1>6, <1>12, <1>13 DEF text

\* The names and the values of cookies.
Cuts(texts) == [i \in 1..Len(texts) |-> NameValue(texts[i])]

IsCookie(t) == t \in Text /\ Find(t, "=") # 0 /\ Lacks(t, CookieSeparator)

LEMMA DecodedCookies ==
  ASSUME NEW texts \in Seq(Text), texts # <<>>, \A i \in 1..Len(texts) : IsCookie(texts[i])
  PROVE  /\ DecodeCookies(Join(texts, CookieSeparator)) = Cuts(texts)
         /\ Cuts(texts) # NULL
<1>1. \A i \in 1..Len(texts) : /\ texts[i] \in Text /\ Find(texts[i], "=") # 0
                               /\ \A j \in 1..Len(texts[i]) : texts[i][j] # CookieSeparator
  BY DEF IsCookie, Lacks
<1>2. DecodeCookies(Join(texts, CookieSeparator)) = Cuts(texts)
  BY <1>1, DecodeCookieTexts DEF Cuts, NameValue
<1>3. \A i \in 1..Len(texts) : NameValue(texts[i]) \in Seq(Text)
  BY <1>1, AfterFind DEF NameValue
<1>4. Cuts(texts) \in [1..Len(texts) -> Seq(Text)]
  BY <1>3 DEF Cuts
<1>5. Cuts(texts) \in Seq(Seq(Text))
  BY <1>4, FunctionIsSeq
<1> QED
  BY <1>2, <1>5, NullAssumption

\* The name of a cookie that is read as it was written.
IsName(n) == Lacks(n, "=") /\ Lacks(n, CookieSeparator)

\* The text of a session cookie.
LEMMA OwnCookie ==
  ASSUME NEW n, IsName(n), NEW v, Lacks(v, CookieSeparator)
  PROVE  LET t == (n \o <<"=">>) \o v
         IN IsCookie(t) /\ NameValue(t) = <<n, v>>
<1> DEFINE t == (n \o <<"=">>) \o v
           e == Find(t, "=")
<1>1. n \in Text /\ v \in Text /\ "=" \in Symbol /\ Len(n) \in Nat
  BY SeparatorFacts DEF IsName, Lacks, Text
<1>2. /\ t \in Text /\ e = Len(n) + 1
      /\ SubSeq(t, 1, Len(n)) = n /\ SubSeq(t, Len(n) + 2, Len(t)) = v
  BY <1>1, FindConcat DEF IsName, Lacks
<1>3. Lacks(t, CookieSeparator)
  <2>1. "=" # CookieSeparator
    BY Zenon DEF CookieSeparator
  <2>2. Lacks(<<"=">>, CookieSeparator)
    BY <1>1, <2>1, LacksOne
  <2>3. Lacks(n \o <<"=">>, CookieSeparator)
    BY <2>2, LacksConcat DEF IsName
  <2> QED
    BY <2>3, LacksConcat
<1> HIDE DEF t, e
<1>4. e # 0 /\ e - 1 = Len(n) /\ e + 1 = Len(n) + 2
  BY <1>1, <1>2
<1>5. NameValue(t) = <<SubSeq(t, 1, e - 1), SubSeq(t, e + 1, Len(t))>>
  BY Zenon DEF NameValue, e
<1>6. NameValue(t) = <<n, v>>
  BY <1>2, <1>4, <1>5, Zenon
<1>7. IsCookie(t)
  BY <1>2, <1>3, <1>4, Zenon DEF IsCookie, e
<1> QED
  BY <1>6, <1>7, Zenon DEF t

LEMMA OneSub ==
  ASSUME NEW t \in Text, NEW k \in 1..Len(t)
  PROVE  SubSeq(t, k, k) = <<t[k]>>
<1> DEFINE a == SubSeq(t, k, k)
           b == <<t[k]>>
<1>1. k \in Int /\ \A j \in k..k : t[j] \in Symbol
  BY DEF Text
<1>2. a \in Seq(Symbol) /\ Len(a) = 1 /\ a[1] = t[k]
  BY <1>1, SubSeqProperties
<1>3. t[k] \in Symbol
  BY DEF Text
<1>4. b \in Seq(Symbol) /\ Len(b) = 1 /\ b[1] = t[k]
  BY <1>3
<1> HIDE DEF a, b
<1>5. \A i \in 1..1 : i = 1
  OBVIOUS
<1>6. a = b
  BY <1>2, <1>4, <1>5, SeqEqual
<1> QED
  BY <1>6 DEF a, b

LEMMA EscapedLowerSymbol ==
  /\ \A c \in Reserved : EscapedLower(c) \in Symbol
  /\ \A c \in Reserved \ HasHexLetter : EscapedLower(c) = Escaped(c)
<1>1. \A c \in Reserved \ HasHexLetter : EscapedLower(c) = Escaped(c)
  BY DEF EscapedLower, HasHexLetter
<1>2. \A c \in HasHexLetter : EscapedLower(c) \in Symbol
  BY DEF LowerEscapes, Escapes, Symbol
<1> QED
  BY <1>1, <1>2, EscapedSymbol

\* A parameter the IdP adds, split at its only "=".
LEMMA ExtraPart ==
  ASSUME NEW t \in Text, NEW k \in 1..Len(t), \A j \in 1..Len(t) : (t[j] = "=") <=> (j = k),
         Range(t) \cap ((Reserved \ {"="}) \cup LowerEscapes) = {}
  PROVE  /\ Decodable(NameValue(t)[1]) /\ Decodable(NameValue(t)[2])
         /\ t = (NameValue(t)[1] \o <<"=">>) \o NameValue(t)[2]
<1> DEFINE l == SubSeq(t, 1, k - 1)
           r == SubSeq(t, k + 1, Len(t))
<1>1. Len(t) \in Nat /\ k \in Nat /\ k <= Len(t) /\ k - 1 \in 0..Len(t) /\ k + 1 \in Nat \ {0}
  BY DEF Text
<1>2. Find(t, "=") = k
  BY <1>1, FindIs
<1>3. NameValue(t)[1] = l /\ NameValue(t)[2] = r
  BY <1>2 DEF NameValue
<1>4. l \in Text /\ Len(l) = k - 1 /\ \A j \in 1..(k - 1) : l[j] = t[j]
  <2>1. /\ l \in Text
        /\ 1 <= k - 1 => Len(l) = k - 1 - 1 + 1
        /\ \A j \in 1..(k - 1 - 1 + 1) : l[j] = t[1 + j - 1]
        /\ k - 1 < 1 => l = <<>>
    BY <1>1, SubSeqText
  <2>2. Len(<<>>) = 0
    OBVIOUS
  <2> QED
    BY <1>1, <2>1, <2>2
<1>5. r \in Text /\ Len(r) = Len(t) - k /\ \A j \in 1..(Len(t) - k) : r[j] = t[k + j]
  <2>1. /\ r \in Text
        /\ k + 1 <= Len(t) => Len(r) = Len(t) - (k + 1) + 1
        /\ \A j \in 1..(Len(t) - (k + 1) + 1) : r[j] = t[(k + 1) + j - 1]
        /\ Len(t) < k + 1 => r = <<>>
    <3>1. Len(t) \in 0..Len(t)
      BY <1>1
    <3> QED
      BY <1>1, <3>1, SubSeqText
  <2>2. Len(<<>>) = 0
    OBVIOUS
  <2> QED
    BY <1>1, <2>1, <2>2
<1> HIDE DEF l, r
<1>6. ASSUME NEW j \in 1..Len(t), j # k
      PROVE  t[j] \notin Reserved \cup LowerEscapes
  <2>1. t[j] \in Range(t)
    BY DEF Range, Text
  <2> QED
    BY <1>6, <2>1
<1>7. Decodable(l) /\ Decodable(r)
  <2>1. \A j \in 1..Len(l) : l[j] \notin Reserved \cup LowerEscapes
    BY <1>1, <1>4, <1>6
  <2>2. \A j \in 1..Len(r) : r[j] \notin Reserved \cup LowerEscapes
    BY <1>1, <1>5, <1>6
  <2> QED
    BY <1>4, <1>5, <2>1, <2>2 DEF Decodable
<1>8. t = (l \o <<"=">>) \o r
  <2> DEFINE u == l \o <<"=">>
  <2>1. <<"=">> \in Text /\ Len(<<"=">>) = 1 /\ <<"=">>[1] = "="
    BY SeparatorFacts DEF Text
  <2>2. /\ u \in Text /\ Len(u) = k /\ u[k] = "=" /\ \A j \in 1..(k - 1) : u[j] = l[j]
    <3> DEFINE e == <<"=">>
    <3>1. e \in Text /\ l \in Text /\ Len(e) = 1 /\ e[1] = "="
      BY <1>4, <2>1
    <3> HIDE DEF e
    <3>2. /\ l \o e \in Text /\ Len(l \o e) = Len(l) + Len(e)
          /\ \A i \in 1..Len(l) : (l \o e)[i] = l[i]
          /\ \A i \in 1..Len(e) : (l \o e)[Len(l) + i] = e[i]
      BY <3>1, ConcatText, Zenon
    <3>3. u = l \o e
      BY DEF e
    <3> HIDE DEF u
    <3>4. 1 \in 1..Len(e) /\ Len(l) = k - 1 /\ k \in Nat /\ (k - 1) + 1 = k
      BY <1>1, <1>4, <3>1
    <3> QED
      BY <3>1, <3>2, <3>3, <3>4
  <2> HIDE DEF u
  <2>3. /\ u \o r \in Text /\ Len(u \o r) = Len(t)
        /\ \A j \in 1..k : (u \o r)[j] = u[j]
        /\ \A j \in (k + 1)..Len(t) : (u \o r)[j] = r[j - k]
    <3> DEFINE v == u \o r
    <3>0. u \in Text /\ r \in Text
      BY <1>5, <2>2
    <3>1. /\ v \in Text /\ Len(v) = Len(u) + Len(r)
          /\ \A i \in 1..Len(u) : v[i] = u[i]
          /\ \A i \in 1..Len(r) : v[Len(u) + i] = r[i]
      BY <3>0, ConcatText
    <3> HIDE DEF v
    <3>2. v \in Text /\ Len(v) = Len(t) /\ \A j \in 1..k : v[j] = u[j]
      BY <1>1, <1>5, <2>2, <3>1
    <3>3. ASSUME NEW j \in (k + 1)..Len(t)
          PROVE  v[j] = r[j - k]
      <4>1. j - k \in 1..Len(r) /\ k + (j - k) = j
        BY <1>1, <1>5
      <4> QED
        BY <2>2, <3>1, <4>1
    <3> QED
      BY <3>2, <3>3 DEF v
  <2>4. \A j \in 1..Len(t) : (u \o r)[j] = t[j]
    BY <1>1, <1>4, <1>5, <2>2, <2>3
  <2>5. u \o r = t
    BY <2>3, <2>4, SeqEqual, Zenon DEF Text
  <2> QED
    BY <2>5 DEF u
<1> QED
  BY <1>3, <1>7, <1>8

LEMMA DecodeWord ==
  ASSUME NEW c \in Word
  PROVE  Decodable(<<c>>) /\ UrlSafeDecode(<<c>>) = <<c>>
<1>1. <<c>> \in Text /\ Len(<<c>>) = 1 /\ <<c>>[1] = c
  BY WordFacts
<1>2. c \notin Reserved /\ c \notin Escapes
  BY WordAssumption
<1> DEFINE t == <<c>>
           d == UrlSafeDecode(t)
<1> HIDE DEF t
<1>3. t \in Text /\ Len(t) = 1 /\ \A i \in 1..Len(t) : t[i] = c
  BY <1>1 DEF t
<1>4. \A i \in 1..Len(t) : t[i] \notin Reserved \cup LowerEscapes /\ t[i] \notin UpperEscapes
  BY <1>2, <1>3 DEF Escapes
<1>5. Decodable(t)
  BY <1>3, <1>4 DEF Decodable
<1>6. d \in Text /\ Len(d) = Len(t) /\ \A i \in 1..Len(t) : t[i] \notin UpperEscapes => d[i] = t[i]
  BY <1>3, <1>4, UrlSafeDecodeAt
<1> HIDE DEF d
<1>7. d = t
  BY <1>3, <1>4, <1>6, SeqEqual DEF Text
<1> QED
  BY <1>5, <1>7 DEF t, d

LEMMA QueryText ==
  ASSUME NEW t \in Text
  PROVE  PathQueryFragment(t).query \in Text
<1> DEFINE end == Len(t) + 1
           h == Find(t, "#")
           hashtag == IF h = 0 THEN end ELSE h
           q == Find(t, "?")
           question == IF q = 0 \/ q > hashtag THEN hashtag ELSE q
<1>1. Len(t) \in Nat /\ h \in 0..Len(t) /\ q \in 0..Len(t)
  BY FindFirst DEF Text
<1>2. PathQueryFragment(t).query = SubSeq(t, question + 1, hashtag - 1)
  BY Zenon DEF PathQueryFragment
<1> HIDE DEF h, q
<1>3. hashtag \in Nat \ {0} /\ hashtag - 1 \in 0..Len(t) /\ question + 1 \in Nat \ {0}
  BY <1>1
<1> HIDE DEF hashtag, question
<1> QED
  BY <1>2, <1>3, SubSeqText, Zenon

\* What DecodeQueryData gives are texts.
LEMMA DecodedText ==
  ASSUME NEW q \in Text, DecodeQueryData(q) # NULL, NEW key, FindKey(DecodeQueryData(q), key) # NULL
  PROVE  FindKey(DecodeQueryData(q), key) \in Text
<1> DEFINE parts == Split(q, "&")
           pairs == [i \in 1..Len(parts) |-> Map(UrlSafeDecode, Split(parts[i], "="))]
<1>1. parts \in Seq(Text)
  BY SplitType
<1>2. /\ DecodeQueryData(q) = pairs
      /\ \A pair \in Range(pairs) : Len(pair) = 2 /\ NULL \notin Range(pair)
  BY DEF DecodeQueryData, Map
<1> HIDE DEF parts
<1>3. Len(parts) \in Nat /\ Len(pairs) = Len(parts)
  BY <1>1
<1>4. ASSUME NEW i \in 1..Len(parts)
      PROVE  pairs[i][2] \in Text
  <2> DEFINE s == Split(parts[i], "=")
             pair == Map(UrlSafeDecode, s)
  <2>1. pairs[i] = pair /\ pair \in Range(pairs)
    BY DEF Range
  <2>2. Len(pair) = 2 /\ NULL \notin Range(pair)
    BY <1>2, <2>1
  <2>3. s \in Seq(Text) /\ Len(s) \in Nat
    BY <1>1, SplitType
  <2>4. pair = [k \in 1..Len(s) |-> UrlSafeDecode(s[k])]
    BY DEF Map
  <2> HIDE DEF s, pair, pairs
  <2>5. Len(s) = 2
    BY <2>2, <2>3, <2>4
  <2>6. pair[2] = UrlSafeDecode(s[2]) /\ s[2] \in Text /\ pair[2] \in Range(pair)
    <3>1. 2 \in 1..Len(s) /\ DOMAIN pair = 1..Len(s) /\ pair[2] = UrlSafeDecode(s[2])
      BY <2>4, <2>5
    <3>2. s[2] \in Text
      BY <2>3, <3>1, ElementOfSeq
    <3> QED
      BY <3>1, <3>2 DEF Range
  <2>7. UrlSafeDecode(s[2]) # NULL
    BY <2>2, <2>6
  <2> DEFINE t == s[2]
  <2>8. t \in Text /\ UrlSafeDecode(t) # NULL
    BY <2>6, <2>7
  <2> HIDE DEF t
  <2>9. \A j \in 1..Len(t) : t[j] \notin Reserved \cup LowerEscapes
    <3>1. Range(t) \cap (Reserved \cup LowerEscapes) = {}
      BY <2>8 DEF UrlSafeDecode
    <3>2. \A j \in 1..Len(t) : t[j] \in Range(t)
      BY <2>8 DEF Range, Text
    <3> QED
      BY <3>1, <3>2
  <2>10. UrlSafeDecode(t) \in Text
    BY <2>8, <2>9, UrlSafeDecodeAt
  <2> QED
    BY <2>1, <2>6, <2>10 DEF t
<1> DEFINE k == First({j \in 1..Len(pairs) : pairs[j][1] = key})
<1>5. FindKey(pairs, key) = IF k = 0 THEN NULL ELSE pairs[k][2]
  BY DEF FindKey
<1> HIDE DEF pairs
<1>6. k # 0 => k \in 1..Len(parts)
  <2> DEFINE I == {j \in 1..Len(pairs) : pairs[j][1] = key}
  <2>1. I \in SUBSET (Nat \ {0}) /\ I \subseteq 1..Len(parts)
    BY <1>3
  <2>2. k = First(I)
    OBVIOUS
  <2> HIDE DEF I, k
  <2> QED
    BY <2>1, <2>2, FirstIndex
<1> HIDE DEF k
<1> QED
  BY <1>2, <1>4, <1>5, <1>6

-----------------------------------------------------------------------------
(***************************************************************************)
(* What FormDecode reads of a query or form that the service writes.       *)
(***************************************************************************)
\* FormValue works on each symbol by itself.
LEMMA FormValueAt ==
  ASSUME NEW t \in Text
  PROVE  /\ FormValue(t) \in Text
         /\ Len(FormValue(t)) = Len(t)
         /\ \A i \in 1..Len(t) :
              /\ t[i] = "+" => FormValue(t)[i] = Space
              /\ t[i] \in (Word \cup Reserved) \ {"+"} => FormValue(t)[i] = t[i]
              /\ \A r \in Reserved : t[i] = Escaped(r) => FormValue(t)[i] = r
<1> DEFINE f == [i \in 1..Len(t) |->
                   IF t[i] = "+" THEN Space
                   ELSE IF t[i] \in Escapes
                   THEN CHOOSE r \in Reserved : t[i] \in {Escaped(r), EscapedLower(r)}
                   ELSE t[i]]
<1>1. FormValue(t) = f
  BY DEF FormValue, Map
<1>2. Len(t) \in Nat /\ \A i \in 1..Len(t) : t[i] \in Symbol
  BY DEF Text
<1>3. Space \in Reserved /\ "+" \in Reserved /\ Reserved \subseteq Symbol
  BY DEF Reserved, Symbol
<1>4. \A c \in Word \cup Reserved : c \notin Escapes
  BY WordAssumption, ReservedNotEscaped
<1>5. ASSUME NEW r \in Reserved, NEW q \in Reserved, Escaped(r) \in {Escaped(q), EscapedLower(q)}
      PROVE  q = r
  <2>1. CASE Escaped(r) = Escaped(q)
    BY <2>1, EscapedFacts
  <2>2. CASE Escaped(r) = EscapedLower(q) /\ q \in HasHexLetter
    BY <2>2, EscapedFacts DEF LowerEscapes
  <2>3. CASE Escaped(r) = EscapedLower(q) /\ q \notin HasHexLetter
    <3>1. EscapedLower(q) = Escaped(q)
      BY <2>3 DEF EscapedLower, HasHexLetter
    <3> QED
      BY <2>3, <3>1, EscapedFacts
  <2> QED
    BY <1>5, <2>1, <2>2, <2>3
<1>6. ASSUME NEW i \in 1..Len(t), t[i] \in Escapes
      PROVE  \E r \in Reserved : t[i] \in {Escaped(r), EscapedLower(r)}
  BY <1>6 DEF Escapes, UpperEscapes, LowerEscapes, HasHexLetter, Reserved
<1>7. ASSUME NEW i \in 1..Len(t), NEW r \in Reserved, t[i] = Escaped(r)
      PROVE  f[i] = r
  <2>1. t[i] \in Escapes
    BY <1>7 DEF Escapes, UpperEscapes
  <2>2. t[i] # "+"
    BY <1>3, <2>1, ReservedNotEscaped
  <2>3. f[i] = CHOOSE q \in Reserved : t[i] \in {Escaped(q), EscapedLower(q)}
    BY <2>1, <2>2
  <2> QED
    BY <1>5, <1>7, <2>3
<1>8. ASSUME NEW i \in 1..Len(t), t[i] = "+"
      PROVE  f[i] = Space
  BY <1>8
<1>9. ASSUME NEW i \in 1..Len(t), t[i] \in (Word \cup Reserved) \ {"+"}
      PROVE  f[i] = t[i]
  BY <1>4, <1>9
<1>10. ASSUME NEW i \in 1..Len(t)
       PROVE  f[i] \in Symbol
  <2>1. CASE t[i] = "+"
    BY <1>3, <2>1
  <2>2. CASE t[i] # "+" /\ t[i] \in Escapes
    <3>1. f[i] = CHOOSE q \in Reserved : t[i] \in {Escaped(q), EscapedLower(q)}
      BY <2>2
    <3>2. f[i] \in Reserved
      BY <1>6, <2>2, <3>1
    <3> QED
      BY <1>3, <3>2
  <2>3. CASE t[i] # "+" /\ t[i] \notin Escapes
    BY <1>2, <2>3
  <2> QED
    BY <2>1, <2>2, <2>3
<1>11. f \in [1..Len(t) -> Symbol]
  BY <1>10, Zenon
<1> HIDE DEF f
<1>12. f \in Text /\ Len(f) = Len(t)
  BY <1>2, <1>11, FunctionIsSeq DEF Text
<1> QED
  BY <1>1, <1>7, <1>8, <1>9, <1>12

\* A value of a query, and one of a form, are read as they were meant.
LEMMA ReadQueryValue ==
  ASSUME NEW t \in Unencoded
  PROVE  FormValue(SafeEncode(t, {})) = t
<1> DEFINE e == SafeEncode(t, {})
           d == FormValue(e)
<1>1. t \in Text /\ \A i \in 1..Len(t) : t[i] \in Word \cup Reserved
  BY UnencodedIsText DEF Unencoded
<1>2. /\ e \in Text /\ Len(e) = Len(t)
      /\ \A i \in 1..Len(t) : t[i] \in Reserved => e[i] = Escaped(t[i])
      /\ \A i \in 1..Len(t) : t[i] \notin Reserved => e[i] = t[i]
  BY <1>1, SafeEncodeAt
<1> HIDE DEF e
<1>3. /\ d \in Text /\ Len(d) = Len(e)
      /\ \A i \in 1..Len(e) : e[i] \in (Word \cup Reserved) \ {"+"} => d[i] = e[i]
      /\ \A i \in 1..Len(e) : \A r \in Reserved : e[i] = Escaped(r) => d[i] = r
  BY <1>2, FormValueAt
<1>4. "+" \in Reserved
  BY DEF Reserved
<1> HIDE DEF d
<1>5. \A i \in 1..Len(d) : d[i] = t[i]
  BY <1>1, <1>2, <1>3, <1>4
<1>6. d = t
  BY <1>1, <1>2, <1>3, <1>5, SeqEqual DEF Text
<1> QED
  BY <1>6 DEF d, e

LEMMA ReadFormValue ==
  ASSUME NEW t \in Unencoded, \A i \in 1..Len(t) : t[i] # "+"
  PROVE  FormValue(SafeEncode(Replace(t, Space, "+"), {"+"})) = t
<1> DEFINE p == Replace(t, Space, "+")
           e == SafeEncode(p, {"+"})
           d == FormValue(e)
<1>1. t \in Text /\ \A i \in 1..Len(t) : t[i] \in Word \cup Reserved
  BY UnencodedIsText DEF Unencoded
<1>2. "+" \in Reserved /\ "+" \in Symbol
  BY DEF Reserved, Symbol
<1>3. /\ p \in Text /\ Len(p) = Len(t)
      /\ \A i \in 1..Len(t) : t[i] = Space => p[i] = "+"
      /\ \A i \in 1..Len(t) : t[i] # Space => p[i] = t[i]
  BY <1>1, <1>2, ReplaceEach
<1> HIDE DEF p
<1>4. /\ e \in Text /\ Len(e) = Len(p)
      /\ \A i \in 1..Len(p) : p[i] \in Reserved \ {"+"} => e[i] = Escaped(p[i])
      /\ \A i \in 1..Len(p) : p[i] \notin Reserved \ {"+"} => e[i] = p[i]
  BY <1>3, SafeEncodeAt
<1> HIDE DEF e
<1>5. /\ d \in Text /\ Len(d) = Len(e)
      /\ \A i \in 1..Len(e) : e[i] = "+" => d[i] = Space
      /\ \A i \in 1..Len(e) : e[i] \in (Word \cup Reserved) \ {"+"} => d[i] = e[i]
      /\ \A i \in 1..Len(e) : \A r \in Reserved : e[i] = Escaped(r) => d[i] = r
  BY <1>4, FormValueAt
<1> HIDE DEF d
<1>6. ASSUME NEW i \in 1..Len(d) PROVE d[i] = t[i]
  <2>1. i \in 1..Len(t) /\ i \in 1..Len(p) /\ i \in 1..Len(e)
    BY <1>3, <1>4, <1>5
  <2>2. CASE t[i] = Space
    <3>1. p[i] = "+"
      BY <1>3, <2>1, <2>2
    <3>2. e[i] = "+"
      BY <1>4, <2>1, <3>1
    <3> QED
      BY <1>5, <2>1, <2>2, <3>2
  <2>3. CASE t[i] # Space /\ t[i] \in Reserved
    <3>1. p[i] = t[i] /\ p[i] \in Reserved \ {"+"}
      BY <1>3, <2>1, <2>3
    <3>2. e[i] = Escaped(t[i])
      BY <1>4, <2>1, <3>1
    <3> QED
      BY <1>5, <2>1, <2>3, <3>2
  <2>4. CASE t[i] # Space /\ t[i] \notin Reserved
    <3>1. p[i] = t[i] /\ t[i] \in Word
      BY <1>1, <1>3, <2>1, <2>4
    <3>2. e[i] = t[i]
      BY <1>4, <2>1, <2>4, <3>1
    <3> QED
      BY <1>2, <1>5, <2>1, <2>4, <3>1, <3>2
  <2> QED
    BY <2>2, <2>3, <2>4
<1>7. d = t
  BY <1>1, <1>3, <1>4, <1>5, <1>6, SeqEqual DEF Text
<1> QED
  BY <1>7 DEF d, e, p

\* The parts of a query or a form, from keys a and values b.
AreFormParts(parts, a, b) ==
  /\ parts \in Seq(Text) /\ parts # <<>>
  /\ \A i \in 1..Len(parts) :
       /\ Lacks(a[i], "=") /\ Lacks(a[i], "&")
       /\ Lacks(b[i], "=") /\ Lacks(b[i], "&")
       /\ parts[i] = (a[i] \o <<"=">>) \o b[i]

ReadPairs(parts, a, b) == [i \in 1..Len(parts) |-> <<FormValue(a[i]), FormValue(b[i])>>]

LEMMA ReadParts ==
  ASSUME NEW parts, NEW a, NEW b, AreFormParts(parts, a, b)
  PROVE  FormDecode(Join(parts, "&")) = ReadPairs(parts, a, b)
<1> USE DEF AreFormParts
<1>1. ASSUME NEW i \in 1..Len(parts)
      PROVE  /\ \A j \in 1..Len(parts[i]) : parts[i][j] # "&"
             /\ Map(FormValue, Split(parts[i], "=")) = <<FormValue(a[i]), FormValue(b[i])>>
  <2> DEFINE x == a[i]
             y == b[i]
  <2>1. /\ Lacks(x, "=") /\ Lacks(x, "&") /\ Lacks(y, "=") /\ Lacks(y, "&")
        /\ parts[i] = (x \o <<"=">>) \o y
    BY Zenon
  <2> HIDE DEF x, y
  <2>2. Split(parts[i], "=") = <<x, y>>
    <3>1. /\ x \in Text /\ y \in Text /\ "=" \in Symbol
          /\ \A j \in 1..Len(x) : x[j] # "="
          /\ \A j \in 1..Len(y) : y[j] # "="
      BY <2>1, SeparatorFacts DEF Lacks
    <3>2. Split((x \o <<"=">>) \o y, "=") = <<x, y>>
      BY <3>1, SplitPair
    <3> QED
      BY <2>1, <3>2, Zenon
  <2>3. Lacks(<<"=">>, "&")
    BY SeparatorFacts, LacksOne
  <2>4. Lacks(x \o <<"=">>, "&")
    BY <2>1, <2>3, LacksConcat
  <2>5. Lacks(parts[i], "&")
    BY <2>1, <2>4, LacksConcat
  <2>6. Map(FormValue, <<x, y>>) = <<FormValue(x), FormValue(y)>>
    BY DEF Map
  <2> QED
    BY <2>2, <2>5, <2>6, Zenon DEF x, y, Lacks
<1>2. Split(Join(parts, "&"), "&") = parts
  BY <1>1, SplitJoin, SeparatorFacts, Zenon
<1>3. FormDecode(Join(parts, "&")) = [i \in 1..Len(parts) |-> Map(FormValue, Split(parts[i], "="))]
  BY <1>2 DEF FormDecode, Map
<1> QED
  BY <1>1, <1>3, Zenon DEF ReadPairs

Written(t) == FormValue(SafeEncode(t, {}))

\* The parameters are those of data; the first key may have a "?" before it.
Reads(params, data) ==
  /\ Len(params) = Len(data)
  /\ \A i \in 1..Len(data) : /\ params[i][2] = Written(data[i][2])
                             /\ i > 1 => params[i][1] = Written(data[i][1])
  /\ \/ params[1][1] = Written(data[1][1])
     \/ Len(params[1][1]) = 1 + Len(data[1][1])

LEMMA ReadQuery ==
  ASSUME NEW data \in Seq(TextPairs), data # <<>>, NEW pre \in {<<>>, <<"?">>}
  PROVE  /\ Lacks(EncodeQueryData(data), "#")
         /\ Reads(FormDecode(pre \o EncodeQueryData(data)), data)
<1> DEFINE a == [i \in 1..Len(data) |-> SafeEncode(data[i][1], {})]
           b == [i \in 1..Len(data) |-> SafeEncode(data[i][2], {})]
           parts == [i \in 1..Len(data) |-> (a[i] \o <<"=">>) \o b[i]]
           us == [parts EXCEPT ![1] = pre \o parts[1]]
           as == [a EXCEPT ![1] = pre \o a[1]]
<1>1. /\ Len(data) \in Nat /\ 1 \in 1..Len(data)
      /\ \A i \in 1..Len(data) : data[i][1] \in Text /\ data[i][2] \in Text
  <2>1. \A pair \in TextPairs : pair[1] \in Text /\ pair[2] \in Text
    <3> SUFFICES ASSUME NEW pair \in TextPairs PROVE pair[1] \in Text /\ pair[2] \in Text
      OBVIOUS
    <3>1. pair \in Seq(Text) /\ Len(pair) = 2
      BY Zenon DEF TextPairs
    <3>2. 1 \in 1..Len(pair) /\ 2 \in 1..Len(pair)
      BY <3>1
    <3> QED
      BY <3>1, <3>2, ElementOfSeq, Zenon
  <2>2. Len(data) \in Nat /\ 1 \in 1..Len(data) /\ \A i \in 1..Len(data) : data[i] \in TextPairs
    OBVIOUS
  <2> QED
    BY <2>1, <2>2
<1>2. "=" \in Reserved \ {} /\ "&" \in Reserved \ {} /\ "#" \in Reserved \ {} /\ "?" \in Reserved
  BY DEF Reserved
<1>3. \A i \in 1..Len(data) : \A c \in Reserved \ {} : Lacks(a[i], c) /\ Lacks(b[i], c)
  BY <1>1, EncodedLacks
<1>4. Lacks(<<"=">>, "#") /\ Lacks(<<"=">>, "&") /\ <<"=">> \in Text
  BY SeparatorFacts, LacksOne, Zenon DEF Lacks
<1>5. \A i \in 1..Len(data) : Len(a[i]) = Len(data[i][1])
  BY <1>1, SafeEncodeAt
<1>6. EncodeQueryData(data) = Join(parts, "&")
  BY Zenon DEF EncodeQueryData, Map
<1>7. \A i \in 1..Len(data) : parts[i] = (a[i] \o <<"=">>) \o b[i]
  OBVIOUS
<1>8. DOMAIN a = 1..Len(data) /\ parts \in [1..Len(data) -> {parts[i] : i \in 1..Len(data)}]
  BY Zenon
<1>9. \A i \in 1..Len(data) : Written(data[i][1]) = FormValue(a[i]) /\ Written(data[i][2]) = FormValue(b[i])
  BY DEF Written
<1> HIDE DEF a, b, parts
<1>10. \A i \in 1..Len(data) : parts[i] \in Text /\ Lacks(parts[i], "#")
  <2> SUFFICES ASSUME NEW i \in 1..Len(data) PROVE Lacks(parts[i], "#")
    BY DEF Lacks
  <2>1. Lacks(a[i], "#") /\ Lacks(b[i], "#")
    BY <1>2, <1>3
  <2>2. Lacks(a[i] \o <<"=">>, "#")
    BY <1>4, <2>1, LacksConcat
  <2> QED
    BY <1>7, <2>1, <2>2, LacksConcat, Zenon
<1>11. parts \in Seq(Text) /\ Len(parts) = Len(data) /\ parts # <<>>
  <2>1. parts \in [1..Len(data) -> Text]
    BY <1>8, <1>10
  <2>2. parts \in Seq(Text) /\ Len(parts) = Len(data)
    BY <1>1, <2>1, FunctionIsSeq
  <2> QED
    BY <1>1, <2>2, EmptySeq
<1>12. Lacks(EncodeQueryData(data), "#")
  BY <1>6, <1>10, <1>11, JoinLacks, SeparatorFacts
<1>13. pre \in Text /\ Lacks(pre, "=") /\ Lacks(pre, "&") /\ (pre = <<>> \/ Len(pre) = 1)
  BY QuestionFacts, LacksOne, LacksNone DEF Lacks
<1>14. us \in Seq(Text) /\ Len(us) = Len(data) /\ Join(us, "&") = pre \o EncodeQueryData(data)
  BY <1>6, <1>11, <1>13, JoinPrefix, SeparatorFacts, Zenon
<1>15. /\ us[1] = pre \o parts[1] /\ as[1] = pre \o a[1]
       /\ \A i \in 1..Len(data) : i # 1 => us[i] = parts[i] /\ as[i] = a[i]
  BY <1>1, <1>8
<1> HIDE DEF us, as
<1>16. AreFormParts(us, as, b)
  <2>1. us # <<>>
    BY <1>1, <1>14, EmptySeq
  <2>2. Lacks(as[1], "=") /\ Lacks(as[1], "&")
    BY <1>1, <1>2, <1>3, <1>13, <1>15, LacksConcat
  <2>3. us[1] = (as[1] \o <<"=">>) \o b[1]
    <3>1. a[1] \in Text /\ b[1] \in Text
      BY <1>1, <1>2, <1>3 DEF Lacks
    <3>2. a[1] \o <<"=">> \in Text
      BY <1>4, <3>1, ConcatText, Zenon
    <3>3. pre \o ((a[1] \o <<"=">>) \o b[1]) = (pre \o (a[1] \o <<"=">>)) \o b[1]
      BY <1>13, <3>1, <3>2, TextAssoc, Zenon
    <3>4. pre \o (a[1] \o <<"=">>) = (pre \o a[1]) \o <<"=">>
      BY <1>4, <1>13, <3>1, TextAssoc, Zenon
    <3> QED
      BY <1>1, <1>7, <1>15, <3>3, <3>4, Zenon
  <2>4. \A i \in 1..Len(data) : /\ Lacks(as[i], "=") /\ Lacks(as[i], "&")
                                /\ Lacks(b[i], "=") /\ Lacks(b[i], "&")
                                /\ us[i] = (as[i] \o <<"=">>) \o b[i]
    BY <1>2, <1>3, <1>7, <1>15, <2>2, <2>3, Zenon
  <2> QED
    BY <1>14, <2>1, <2>4, Zenon DEF AreFormParts
<1> DEFINE params == ReadPairs(us, as, b)
<1>17. FormDecode(pre \o EncodeQueryData(data)) = params
  BY <1>14, <1>16, ReadParts, Zenon
<1>18. /\ Len(params) = Len(data)
       /\ \A i \in 1..Len(data) : params[i][1] = FormValue(as[i]) /\ params[i][2] = FormValue(b[i])
  BY <1>1, <1>14 DEF ReadPairs
<1> HIDE DEF params
<1>19. params[1][1] = Written(data[1][1]) \/ Len(params[1][1]) = 1 + Len(data[1][1])
  <2>1. a[1] \in Text
    BY <1>1, <1>2, <1>3 DEF Lacks
  <2>2. params[1][1] = FormValue(as[1])
    BY <1>1, <1>18, Zenon
  <2>3. as[1] \in Text /\ Len(as[1]) = Len(pre) + Len(a[1])
    BY <1>13, <1>15, <2>1, ConcatText
  <2>4. CASE pre = <<>>
    <3>1. as[1] = a[1]
      BY <1>15, <2>1, <2>4, ConcatEmptySeq DEF Text
    <3>2. Written(data[1][1]) = FormValue(a[1])
      BY <1>1, <1>9
    <3> QED
      BY <2>2, <3>1, <3>2
  <2>5. CASE Len(pre) = 1
    <3>1. Len(FormValue(as[1])) = 1 + Len(a[1])
      BY <2>3, <2>5, FormValueAt, Zenon
    <3>2. Len(a[1]) = Len(data[1][1])
      BY <1>1, <1>5
    <3> QED
      BY <2>2, <3>1, <3>2
  <2> QED
    BY <1>13, <2>4, <2>5
<1>20. Reads(params, data)
  <2>1. \A i \in 1..Len(data) : /\ params[i][2] = Written(data[i][2])
                                /\ i > 1 => params[i][1] = Written(data[i][1])
    <3> SUFFICES ASSUME NEW i \in 1..Len(data)
                 PROVE  /\ params[i][2] = Written(data[i][2])
                        /\ i > 1 => params[i][1] = Written(data[i][1])
      OBVIOUS
    <3>1. params[i][2] = Written(data[i][2])
      BY <1>9, <1>18, Zenon
    <3>2. i # 1 => params[i][1] = Written(data[i][1])
      BY <1>9, <1>15, <1>18, Zenon
    <3> QED
      BY <3>1, <3>2
  <2> QED
    BY <1>18, <1>19, <2>1 DEF Reads
<1> QED
  BY <1>12, <1>17, <1>20

FormWritten(t) == SafeEncode(Replace(t, Space, "+"), {"+"})

\* A form is a text, and read as the pairs that were written.
LEMMA ReadForm ==
  ASSUME NEW data \in Seq(TextPairs), data # <<>>
  PROVE  /\ EncodeFormData(data) \in Text
         /\ FormDecode(EncodeFormData(data)) =
              [i \in 1..Len(data) |-> <<FormValue(FormWritten(data[i][1])), FormValue(FormWritten(data[i][2]))>>]
<1> DEFINE a == [i \in 1..Len(data) |-> FormWritten(data[i][1])]
           b == [i \in 1..Len(data) |-> FormWritten(data[i][2])]
           parts == [i \in 1..Len(data) |-> (a[i] \o <<"=">>) \o b[i]]
<1>1. /\ Len(data) \in Nat /\ 1 \in 1..Len(data)
      /\ \A i \in 1..Len(data) : data[i][1] \in Text /\ data[i][2] \in Text
  <2>1. Len(data) \in Nat /\ 1 \in 1..Len(data) /\ \A i \in 1..Len(data) : data[i] \in TextPairs
    OBVIOUS
  <2> QED
    BY <2>1, TextPairFacts
<1>2. "=" \in Reserved \ {"+"} /\ "&" \in Reserved \ {"+"} /\ "+" \in Symbol
  BY DEF Reserved, Symbol
<1>3. ASSUME NEW t \in Text
      PROVE  Lacks(FormWritten(t), "=") /\ Lacks(FormWritten(t), "&")
  <2>1. Replace(t, Space, "+") \in Text
    BY <1>2, ReplaceEach
  <2> QED
    BY <1>2, <2>1, EncodedLacks DEF FormWritten
<1>4. \A i \in 1..Len(data) : Lacks(a[i], "=") /\ Lacks(a[i], "&") /\ Lacks(b[i], "=") /\ Lacks(b[i], "&")
  BY <1>1, <1>3
<1>5. EncodeFormData(data) = Join(parts, "&")
  BY Zenon DEF EncodeFormData, Map, FormWritten
<1>6. \A i \in 1..Len(data) : /\ parts[i] = (a[i] \o <<"=">>) \o b[i]
                              /\ a[i] = FormWritten(data[i][1]) /\ b[i] = FormWritten(data[i][2])
  OBVIOUS
<1>7. parts \in [1..Len(data) -> {parts[i] : i \in 1..Len(data)}]
  BY Zenon
<1> HIDE DEF a, b, parts
<1>8. <<"=">> \in Text
  BY SeparatorFacts DEF Text
<1>9. \A i \in 1..Len(data) : parts[i] \in Text
  <2> SUFFICES ASSUME NEW i \in 1..Len(data) PROVE parts[i] \in Text
    OBVIOUS
  <2>1. a[i] \in Text /\ b[i] \in Text
    BY <1>4 DEF Lacks
  <2>2. a[i] \o <<"=">> \in Text
    BY <1>8, <2>1, ConcatText, Zenon
  <2> QED
    BY <1>6, <2>1, <2>2, ConcatText, Zenon
<1>10. parts \in Seq(Text) /\ Len(parts) = Len(data)
  <2>1. parts \in [1..Len(data) -> Text]
    BY <1>7, <1>9
  <2> QED
    BY <1>1, <2>1, FunctionIsSeq
<1>11. parts # <<>>
  <2>1. Len(<<>>) = 0
    OBVIOUS
  <2> QED
    BY <1>1, <1>10, <2>1
<1>12. AreFormParts(parts, a, b)
  BY <1>4, <1>6, <1>10, <1>11, Zenon DEF AreFormParts
<1>13. FormDecode(Join(parts, "&")) = ReadPairs(parts, a, b)
  BY <1>12, ReadParts
<1>14. ReadPairs(parts, a, b) =
         [i \in 1..Len(data) |-> <<FormValue(FormWritten(data[i][1])), FormValue(FormWritten(data[i][2]))>>]
  BY <1>6, <1>10, Zenon DEF ReadPairs
<1> QED
  BY <1>5, <1>10, <1>13, <1>14, JoinType, SeparatorFacts

\* A text that a form keeps: a "+" would come back as a space.
FormSafe == {t \in Unencoded : \A i \in 1..Len(t) : t[i] # "+"}

LEMMA FormSafeRead ==
  ASSUME NEW t \in FormSafe
  PROVE  t \in Text /\ t \in Unencoded /\ FormValue(FormWritten(t)) = t
<1>1. t \in Unencoded /\ \A i \in 1..Len(t) : t[i] # "+"
  BY Zenon DEF FormSafe
<1> QED
  BY <1>1, ReadFormValue, UnencodedIsText DEF FormWritten

(***************************************************************************)
(* A form with no "+" in it is read by the token endpoint exactly as       *)
(* RetrieveToken meant it: EncodeFormData loses nothing, whatever other    *)
(* reserved characters, spaces included, its keys and values have.         *)
(***************************************************************************)
THEOREM FormRoundTrip ==
  \A data \in Seq({pair \in Seq(FormSafe) : Len(pair) = 2}) :
    data # <<>> => FormDecode(EncodeFormData(data)) = data
<1> DEFINE P == {pair \in Seq(FormSafe) : Len(pair) = 2}
<1> SUFFICES ASSUME NEW data \in Seq(P), data # <<>>
             PROVE  FormDecode(EncodeFormData(data)) = data
  OBVIOUS
<1>1. ASSUME NEW pair \in P
      PROVE  /\ pair \in TextPairs
             /\ pair = <<FormValue(FormWritten(pair[1])), FormValue(FormWritten(pair[2]))>>
  <2>1. pair \in Seq(FormSafe) /\ Len(pair) = 2
    BY Zenon
  <2>2. 1 \in 1..Len(pair) /\ 2 \in 1..Len(pair)
    BY <2>1
  <2>3. pair[1] \in FormSafe /\ pair[2] \in FormSafe
    BY <2>1, <2>2, ElementOfSeq, Zenon
  <2>4. pair[1] \in Text /\ pair[2] \in Text
    BY <2>3, FormSafeRead
  <2>5. pair = <<pair[1], pair[2]>>
    BY <2>1, PairSeq
  <2>6. FormValue(FormWritten(pair[1])) = pair[1] /\ FormValue(FormWritten(pair[2])) = pair[2]
    BY <2>3, FormSafeRead
  <2>7. <<pair[1], pair[2]>> \in TextPairs
    BY <2>4, MakeTextPair
  <2> QED
    BY <2>5, <2>6, <2>7
<1> HIDE DEF P
<1>2. /\ Len(data) \in Nat /\ \A i \in 1..Len(data) : data[i] \in P
      /\ data = [i \in 1..Len(data) |-> data[i]]
  OBVIOUS
<1>3. data \in Seq(TextPairs)
  <2>1. \A i \in 1..Len(data) : data[i] \in TextPairs
    BY <1>1, <1>2
  <2> QED
    BY <1>2, <2>1
<1>4. FormDecode(EncodeFormData(data)) =
        [i \in 1..Len(data) |-> <<FormValue(FormWritten(data[i][1])), FormValue(FormWritten(data[i][2]))>>]
  BY <1>3, ReadForm
<1>5. \A i \in 1..Len(data) :
        data[i] = <<FormValue(FormWritten(data[i][1])), FormValue(FormWritten(data[i][2]))>>
  BY <1>1, <1>2
<1> QED
  BY <1>2, <1>4, <1>5

\* An empty query has no redirect URI.
LEMMA EmptyRead == FindKey(FormDecode(<<>>), <<"redirect_uri">>) = NULL
<1> DEFINE e == <<>>
           u == <<"redirect_uri">>
<1>1. e \in Text /\ Len(e) = 0 /\ Len(u) = 1
  BY EmptySeq DEF Text
<1> HIDE DEF e, u
<1>2. ASSUME NEW c
      PROVE  Split(e, c) = <<e>>
  <2>1. Find(e, c) = 0
    BY <1>1, FindNone
  <2> QED
    BY <1>1, <2>1, SplitUnfold, Zenon
<1> DEFINE f == FormValue(e)
<1>3. f \in Text /\ Len(f) = 0
  BY <1>1, FormValueAt
<1>4. FormDecode(e) = [i \in 1..1 |-> [j \in 1..1 |-> f]]
  <2>1. Split(e, "&") = <<e>> /\ Split(e, "=") = <<e>>
    BY <1>2
  <2>2. Map(FormValue, <<e>>) = [j \in 1..1 |-> f]
    BY DEF Map
  <2>3. FormDecode(e) = [i \in 1..Len(<<e>>) |-> Map(FormValue, Split(<<e>>[i], "="))]
    BY <2>1, Zenon DEF FormDecode, Map
  <2>4. Len(<<e>>) = 1 /\ <<e>>[1] = e
    OBVIOUS
  <2>5. \A i \in 1..1 : Map(FormValue, Split(<<e>>[i], "=")) = [j \in 1..1 |-> f]
    BY <2>1, <2>2, <2>4
  <2> QED
    BY <2>3, <2>4, <2>5, Zenon
<1> DEFINE data == FormDecode(e)
<1> HIDE DEF f
<1>5. Len(data) = 1 /\ data[1][1] = f
  BY <1>4
<1> HIDE DEF data
<1>6. \A i \in 1..Len(data) : data[i][1] # u
  BY <1>1, <1>3, <1>5
<1>7. FindKey(data, u) = NULL
  BY <1>5, <1>6, FindKeyFirst
<1> QED
  BY <1>7 DEF data, e, u

=============================================================================
