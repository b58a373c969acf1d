----------------------------- MODULE QueueLemmas -----------------------------
(***************************************************************************)
(* What the proofs of all components need: induction over the naturals,    *)
(* and facts about queues.                                                 *)
(***************************************************************************)
EXTENDS Integers, Sequences, Functions, SequenceTheorems, FiniteSetTheorems,
        TLAPS

-----------------------------------------------------------------------------
\* Every set of naturals that is not empty has a least element: an induction is
\* carried out by looking at the least counterexample.
LEMMA LeastElement ==
  ASSUME NEW T \in SUBSET Nat, NEW n \in T
  PROVE  \E m \in T : \A k \in T : m <= k
<1> DEFINE Upto(k) == 1 .. k
           D == {Upto(k) : k \in T}
           R == StrictSubsetOrdering(Nat)
<1>1. D # {} /\ D \subseteq FiniteSubsetsOf(Nat)
  <2>1. ASSUME NEW k \in T PROVE Upto(k) \in FiniteSubsetsOf(Nat)
    BY FS_Interval DEF FiniteSubsetsOf
  <2> QED BY <2>1
<1>2. PICK x \in D : \A y \in D : ~(<<y, x>> \in R)
  <2> HIDE DEF D, R
  <2>1. IsWellFoundedOn(R, FiniteSubsetsOf(Nat))
    BY FS_StrictSubsetOrderingWellFounded DEF R
  <2> QED BY <1>1, <2>1, WFMin
<1>3. PICK m \in T : x = Upto(m)
  OBVIOUS
<1>4. ASSUME NEW k \in T, ~(m <= k) PROVE FALSE
  <2>1. Upto(k) \subseteq Upto(m) /\ m \in Upto(m) /\ m \notin Upto(k)
    BY <1>4
  <2>2. <<Upto(k), Upto(m)>> \in R
    BY <2>1 DEF StrictSubsetOrdering
  <2> QED BY <1>2, <1>3, <2>2
<1> QED BY <1>4

-----------------------------------------------------------------------------
(* Facts about the queues: what a push, a pop and an append do to the set of *)
(* indices in a queue and to its freedom from duplicates.                    *)

\* The empty queue, the one a constructor or a drained loop leaves.
LEMMA EmptyQueue ==
  /\ Range(<<>>) = {}
  /\ IsInjective(<<>>)
  /\ \A S : \A q \in Seq(S) : q # <<>> => Head(q) \in Range(q) /\ Head(q) \in S
BY DEF Range, IsInjective

\* A queue is a function over the positions 1 to its length.
LEMMA FunctionQueue ==
  ASSUME NEW S, NEW n \in Nat, NEW q \in [1 .. n -> S]
  PROVE  q \in Seq(S) /\ Len(q) = n /\ DOMAIN q = 1 .. n
<1>1. q \in Seq(S)
  BY SeqDef
<1>2. Len(q) \in Nat /\ DOMAIN q = 1 .. Len(q) /\ DOMAIN q = 1 .. n
  BY <1>1, LenProperties
<1>3. Len(q) = n
  <2>1. ASSUME Len(q) < n PROVE FALSE
    <3>1. n \in 1 .. n /\ n \notin 1 .. Len(q)
      BY <1>2, <2>1
    <3> QED BY <1>2, <3>1
  <2>2. ASSUME n < Len(q) PROVE FALSE
    <3>1. Len(q) \in 1 .. Len(q) /\ Len(q) \notin 1 .. n
      BY <1>2, <2>2
    <3> QED BY <1>2, <3>1
  <2> QED BY <1>2, <2>1, <2>2
<1> QED BY <1>1, <1>2, <1>3

\* What is in a queue of members of S is a member of S.
LEMMA RangeQueue ==
  ASSUME NEW S, NEW q \in Seq(S)
  PROVE  Range(q) \subseteq S
BY DEF Range

\* std::queue::push.
LEMMA PushQueue ==
  ASSUME NEW S, NEW q \in Seq(S), NEW x \in S
  PROVE  /\ Append(q, x) \in Seq(S)
         /\ Append(q, x) # <<>>
         /\ Range(Append(q, x)) = Range(q) \cup {x}
         /\ IsInjective(q) /\ x \notin Range(q) => IsInjective(Append(q, x))
<1> DEFINE p == Append(q, x)
<1>1. /\ p \in Seq(S)
      /\ Len(p) = Len(q) + 1
      /\ \A i \in 1 .. Len(q) : p[i] = q[i]
      /\ p[Len(q) + 1] = x
      /\ DOMAIN p = 1 .. Len(q) + 1
      /\ DOMAIN q = 1 .. Len(q)
      /\ Len(q) \in Nat
  OBVIOUS
<1>2. Range(p) = Range(q) \cup {x}
  BY <1>1 DEF Range
<1>3. IsInjective(q) /\ x \notin Range(q) => IsInjective(p)
  BY <1>1 DEF Range, IsInjective
<1> QED BY <1>1, <1>2, <1>3

\* std::queue::front and pop.
LEMMA PopQueue ==
  ASSUME NEW S, NEW q \in Seq(S), q # <<>>
  PROVE  /\ Tail(q) \in Seq(S)
         /\ Head(q) \in S
         /\ Head(q) \in Range(q)
         /\ Range(Tail(q)) \subseteq Range(q)
         /\ IsInjective(q) => /\ Range(Tail(q)) = Range(q) \ {Head(q)}
                              /\ IsInjective(Tail(q))
<1>1. /\ Tail(q) \in Seq(S)
      /\ Len(Tail(q)) = Len(q) - 1
      /\ \A i \in 1 .. Len(q) - 1 : Tail(q)[i] = q[i + 1]
      /\ DOMAIN Tail(q) = 1 .. Len(q) - 1
      /\ DOMAIN q = 1 .. Len(q)
      /\ Len(q) \in Nat \ {0}
      /\ Head(q) = q[1]
  BY HeadTailProperties
<1>2. Head(q) \in S /\ Head(q) \in Range(q)
  BY <1>1 DEF Range
<1>3. Range(Tail(q)) \subseteq Range(q)
  BY <1>1 DEF Range
<1>4. ASSUME IsInjective(q) PROVE Head(q) \notin Range(Tail(q))
  BY <1>1, <1>4 DEF Range, IsInjective
<1>5. Range(q) \subseteq Range(Tail(q)) \cup {Head(q)}
  <2> SUFFICES ASSUME NEW i \in 1 .. Len(q), i # 1
               PROVE  q[i] \in Range(Tail(q))
    BY <1>1 DEF Range
  <2>1. i - 1 \in 1 .. Len(q) - 1 /\ Tail(q)[i - 1] = q[i]
    BY <1>1
  <2> QED BY <1>1, <2>1 DEF Range
<1>6. ASSUME IsInjective(q) PROVE IsInjective(Tail(q))
  <2> SUFFICES ASSUME NEW i \in 1 .. Len(q) - 1, NEW j \in 1 .. Len(q) - 1,
                      Tail(q)[i] = Tail(q)[j]
               PROVE  i = j
    BY <1>1 DEF IsInjective
  <2>1. q[i + 1] = q[j + 1] /\ i + 1 \in DOMAIN q /\ j + 1 \in DOMAIN q
    BY <1>1
  <2> QED BY <2>1, <1>6 DEF IsInjective
<1> QED BY <1>1, <1>2, <1>3, <1>4, <1>5, <1>6

\* A pop whose element is pushed again.
LEMMA RotateQueue ==
  ASSUME NEW S, NEW q \in Seq(S), q # <<>>, IsInjective(q)
  PROVE  /\ Append(Tail(q), Head(q)) \in Seq(S)
         /\ Range(Append(Tail(q), Head(q))) = Range(q)
         /\ IsInjective(Append(Tail(q), Head(q)))
<1>1. PICK x \in S : x = Head(q)
  BY PopQueue
<1>2. PICK t \in Seq(S) : t = Tail(q)
  BY PopQueue
<1>3. x \in Range(q) /\ Range(t) = Range(q) \ {x} /\ IsInjective(t)
  BY <1>1, <1>2, PopQueue
<1>4. /\ Append(t, x) \in Seq(S)
      /\ Range(Append(t, x)) = Range(t) \cup {x}
      /\ IsInjective(Append(t, x))
  BY <1>3, PushQueue
<1> QED BY <1>1, <1>2, <1>3, <1>4

\* A loop that pushes the whole of queue r onto queue q.
LEMMA DrainQueue ==
  ASSUME NEW S, NEW q \in Seq(S), NEW r \in Seq(S)
  PROVE  /\ q \o r \in Seq(S)
         /\ Range(q \o r) = Range(q) \cup Range(r)
         /\ IsInjective(q) /\ IsInjective(r) /\ Range(q) \cap Range(r) = {}
              => IsInjective(q \o r)
         /\ q \o r = <<>> <=> q = <<>> /\ r = <<>>
<1> DEFINE p == q \o r
<1>1. /\ p \in Seq(S)
      /\ Len(p) = Len(q) + Len(r)
      /\ \A i \in 1 .. Len(q) + Len(r) :
           p[i] = IF i <= Len(q) THEN q[i] ELSE r[i - Len(q)]
      /\ DOMAIN p = 1 .. Len(q) + Len(r)
      /\ DOMAIN q = 1 .. Len(q)
      /\ DOMAIN r = 1 .. Len(r)
      /\ Len(q) \in Nat /\ Len(r) \in Nat
  BY ConcatProperties
<1> HIDE DEF p
<1>2. Range(p) \subseteq Range(q) \cup Range(r)
  <2> SUFFICES ASSUME NEW i \in DOMAIN p
               PROVE  p[i] \in Range(q) \cup Range(r)
    BY DEF Range
  <2>1. CASE i <= Len(q)
    BY <1>1, <2>1 DEF Range
  <2>2. CASE ~(i <= Len(q))
    <3>1. i - Len(q) \in DOMAIN r /\ p[i] = r[i - Len(q)]
      BY <1>1, <2>2
    <3> QED BY <3>1 DEF Range
  <2> QED BY <2>1, <2>2
<1>3. Range(q) \subseteq Range(p)
  BY <1>1 DEF Range
<1>4. Range(r) \subseteq Range(p)
  <2> SUFFICES ASSUME NEW i \in 1 .. Len(r) PROVE r[i] \in Range(p)
    BY <1>1 DEF Range
  <2>1. i + Len(q) \in 1 .. Len(q) + Len(r) /\ p[i + Len(q)] = r[i]
    BY <1>1
  <2> QED BY <1>1, <2>1 DEF Range
<1>5. ASSUME IsInjective(q), IsInjective(r), Range(q) \cap Range(r) = {}
      PROVE  IsInjective(p)
  <2> SUFFICES ASSUME NEW i \in DOMAIN p, NEW j \in DOMAIN p, p[i] = p[j]
               PROVE  i = j
    BY DEF IsInjective
  <2>1. CASE i <= Len(q) /\ j <= Len(q)
    BY <1>1, <1>5, <2>1 DEF IsInjective
  <2>2. CASE ~(i <= Len(q)) /\ ~(j <= Len(q))
    <3>1. i - Len(q) \in DOMAIN r /\ j - Len(q) \in DOMAIN r
      BY <1>1, <2>2
    <3>2. r[i - Len(q)] = r[j - Len(q)]
      BY <1>1, <2>2
    <3> QED BY <1>1, <1>5, <3>1, <3>2 DEF IsInjective
  <2>3. CASE i <= Len(q) /\ ~(j <= Len(q))
    <3>1. i \in DOMAIN q /\ p[i] = q[i]
      BY <1>1, <2>3
    <3>2. j - Len(q) \in DOMAIN r /\ p[j] = r[j - Len(q)]
      BY <1>1, <2>3
    <3> QED BY <3>1, <3>2, <1>5 DEF Range
  <2>4. CASE ~(i <= Len(q)) /\ j <= Len(q)
    <3>1. j \in DOMAIN q /\ p[j] = q[j]
      BY <1>1, <2>4
    <3>2. i - Len(q) \in DOMAIN r /\ p[i] = r[i - Len(q)]
      BY <1>1, <2>4
    <3> QED BY <3>1, <3>2, <1>5 DEF Range
  <2> QED BY <2>1, <2>2, <2>3, <2>4
<1>6. p = <<>> <=> q = <<>> /\ r = <<>>
  BY ConcatEqualIffEmpty DEF p
<1> QED BY <1>1, <1>2, <1>3, <1>4, <1>5, <1>6 DEF p
=============================================================================
