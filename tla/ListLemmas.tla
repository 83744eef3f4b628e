----------------------------- MODULE ListLemmas -----------------------------
(***************************************************************************)
(* Facts about the lists that the handlers of the bridge work through, for *)
(* lists of every length.  The library states induction for an operator,   *)
(* which the provers cannot instantiate; here it is stated for a set, from *)
(* the fact that a set of naturals has a least element.                    *)
(***************************************************************************)
EXTENDS Integers, Sequences, FiniteSets, SequencesExt, SequenceTheorems,
        FiniteSetTheorems, WellFoundedInduction, TLAPS

\* Every set of natural numbers that is not empty has a least element.
LEMMA LeastNatural ==
    ASSUME NEW T, T \subseteq Nat, T # {}
    PROVE  \E x \in T : \A y \in T : x <= y
<1> DEFINE R == {ss \in Nat \X Nat : ss[1] < ss[2]}
<1>1. IsWellFoundedOn(R, Nat)
  BY NatLessThanWellFounded DEF OpToRel
<1>2. \A x, y \in Nat : y < x => <<y, x>> \in R
  OBVIOUS
<1> HIDE DEF R
<1>3. PICK x \in T : \A y \in T : ~ (<<y, x>> \in R)
  BY <1>1, WFMin, Zenon
<1>4. \A y \in T : ~(y < x)
  BY <1>2, <1>3
<1> QED
  BY <1>4

\* A set with 0 and with the successor of each of its naturals has them all.
LEMMA NatSetInduction ==
    ASSUME NEW P, 0 \in P, \A n \in Nat : n \in P => n + 1 \in P
    PROVE  Nat \subseteq P
<1> SUFFICES ASSUME Nat \ P # {}
             PROVE  FALSE
  OBVIOUS
<1>1. PICK x \in Nat \ P : \A y \in Nat \ P : x <= y
  BY LeastNatural
<1>2. x # 0 /\ x - 1 \in Nat
  BY <1>1
<1>3. x - 1 \in P
  BY <1>1, <1>2
<1> QED
  BY <1>1, <1>2, <1>3

-----------------------------------------------------------------------------
\* The list of the elements of a finite set.
LEMMA SetToSeqProperties ==
    ASSUME NEW S, IsFiniteSet(S)
    PROVE  /\ Cardinality(S) \in Nat
           /\ SetToSeq(S) \in [1 .. Cardinality(S) -> S]
           /\ \A x \in S : \E i \in 1 .. Cardinality(S) : SetToSeq(S)[i] = x
<1> DEFINE n == Cardinality(S)
           F == [1 .. n -> S]
<1>1. n \in Nat
  BY FS_CardinalityType
<1>2. ExistsBijection(1 .. n, S)
  BY FS_CardinalityType
<1> HIDE DEF n
<1>3. \E f \in F : IsInjective(f)
  BY <1>2 DEF ExistsBijection, Bijection, Injection, IsInjective
<1>4. SetToSeq(S) \in F /\ IsInjective(SetToSeq(S))
  BY <1>3 DEF SetToSeq, n
<1>5. SetToSeq(S) \in Injection(1 .. n, S)
  BY <1>4 DEF Injection, IsInjective
<1>6. IsFiniteSet(1 .. n) /\ Cardinality(1 .. n) = n
  BY <1>1, FS_Interval
<1>7. SetToSeq(S) \in Surjection(1 .. n, S)
  BY <1>5, <1>6, FS_Injection DEF n
<1> QED
  BY <1>1, <1>4, <1>7 DEF Surjection, n

-----------------------------------------------------------------------------
(***************************************************************************)
(* FlattenSeq.                                                             *)
(***************************************************************************)
\* The first i of the lists joined, for every i.
JoinedUpTo(seqs, n, f) ==
    f = [i \in 1 .. n |-> IF i = 1 THEN seqs[i] ELSE f[i - 1] \o seqs[i]]

\* The list of the first n lists put together exists for every n.
LEMMA JoinedExists ==
    ASSUME NEW n \in Nat, NEW seqs
    PROVE  \E f : JoinedUpTo(seqs, n, f)
<1> DEFINE P == {m \in Nat : \E f : JoinedUpTo(seqs, m, f)}
<1>1. 0 \in P
  <2>1. JoinedUpTo(seqs, 0, [i \in {} |-> 0])
    BY DEF JoinedUpTo
  <2> QED
    BY <2>1
<1>2. ASSUME NEW m \in Nat, m \in P
      PROVE  m + 1 \in P
  <2>1. PICK f : JoinedUpTo(seqs, m, f)
    BY <1>2
  <2> DEFINE g == [i \in 1 .. m + 1 |-> IF i <= m THEN f[i]
                                        ELSE IF i = 1 THEN seqs[i] ELSE f[i - 1] \o seqs[i]]
  <2>2. \A i \in 1 .. m : f[i] = IF i = 1 THEN seqs[i] ELSE f[i - 1] \o seqs[i]
    BY <2>1 DEF JoinedUpTo
  <2>3. ASSUME NEW i \in 1 .. m + 1
        PROVE  g[i] = IF i = 1 THEN seqs[i] ELSE g[i - 1] \o seqs[i]
    BY <2>2
  <2>4. JoinedUpTo(seqs, m + 1, g)
    BY <2>3 DEF JoinedUpTo
  <2> HIDE DEF g
  <2> QED
    BY <2>4
<1> HIDE DEF P
<1>3. Nat \subseteq P
  BY <1>1, <1>2, NatSetInduction
<1> QED
  BY <1>3 DEF P

\* FlattenSeq, with which the code's extend() in a loop is modelled, is that
\* list for all of them.
LEMMA FlattenIsJoined ==
    ASSUME NEW seqs, Len(seqs) \in Nat \ {0}
    PROVE  \E f : JoinedUpTo(seqs, Len(seqs), f) /\ FlattenSeq(seqs) = f[Len(seqs)]
<1> DEFINE Is(f) == f = [i \in 1 .. Len(seqs) |->
                           IF i = 1 THEN seqs[i] ELSE f[i - 1] \o seqs[i]]
<1>1. \E f : Is(f)
  BY JoinedExists DEF JoinedUpTo
<1>2. Is(CHOOSE f : Is(f))
  BY <1>1
<1>3. FlattenSeq(seqs) = (CHOOSE f : Is(f))[Len(seqs)]
  BY DEF FlattenSeq
<1> QED
  BY <1>2, <1>3 DEF JoinedUpTo

\* The elements of a list.
Holds(s) == {s[i] : i \in 1 .. Len(s)}

\* A list followed by a list holds what the two hold.
LEMMA ConcatHolds ==
    ASSUME NEW T, NEW s \in Seq(T), NEW t \in Seq(T)
    PROVE  s \o t \in Seq(T) /\ Holds(s \o t) = Holds(s) \cup Holds(t)
<1>1. /\ s \o t \in Seq(T) /\ Len(s \o t) = Len(s) + Len(t)
      /\ \A i \in 1 .. Len(s) + Len(t) :
           (s \o t)[i] = IF i <= Len(s) THEN s[i] ELSE t[i - Len(s)]
      /\ Len(s) \in Nat /\ Len(t) \in Nat
  BY ConcatProperties, LenProperties
<1>2. Holds(s \o t) \subseteq Holds(s) \cup Holds(t)
  BY <1>1 DEF Holds
<1>3. ASSUME NEW i \in 1 .. Len(s)
      PROVE  s[i] \in Holds(s \o t)
  <2>1. i \in 1 .. Len(s \o t) /\ (s \o t)[i] = s[i]
    BY <1>1
  <2> QED
    BY <2>1 DEF Holds
<1>4. ASSUME NEW i \in 1 .. Len(t)
      PROVE  t[i] \in Holds(s \o t)
  <2>1. Len(s) + i \in 1 .. Len(s \o t) /\ (s \o t)[Len(s) + i] = t[i]
    BY <1>1
  <2> QED
    BY <2>1 DEF Holds
<1> QED
  BY <1>1, <1>2, <1>3, <1>4 DEF Holds

\* A list of lists flattened holds what the lists hold.
LEMMA FlattenHolds ==
    ASSUME NEW T, NEW n \in Nat, NEW seqs \in [1 .. n -> Seq(T)]
    PROVE  /\ FlattenSeq(seqs) \in Seq(T)
           /\ Holds(FlattenSeq(seqs)) = UNION {Holds(seqs[i]) : i \in 1 .. n}
<1>1. Len(seqs) = n
  OBVIOUS
<1>2. CASE n = 0
  <2>1. FlattenSeq(seqs) = seqs
    BY <1>1, <1>2 DEF FlattenSeq
  <2>2. seqs \in Seq(T)
    BY <1>2
  <2> QED
    BY <1>1, <1>2, <2>1, <2>2 DEF Holds
<1>3. CASE n # 0
  <2>1. PICK f : JoinedUpTo(seqs, n, f) /\ FlattenSeq(seqs) = f[n]
    BY <1>1, <1>3, FlattenIsJoined
  <2>2. \A i \in 1 .. n : f[i] = IF i = 1 THEN seqs[i] ELSE f[i - 1] \o seqs[i]
    BY <2>1 DEF JoinedUpTo
  <2> DEFINE Good(m) == /\ f[m] \in Seq(T)
                        /\ Holds(f[m]) = UNION {Holds(seqs[i]) : i \in 1 .. m}
             P == {m \in Nat : m \in 1 .. n => Good(m)}
  <2>3. 0 \in P
    OBVIOUS
  <2>4. ASSUME NEW m \in Nat, m \in P
        PROVE  m + 1 \in P
    <3> SUFFICES ASSUME m + 1 \in 1 .. n
                 PROVE  Good(m + 1)
      OBVIOUS
    <3>1. seqs[m + 1] \in Seq(T)
      OBVIOUS
    <3>2. CASE m = 0
      <4>1. f[1] = seqs[1] /\ 1 .. 1 = {1}
        BY <2>2, <3>2
      <4>2. UNION {Holds(seqs[i]) : i \in {1}} = Holds(seqs[1])
        OBVIOUS
      <4>3. m + 1 = 1
        BY <3>2
      <4>4. Good(1)
        BY <3>1, <4>1, <4>2, <4>3
      <4> HIDE DEF Good
      <4> QED
        BY <4>3, <4>4
    <3>3. CASE m # 0
      <4>0. m \in 1 .. n /\ m + 1 # 1 /\ (m + 1) - 1 = m
        BY <3>3
      <4>1. Good(m) /\ f[m + 1] = f[m] \o seqs[m + 1]
        <5>1. Good(m)
          BY <2>4, <4>0
        <5>2. f[m + 1] = f[m] \o seqs[m + 1]
          BY <2>2, <4>0
        <5> QED
          BY <5>1, <5>2
      <4>2. 1 .. m + 1 = (1 .. m) \cup {m + 1}
        OBVIOUS
      <4>3. Holds(f[m + 1]) = Holds(f[m]) \cup Holds(seqs[m + 1]) /\ f[m + 1] \in Seq(T)
        BY <3>1, <4>1, ConcatHolds
      <4> QED
        BY <4>1, <4>2, <4>3
    <3> QED
      BY <3>2, <3>3
  <2> HIDE DEF P
  <2>5. Nat \subseteq P
    BY <2>3, <2>4, NatSetInduction
  <2>6. n \in P /\ n \in 1 .. n
    BY <1>3, <2>5
  <2>7. Good(n)
    BY <2>6 DEF P
  <2> QED
    BY <2>1, <2>7
<1> QED
  BY <1>2, <1>3
=============================================================================
