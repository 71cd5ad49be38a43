---------------------------- MODULE LibraryLemmas ----------------------------
(***************************************************************************)
(* Facts about operators of the community modules that the proofs of       *)
(* several components need and the libraries of theorems do not state.     *)
(***************************************************************************)
EXTENDS Naturals, Sequences, SequencesExt, FiniteSetsExt, FiniteSetTheorems,
        WellFoundedInduction, TLAPS

\* A sequence is a prefix of itself, and of itself with an element appended.
LEMMA PrefixOfAppend ==
  ASSUME NEW S, NEW s \in Seq(S), NEW e
  PROVE  IsPrefix(s, s) /\ IsPrefix(s, Append(s, e))
<1>1. Len(Append(s, e)) = Len(s) + 1 /\ Len(s) \in Nat
  OBVIOUS
<1>2. \A i \in 1..Len(s) : Append(s, e)[i] = s[i]
  OBVIOUS
<1>3. SubSeq(s, 1, Len(s)) = SubSeq(Append(s, e), 1, Len(s))
  BY <1>1, <1>2
<1> QED
  BY <1>1, <1>3 DEF IsPrefix

\* A finite set of numbers has a maximum: of the sets of what is greater than
\* one of them, take the smallest.
LEMMA MaximumExists ==
  ASSUME NEW S \in SUBSET Nat, IsFiniteSet(S), S # {}
  PROVE  Max(S) \in S /\ \A y \in S : Max(S) >= y
<1> DEFINE Above(x) == {y \in S : y > x}
           All == {Above(x) : x \in S}
           Less == StrictSubsetOrdering(S)
<1>1. IsWellFoundedOn(Less, SUBSET S)
  BY FS_StrictSubsetOrderingWellFounded, FS_FiniteSubsetsOfFinite
<1>2. All \subseteq SUBSET S /\ All # {}
  OBVIOUS
<1>3. PICK m \in S : \A y \in S : <<Above(y), Above(m)>> \notin Less
  <2> HIDE DEF Less, All
  <2>1. \E A \in All : \A B \in All : <<B, A>> \notin Less
    BY <1>1, <1>2, WFMin
  <2> QED
    BY <2>1 DEF All
<1>4. \A y \in S : m >= y
  <2> SUFFICES ASSUME NEW y \in S, ~(m >= y) PROVE FALSE
    OBVIOUS
  <2>0. y > m /\ ~(y > y) /\ \A z \in S : z > y => z > m
    <3>1. y \in Nat /\ m \in Nat /\ \A z \in S : z \in Nat
      OBVIOUS
    <3> QED
      BY <3>1
  <2>1. y \in Above(m) /\ y \notin Above(y) /\ Above(y) \subseteq Above(m)
        /\ Above(m) \subseteq S
    BY <2>0, Zenon
  <2>2. ASSUME NEW A \in SUBSET S, NEW B \in SUBSET S, A \subseteq B, A # B
        PROVE  <<A, B>> \in Less
    BY <2>2 DEF StrictSubsetOrdering
  <2>3. <<Above(y), Above(m)>> \in Less
    <3> HIDE DEF Less
    <3> QED
      BY <2>1, <2>2
  <2> QED
    BY <1>3, <2>3
<1> QED
  BY <1>4 DEF Max

\* A set of numbers has a minimum.
LEMMA MinimumExists ==
  ASSUME NEW S \in SUBSET Nat, S # {}
  PROVE  Min(S) \in S /\ \A y \in S : Min(S) =< y
<1> DEFINE Less == {ss \in Nat \X Nat : ss[1] < ss[2]}
<1>1. IsWellFoundedOn(Less, Nat)
  BY NatLessThanWellFounded DEF OpToRel
<1>2. PICK m \in S : \A y \in S : <<y, m>> \notin Less
  <2> HIDE DEF Less
  <2> QED
    BY <1>1, WFMin
<1>3. ASSUME NEW y \in S
      PROVE  m =< y
  <2>1. m \in Nat /\ y \in Nat
    OBVIOUS
  <2>2. y < m => <<y, m>> \in Less
    BY <2>1
  <2> HIDE DEF Less
  <2>3. ~(y < m)
    BY <1>2, <2>2
  <2> QED
    BY <2>1, <2>3
<1> QED
  BY <1>3 DEF Min

\* Induction, for a property that is given as the set of what has it.
LEMMA CountingUp ==
  ASSUME NEW S, 0 \in S, \A i \in Nat : i \in S => i + 1 \in S
  PROVE  \A i \in Nat : i \in S
<1> DEFINE Others == Nat \ S
<1> SUFFICES ASSUME Others # {}
             PROVE  FALSE
  OBVIOUS
<1>1. PICK m \in Others : \A y \in Others : m =< y
  BY MinimumExists
<1>2. m \in Nat /\ m # 0 /\ m - 1 \in Nat
  OBVIOUS
<1>3. m - 1 \in S
  BY <1>1, <1>2
<1> QED
  BY <1>2, <1>3

\* A finite set as a sequence: all its elements, and no others.
LEMMA SetAsSequence ==
  ASSUME NEW S, IsFiniteSet(S)
  PROVE  /\ SetToSeq(S) \in [1..Cardinality(S) -> S] /\ Cardinality(S) \in Nat
         /\ SetToSeq(S) \in Seq(S)
         /\ ToSet(SetToSeq(S)) = S
<1> DEFINE n == Cardinality(S)
<1>1. n \in Nat /\ ExistsBijection(1..n, S)
  BY FS_CardinalityType
<1>2. \E f \in [1..n -> S] : IsInjective(f)
  BY <1>1 DEF ExistsBijection, Bijection, Injection
<1>3. SetToSeq(S) \in [1..n -> S] /\ IsInjective(SetToSeq(S))
  BY <1>2 DEF SetToSeq
<1>4. SetToSeq(S) \in Injection(1..n, S)
  BY <1>3 DEF Injection
<1>5. Cardinality(1..n) = n
  BY <1>1, FS_Interval
<1>6. SetToSeq(S) \in Surjection(1..n, S)
  BY <1>4, <1>5, FS_Injection
<1>7. SetToSeq(S) \in Seq(S)
  BY <1>1, <1>3
<1>8. ToSet(SetToSeq(S)) = S
  BY <1>3, <1>6 DEF ToSet, Surjection
<1> QED
  BY <1>1, <1>3, <1>7, <1>8

\* The greatest of the first numbers.
LEMMA MaxOfFirst ==
  ASSUME NEW n \in Nat, NEW s \in SUBSET (1..n), s # {}
  PROVE  /\ Max(s) \in s /\ \A y \in s : Max(s) >= y
         /\ n \in s => Max(s) = n
<1>1. s \in SUBSET Nat
  OBVIOUS
<1>2. IsFiniteSet(1..n)
  BY FS_Interval
<1>3. IsFiniteSet(s)
  BY <1>2, FS_Subset
<1>4. Max(s) \in s /\ \A y \in s : Max(s) >= y
  BY <1>1, <1>3, MaximumExists
<1> DEFINE m == Max(s)
<1> HIDE DEF m
<1>5. n \in s => m >= n
  BY <1>4 DEF m
<1>6. m \in s
  BY <1>4 DEF m
<1>7. n \in s => Max(s) = n
  <2>1. m \in 1..n
    BY <1>6
  <2>2. n \in s => m = n
    BY <1>5, <2>1
  <2> QED
    BY <2>2 DEF m
<1> QED
  BY <1>4, <1>7

\* f says what a fold from the left comes to, as the library computes it: from
\* base, by those of the first n steps whose numbers are in s.
Comes(f, n, base, step) ==
  \A s \in SUBSET (1..n) :
    f[s] = IF s = {} THEN base ELSE step[<<f[s \ {Max(s)}], Max(s)>>]

\* Steps that stay within a set of values always come to one.
LEMMA StepsExist ==
  ASSUME NEW V, NEW n \in Nat, NEW base \in V, NEW step \in [V \X (1..n) -> V]
  PROVE  \E f \in [SUBSET (1..n) -> V] : Comes(f, n, base, step)
<1> DEFINE Has(i) == \E f \in [SUBSET (1..i) -> V] : Comes(f, i, base, step)
           Done == {i \in Nat : i <= n => Has(i)}
<1>1. Has(0)
  <2> DEFINE f == [s \in SUBSET (1..0) |-> base]
  <2>1. f \in [SUBSET (1..0) -> V] /\ Comes(f, 0, base, step)
    BY DEF Comes
  <2> QED
    BY <2>1
<1>2. ASSUME NEW i \in Nat, i + 1 <= n, Has(i)
      PROVE  Has(i + 1)
  <2>1. PICK f \in [SUBSET (1..i) -> V] : Comes(f, i, base, step)
    BY <1>2
  <2> DEFINE m == i + 1
             g == [s \in SUBSET (1..m) |-> IF m \in s THEN step[<<f[s \ {m}], m>>] ELSE f[s]]
  <2>2. \A s \in SUBSET (1..m) : /\ s \ {m} \in SUBSET (1..i)
                                 /\ m \notin s => s \in SUBSET (1..i)
    OBVIOUS
  <2>3. m \in 1..n
    BY <1>2
  <2>4. g \in [SUBSET (1..m) -> V]
    <3>1. ASSUME NEW s \in SUBSET (1..m), m \in s
          PROVE  step[<<f[s \ {m}], m>>] \in V
      <4>1. f[s \ {m}] \in V
        BY <2>2
      <4> QED
        BY <2>3, <4>1
    <3>2. ASSUME NEW s \in SUBSET (1..m), m \notin s
          PROVE  f[s] \in V
      BY <2>2, <3>2
    <3> QED
      BY <3>1, <3>2
  <2>5. \A s \in SUBSET (1..i) : s \in SUBSET (1..m) /\ m \notin s
    OBVIOUS
  <2>6. \A s \in SUBSET (1..i) : g[s] = f[s]
    BY <2>5
  <2>7. \A s \in SUBSET (1..m) : m \in s => g[s] = step[<<f[s \ {m}], m>>]
    OBVIOUS
  <2> HIDE DEF g
  <2>8. ASSUME NEW s \in SUBSET (1..m)
        PROVE  g[s] = IF s = {} THEN base ELSE step[<<g[s \ {Max(s)}], Max(s)>>]
    <3>1. CASE m \in s
      <4>1. Max(s) = m /\ s # {}
        BY <3>1, MaxOfFirst
      <4>2. g[s \ {m}] = f[s \ {m}]
        BY <2>2, <2>6
      <4> QED
        BY <2>7, <3>1, <4>1, <4>2
    <3>2. CASE m \notin s
      <4>1. s \in SUBSET (1..i) /\ s \ {Max(s)} \in SUBSET (1..i)
        BY <2>2, <3>2
      <4>2. g[s] = f[s] /\ g[s \ {Max(s)}] = f[s \ {Max(s)}]
        BY <2>6, <4>1
      <4> QED
        BY <2>1, <4>1, <4>2 DEF Comes
    <3> QED
      BY <3>1, <3>2
  <2>9. Comes(g, m, base, step)
    BY <2>8 DEF Comes
  <2> QED
    BY <2>4, <2>9
<1> HIDE DEF Has
<1>3. 0 \in Done /\ \A i \in Nat : i \in Done => i + 1 \in Done
  BY <1>1, <1>2
<1> HIDE DEF Done
<1>4. n \in Done
  BY <1>3, CountingUp
<1>5. Has(n)
  BY <1>4 DEF Done
<1> QED
  BY <1>5 DEF Has
=============================================================================
