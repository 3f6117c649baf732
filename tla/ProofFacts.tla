----------------------------- MODULE ProofFacts -----------------------------
(***************************************************************************)
(* Facts about naturals, sets and sequences that the proofs about the      *)
(* daemon share, and that the library of theorems does not state in a form *)
(* the provers can use: induction over a set, the least and the greatest   *)
(* member, removing and appending an element.                              *)
(***************************************************************************)
EXTENDS Integers, SequencesExt, FiniteSetsExt, WellFoundedInduction,
        FiniteSetTheorems, SequenceTheorems, TLAPS

\* Induction, for a property given as the set of numbers that have it.
LEMMA SetInduction ==
    ASSUME NEW S, 0 \in S, \A n \in Nat : n \in S => n + 1 \in S
    PROVE  Nat \subseteq S
  <1> DEFINE R == {ss \in Nat \X Nat : ss[1] < ss[2]}
             T == Nat \ S
  <1>1. IsWellFoundedOn(R, Nat)
    BY NatLessThanWellFounded DEF OpToRel
  <1>2. SUFFICES ASSUME T # {} PROVE FALSE
    BY <1>2
  <1>3. PICK x \in T : \A y \in T : ~ (<<y, x>> \in R)
    <2> HIDE DEF R
    <2> QED BY <1>1, <1>2, WFMin, Zenon
  <1>4. x # 0 /\ x - 1 \in Nat /\ x \in Nat /\ (x - 1) + 1 = x
    BY <1>3
  <1>5. x - 1 \notin T
    <2> SUFFICES ASSUME x - 1 \in T PROVE FALSE
      OBVIOUS
    <2>1. <<x - 1, x>> \in Nat \X Nat /\ <<x - 1, x>>[1] < <<x - 1, x>>[2]
      BY <1>4
    <2>2. <<x - 1, x>> \in R
      BY <2>1
    <2> QED BY <1>3, <2>2
  <1> QED BY <1>3, <1>4, <1>5

\* A set of naturals that is not empty has a least member, and Min is it.
LEMMA LeastMember ==
    ASSUME NEW T, T \subseteq Nat, T # {}
    PROVE  Min(T) \in T /\ \A y \in T : Min(T) <= y
  <1> DEFINE R == {ss \in Nat \X Nat : ss[1] < ss[2]}
  <1>1. IsWellFoundedOn(R, Nat)
    BY NatLessThanWellFounded DEF OpToRel
  <1>2. PICK x \in T : \A y \in T : ~ (<<y, x>> \in R)
    <2> HIDE DEF R
    <2> QED BY <1>1, WFMin, Zenon
  <1>3. \A y \in T : x <= y
    <2> SUFFICES ASSUME NEW y \in T, ~(x <= y) PROVE FALSE
      OBVIOUS
    <2>1. <<y, x>> \in Nat \X Nat /\ <<y, x>>[1] < <<y, x>>[2]
      OBVIOUS
    <2>2. <<y, x>> \in R
      BY <2>1
    <2> QED BY <1>2, <2>2
  <1> QED BY <1>3 DEF Min

\* A finite set of naturals that is not empty has a greatest member, Max.
LEMMA GreatestMember ==
    ASSUME NEW T, T \subseteq Nat, T # {}, IsFiniteSet(T)
    PROVE  Max(T) \in T /\ \A y \in T : y <= Max(T)
  <1> DEFINE Bounded == {n \in Nat : \A U \in SUBSET T :
                           IsFiniteSet(U) /\ Cardinality(U) = n /\ U # {}
                             => \E m \in U : \A y \in U : y <= m}
  <1>1. 0 \in Bounded
    <2>1. SUFFICES ASSUME NEW U \in SUBSET T, IsFiniteSet(U), Cardinality(U) = 0
                   PROVE  U = {}
      OBVIOUS
    <2> QED BY <2>1, FS_EmptySet
  <1>2. ASSUME NEW n \in Nat, n \in Bounded PROVE n + 1 \in Bounded
    <2>1. SUFFICES ASSUME NEW U \in SUBSET T, IsFiniteSet(U), Cardinality(U) = n + 1
                   PROVE  \E m \in U : \A y \in U : y <= m
      OBVIOUS
    <2>2. U # {}
      BY <2>1, FS_EmptySet
    <2>3. PICK x \in U : TRUE
      BY <2>2
    <2>4. IsFiniteSet(U \ {x}) /\ Cardinality(U \ {x}) = n
      <3>1. IsFiniteSet(U \ {x})
        BY <2>1, FS_RemoveElement
      <3>2. Cardinality(U \ {x}) = (n + 1) - 1
        BY <2>1, FS_RemoveElement
      <3> QED BY <3>1, <3>2
    <2>5. CASE U \ {x} = {}
      BY <2>5
    <2>6. CASE U \ {x} # {}
      <3>1. U \ {x} \in SUBSET T
        OBVIOUS
      <3>2. PICK m \in U \ {x} : \A y \in U \ {x} : y <= m
        BY <1>2, <2>4, <2>6, <3>1
      <3>3. m \in Nat /\ x \in Nat /\ \A y \in U : y \in Nat
        OBVIOUS
      <3>4. CASE x <= m
        <4>1. \A y \in U : y <= m
          BY <3>2, <3>4
        <4> QED BY <4>1
      <3>5. CASE m <= x
        <4>1. \A y \in U : y <= x
          BY <3>2, <3>3, <3>5
        <4> QED BY <4>1
      <3> QED BY <3>3, <3>4, <3>5
    <2> QED BY <2>5, <2>6
  <1>3. Nat \subseteq Bounded
    <2> HIDE DEF Bounded
    <2> QED BY <1>1, <1>2, SetInduction
  <1>4. Cardinality(T) \in Bounded
    BY <1>3, FS_CardinalityType
  <1>5. \E m \in T : \A y \in T : y <= m
    BY <1>4
  <1> QED BY <1>5 DEF Max

-----------------------------------------------------------------------------
(* Sequences *)

\* What a function maps the elements of a sequence to is a finite set.
LEMMA FiniteImage ==
    ASSUME NEW S, NEW s \in Seq(S), NEW f
    PROVE  /\ IsFiniteSet(ToSet(s))
           /\ IsFiniteSet({f[x] : x \in ToSet(s)})
  <1> DEFINE T == {f[x] : x \in ToSet(s)}
             g == [n \in 1..Len(s) |-> s[n]]
             h == [n \in 1..Len(s) |-> f[s[n]]]
  <1>1. Len(s) \in Nat /\ DOMAIN s = 1..Len(s)
    OBVIOUS
  <1>2. IsFiniteSet(1..Len(s))
    BY <1>1, FS_Interval
  <1>3. g \in Surjection(1..Len(s), ToSet(s))
    BY <1>1 DEF Surjection, ToSet
  <1>4. h \in Surjection(1..Len(s), T)
    BY <1>1 DEF Surjection, ToSet
  <1>5. IsFiniteSet(ToSet(s))
    BY <1>2, <1>3, FS_Surjection
  <1>6. IsFiniteSet(T)
    <2> HIDE DEF T, h
    <2> QED BY <1>2, <1>4, FS_Surjection
  <1> QED BY <1>5, <1>6

\* The elements of a sequence by their positions.
LEMMA ToSetElements ==
    ASSUME NEW S, NEW s \in Seq(S)
    PROVE  /\ ToSet(s) \subseteq S
           /\ \A x : x \in ToSet(s) <=> \E n \in 1..Len(s) : s[n] = x
  BY DEF ToSet

\* Appending an element.
LEMMA AppendElements ==
    ASSUME NEW S, NEW s \in Seq(S), NEW e \in S
    PROVE  /\ Append(s, e) \in Seq(S)
           /\ Len(Append(s, e)) = Len(s) + 1
           /\ \A n \in 1..Len(s) : Append(s, e)[n] = s[n]
           /\ Append(s, e)[Len(s) + 1] = e
           /\ ToSet(Append(s, e)) = ToSet(s) \cup {e}
  <1>1. /\ Append(s, e) \in Seq(S)
        /\ Len(Append(s, e)) = Len(s) + 1
        /\ \A n \in 1..Len(s) : Append(s, e)[n] = s[n]
        /\ Append(s, e)[Len(s) + 1] = e
    OBVIOUS
  <1>2. ToSet(Append(s, e)) \subseteq ToSet(s) \cup {e}
    <2>0. \A x : x \in ToSet(Append(s, e)) =>
                   \E n \in 1..(Len(s) + 1) : Append(s, e)[n] = x
      <3> DEFINE t == Append(s, e)
      <3>1. t \in Seq(S) /\ Len(t) = Len(s) + 1
        BY <1>1
      <3> HIDE DEF t
      <3>2. \A x : x \in ToSet(t) <=> \E n \in 1..Len(t) : t[n] = x
        BY <3>1, ToSetElements
      <3> QED BY <3>1, <3>2 DEF t
    <2> SUFFICES ASSUME NEW n \in 1..(Len(s) + 1)
                 PROVE  Append(s, e)[n] \in ToSet(s) \cup {e}
      BY <2>0
    <2>1. n \in 1..Len(s) \/ n = Len(s) + 1
      OBVIOUS
    <2> QED BY <1>1, <2>1, ToSetElements
  <1>3. ASSUME NEW n \in 1..Len(s) PROVE s[n] \in ToSet(Append(s, e))
    <2>1. n \in 1..Len(Append(s, e)) /\ Append(s, e)[n] = s[n]
      BY <1>1
    <2> QED BY <1>1, <2>1, ToSetElements
  <1>4. e \in ToSet(Append(s, e))
    <2>1. Len(s) + 1 \in 1..Len(Append(s, e))
      BY <1>1
    <2> QED BY <1>1, <2>1, ToSetElements
  <1> QED BY <1>1, <1>2, <1>3, <1>4, ToSetElements

\* Removing the element at a position: those behind it move forward.
LEMMA RemoveAtElements ==
    ASSUME NEW S, NEW s \in Seq(S), NEW k \in 1..Len(s)
    PROVE  /\ RemoveAt(s, k) \in Seq(S)
           /\ Len(RemoveAt(s, k)) = Len(s) - 1
           /\ \A n \in 1..(Len(s) - 1) :
                 RemoveAt(s, k)[n] = IF n < k THEN s[n] ELSE s[n + 1]
  <1> DEFINE a == SubSeq(s, 1, k - 1)
             b == SubSeq(s, k + 1, Len(s))
  <1>1. /\ a \in Seq(S) /\ Len(a) = k - 1
        /\ \A n \in 1..(k - 1) : a[n] = s[n]
    <2>1. \A n \in 1..(k - 1) : s[n] \in S
      OBVIOUS
    <2>2. /\ SubSeq(s, 1, k - 1) \in Seq(S)
          /\ Len(SubSeq(s, 1, k - 1)) = IF 1 <= k - 1 THEN (k - 1) - 1 + 1 ELSE 0
          /\ \A n \in 1..((k - 1) - 1 + 1) : SubSeq(s, 1, k - 1)[n] = s[1 + n - 1]
      BY <2>1, SubSeqProperties
    <2> QED BY <2>2
  <1>2. /\ b \in Seq(S) /\ Len(b) = Len(s) - k
        /\ \A n \in 1..(Len(s) - k) : b[n] = s[k + n]
    <2>1. \A n \in (k + 1)..Len(s) : s[n] \in S
      OBVIOUS
    <2>2. /\ SubSeq(s, k + 1, Len(s)) \in Seq(S)
          /\ Len(SubSeq(s, k + 1, Len(s)))
               = IF k + 1 <= Len(s) THEN Len(s) - (k + 1) + 1 ELSE 0
          /\ \A n \in 1..(Len(s) - (k + 1) + 1) :
                SubSeq(s, k + 1, Len(s))[n] = s[(k + 1) + n - 1]
      BY <2>1, SubSeqProperties
    <2> QED BY <2>2
  <1>3. RemoveAt(s, k) = a \o b
    BY DEF RemoveAt
  <1>4. /\ a \o b \in Seq(S)
        /\ Len(a \o b) = Len(a) + Len(b)
        /\ \A n \in 1..(Len(a) + Len(b)) :
              (a \o b)[n] = IF n <= Len(a) THEN a[n] ELSE b[n - Len(a)]
    <2> HIDE DEF a, b
    <2> QED BY <1>1, <1>2, ConcatProperties
  <1> HIDE DEF a, b
  <1>5. ASSUME NEW n \in 1..(Len(s) - 1)
        PROVE  (a \o b)[n] = IF n < k THEN s[n] ELSE s[n + 1]
    BY <1>1, <1>2, <1>4
  <1> QED BY <1>1, <1>2, <1>3, <1>4, <1>5

\* Joining sequences of S gives a sequence of S.  FlattenSeq is a recursive
\* function: that there is one is shown for ever longer prefixes of seqs.
LEMMA FlattenSeqType ==
    ASSUME NEW S, NEW seqs \in Seq(Seq(S))
    PROVE  FlattenSeq(seqs) \in Seq(S)
  <1> DEFINE Step(g, n) == [k \in 1..n |-> IF k = 1 THEN seqs[k] ELSE g[k - 1] \o seqs[k]]
             Good == {n \in Nat : \E g \in [1..n -> Seq(S)] : g = Step(g, n)}
             N == Len(seqs)
  <1>1. CASE N = 0
    BY <1>1 DEF FlattenSeq
  <1>2. CASE N # 0
    <2>1. N \in Nat /\ \A k \in 1..N : seqs[k] \in Seq(S)
      OBVIOUS
    <2> DEFINE Prefix == {n \in Nat : n <= N => n \in Good}
    <2>2. 0 \in Prefix
      <3> DEFINE e == [k \in 1..0 |-> <<>>]
      <3>1. e \in [1..0 -> Seq(S)] /\ e = Step(e, 0)
        OBVIOUS
      <3> QED BY <3>1
    <2>3. ASSUME NEW n \in Nat, n \in Prefix PROVE n + 1 \in Prefix
      <3> SUFFICES ASSUME n + 1 <= N PROVE n + 1 \in Good
        <4> HIDE DEF Good, N
        <4> QED OBVIOUS
      <3>0. n \in Good
        <4> HIDE DEF Good
        <4> QED BY <2>1, <2>3
      <3>1. PICK g \in [1..n -> Seq(S)] : g = Step(g, n)
        <4> HIDE DEF Step
        <4> QED BY <3>0
      <3> DEFINE h == [k \in 1..(n + 1) |-> IF k = n + 1
                                           THEN IF n = 0 THEN seqs[1] ELSE g[n] \o seqs[n + 1]
                                           ELSE g[k]]
      <3>2. h \in [1..(n + 1) -> Seq(S)]
        <4>1. seqs[n + 1] \in Seq(S) /\ seqs[1] \in Seq(S)
          BY <2>1
        <4>2. n # 0 => g[n] \in Seq(S)
          OBVIOUS
        <4>3. n # 0 => g[n] \o seqs[n + 1] \in Seq(S)
          BY <4>1, <4>2
        <4> QED BY <4>1, <4>3
      <3>3. ASSUME NEW k \in 1..(n + 1)
            PROVE  h[k] = IF k = 1 THEN seqs[k] ELSE h[k - 1] \o seqs[k]
        <4>1. CASE k = n + 1
          BY <4>1
        <4>2. CASE k # n + 1
          <5>1. k \in 1..n /\ h[k] = g[k]
            BY <4>2
          <5>2. g[k] = IF k = 1 THEN seqs[k] ELSE g[k - 1] \o seqs[k]
            BY <3>1, <5>1
          <5>3. k # 1 => h[k - 1] = g[k - 1]
            BY <5>1
          <5> QED BY <5>1, <5>2, <5>3
        <4> QED BY <4>1, <4>2
      <3>4. h = Step(h, n + 1)
        <4> HIDE DEF h
        <4> QED BY <3>2, <3>3
      <3> HIDE DEF h, Step
      <3> QED BY <3>2, <3>4
    <2>4. N \in Good
      <3>1. Nat \subseteq Prefix
        <4> HIDE DEF Prefix
        <4> QED BY <2>2, <2>3, SetInduction
      <3> HIDE DEF Good
      <3> QED BY <2>1, <3>1
    <2> DEFINE f == CHOOSE g : g = Step(g, N)
    <2>5. f = Step(f, N)
      <3>1. \E g : g = Step(g, N)
        <4> HIDE DEF Step
        <4> QED BY <2>4
      <3> HIDE DEF Step
      <3> QED BY <3>1
    <2>6. FlattenSeq(seqs) = f[N]
      BY <1>2 DEF FlattenSeq
    <2> HIDE DEF f
    <2> DEFINE Typed == {n \in Nat : n \in 1..N => f[n] \in Seq(S)}
    <2>7. ASSUME NEW n \in Nat, n \in Typed PROVE n + 1 \in Typed
      <3> SUFFICES ASSUME n + 1 \in 1..N PROVE f[n + 1] \in Seq(S)
        OBVIOUS
      <3>1. f[n + 1] = IF n + 1 = 1 THEN seqs[n + 1] ELSE f[n] \o seqs[n + 1]
        <4>1. Step(f, N)[n + 1] = IF n + 1 = 1 THEN seqs[n + 1] ELSE f[n] \o seqs[n + 1]
          BY <2>1
        <4> HIDE DEF Step
        <4> QED BY <2>5, <4>1
      <3>2. seqs[n + 1] \in Seq(S)
        BY <2>1
      <3>3. CASE n = 0
        BY <3>1, <3>2, <3>3
      <3>4. CASE n # 0
        <4>1. f[n] \in Seq(S)
          BY <2>1, <2>7, <3>4
        <4> QED BY <3>1, <3>2, <3>4, <4>1
      <3> QED BY <3>3, <3>4
    <2>8. Nat \subseteq Typed
      <3>1. 0 \in Typed
        OBVIOUS
      <3> HIDE DEF Typed
      <3> QED BY <2>7, <3>1, SetInduction
    <2> QED BY <1>2, <2>1, <2>6, <2>8
  <1> QED BY <1>1, <1>2

\* One sequence alone.
LEMMA FlattenOne ==
    ASSUME NEW x
    PROVE  FlattenSeq([n \in 1..1 |-> x]) = x
  <1> DEFINE s == [n \in 1..1 |-> x]
             Step(g) == [k \in 1..1 |-> IF k = 1 THEN s[k] ELSE g[k - 1] \o s[k]]
             f == CHOOSE g : g = Step(g)
  <1>1. Len(s) = 1 /\ s[1] = x
    OBVIOUS
  <1>2. f = Step(f)
    <2> DEFINE e == [k \in 1..1 |-> s[1]]
    <2>1. e = Step(e)
      <3> HIDE DEF s
      <3> QED OBVIOUS
    <2>2. \E g : g = Step(g)
      <3> HIDE DEF e, Step
      <3> QED BY <2>1
    <2> HIDE DEF Step
    <2> QED BY <2>2
  <1>3. f[1] = x
    <2>1. Step(f)[1] = s[1]
      <3> HIDE DEF f, s
      <3> QED OBVIOUS
    <2> HIDE DEF f, Step
    <2> QED BY <1>1, <1>2, <2>1
  <1>4. FlattenSeq(s) = f[1]
    <2>1. FlattenSeq(s) = f[Len(s)]
      <3> HIDE DEF s
      <3> QED BY <1>1 DEF FlattenSeq
    <2> HIDE DEF f
    <2> QED BY <1>1, <2>1
  <1> HIDE DEF f
  <1> QED BY <1>3, <1>4 DEF s

=============================================================================
