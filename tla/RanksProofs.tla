----------------------------- MODULE RanksProofs -----------------------------
(***************************************************************************)
(* Facts about ranks and sequences that the proofs of the components cite. *)
(***************************************************************************)
EXTENDS Ranks, Sequences, Functions, FiniteSetTheorems, TLAPS

\* A function on 1..n is a sequence of its values.
LEMMA SequenceIntro ==
  ASSUME NEW T, NEW n \in Nat, NEW s, DOMAIN s = 1 .. n,
         s = [i \in 1 .. n |-> s[i]], \A i \in 1 .. n : s[i] \in T
  PROVE  s \in Seq(T) /\ Len(s) = n
<1>1. s \in [1 .. n -> T]
  OBVIOUS
<1>2. s \in Seq(T)
  BY <1>1
<1> QED
  BY <1>2

\* An item of a sequence is of the sequence's type.
LEMMA ItemType ==
  ASSUME NEW T, NEW s \in Seq(T), NEW i \in 1 .. Len(s)
  PROVE  s[i] \in T
OBVIOUS

\* What is left of a sequence when its head is taken.
LEMMA TailFacts ==
  ASSUME NEW T, NEW s \in Seq(T), s # <<>>
  PROVE  /\ Len(s) \in Nat /\ Len(s) >= 1 /\ Head(s) = s[1] /\ Head(s) \in T
         /\ Tail(s) \in Seq(T) /\ Len(Tail(s)) = Len(s) - 1
         /\ \A i \in 1 .. Len(s) - 1 : Tail(s)[i] = s[i + 1]
OBVIOUS

\* A concatenation holds the items of both sequences in turn.
LEMMA ConcatFacts ==
  ASSUME NEW T, NEW s \in Seq(T), NEW t \in Seq(T)
  PROVE  /\ s \o t \in Seq(T)
         /\ Len(s \o t) = Len(s) + Len(t)
         /\ \A i \in 1 .. Len(s) : (s \o t)[i] = s[i]
         /\ \A i \in 1 .. Len(t) : (s \o t)[Len(s) + i] = t[i]
  OBVIOUS

\* Every item of a concatenation is one of the first sequence or one of the
\* second.
LEMMA ConcatSplit ==
  ASSUME NEW T, NEW s \in Seq(T), NEW t \in Seq(T), NEW i \in 1 .. Len(s \o t)
  PROVE  \/ i \in 1 .. Len(s) /\ (s \o t)[i] = s[i]
         \/ \E j \in 1 .. Len(t) : i = Len(s) + j /\ (s \o t)[i] = t[j]
<1>1. Len(s) \in Nat /\ Len(t) \in Nat /\ i \in Nat /\ 1 <= i /\ i <= Len(s) + Len(t)
  BY ConcatFacts
<1>2. CASE i <= Len(s)
  BY <1>1, <1>2, ConcatFacts
<1>3. CASE i > Len(s)
  <2>1. i - Len(s) \in 1 .. Len(t) /\ i = Len(s) + (i - Len(s))
    BY <1>1, <1>3
  <2> QED
    BY <2>1, ConcatFacts
<1> QED
  BY <1>1, <1>2, <1>3

\* Rank numbers the members of a finite set of integers from 1 in increasing
\* order, and AtRank is its inverse.
LEMMA FiniteRankFacts ==
  ASSUME NEW S \in SUBSET Int, IsFiniteSet(S)
  PROVE  /\ Cardinality(S) \in Nat
         /\ \A i \in S : Rank(S, i) \in 1 .. Cardinality(S)
         /\ \A i, j \in S : i < j => Rank(S, i) < Rank(S, j)
         /\ \A i, j \in S : Rank(S, i) = Rank(S, j) => i = j
         /\ \A k \in 1 .. Cardinality(S) :
              AtRank(S, k) \in S /\ Rank(S, AtRank(S, k)) = k
         /\ \A i \in S : AtRank(S, Rank(S, i)) = i
<1> DEFINE upTo(i) == { j \in S : j <= i }
<1>0. \A i \in S : i \in Int
  OBVIOUS
<1>1. IsFiniteSet(S) /\ Cardinality(S) \in Nat
  BY FS_CardinalityType
<1>2. ASSUME NEW i \in S
      PROVE  Rank(S, i) \in Nat /\ 1 <= Rank(S, i) /\ Rank(S, i) <= Cardinality(S)
  <2>1. upTo(i) \in SUBSET S /\ upTo(i) # {}
    BY <1>0
  <2>2. IsFiniteSet(upTo(i)) /\ Cardinality(upTo(i)) <= Cardinality(S)
    BY <1>1, <2>1, FS_Subset
  <2>3. Cardinality(upTo(i)) \in Nat /\ Cardinality(upTo(i)) # 0
    BY <2>1, <2>2, FS_CardinalityType, FS_EmptySet
  <2>4. Rank(S, i) = Cardinality(upTo(i))
    BY DEF Rank
  <2> HIDE DEF upTo
  <2> QED
    BY <1>1, <2>2, <2>3, <2>4
<1>3. ASSUME NEW i \in S, NEW j \in S, i < j
      PROVE  Rank(S, i) < Rank(S, j)
  <2>1. upTo(i) \in SUBSET upTo(j)
    <3> SUFFICES ASSUME NEW k \in S, k <= i
                 PROVE  k <= j
      OBVIOUS
    <3>1. i \in Int /\ j \in Int /\ k \in Int
      BY <1>0
    <3> QED
      BY <1>3, <3>1
  <2>2. j \in upTo(j) /\ j \notin upTo(i)
    BY <1>0, <1>3
  <2>3. IsFiniteSet(upTo(j))
    BY <1>1, FS_Subset
  <2>4. Cardinality(upTo(i)) <= Cardinality(upTo(j))
        /\ Cardinality(upTo(i)) # Cardinality(upTo(j))
    BY <2>1, <2>2, <2>3, FS_Subset
  <2>5. Rank(S, i) = Cardinality(upTo(i)) /\ Rank(S, j) = Cardinality(upTo(j))
    BY DEF Rank
  <2>6. Rank(S, i) \in Nat /\ Rank(S, j) \in Nat
    BY <1>2
  <2> HIDE DEF upTo
  <2> QED
    BY <2>4, <2>5, <2>6
<1>4. \A i, j \in S : Rank(S, i) = Rank(S, j) => i = j
  <2> SUFFICES ASSUME NEW i \in S, NEW j \in S, Rank(S, i) = Rank(S, j), i # j
               PROVE  FALSE
    OBVIOUS
  <2>1. i \in Int /\ j \in Int /\ (i < j \/ j < i)
    BY <1>0
  <2>2. Rank(S, i) < Rank(S, j) \/ Rank(S, j) < Rank(S, i)
    BY <1>3, <2>1
  <2>3. Rank(S, i) \in Nat /\ Rank(S, j) \in Nat
    BY <1>2
  <2> QED
    BY <2>2, <2>3
<1>5. ASSUME NEW k \in 1 .. Cardinality(S)
      PROVE  \E i \in S : Rank(S, i) = k
  <2> DEFINE f == [i \in S |-> Rank(S, i)]
  <2>1. f \in [S -> 1 .. Cardinality(S)]
    BY <1>1, <1>2
  <2>2. \A i, j \in S : f[i] = f[j] => i = j
    BY <1>4
  <2>3. f \in Injection(S, 1 .. Cardinality(S))
    BY <2>1, <2>2 DEF Injection, IsInjective
  <2>4. IsFiniteSet(1 .. Cardinality(S))
        /\ Cardinality(1 .. Cardinality(S)) = Cardinality(S)
    BY <1>1, FS_Interval
  <2>5. f \in Surjection(S, 1 .. Cardinality(S))
    BY <2>3, <2>4, FS_Injection
  <2> QED
    BY <2>5 DEF Surjection
<1>6. ASSUME NEW k \in 1 .. Cardinality(S)
      PROVE  AtRank(S, k) \in S /\ Rank(S, AtRank(S, k)) = k
  BY <1>5 DEF AtRank
<1>7. \A i \in S : Rank(S, i) \in 1 .. Cardinality(S)
  BY <1>1, <1>2
<1>8. \A i \in S : AtRank(S, Rank(S, i)) = i
  BY <1>4, <1>6, <1>7
<1> QED
  BY <1>1, <1>3, <1>4, <1>6, <1>7, <1>8

\* The same for a set of positions.
LEMMA RankFacts ==
  ASSUME NEW n \in Nat, NEW S \in SUBSET (1 .. n)
  PROVE  /\ Cardinality(S) \in Nat
         /\ \A i \in S : Rank(S, i) \in 1 .. Cardinality(S)
         /\ \A i, j \in S : i < j => Rank(S, i) < Rank(S, j)
         /\ \A k \in 1 .. Cardinality(S) :
              AtRank(S, k) \in S /\ Rank(S, AtRank(S, k)) = k
<1>1. IsFiniteSet(1 .. n)
  BY FS_Interval
<1>2. IsFiniteSet(S)
  BY <1>1, FS_Subset
<1>3. S \in SUBSET Int
  OBVIOUS
<1> QED
  BY <1>2, <1>3, FiniteRankFacts

\* As many members as one counts have a rank up to the count.
LEMMA RankPrefix ==
  ASSUME NEW S \in SUBSET Int, IsFiniteSet(S), NEW t \in 0 .. Cardinality(S)
  PROVE  /\ IsFiniteSet({ i \in S : Rank(S, i) <= t })
         /\ Cardinality({ i \in S : Rank(S, i) <= t }) = t
<1> DEFINE P == { i \in S : Rank(S, i) <= t }
           f == [i \in P |-> Rank(S, i)]
<1>0. Cardinality(S) \in Nat /\ t \in Nat /\ t <= Cardinality(S)
  BY FiniteRankFacts
<1>1. f \in [P -> 1 .. t]
  <2> SUFFICES ASSUME NEW i \in P
               PROVE  Rank(S, i) \in 1 .. t
    OBVIOUS
  <2>1. Rank(S, i) \in 1 .. Cardinality(S) /\ Rank(S, i) <= t
    BY FiniteRankFacts
  <2> QED
    BY <1>0, <2>1
<1>2. \A i, j \in P : f[i] = f[j] => i = j
  BY FiniteRankFacts
<1>3. \A k \in 1 .. t : \E i \in P : f[i] = k
  <2> SUFFICES ASSUME NEW k \in 1 .. t
               PROVE  AtRank(S, k) \in P /\ f[AtRank(S, k)] = k
    OBVIOUS
  <2>1. k \in 1 .. Cardinality(S)
    BY <1>0
  <2>2. AtRank(S, k) \in S /\ Rank(S, AtRank(S, k)) = k
    BY <2>1, FiniteRankFacts
  <2> QED
    BY <1>0, <2>2
<1>4. f \in Bijection(P, 1 .. t)
  BY <1>1, <1>2, <1>3 DEF Bijection, Injection, IsInjective, Surjection
<1>5. IsFiniteSet(P)
  BY FS_Subset
<1>6. IsFiniteSet(1 .. t) /\ Cardinality(1 .. t) = t
  BY <1>0, FS_Interval
<1> HIDE DEF P, f
<1>7. Cardinality(P) = t
  BY <1>4, <1>5, <1>6, FS_Bijection DEF ExistsBijection
<1> QED
  BY <1>5, <1>7 DEF P

\* A set that is not empty has a last member.
LEMMA LastMember ==
  ASSUME NEW n \in Nat, NEW S \in SUBSET (1 .. n), S # {}
  PROVE  \E i \in S : \A j \in S : ~ (j > i)
<1>1. IsFiniteSet(S) /\ Cardinality(S) \in Nat /\ Cardinality(S) # 0
  <2>1. IsFiniteSet(1 .. n)
    BY FS_Interval
  <2>2. IsFiniteSet(S)
    BY <2>1, FS_Subset
  <2> QED
    BY <2>2, FS_CardinalityType, FS_EmptySet
<1> DEFINE c == Cardinality(S)
           i == AtRank(S, c)
<1>2. c \in 1 .. c
  BY <1>1
<1>3. i \in S /\ Rank(S, i) = c
  BY <1>2, RankFacts
<1>4. ASSUME NEW j \in S, j > i
      PROVE  FALSE
  <2>1. Rank(S, i) < Rank(S, j) /\ Rank(S, j) \in 1 .. c
    BY <1>3, <1>4, RankFacts
  <2> QED
    BY <1>1, <1>3, <2>1
<1> QED
  BY <1>3, <1>4

\* A finite set of integers that is not empty has a first member.
LEMMA FirstMember ==
  ASSUME NEW S \in SUBSET Int, IsFiniteSet(S), S # {}
  PROVE  \E i \in S : \A j \in S : i <= j
<1>1. Cardinality(S) \in Nat /\ Cardinality(S) # 0
  BY FS_CardinalityType, FS_EmptySet
<1> DEFINE i == AtRank(S, 1)
<1>2. i \in S /\ Rank(S, i) = 1
  <2>1. 1 \in 1 .. Cardinality(S)
    BY <1>1
  <2> QED
    BY <2>1, FiniteRankFacts
<1>3. ASSUME NEW j \in S, j < i
      PROVE  FALSE
  <2>1. Rank(S, j) < Rank(S, i) /\ Rank(S, j) \in 1 .. Cardinality(S)
    BY <1>2, <1>3, FiniteRankFacts
  <2> QED
    BY <1>1, <1>2, <2>1
<1>4. \A j \in S : i \in Int /\ j \in Int
  BY <1>2
<1> HIDE DEF i
<1>5. \A j \in S : i <= j
  BY <1>3, <1>4
<1> QED
  BY <1>2, <1>5

\* A quotient and a remainder that fit are the quotient and the remainder.
LEMMA DivUnique ==
  ASSUME NEW n \in Int, NEW d \in Nat \ {0}, NEW q \in Int, NEW r \in 0 .. d - 1,
         n = q * d + r
  PROVE  n \div d = q /\ n % d = r
  OBVIOUS

\* What holds for 0 and passes from each number to the next holds up to n.
LEMMA PassedOn ==
  ASSUME NEW n \in Nat, NEW Good \in SUBSET (0 .. n), 0 \in Good,
         \A i \in 1 .. n : i - 1 \in Good => i \in Good
  PROVE  Good = 0 .. n
<1> DEFINE Bad == (0 .. n) \ Good
<1>1. Bad \in SUBSET Int /\ IsFiniteSet(Bad)
  <2>1. IsFiniteSet(0 .. n)
    BY FS_Interval
  <2> QED
    BY <2>1, FS_Subset
<1>2. ASSUME Bad # {}
      PROVE  FALSE
  <2>1. PICK i \in Bad : \A j \in Bad : i <= j
    BY <1>1, <1>2, FirstMember
  <2>2. i \in 1 .. n /\ i - 1 \in 0 .. n /\ ~ (i <= i - 1)
    BY <2>1
  <2>3. i - 1 \in Good
    BY <2>1, <2>2
  <2> QED
    BY <2>1, <2>2, <2>3
<1> QED
  BY <1>2
=============================================================================
