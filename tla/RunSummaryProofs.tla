--------------------------- MODULE RunSummaryProofs ---------------------------
(***************************************************************************)
(* What the operators of Collections and RunSummary compute, for sequences *)
(* of any length.                                                          *)
(***************************************************************************)
EXTENDS RunSummary, FiniteSetTheorems, SequenceTheorems, TLAPS

KeepContent(kept, e) == IF e.content THEN Append(kept, e) ELSE kept
KeepTokens(kept, e)  == IF e.tokens # 0 THEN Append(kept, e) ELSE kept

Sorts    == INSTANCE FoldLemmas WITH Base <- <<>>, Op <- Inserted
Joins    == INSTANCE FoldLemmas WITH Base <- <<>>, Op <- \o
Sums     == INSTANCE FoldLemmas WITH Base <- 0, Op <- +
Usages   == INSTANCE FoldLemmas WITH Base <- NoTotals, Op <- AddUsage
Contents == INSTANCE FoldLemmas WITH Base <- <<>>, Op <- KeepContent
Carriers == INSTANCE FoldLemmas WITH Base <- <<>>, Op <- KeepTokens

(***************************************************************************)
(* Sets of indices                                                         *)
(***************************************************************************)

LEMMA FiniteIndices ==
  ASSUME NEW n \in Nat, NEW I, I \subseteq 1 .. n
  PROVE  IsFiniteSet(I) /\ Cardinality(I) \in Nat /\ Cardinality(I) <= n
<1>1. IsFiniteSet(1 .. n) /\ Cardinality(1 .. n) = n
  BY FS_Interval
<1>2. I \in SUBSET (1 .. n)
  OBVIOUS
<1> QED
  BY <1>1, <1>2, FS_Subset, FS_CardinalityType

LEMMA IntervalSize ==
  ASSUME NEW a \in Int, NEW b \in Int, a <= b + 1
  PROVE  Cardinality(a .. b) = b - a + 1
<1>1. Cardinality(a .. b) = IF a > b THEN 0 ELSE b - a + 1
  BY FS_Interval
<1> QED
  BY <1>1

(* the cardinality of a part                                               *)
LEMMA PartSmaller ==
  ASSUME NEW n \in Nat, NEW I, I \subseteq 1 .. n, NEW J, J \subseteq I
  PROVE  /\ Cardinality(J) <= Cardinality(I)
         /\ J # I => Cardinality(J) < Cardinality(I)
<1>1. IsFiniteSet(I) /\ Cardinality(I) \in Nat /\ Cardinality(J) \in Nat
  BY FiniteIndices
<1>2. J \in SUBSET I
  OBVIOUS
<1>3. Cardinality(J) <= Cardinality(I) /\ (Cardinality(I) = Cardinality(J) => I = J)
  BY <1>1, <1>2, FS_Subset, Zenon
<1> QED
  BY <1>1, <1>3

(* two parts without a common element                                      *)
LEMMA PartsAdd ==
  ASSUME NEW n \in Nat, NEW I, I \subseteq 1 .. n, NEW J, J \subseteq 1 .. n, I \cap J = {}
  PROVE  Cardinality(I \cup J) = Cardinality(I) + Cardinality(J)
<1>1. IsFiniteSet(I) /\ IsFiniteSet(J) /\ Cardinality(I) \in Nat /\ Cardinality(J) \in Nat
  BY FiniteIndices
<1>2. Cardinality(I \cap J) = 0
  BY FS_EmptySet
<1>3. Cardinality(I \cup J) = Cardinality(I) + Cardinality(J) - Cardinality(I \cap J)
  BY <1>1, FS_Union, Zenon
<1> QED
  BY <1>1, <1>2, <1>3

LEMMA RankBounds ==
  ASSUME NEW n \in Nat, NEW I, I \subseteq 1 .. n, NEW i \in I
  PROVE  Rank(i, I) \in 1 .. Cardinality(I)
<1> DEFINE J == {j \in I : j <= i}
<1>1. J \subseteq I /\ i \in J
  OBVIOUS
<1>2. Cardinality(J) <= Cardinality(I) /\ Cardinality(J) \in Nat /\ IsFiniteSet(J)
  BY <1>1, PartSmaller, FiniteIndices
<1>3. Cardinality(J) # 0
  BY <1>1, <1>2, FS_EmptySet
<1>4. Cardinality(I) \in Nat
  BY FiniteIndices
<1> QED
  BY <1>2, <1>3, <1>4 DEF Rank

LEMMA RankStrict ==
  ASSUME NEW n \in Nat, NEW I, I \subseteq 1 .. n, NEW i \in I, NEW j \in I, i < j
  PROVE  Rank(i, I) < Rank(j, I)
<1> DEFINE A == {l \in I : l <= i}
           B == {l \in I : l <= j}
<1>0. \A l \in I : l \in Int
  OBVIOUS
<1>1. A \subseteq B
  <2> SUFFICES ASSUME NEW l \in I, l <= i PROVE l <= j
    OBVIOUS
  <2>1. l \in Int /\ i \in Int /\ j \in Int
    BY <1>0
  <2> QED
    BY <2>1
<1>a. j \in B /\ j \notin A /\ B \subseteq 1 .. n
  <2>1. i \in Int /\ j \in Int
    BY <1>0
  <2>2. j <= j /\ ~ (j <= i)
    BY <2>1
  <2> QED
    BY <2>2
<1>2. A # B
  BY <1>a
<1> HIDE DEF A, B
<1>3. Cardinality(A) < Cardinality(B)
  BY <1>1, <1>a, <1>2, PartSmaller
<1> QED
  BY <1>3 DEF Rank, A, B

LEMMA RankInjective ==
  ASSUME NEW n \in Nat, NEW I, I \subseteq 1 .. n, NEW i \in I, NEW j \in I,
         Rank(i, I) = Rank(j, I)
  PROVE  i = j
<1>1. i \in Int /\ j \in Int
  OBVIOUS
<1>2. Rank(i, I) \in Int /\ Rank(j, I) \in Int
  <2>1. Rank(i, I) \in 1 .. Cardinality(I) /\ Rank(j, I) \in 1 .. Cardinality(I)
    BY RankBounds
  <2> QED
    BY <2>1
<1>3. i < j => Rank(i, I) < Rank(j, I)
  BY RankStrict
<1>4. j < i => Rank(j, I) < Rank(i, I)
  BY RankStrict
<1> QED
  BY <1>1, <1>2, <1>3, <1>4

LEMMA RankOnto ==
  ASSUME NEW n \in Nat, NEW I, I \subseteq 1 .. n, NEW k \in 1 .. Cardinality(I)
  PROVE  \E i \in I : Rank(i, I) = k
<1> DEFINE f == [i \in I |-> Rank(i, I)]
           K == 1 .. Cardinality(I)
<1>1. Cardinality(I) \in Nat /\ IsFiniteSet(I)
  BY FiniteIndices
<1>2. f \in [I -> K]
  BY RankBounds
<1>3. \A i, j \in I : f[i] = f[j] => i = j
  BY RankInjective
<1>4. IsFiniteSet(K) /\ Cardinality(K) = Cardinality(I)
  BY <1>1, FS_Interval
<1>5. f \in Injection(I, K)
  BY <1>2, <1>3 DEF Injection, IsInjective
<1>6. f \in Surjection(I, K)
  <2> HIDE DEF f, K
  <2> QED
    BY <1>4, <1>5, FS_Injection
<1> QED
  BY <1>6 DEF Surjection

(* The k-th index.                                                         *)
LEMMA AtRank ==
  ASSUME NEW n \in Nat, NEW I, I \subseteq 1 .. n
  PROVE  /\ \A k \in 1 .. Cardinality(I) : At(I, k) \in I /\ Rank(At(I, k), I) = k
         /\ \A i \in I : At(I, Rank(i, I)) = i
         /\ \A k, l \in 1 .. Cardinality(I) : k < l => At(I, k) < At(I, l)
<1>1. \A k \in 1 .. Cardinality(I) : At(I, k) \in I /\ Rank(At(I, k), I) = k
  BY RankOnto DEF At
<1>2. \A i, j \in I : Rank(i, I) = Rank(j, I) => i = j
  BY RankInjective
<1>3. \A i \in I : At(I, Rank(i, I)) = i
  BY <1>1, <1>2, RankBounds
<1>4. ASSUME NEW k \in 1 .. Cardinality(I), NEW l \in 1 .. Cardinality(I), k < l
      PROVE  At(I, k) < At(I, l)
  <2>0. At(I, k) \in I /\ At(I, l) \in I
    BY <1>1
  <2>1. At(I, k) \in Int /\ At(I, l) \in Int
    <3>1. \A i \in I : i \in Int
      OBVIOUS
    <3> QED
      BY <2>0, <3>1
  <2>2. At(I, k) # At(I, l)
    BY <1>1, <1>4
  <2>3. ~ (At(I, l) < At(I, k))
    <3>1. \A i, j \in I : i < j => Rank(i, I) < Rank(j, I)
      BY RankStrict
    <3>2. At(I, l) < At(I, k) => Rank(At(I, l), I) < Rank(At(I, k), I)
      BY <1>1, <3>1
    <3>3. At(I, l) < At(I, k) => l < k
      BY <1>1, <3>2
    <3> QED
      BY <3>3, <1>4
  <2> QED
    BY <2>1, <2>2, <2>3
<1> QED
  BY <1>1, <1>3, <1>4

(* the c indices behind the first a                                        *)
Block(a, c) == a + 1 .. a + c

LEMMA AtBlock ==
  ASSUME NEW a \in Nat, NEW c \in Nat
  PROVE  /\ Cardinality(Block(a, c)) = c
         /\ \A k \in 1 .. c : At(Block(a, c), k) = a + k
<1> DEFINE I == Block(a, c)
           n == a + c
<1>1. I = a + 1 .. n /\ I \subseteq 1 .. n /\ n \in Nat
  BY DEF Block
<1>2. Cardinality(I) = c
  <2>1. a + 1 \in Int /\ n \in Int /\ a + 1 <= n + 1
    OBVIOUS
  <2>2. Cardinality(a + 1 .. n) = n - (a + 1) + 1
    BY <2>1, IntervalSize
  <2> QED
    BY <1>1, <2>2
<1>3. ASSUME NEW k \in 1 .. c
      PROVE  Rank(a + k, I) = k /\ a + k \in I
  <2>1. {j \in I : j <= a + k} = a + 1 .. a + k
    BY <1>1
  <2>2. Cardinality(a + 1 .. a + k) = k
    <3>1. a + 1 \in Int /\ a + k \in Int
      OBVIOUS
    <3>2. Cardinality(a + 1 .. a + k) = (a + k) - (a + 1) + 1
      BY <3>1, IntervalSize
    <3> QED
      BY <3>2
  <2>3. Rank(a + k, I) = Cardinality({j \in I : j <= a + k})
    BY DEF Rank
  <2>4. a + k \in I
    BY <1>1
  <2> HIDE DEF I
  <2> QED
    BY <2>1, <2>2, <2>3, <2>4
<1>4. ASSUME NEW k \in 1 .. c
      PROVE  At(I, k) = a + k
  <2> HIDE DEF I, n
  <2>1. a + k \in I /\ Rank(a + k, I) = k
    BY <1>3
  <2>2. \A i \in I : At(I, Rank(i, I)) = i
    BY <1>1, AtRank
  <2> QED
    BY <2>1, <2>2
<1> QED
  BY <1>2, <1>4

(***************************************************************************)
(* Those                                                                   *)
(***************************************************************************)

(* Those are the elements at the indices, one for each.                    *)
LEMMA ThoseAre ==
  ASSUME NEW T, NEW s \in Seq(T), NEW I, I \subseteq DOMAIN s
  PROVE  /\ Those(s, I) \in Seq(T)
         /\ Len(Those(s, I)) = Cardinality(I)
         /\ Cardinality(I) \in Nat
         /\ \A k \in 1 .. Cardinality(I) :
              At(I, k) \in I /\ At(I, k) \in DOMAIN s /\ Those(s, I)[k] = s[At(I, k)]
         /\ \A i \in I : /\ Rank(i, I) \in 1 .. Cardinality(I)
                         /\ Those(s, I)[Rank(i, I)] = s[i]
<1>1. DOMAIN s = 1 .. Len(s) /\ Len(s) \in Nat /\ \A i \in 1 .. Len(s) : s[i] \in T
  OBVIOUS
<1>2. Cardinality(I) \in Nat
  BY <1>1, FiniteIndices
<1>3. \A k \in 1 .. Cardinality(I) : At(I, k) \in I
  BY <1>1, AtRank
<1>4. \A i \in I : Rank(i, I) \in 1 .. Cardinality(I) /\ At(I, Rank(i, I)) = i
  BY <1>1, AtRank, RankBounds
<1>5. \A k \in 1 .. Cardinality(I) : s[At(I, k)] \in T
  BY <1>1, <1>3
<1> QED
  BY <1>1, <1>2, <1>3, <1>4, <1>5 DEF Those

(* How many of those have a property: as many as there are indices.        *)
Picked(I, J) == {k \in 1 .. Cardinality(I) : At(I, k) \in J}

LEMMA ThoseCounted ==
  ASSUME NEW n \in Nat, NEW I, I \subseteq 1 .. n, NEW J, J \subseteq I
  PROVE  Cardinality(Picked(I, J)) = Cardinality(J)
<1>0. PICK K : K = {k \in 1 .. Cardinality(I) : At(I, k) \in J}
  OBVIOUS
<1> DEFINE f == [k \in K |-> At(I, k)]
<1>1. Cardinality(I) \in Nat /\ IsFiniteSet(K)
  <2>1. Cardinality(I) \in Nat
    BY FiniteIndices
  <2> QED
    BY <1>0, <2>1, FiniteIndices
<1>2. f \in [K -> J]
  BY <1>0
<1>3. \A k, l \in K : f[k] = f[l] => k = l
  <2> SUFFICES ASSUME NEW k \in K, NEW l \in K, At(I, k) = At(I, l) PROVE k = l
    OBVIOUS
  <2>1. Rank(At(I, k), I) = k /\ Rank(At(I, l), I) = l
    BY <1>0, AtRank
  <2> QED
    BY <2>1
<1>4. \A j \in J : \E k \in K : f[k] = j
  <2> SUFFICES ASSUME NEW j \in J PROVE \E k \in K : f[k] = j
    OBVIOUS
  <2>1. j \in I
    OBVIOUS
  <2>2. Rank(j, I) \in 1 .. Cardinality(I) /\ At(I, Rank(j, I)) = j
    BY <2>1, RankBounds, AtRank
  <2> QED
    BY <1>0, <2>2
<1>5. ExistsBijection(K, J)
  <2>1. f \in Bijection(K, J)
    BY <1>2, <1>3, <1>4 DEF Bijection, Injection, Surjection, IsInjective
  <2> QED
    BY <2>1 DEF ExistsBijection
<1>6. Cardinality(J) = Cardinality(K)
  BY <1>1, <1>5, FS_Bijection
<1> QED
  BY <1>0, <1>6 DEF Picked

(* a function on an interval is a sequence                                 *)
LEMMA SequenceOn ==
  ASSUME NEW n \in Nat, NEW R, NEW x \in [1 .. n -> R]
  PROVE  x \in Seq(R) /\ Len(x) = n /\ DOMAIN x = 1 .. n
  OBVIOUS

(* the elements at all indices of an interval                              *)
LEMMA ThoseBlock ==
  ASSUME NEW s, NEW a \in Nat, NEW c \in Nat
  PROVE  Those(s, Block(a, c)) = [k \in 1 .. c |-> s[a + k]]
<1>1. Cardinality(Block(a, c)) = c /\ \A k \in 1 .. c : At(Block(a, c), k) = a + k
  BY AtBlock
<1> QED
  BY <1>1 DEF Those

LEMMA Appended ==
  ASSUME NEW T, NEW s \in Seq(T), NEW e \in T
  PROVE  /\ Append(s, e) \in Seq(T)
         /\ Len(Append(s, e)) = Len(s) + 1
         /\ \A k \in 1 .. Len(s) : Append(s, e)[k] = s[k]
         /\ Append(s, e)[Len(s) + 1] = e
  OBVIOUS

(* The elements of a longer sequence.                                      *)
LEMMA ThoseAppend ==
  ASSUME NEW T, NEW s \in Seq(T), NEW e \in T, NEW I, I \subseteq DOMAIN s
  PROVE  /\ Those(Append(s, e), I) = Those(s, I)
         /\ Those(Append(s, e), I \cup {Len(s) + 1}) = Append(Those(s, I), e)
<1> DEFINE n == Len(s)
           t == Append(s, e)
           J == I \cup {n + 1}
           c == Cardinality(I)
<1>1. /\ n \in Nat /\ I \subseteq 1 .. n /\ I \subseteq 1 .. n + 1 /\ J \subseteq 1 .. n + 1
      /\ n + 1 \in Nat /\ \A i \in I : i < n + 1 /\ i \in Int
  OBVIOUS
<1>2. t[n + 1] = e /\ \A i \in I : t[i] = s[i]
  BY <1>1
<1> HIDE DEF n, t
<1>3. c \in Nat /\ IsFiniteSet(I)
  BY <1>1, FiniteIndices
<1>4. Cardinality(J) = c + 1
  <2>1. n + 1 \notin I
    BY <1>1
  <2> QED
    BY <2>1, <1>3, FS_AddElement
<1>5. ASSUME NEW i \in I PROVE Rank(i, J) = Rank(i, I)
  <2>1. i < n + 1 /\ i \in Int
    BY <1>1
  <2>2. ~ (n + 1 <= i)
    BY <2>1, <1>1
  <2>3. {j \in J : j <= i} = {j \in I : j <= i}
    BY <2>2
  <2> QED
    BY <2>3 DEF Rank
<1>6. Rank(n + 1, J) = c + 1
  <2>1. {j \in J : j <= n + 1} = J
    BY <1>1
  <2> QED
    BY <2>1, <1>4 DEF Rank
<1>7. ASSUME NEW k \in 1 .. c PROVE At(J, k) = At(I, k) /\ At(I, k) \in I
  <2>1. At(I, k) \in I /\ Rank(At(I, k), I) = k
    BY <1>1, AtRank
  <2>2. Rank(At(I, k), J) = k /\ At(I, k) \in J
    BY <1>5, <2>1
  <2> HIDE DEF J
  <2>3. At(J, Rank(At(I, k), J)) = At(I, k)
    BY <1>1, <2>2, AtRank
  <2> QED
    BY <2>1, <2>2, <2>3
<1>8. At(J, c + 1) = n + 1
  <2>1. n + 1 \in J
    OBVIOUS
  <2> HIDE DEF J
  <2>2. At(J, Rank(n + 1, J)) = n + 1
    BY <1>1, <2>1, AtRank
  <2> QED
    BY <1>6, <2>2
<1>9. Those(t, I) = Those(s, I)
  BY <1>2, <1>7 DEF Those
<1>10. Those(t, J) = Append(Those(s, I), e)
  <2> HIDE DEF J, c
  <2>1. Those(t, J) = [k \in 1 .. c + 1 |-> t[At(J, k)]]
    BY <1>4 DEF Those
  <2>2. Those(s, I) = [k \in 1 .. c |-> s[At(I, k)]]
    BY DEF Those, c
  <2>3. \A k \in 1 .. c : t[At(J, k)] = s[At(I, k)]
    BY <1>2, <1>7
  <2>4. t[At(J, c + 1)] = e
    BY <1>2, <1>8
  <2>6. Those(s, I) \in Seq(T) /\ Len(Those(s, I)) = c
    BY ThoseAre DEF c
  <2>7. Those(t, J) \in Seq(T) /\ Len(Those(t, J)) = c + 1
    <3>1. t \in Seq(T) /\ DOMAIN t = 1 .. n + 1
      BY DEF t, n
    <3>2. J \subseteq DOMAIN t
      BY <1>1, <3>1 DEF J
    <3> QED
      BY <1>4, <3>1, <3>2, ThoseAre
  <2>8. Append(Those(s, I), e) \in Seq(T) /\ Len(Append(Those(s, I), e)) = c + 1
    BY <2>6
  <2>9. \A k \in 1 .. c + 1 : Those(t, J)[k] = Append(Those(s, I), e)[k]
    <3>1. /\ \A k \in 1 .. c : Append(Those(s, I), e)[k] = Those(s, I)[k]
          /\ Append(Those(s, I), e)[c + 1] = e
      BY <2>6, Appended
    <3>2. \A k \in 1 .. c : Those(s, I)[k] = s[At(I, k)]
      BY <2>2
    <3>3. \A k \in 1 .. c + 1 : Those(t, J)[k] = t[At(J, k)]
      BY <2>1
    <3>4. \A k \in 1 .. c + 1 : k \in 1 .. c \/ k = c + 1
      BY <1>3
    <3> QED
      BY <2>3, <2>4, <3>1, <3>2, <3>3, <3>4
  <2> QED
    BY <2>7, <2>8, <2>9, SeqEqual
<1> QED
  BY <1>9, <1>10 DEF n, t

(***************************************************************************)
(* Counting in a longer sequence                                           *)
(***************************************************************************)

(* the indices of A, those above p moved one up                            *)
Shifted(A, n, p) ==
  {i \in 1 .. n + 1 : \/ i <= p /\ i \in A
                      \/ i > p + 1 /\ i - 1 \in A}

LEMMA ShiftCounted ==
  ASSUME NEW n \in Nat, NEW p \in 0 .. n, NEW A, A \subseteq 1 .. n
  PROVE  /\ Cardinality(Shifted(A, n, p)) = Cardinality(A)
         /\ Cardinality(Shifted(A, n, p) \cup {p + 1}) = Cardinality(A) + 1
<1> DEFINE B == Shifted(A, n, p)
           f == [i \in A |-> IF i <= p THEN i ELSE i + 1]
<1>0. B = {i \in 1 .. n + 1 : \/ i <= p /\ i \in A
                              \/ i > p + 1 /\ i - 1 \in A}
  BY DEF Shifted, B
<1> HIDE DEF B
<1>1. IsFiniteSet(A) /\ IsFiniteSet(B) /\ Cardinality(B) \in Nat
  <2>1. IsFiniteSet(A)
    BY FiniteIndices
  <2>2. n + 1 \in Nat /\ B \subseteq 1 .. n + 1
    BY <1>0
  <2> QED
    BY <2>1, <2>2, FiniteIndices
<1>2. \A i \in A : i \in Int /\ i >= 1 /\ i <= n
  OBVIOUS
<1>3. f \in [A -> B]
  BY <1>0, <1>2
<1>4. \A i, j \in A : f[i] = f[j] => i = j
  BY <1>2
<1>5. \A k \in B : \E i \in A : f[i] = k
  <2> SUFFICES ASSUME NEW k \in B PROVE \E i \in A : f[i] = k
    OBVIOUS
  <2>1. CASE k <= p /\ k \in A
    BY <2>1
  <2>2. CASE k > p + 1 /\ k - 1 \in A
    <3>1. ~ (k - 1 <= p) /\ k - 1 + 1 = k
      BY <1>0, <2>2
    <3> QED
      BY <2>2, <3>1
  <2> QED
    BY <1>0, <2>1, <2>2
<1>6. f \in Bijection(A, B)
  BY <1>3, <1>4, <1>5 DEF Bijection, Injection, Surjection, IsInjective
<1>7. Cardinality(B) = Cardinality(A)
  <2> HIDE DEF f
  <2> QED
    BY <1>1, <1>6, FS_Bijection DEF ExistsBijection
<1>8. p + 1 \notin B
  BY <1>0
<1>9. Cardinality(B \cup {p + 1}) = Cardinality(B) + 1
  <2> QED
    BY <1>1, <1>8, FS_AddElement
<1> QED
  BY <1>7, <1>9 DEF B

(* B holds the indices of A, and a new one or not                          *)
Moved(A, B, n, p) ==
  /\ B \subseteq 1 .. n + 1
  /\ \A i \in 1 .. p : i \in B <=> i \in A
  /\ \A i \in p + 2 .. n + 1 : i \in B <=> i - 1 \in A

LEMMA PlacedCounted ==
  ASSUME NEW n \in Nat, NEW p \in 0 .. n, NEW A, A \subseteq 1 .. n, NEW B, Moved(A, B, n, p)
  PROVE  Cardinality(B) = Cardinality(A) + (IF p + 1 \in B THEN 1 ELSE 0)
<1> DEFINE C == Shifted(A, n, p)
<1>1. /\ Cardinality(C) = Cardinality(A)
      /\ Cardinality(C \cup {p + 1}) = Cardinality(A) + 1
  BY ShiftCounted
<1>2. \A i \in 1 .. n + 1 : i \in 1 .. p \/ i = p + 1 \/ i \in p + 2 .. n + 1
  OBVIOUS
<1>3. \A i \in 1 .. n + 1 : i # p + 1 => (i \in B <=> i \in C)
  <2> SUFFICES ASSUME NEW i \in 1 .. n + 1, i # p + 1 PROVE i \in B <=> i \in C
    OBVIOUS
  <2>1. CASE i \in 1 .. p
    BY <2>1 DEF Shifted, Moved
  <2>2. CASE i \in p + 2 .. n + 1
    BY <2>2 DEF Shifted, Moved
  <2> QED
    BY <1>2, <2>1, <2>2
<1>4. p + 1 \notin C /\ C \subseteq 1 .. n + 1 /\ B \subseteq 1 .. n + 1
  BY DEF Shifted, Moved
<1>5. Cardinality(A) \in Nat
  BY FiniteIndices
<1> HIDE DEF C
<1>6. CASE p + 1 \in B
  <2>1. B = C \cup {p + 1}
    BY <1>3, <1>4, <1>6
  <2> QED
    BY <1>1, <1>6, <2>1
<1>7. CASE p + 1 \notin B
  <2>1. \A i \in 1 .. n + 1 : i \in B <=> i \in C
    BY <1>3, <1>4, <1>7
  <2>2. B = C
    BY <1>4, <2>1
  <2> QED
    BY <1>1, <1>5, <1>7, <2>2
<1> QED
  BY <1>6, <1>7

(* indices that are all those up to one                                    *)
LEMMA PrefixCounted ==
  ASSUME NEW n \in Nat, NEW P, P \subseteq 1 .. n,
         \A j \in P : \A i \in 1 .. n : i < j => i \in P
  PROVE  P = 1 .. Cardinality(P)
<1> DEFINE c == Cardinality(P)
<1>1. c \in Nat /\ c <= n /\ IsFiniteSet(P)
  BY FiniteIndices
<1>2. ASSUME NEW j \in P PROVE j <= c
  <2>1. j \in 1 .. n /\ j \in Nat
    OBVIOUS
  <2>2. 1 .. j \subseteq P
    <3> SUFFICES ASSUME NEW i \in 1 .. j PROVE i \in P
      OBVIOUS
    <3>1. i \in 1 .. n /\ (i = j \/ i < j)
      BY <2>1
    <3> QED
      BY <3>1
  <2>3. Cardinality(1 .. j) <= Cardinality(P)
    BY <2>2, PartSmaller
  <2>4. Cardinality(1 .. j) = j
    <3>1. Cardinality(1 .. j) = j - 1 + 1
      BY <2>1, IntervalSize
    <3> QED
      BY <2>1, <3>1
  <2> QED
    BY <2>3, <2>4
<1>3. P \subseteq 1 .. c
  <2> SUFFICES ASSUME NEW j \in P PROVE j \in 1 .. c
    OBVIOUS
  <2>1. j \in 1 .. n /\ j <= c
    BY <1>2
  <2> QED
    BY <1>1, <2>1
<1>4. Cardinality(1 .. c) = c
  <2>1. Cardinality(1 .. c) = c - 1 + 1
    BY <1>1, IntervalSize
  <2> QED
    BY <1>1, <2>1
<1>5. 1 .. c \subseteq 1 .. n
  BY <1>1
<1>6. ~ (P # 1 .. c)
  <2>1. P # 1 .. c => Cardinality(P) < Cardinality(1 .. c)
    BY <1>3, <1>5, PartSmaller
  <2> QED
    BY <1>1, <1>4, <2>1
<1> QED
  BY <1>6

(***************************************************************************)
(* Fractions and their order                                               *)
(***************************************************************************)

Fraction == Int \X (Nat \ {0})

(* fractions in order, their denominators multiplied out                   *)
LEMMA CrossMultiplied ==
  ASSUME NEW a \in Int, NEW b \in Int, NEW c \in Int, NEW d \in Int, NEW e \in Int,
         NEW f \in Int, b > 0, d > 0, f > 0
  PROVE  /\ a * d <= c * b /\ c * f <= e * d => a * f <= e * b
         /\ a * d < c * b /\ c * f <= e * d => a * f < e * b
         /\ a * d <= c * b /\ c * f < e * d => a * f < e * b
<1>1. ASSUME a * d <= c * b, c * f <= e * d PROVE a * f <= e * b
  BY <1>1
<1>2. ASSUME a * d < c * b, c * f <= e * d PROVE a * f < e * b
  BY <1>2
<1>3. ASSUME a * d <= c * b, c * f < e * d PROVE a * f < e * b
  BY <1>3
<1> QED
  BY <1>1, <1>2, <1>3

LEMMA BelowOrders ==
  ASSUME NEW x \in Fraction, NEW y \in Fraction, NEW z \in Fraction
  PROVE  /\ ~Below(x, x)
         /\ Below(x, y) => ~Below(y, x)
         /\ ~Below(y, x) /\ ~Below(z, y) => ~Below(z, x)
         /\ Below(x, y) /\ ~Below(z, y) => Below(x, z)
         /\ ~Below(y, x) /\ Below(y, z) => Below(x, z)
<1>1. /\ x[1] \in Int /\ y[1] \in Int /\ z[1] \in Int
      /\ x[2] \in Int /\ y[2] \in Int /\ z[2] \in Int
      /\ x[2] > 0 /\ y[2] > 0 /\ z[2] > 0
  BY DEF Fraction
<1>3. /\ ~Below(y, x) /\ ~Below(z, y) => ~Below(z, x)
      /\ Below(x, y) /\ ~Below(z, y) => Below(x, z)
      /\ ~Below(y, x) /\ Below(y, z) => Below(x, z)
  <2> DEFINE a == x[1]
             b == x[2]
             c == y[1]
             d == y[2]
             e == z[1]
             f == z[2]
  <2>1. /\ Below(x, y) <=> a * d < c * b
        /\ Below(y, x) <=> ~ (a * d <= c * b)
        /\ Below(y, z) <=> c * f < e * d
        /\ Below(z, y) <=> ~ (c * f <= e * d)
        /\ Below(x, z) <=> a * f < e * b
        /\ Below(z, x) <=> ~ (a * f <= e * b)
    BY <1>1 DEF Below
  <2>2. /\ a \in Int /\ b \in Int /\ c \in Int /\ d \in Int /\ e \in Int /\ f \in Int
        /\ b > 0 /\ d > 0 /\ f > 0
    BY <1>1
  <2> HIDE DEF a, b, c, d, e, f
  <2> QED
    BY <2>1, <2>2, CrossMultiplied
<1>4. ~Below(x, x) /\ (Below(x, y) => ~Below(y, x))
  BY <1>1 DEF Below
<1> QED
  BY <1>3, <1>4

(***************************************************************************)
(* Sorting                                                                 *)
(***************************************************************************)

Ascending(t) == \A i, j \in DOMAIN t : i < j => ~Below(t[j], t[i])

(* the indices of the elements at most v, and of those below it            *)
UpTo(v, t)  == {i \in DOMAIN t : ~Below(v, t[i])}
Under(v, t) == {i \in DOMAIN t : Below(t[i], v)}

(* u is t with x behind the first p elements                                *)
Inserts(u, t, p, x) ==
  /\ Len(u) = Len(t) + 1
  /\ \A i \in 1 .. p : u[i] = t[i]
  /\ u[p + 1] = x
  /\ \A i \in p + 2 .. Len(t) + 1 : u[i] = t[i - 1]

(* the new element has a place, the others keep their order                *)
LEMMA InsertedAt ==
  ASSUME NEW T, NEW t \in Seq(T), NEW x \in T, NEW p \in 0 .. Len(t),
         NEW w, w = InsertAt(t, p + 1, x)
  PROVE  w \in Seq(T) /\ Inserts(w, t, p, x)
<1> DEFINE a == SubSeq(t, 1, p)
           c == SubSeq(t, p + 1, Len(t))
           u == (a \o <<x>>) \o c
<1>0. (p + 1) - 1 = p /\ Len(t) \in Nat /\ p \in Nat
  OBVIOUS
<1>1. InsertAt(t, p + 1, x) = u
  <2>1. InsertAt(t, p + 1, x) = (SubSeq(t, 1, (p + 1) - 1) \o <<x>>) \o SubSeq(t, p + 1, Len(t))
    BY Zenon DEF InsertAt
  <2> QED
    BY <1>0, <2>1, Zenon
<1>2. a \in Seq(T) /\ Len(a) = p /\ \A i \in 1 .. p : a[i] = t[i]
  OBVIOUS
<1>3. /\ c \in Seq(T) /\ Len(c) = Len(t) - p
      /\ \A i \in 1 .. Len(t) - p : c[i] = t[p + i]
  OBVIOUS
<1>4. <<x>> \in Seq(T) /\ Len(<<x>>) = 1 /\ <<x>>[1] = x
  OBVIOUS
<1> HIDE DEF a, c
<1> DEFINE b == a \o <<x>>
<1>5. b \in Seq(T) /\ Len(b) = p + 1 /\ b[p + 1] = x /\ \A i \in 1 .. p : b[i] = t[i]
  BY <1>0, <1>2, <1>4
<1> HIDE DEF b
<1>6. /\ b \o c \in Seq(T) /\ Len(b \o c) = Len(t) + 1
      /\ \A i \in 1 .. p + 1 : (b \o c)[i] = b[i]
      /\ \A i \in p + 2 .. Len(t) + 1 : (b \o c)[i] = c[i - (p + 1)]
  BY <1>0, <1>3, <1>5
<1>7. \A i \in p + 2 .. Len(t) + 1 : c[i - (p + 1)] = t[i - 1]
  <2> SUFFICES ASSUME NEW i \in p + 2 .. Len(t) + 1 PROVE c[i - (p + 1)] = t[i - 1]
    OBVIOUS
  <2>1. i - (p + 1) \in 1 .. Len(t) - p /\ p + (i - (p + 1)) = i - 1
    BY <1>0
  <2> QED
    BY <1>3, <2>1
<1>8. u = b \o c
  BY DEF b
<1>9. w = b \o c
  BY <1>1, <1>8
<1>10. /\ \A i \in 1 .. p : i \in 1 .. p + 1
       /\ p + 1 \in 1 .. p + 1
  BY <1>0
<1> HIDE DEF u
<1>11. /\ w \in Seq(T) /\ Len(w) = Len(t) + 1
       /\ \A i \in 1 .. p : w[i] = t[i]
       /\ w[p + 1] = x
  BY <1>5, <1>6, <1>9, <1>10
<1>12. \A i \in p + 2 .. Len(t) + 1 : w[i] = t[i - 1]
  BY <1>6, <1>7, <1>9
<1> QED
  BY <1>11, <1>12 DEF Inserts

(* u is t with one element more, in its place                              *)
Gains(u, t, x) ==
  /\ Len(u) = Len(t) + 1
  /\ Ascending(u)
  /\ \A v \in Fraction :
       /\ Cardinality(UpTo(v, u)) = Cardinality(UpTo(v, t)) + (IF Below(v, x) THEN 0 ELSE 1)
       /\ Cardinality(Under(v, u)) = Cardinality(Under(v, t)) + (IF Below(x, v) THEN 1 ELSE 0)

(* a new element between those that are not above it and those that are    *)
LEMMA Placed ==
  ASSUME NEW T, T \subseteq Fraction, NEW t \in Seq(T), NEW x \in T, Ascending(t),
         NEW n, n = Len(t), NEW p \in 0 .. n, UpTo(x, t) = 1 .. p,
         NEW u, u = InsertAt(t, p + 1, x)
  PROVE  u \in Seq(T) /\ Gains(u, t, x)
<1>1. n \in Nat /\ DOMAIN t = 1 .. n /\ x \in Fraction /\ \A i \in 1 .. n : t[i] \in Fraction
  OBVIOUS
<1>4. p \in 0 .. n /\ p \in 0 .. Len(t)
  OBVIOUS
<1>6. /\ u \in Seq(T) /\ Len(u) = n + 1
      /\ \A i \in 1 .. p : u[i] = t[i]
      /\ u[p + 1] = x
      /\ \A i \in p + 2 .. n + 1 : u[i] = t[i - 1]
  <2>1. u \in Seq(T) /\ Inserts(u, t, p, x)
    BY <1>4, InsertedAt
  <2> QED
    BY <2>1 DEF Inserts
<1>7. DOMAIN u = 1 .. n + 1
  BY <1>6
<1>8. \A i \in 1 .. p : ~Below(x, t[i])
  BY DEF UpTo
<1>9. \A i \in p + 1 .. n : Below(x, t[i])
  <2> SUFFICES ASSUME NEW i \in p + 1 .. n PROVE Below(x, t[i])
    OBVIOUS
  <2>1. i \in 1 .. n /\ i \notin 1 .. p
    BY <1>4
  <2> QED
    BY <1>1, <2>1 DEF UpTo
<1>10. Ascending(u)
  <2> SUFFICES ASSUME NEW i \in 1 .. n + 1, NEW j \in 1 .. n + 1, i < j
               PROVE  ~Below(u[j], u[i])
    BY <1>7 DEF Ascending
  <2>1. CASE j <= p
    <3>1. i \in 1 .. p /\ j \in 1 .. p /\ i \in DOMAIN t /\ j \in DOMAIN t
      BY <1>1, <1>4, <2>1
    <3> QED
      BY <1>6, <3>1 DEF Ascending
  <2>2. CASE j = p + 1
    <3>1. i \in 1 .. p
      BY <1>4, <2>2
    <3> QED
      BY <1>6, <1>8, <2>2, <3>1
  <2>3. CASE j > p + 1 /\ i <= p
    <3>1. i \in 1 .. p /\ j \in p + 2 .. n + 1 /\ j - 1 \in 1 .. n /\ i \in 1 .. n /\ i < j - 1
      BY <1>1, <1>4, <2>3
    <3> QED
      BY <1>1, <1>6, <3>1 DEF Ascending
  <2>4. CASE j > p + 1 /\ i = p + 1
    <3>1. j \in p + 2 .. n + 1 /\ j - 1 \in p + 1 .. n /\ j - 1 \in 1 .. n
      BY <1>1, <1>4, <2>4
    <3>2. Below(x, t[j - 1]) /\ t[j - 1] \in Fraction
      BY <1>1, <1>9, <3>1
    <3> QED
      BY <1>6, <2>4, <3>1, <3>2, BelowOrders
  <2>5. CASE j > p + 1 /\ i > p + 1
    <3>1. /\ i \in p + 2 .. n + 1 /\ j \in p + 2 .. n + 1 /\ i - 1 \in 1 .. n
          /\ j - 1 \in 1 .. n /\ i - 1 < j - 1
      BY <1>1, <1>4, <2>5
    <3> QED
      BY <1>1, <1>6, <3>1 DEF Ascending
  <2> QED
    BY <1>4, <2>1, <2>2, <2>3, <2>4, <2>5
<1>12. ASSUME NEW v \in Fraction
       PROVE  /\ Cardinality(UpTo(v, u)) = Cardinality(UpTo(v, t)) + (IF Below(v, x) THEN 0 ELSE 1)
              /\ Cardinality(Under(v, u)) = Cardinality(Under(v, t)) + (IF Below(x, v) THEN 1 ELSE 0)
  <2>1. /\ UpTo(v, t) \subseteq 1 .. n /\ UpTo(v, u) \subseteq 1 .. n + 1
        /\ Under(v, t) \subseteq 1 .. n /\ Under(v, u) \subseteq 1 .. n + 1
    BY <1>1, <1>7 DEF UpTo, Under
  <2>2. \A i \in 1 .. p : i \in 1 .. n /\ i \in 1 .. n + 1 /\ u[i] = t[i]
    BY <1>1, <1>4, <1>6
  <2>3. \A i \in p + 2 .. n + 1 : i - 1 \in 1 .. n /\ i \in 1 .. n + 1 /\ u[i] = t[i - 1]
    BY <1>1, <1>4, <1>6
  <2>4. p + 1 \in 1 .. n + 1 /\ u[p + 1] = x
    BY <1>1, <1>4, <1>6
  <2>5. Moved(UpTo(v, t), UpTo(v, u), n, p) /\ (p + 1 \in UpTo(v, u) <=> ~Below(v, x))
    BY <1>1, <1>7, <2>1, <2>2, <2>3, <2>4 DEF UpTo, Moved
  <2>6. Moved(Under(v, t), Under(v, u), n, p) /\ (p + 1 \in Under(v, u) <=> Below(x, v))
    BY <1>1, <1>7, <2>1, <2>2, <2>3, <2>4 DEF Under, Moved
  <2>7. /\ Cardinality(UpTo(v, u)) =
             Cardinality(UpTo(v, t)) + (IF p + 1 \in UpTo(v, u) THEN 1 ELSE 0)
        /\ Cardinality(Under(v, u)) =
             Cardinality(Under(v, t)) + (IF p + 1 \in Under(v, u) THEN 1 ELSE 0)
    BY <1>1, <1>4, <2>1, <2>5, <2>6, PlacedCounted
  <2> QED
    BY <2>5, <2>6, <2>7
<1> QED
  BY <1>6, <1>10, <1>12 DEF Gains

(* A sorted sequence with one element more is sorted, and counts it once.  *)
LEMMA InsertedSorts ==
  ASSUME NEW T, T \subseteq Fraction, NEW t \in Seq(T), NEW x \in T, Ascending(t)
  PROVE  Inserted(t, x) \in Seq(T) /\ Gains(Inserted(t, x), t, x)
<1> DEFINE n == Len(t)
           P == UpTo(x, t)
           p == Cardinality(P)
           u == Inserted(t, x)
<1>1. n \in Nat /\ DOMAIN t = 1 .. n /\ x \in Fraction /\ \A i \in 1 .. n : t[i] \in Fraction
  OBVIOUS
<1>2. u = InsertAt(t, p + 1, x)
  BY DEF Inserted, Number, Passing, UpTo
<1>3. P \subseteq 1 .. n
  BY <1>1 DEF UpTo
<1>4. p \in 0 .. n
  BY <1>1, <1>3, FiniteIndices
<1>5. P = 1 .. p
  <2> SUFFICES ASSUME NEW j \in P, NEW i \in 1 .. n, i < j PROVE i \in P
    BY <1>1, <1>3, PrefixCounted
  <2>1. j \in 1 .. n /\ ~Below(x, t[j])
    BY <1>1 DEF UpTo
  <2>2. ~Below(t[j], t[i])
    BY <1>1, <2>1 DEF Ascending
  <2>3. ~Below(x, t[i])
    BY <1>1, <2>1, <2>2, BelowOrders
  <2> QED
    BY <1>1, <2>3 DEF UpTo
<1>6. n = Len(t) /\ UpTo(x, t) = 1 .. p
  BY <1>5
<1> HIDE DEF u, P, p, n
<1> QED
  BY <1>2, <1>4, <1>6, Placed DEF u

(* one more index                                                          *)
LEMMA IndexAdded ==
  ASSUME NEW n \in Nat, NEW A, A \subseteq 1 .. n, NEW B, B \subseteq 1 .. n + 1,
         B \cap 1 .. n = A
  PROVE  Cardinality(B) = Cardinality(A) + (IF n + 1 \in B THEN 1 ELSE 0)
<1>1. IsFiniteSet(A) /\ Cardinality(A) \in Nat
  BY FiniteIndices
<1>2. n + 1 \notin A /\ \A i \in 1 .. n + 1 : i \in 1 .. n \/ i = n + 1
  OBVIOUS
<1>3. Cardinality(A \cup {n + 1}) = Cardinality(A) + 1
  BY <1>1, <1>2, FS_AddElement
<1>4. CASE n + 1 \in B
  <2>1. B = A \cup {n + 1}
    BY <1>2, <1>4
  <2> QED
    BY <1>3, <1>4, <2>1
<1>5. CASE n + 1 \notin B
  <2>1. B = A
    BY <1>2, <1>5
  <2> QED
    BY <1>1, <1>5, <2>1
<1> QED
  BY <1>4, <1>5

LEMMA CountAppend ==
  ASSUME NEW s \in Seq(Fraction), NEW e \in Fraction, NEW v \in Fraction
  PROVE  /\ Cardinality(UpTo(v, Append(s, e))) =
              Cardinality(UpTo(v, s)) + (IF Below(v, e) THEN 0 ELSE 1)
         /\ Cardinality(Under(v, Append(s, e))) =
              Cardinality(Under(v, s)) + (IF Below(e, v) THEN 1 ELSE 0)
<1> DEFINE n == Len(s)
           t == Append(s, e)
<1>1. /\ n \in Nat /\ DOMAIN s = 1 .. n /\ DOMAIN t = 1 .. n + 1
      /\ \A i \in 1 .. n : t[i] = s[i] /\ i \in 1 .. n + 1
      /\ t[n + 1] = e /\ n + 1 \in 1 .. n + 1
  OBVIOUS
<1> HIDE DEF n, t
<1>2. /\ UpTo(v, s) \subseteq 1 .. n /\ UpTo(v, t) \subseteq 1 .. n + 1
      /\ UpTo(v, t) \cap 1 .. n = UpTo(v, s)
      /\ n + 1 \in UpTo(v, t) <=> ~Below(v, e)
  BY <1>1 DEF UpTo
<1>3. /\ Under(v, s) \subseteq 1 .. n /\ Under(v, t) \subseteq 1 .. n + 1
      /\ Under(v, t) \cap 1 .. n = Under(v, s)
      /\ n + 1 \in Under(v, t) <=> Below(e, v)
  BY <1>1 DEF Under
<1>4. /\ Cardinality(UpTo(v, t)) =
           Cardinality(UpTo(v, s)) + (IF n + 1 \in UpTo(v, t) THEN 1 ELSE 0)
      /\ Cardinality(Under(v, t)) =
           Cardinality(Under(v, s)) + (IF n + 1 \in Under(v, t) THEN 1 ELSE 0)
  BY <1>1, <1>2, <1>3, IndexAdded
<1> QED
  BY <1>2, <1>3, <1>4 DEF t

(* Sorting keeps the elements and puts them in order.                      *)
Sorting(s, t) ==
  /\ Len(t) = Len(s)
  /\ Ascending(t)
  /\ \A v \in Fraction : /\ Cardinality(UpTo(v, t)) = Cardinality(UpTo(v, s))
                         /\ Cardinality(Under(v, t)) = Cardinality(Under(v, s))

LEMMA SortedFold ==
  ASSUME NEW s
  PROVE  Sorted(s) = Sorts!Fold(s)
  BY DEF Sorted, FoldLeft, MapThenFoldSet, Max,
         Sorts!Fold, Sorts!FoldLeft, Sorts!MapThenFoldSet, Sorts!Max

(* Sorted samples ascend, and as many of them are below a value, or at     *)
(* most it, as before they were sorted (distribution.go:33).               *)
THEOREM SortedIs ==
  ASSUME NEW T, T \subseteq Fraction, NEW s \in Seq(T)
  PROVE  Sorted(s) \in Seq(T) /\ Sorting(s, Sorted(s))
<1> DEFINE S == {q \in Seq(T) : Sorted(q) \in Seq(T) /\ Sorting(q, Sorted(q))}
<1>1. <<>> \in S
  <2>1. Sorted(<<>>) = <<>>
    BY SortedFold, Sorts!FoldEmpty
  <2>2. Ascending(<<>>) /\ <<>> \in Seq(T)
    BY DEF Ascending
  <2> QED
    BY <2>1, <2>2 DEF Sorting
<1>2. ASSUME NEW q \in Seq(T), NEW e \in T, q \in S PROVE Append(q, e) \in S
  <2> DEFINE t == Sorted(q)
             u == Sorted(Append(q, e))
  <2>1. t \in Seq(T) /\ Sorting(q, t)
    BY <1>2
  <2>2. u = Inserted(t, e)
    BY SortedFold, Sorts!FoldAppend
  <2>3. e \in Fraction /\ q \in Seq(Fraction)
    OBVIOUS
  <2> HIDE DEF t, u
  <2>4. u \in Seq(T) /\ Gains(u, t, e)
    BY <2>1, <2>2, InsertedSorts DEF Sorting
  <2>5. \A v \in Fraction :
          /\ Cardinality(UpTo(v, Append(q, e))) =
               Cardinality(UpTo(v, q)) + (IF Below(v, e) THEN 0 ELSE 1)
          /\ Cardinality(Under(v, Append(q, e))) =
               Cardinality(Under(v, q)) + (IF Below(e, v) THEN 1 ELSE 0)
    BY <2>3, CountAppend
  <2>6. Append(q, e) \in Seq(T) /\ Len(Append(q, e)) = Len(q) + 1
    OBVIOUS
  <2>7. Sorting(Append(q, e), u)
    BY <2>1, <2>4, <2>5, <2>6 DEF Sorting, Gains
  <2> QED
    BY <2>4, <2>6, <2>7 DEF u
<1>3. Seq(T) \subseteq S
  <2> HIDE DEF S
  <2> QED
    BY <1>1, <1>2, Sorts!SeqInduct
<1> QED
  BY <1>3

(* In a sorted sequence, the k-th element is at most v when k elements are.*)
LEMMA RankOfSorted ==
  ASSUME NEW t \in Seq(Fraction), Ascending(t), NEW k \in DOMAIN t, NEW v \in Fraction
  PROVE  /\ ~Below(v, t[k]) <=> Cardinality(UpTo(v, t)) >= k
         /\ Cardinality(Under(t[k], t)) < k
<1> DEFINE n == Len(t)
<1>1. /\ n \in Nat /\ DOMAIN t = 1 .. n /\ k \in 1 .. n /\ k \in Nat /\ k - 1 \in Nat
      /\ \A i \in 1 .. n : t[i] \in Fraction
  OBVIOUS
<1>2. Cardinality(1 .. k) = k /\ Cardinality(1 .. k - 1) = k - 1
  <2> DEFINE j == k - 1
  <2>1. 1 \in Int /\ k \in Int /\ j \in Int /\ 1 <= k + 1 /\ 1 <= j + 1
    BY <1>1
  <2> HIDE DEF j
  <2>2. Cardinality(1 .. k) = k - 1 + 1 /\ Cardinality(1 .. j) = j - 1 + 1
    BY <2>1, IntervalSize
  <2> QED
    BY <2>1, <2>2 DEF j
<1> HIDE DEF n
<1>3. /\ UpTo(v, t) \subseteq 1 .. n /\ Under(t[k], t) \subseteq 1 .. n
      /\ 1 .. k \subseteq 1 .. n /\ 1 .. k - 1 \subseteq 1 .. n
  BY <1>1 DEF UpTo, Under
<1>4. /\ Cardinality(UpTo(v, t)) \in Nat /\ Cardinality(Under(t[k], t)) \in Nat
  BY <1>1, <1>3, FiniteIndices
<1>5. ASSUME ~Below(v, t[k]) PROVE Cardinality(UpTo(v, t)) >= k
  <2>1. ASSUME NEW i \in 1 .. k PROVE i \in UpTo(v, t)
    <3>1. i \in 1 .. n /\ (i = k \/ i < k)
      BY <1>1
    <3>2. i < k => ~Below(t[k], t[i])
      BY <1>1, <3>1 DEF Ascending
    <3>3. ~Below(v, t[i])
      BY <1>1, <1>5, <3>1, <3>2, BelowOrders
    <3> QED
      BY <1>1, <3>1, <3>3 DEF UpTo
  <2>2. Cardinality(1 .. k) <= Cardinality(UpTo(v, t))
    BY <1>1, <1>3, <2>1, PartSmaller
  <2> QED
    BY <1>1, <1>2, <1>4, <2>2
<1>6. ASSUME Below(v, t[k]) PROVE Cardinality(UpTo(v, t)) < k
  <2>1. ASSUME NEW i \in UpTo(v, t) PROVE i \in 1 .. k - 1
    <3>1. i \in 1 .. n /\ ~Below(v, t[i]) /\ t[i] \in Fraction /\ t[k] \in Fraction
      BY <1>1 DEF UpTo
    <3>2. ~ (i > k)
      <4> SUFFICES ASSUME i > k PROVE FALSE
        OBVIOUS
      <4>1. ~Below(t[i], t[k])
        BY <1>1, <3>1 DEF Ascending
      <4> QED
        BY <1>6, <3>1, <4>1, BelowOrders
    <3>3. i # k
      BY <1>6, <3>1
    <3> QED
      BY <1>1, <3>1, <3>2, <3>3
  <2>2. Cardinality(UpTo(v, t)) <= Cardinality(1 .. k - 1)
    BY <1>1, <1>3, <2>1, PartSmaller
  <2> QED
    BY <1>1, <1>2, <1>4, <2>2
<1>7. Cardinality(Under(t[k], t)) < k
  <2>1. ASSUME NEW i \in Under(t[k], t) PROVE i \in 1 .. k - 1
    <3>1. i \in 1 .. n /\ Below(t[i], t[k]) /\ t[i] \in Fraction /\ t[k] \in Fraction
      BY <1>1 DEF Under
    <3>2. ~ (i > k)
      <4> SUFFICES ASSUME i > k PROVE FALSE
        OBVIOUS
      <4>1. ~Below(t[i], t[k])
        BY <1>1, <3>1 DEF Ascending
      <4> QED
        BY <3>1, <4>1
    <3>3. i # k
      BY <3>1, BelowOrders
    <3> QED
      BY <1>1, <3>1, <3>2, <3>3
  <2>2. Cardinality(Under(t[k], t)) <= Cardinality(1 .. k - 1)
    BY <1>1, <1>3, <2>1, PartSmaller
  <2> QED
    BY <1>1, <1>2, <1>4, <2>2
<1> QED
  BY <1>1, <1>4, <1>5, <1>6, <1>7

(***************************************************************************)
(* Distributions                                                           *)
(***************************************************************************)

LEMMA NearestRankIs ==
  ASSUME NEW p \in Percentiles, NEW n \in Nat \ {0}
  PROVE  /\ NearestRank(p, n) \in 1 .. n
         /\ 100 * NearestRank(p, n) >= p * n
         /\ 100 * (NearestRank(p, n) - 1) < p * n
<1>1. p = 50 \/ p = 90 \/ p = 95 \/ p = 99
  BY DEF Percentiles
<1>2. CASE p = 50
  BY <1>2 DEF NearestRank, Greatest
<1>3. CASE p = 90
  BY <1>3 DEF NearestRank, Greatest
<1>4. CASE p = 95
  BY <1>4 DEF NearestRank, Greatest
<1>5. CASE p = 99
  BY <1>5 DEF NearestRank, Greatest
<1> QED
  BY <1>1, <1>2, <1>3, <1>4, <1>5

(* v is the nearest rank of the percentile p among the samples             *)
Nearest(v, p, samples) ==
  /\ \E i \in DOMAIN samples : samples[i] = v
  /\ 100 * Cardinality(UpTo(v, samples)) >= p * Len(samples)
  /\ 100 * Cardinality(Under(v, samples)) < p * Len(samples)

(* A percentile is at most v when that share of the samples is.            *)
AtMostWhen(v, percentile, p, samples) ==
  ~Below(v, percentile) <=> 100 * Cardinality(UpTo(v, samples)) >= p * Len(samples)

LEMMA PercentileIs ==
  ASSUME NEW s \in Seq(Fraction), s # <<>>, NEW p \in Percentiles,
         NEW v, v = Sorted(s)[NearestRank(p, Len(s))]
  PROVE  /\ v \in Fraction
         /\ Nearest(v, p, s)
         /\ \A w \in Fraction : AtMostWhen(w, v, p, s)
<1> DEFINE T == {s[i] : i \in DOMAIN s}
           t == Sorted(s)
           n == Len(s)
           k == NearestRank(p, n)
<1>1. T \subseteq Fraction /\ s \in Seq(T) /\ n \in Nat /\ n # 0
  OBVIOUS
<1>2. t \in Seq(T) /\ Sorting(s, t)
  BY <1>1, SortedIs
<1>3. k \in 1 .. n /\ 100 * k >= p * n /\ 100 * (k - 1) < p * n
  <2>1. n \in Nat \ {0}
    BY <1>1
  <2> QED
    BY <2>1, NearestRankIs
<1>4. DOMAIN t = 1 .. n /\ t \in Seq(Fraction) /\ v = t[k] /\ k \in DOMAIN t
  <2>1. v = t[k]
    OBVIOUS
  <2> HIDE DEF t, n, k, T
  <2>2. Len(t) = n
    BY <1>2 DEF Sorting, n
  <2>3. DOMAIN t = 1 .. n
    BY <1>2, <2>2
  <2>4. t \in Seq(Fraction)
    BY <1>1, <1>2
  <2> QED
    BY <1>3, <2>1, <2>3, <2>4
<1>5. \A i \in DOMAIN s : s[i] \in Fraction
  OBVIOUS
<1>6. v \in T
  BY <1>2, <1>4
<1>7. v \in Fraction /\ \E i \in DOMAIN s : s[i] = v
  BY <1>1, <1>6
<1> HIDE DEF T, t, n, k
<1>8. DOMAIN s = 1 .. n
  BY DEF n
<1>9. ASSUME NEW w \in Fraction
      PROVE  AtMostWhen(w, v, p, s)
  <2>1. ~Below(w, v) <=> Cardinality(UpTo(w, t)) >= k
    BY <1>2, <1>4, RankOfSorted DEF Sorting
  <2>2. Cardinality(UpTo(w, t)) = Cardinality(UpTo(w, s))
    BY <1>2 DEF Sorting
  <2>3. Cardinality(UpTo(w, s)) \in Nat
    <3>1. UpTo(w, s) \subseteq 1 .. n
      BY <1>8 DEF UpTo
    <3> QED
      BY <1>1, <3>1, FiniteIndices
  <2>4. p \in Nat /\ k \in Nat
    BY <1>3 DEF Percentiles
  <2>5. Cardinality(UpTo(w, s)) >= k <=> 100 * Cardinality(UpTo(w, s)) >= p * n
    <3> DEFINE c == Cardinality(UpTo(w, s))
               m == p * n
    <3>1. c \in Int /\ m \in Int /\ k \in Int /\ 100 * k >= m /\ 100 * (k - 1) < m
      BY <1>1, <1>3, <2>3, <2>4
    <3> HIDE DEF c, m
    <3>2. c >= k <=> 100 * c >= m
      BY <3>1
    <3> QED
      BY <3>2 DEF c, m
  <2> QED
    BY <2>1, <2>2, <2>5 DEF AtMostWhen, n
<1>10. 100 * Cardinality(UpTo(v, s)) >= p * n
  <2>1. ~Below(v, v)
    BY <1>7, BelowOrders
  <2> QED
    BY <1>7, <1>9, <2>1 DEF AtMostWhen, n
<1>11. 100 * Cardinality(Under(v, s)) < p * n
  <2>1. Cardinality(Under(v, t)) < k
    BY <1>2, <1>4, <1>7, RankOfSorted DEF Sorting
  <2>2. Cardinality(Under(v, t)) = Cardinality(Under(v, s))
    BY <1>2, <1>7 DEF Sorting
  <2>3. Cardinality(Under(v, s)) \in Nat
    <3>1. Under(v, s) \subseteq 1 .. n
      BY <1>8 DEF Under
    <3> QED
      BY <1>1, <3>1, FiniteIndices
  <2> DEFINE c == Cardinality(Under(v, s))
             m == p * n
  <2>4. c \in Int /\ m \in Int /\ k \in Int /\ 100 * (k - 1) < m /\ c < k
    BY <1>1, <1>3, <2>1, <2>2, <2>3 DEF Percentiles
  <2> HIDE DEF c, m
  <2>5. 100 * c < m
    BY <2>4
  <2> QED
    BY <2>5 DEF c, m
<1> QED
  BY <1>7, <1>9, <1>10, <1>11 DEF Nearest, n

(* Each percentile of a distribution is the nearest rank of its samples,   *)
(* and is at most a bound exactly when that share of the samples is        *)
(* (distribution.go:11-61).                                                *)
THEOREM DistributionIs ==
  ASSUME NEW s \in Seq(Fraction), NEW unavailable, NEW d, d = Distribution(s, unavailable)
  PROVE  /\ d.count = Len(s)
         /\ s # <<>> =>
              \A p \in Percentiles :
                /\ d.percentile[p] \in Fraction
                /\ Nearest(d.percentile[p], p, s)
                /\ \A w \in Fraction : AtMostWhen(w, d.percentile[p], p, s)
<1>1. CASE s = <<>>
  <2>1. Len(s) = 0
    BY <1>1
  <2>2. d = [count |-> 0, unavailable |-> unavailable]
    BY <2>1 DEF Distribution
  <2>3. d.count = 0
    BY <2>2
  <2> QED
    BY <1>1, <2>1, <2>3
<1>2. CASE s # <<>>
  <2>1. Len(s) # 0
    BY <1>2
  <2>2. /\ d.count = Len(s)
        /\ d.percentile = [p \in Percentiles |-> Sorted(s)[NearestRank(p, Len(s))]]
    BY <2>1 DEF Distribution
  <2>3. \A p \in Percentiles : d.percentile[p] = Sorted(s)[NearestRank(p, Len(s))]
    BY <2>2
  <2> QED
    BY <1>2, <2>2, <2>3, PercentileIs
<1> QED
  BY <1>1, <1>2

(***************************************************************************)
(* Outcomes                                                                *)
(***************************************************************************)

Had(s, outcome) == {i \in DOMAIN s : s[i].outcome = outcome}

(* Every request has one outcome.                                          *)
LEMMA TallyAdds ==
  ASSUME NEW T, NEW s \in Seq(T), \A i \in DOMAIN s : s[i].outcome \in Outcomes
  PROVE  /\ \A o \in Outcomes : Tally(s)[o] = Cardinality(Had(s, o)) /\ Tally(s)[o] \in Nat
         /\ Failures(Tally(s)) \in Nat
         /\ Tally(s)["succeeded"] + Failures(Tally(s)) = Len(s)
         /\ Failures(Tally(s)) = 0 => \A i \in DOMAIN s : s[i].outcome = "succeeded"
<1> DEFINE n == Len(s)
           A == Had(s, "succeeded")
           B == Had(s, "request_error")
           C == Had(s, "request_timeout")
           D == Had(s, "parent_cancelled")
           E == Had(s, "drain_timeout")
<1>1. n \in Nat /\ DOMAIN s = 1 .. n
  OBVIOUS
<1>2. \A o \in Outcomes : Tally(s)[o] = Cardinality(Had(s, o))
  BY DEF Tally, Number, Passing, Had
<1>3. \A o : Had(s, o) \subseteq 1 .. n
  BY <1>1 DEF Had
<1>4. \A o : IsFiniteSet(Had(s, o)) /\ Cardinality(Had(s, o)) \in Nat
  BY <1>1, <1>3, FiniteIndices
<1>5. /\ A \cup (B \cup (C \cup (D \cup E))) = 1 .. n
      /\ A \cap (B \cup (C \cup (D \cup E))) = {}
      /\ B \cap (C \cup (D \cup E)) = {}
      /\ C \cap (D \cup E) = {}
      /\ D \cap E = {}
  BY <1>1 DEF Had, Outcomes
<1>6. /\ A \subseteq 1 .. n /\ B \subseteq 1 .. n /\ C \subseteq 1 .. n
      /\ D \subseteq 1 .. n /\ E \subseteq 1 .. n
  BY <1>3
<1>7. /\ Cardinality(A) \in Nat /\ Cardinality(B) \in Nat /\ Cardinality(C) \in Nat
      /\ Cardinality(D) \in Nat /\ Cardinality(E) \in Nat
  BY <1>4
<1>8. /\ Tally(s)["succeeded"] = Cardinality(A)
      /\ Failures(Tally(s)) = Cardinality(B) + Cardinality(C) + Cardinality(D) + Cardinality(E)
  BY <1>2 DEF Failures, Outcomes
<1> HIDE DEF n, A, B, C, D, E
<1>9. Cardinality(D \cup E) = Cardinality(D) + Cardinality(E)
  BY <1>1, <1>5, <1>6, PartsAdd
<1>10. Cardinality(C \cup (D \cup E)) = Cardinality(C) + Cardinality(D \cup E)
  <2>1. D \cup E \subseteq 1 .. n
    BY <1>6
  <2> QED
    BY <1>1, <1>5, <1>6, <2>1, PartsAdd
<1>11. Cardinality(B \cup (C \cup (D \cup E))) = Cardinality(B) + Cardinality(C \cup (D \cup E))
  <2>1. C \cup (D \cup E) \subseteq 1 .. n
    BY <1>6
  <2> QED
    BY <1>1, <1>5, <1>6, <2>1, PartsAdd
<1>12. Cardinality(1 .. n) = Cardinality(A) + Cardinality(B \cup (C \cup (D \cup E)))
  <2> DEFINE F == B \cup (C \cup (D \cup E))
  <2>1. F \subseteq 1 .. n /\ A \cap F = {} /\ A \cup F = 1 .. n
    BY <1>5, <1>6
  <2> HIDE DEF F
  <2>2. Cardinality(A \cup F) = Cardinality(A) + Cardinality(F)
    BY <1>1, <1>6, <2>1, PartsAdd
  <2> QED
    BY <2>1, <2>2 DEF F
<1>13. Cardinality(1 .. n) = n
  <2>1. Cardinality(1 .. n) = n - 1 + 1
    BY <1>1, IntervalSize
  <2> QED
    BY <1>1, <2>1
<1>14. Tally(s)["succeeded"] + Failures(Tally(s)) = n /\ Failures(Tally(s)) \in Nat
  BY <1>1, <1>7, <1>8, <1>9, <1>10, <1>11, <1>12, <1>13
<1>15. ASSUME Failures(Tally(s)) = 0 PROVE \A i \in DOMAIN s : s[i].outcome = "succeeded"
  <2>1. Cardinality(A) = n
    BY <1>1, <1>7, <1>8, <1>14, <1>15
  <2>2. 1 .. n \subseteq 1 .. n /\ (A # 1 .. n => Cardinality(A) < Cardinality(1 .. n))
    BY <1>1, <1>6, PartSmaller
  <2>3. A = 1 .. n
    BY <1>1, <1>13, <2>1, <2>2
  <2> QED
    BY <1>1, <2>3 DEF A, Had
<1> QED
  BY <1>2, <1>4, <1>14, <1>15 DEF n

(* The two phases of a run, each in its order.                             *)
LEMMA InPhases ==
  ASSUME NEW T, NEW a \in Seq(T), NEW b \in Seq(T),
         \A i \in DOMAIN a : a[i].phase = "warmup",
         \A i \in DOMAIN b : b[i].phase = "measured"
  PROVE  InPhase("warmup", a \o b) = a /\ InPhase("measured", a \o b) = b
<1> DEFINE s == a \o b
           n == Len(a)
           m == Len(b)
<1>1. /\ n \in Nat /\ m \in Nat /\ n + m \in Nat
      /\ DOMAIN a = 1 .. n /\ DOMAIN b = 1 .. m /\ DOMAIN s = 1 .. n + m
      /\ \A i \in 1 .. n : s[i] = a[i]
      /\ \A i \in 1 .. m : s[n + i] = b[i]
  OBVIOUS
<1> HIDE DEF s, n, m
<1> DEFINE I == {i \in DOMAIN s : s[i].phase = "warmup"}
           J == {i \in DOMAIN s : s[i].phase = "measured"}
<1>2. ASSUME NEW i \in Block(n, m) PROVE s[i].phase = "measured"
  <2>1. i - n \in 1 .. m /\ n + (i - n) = i
    BY <1>1 DEF Block
  <2>2. s[i] = b[i - n]
    BY <1>1, <2>1
  <2> QED
    BY <1>1, <2>1, <2>2
<1>3. ASSUME NEW i \in Block(0, n) PROVE s[i].phase = "warmup"
  BY <1>1 DEF Block
<1>4. /\ Block(0, n) \subseteq 1 .. n + m /\ Block(n, m) \subseteq 1 .. n + m
      /\ \A i \in 1 .. n + m : i \in Block(0, n) \/ i \in Block(n, m)
  BY <1>1 DEF Block
<1>5. I = Block(0, n)
  BY <1>1, <1>2, <1>3, <1>4
<1>6. J = Block(n, m)
  BY <1>1, <1>2, <1>3, <1>4
<1> HIDE DEF I, J
<1>7. Those(s, I) = [k \in 1 .. n |-> s[0 + k]]
  <2>1. 0 \in Nat
    OBVIOUS
  <2> QED
    BY <1>1, <1>5, <2>1, ThoseBlock
<1>8. Those(s, J) = [k \in 1 .. m |-> s[n + k]]
  BY <1>1, <1>6, ThoseBlock
<1>9. [k \in 1 .. n |-> s[0 + k]] = a
  <2>0. \A k \in 1 .. n : 0 + k = k
    BY <1>1
  <2>1. \A k \in 1 .. n : s[0 + k] = a[k]
    BY <1>1, <2>0
  <2>2. [k \in 1 .. n |-> s[0 + k]] = [k \in 1 .. n |-> a[k]]
    BY <2>1
  <2>3. a = [k \in 1 .. n |-> a[k]]
    BY DEF n
  <2> QED
    BY <2>2, <2>3
<1>10. [k \in 1 .. m |-> s[n + k]] = b
  <2>2. [k \in 1 .. m |-> s[n + k]] = [k \in 1 .. m |-> b[k]]
    BY <1>1
  <2>3. b = [k \in 1 .. m |-> b[k]]
    BY DEF m
  <2> QED
    BY <2>2, <2>3
<1>11. InPhase("warmup", s) = Those(s, I)
  BY DEF InPhase, Selected, Passing, I
<1>12. InPhase("measured", s) = Those(s, J)
  BY DEF InPhase, Selected, Passing, J
<1>13. InPhase("warmup", s) = a
  BY <1>7, <1>9, <1>11
<1>14. InPhase("measured", s) = b
  BY <1>8, <1>10, <1>12
<1> QED
  BY <1>13, <1>14 DEF s

(* the successful ones                                                     *)
LEMMA MeasuredAre ==
  ASSUME NEW T, NEW s \in Seq(T)
  PROVE  /\ Measured(s) \in Seq(T)
         /\ \A i \in DOMAIN Measured(s) : \E j \in DOMAIN s : Measured(s)[i] = s[j]
<1> DEFINE I == {i \in DOMAIN s : s[i].phase = "measured"}
           m == Those(s, I)
<1>1. Measured(s) = m
  BY DEF Measured, InPhase, Selected, Passing
<1>2. I \subseteq DOMAIN s
  OBVIOUS
<1> HIDE DEF I
<1>3. /\ m \in Seq(T) /\ Len(m) = Cardinality(I) /\ Cardinality(I) \in Nat
      /\ \A k \in 1 .. Cardinality(I) : At(I, k) \in DOMAIN s /\ m[k] = s[At(I, k)]
  BY <1>2, ThoseAre
<1> HIDE DEF m
<1>4. DOMAIN m = 1 .. Cardinality(I)
  BY <1>3
<1>5. \A i \in DOMAIN m : \E j \in DOMAIN s : m[i] = s[j]
  BY <1>3, <1>4
<1> QED
  BY <1>1, <1>3, <1>5

LEMMA SuccessfulAre ==
  ASSUME NEW T, NEW s \in Seq(T), NEW m, m = Measured(s)
  PROVE  /\ Successful(s) \in Seq(T)
         /\ Len(Successful(s)) = Tally(m)["succeeded"]
         /\ \A i \in DOMAIN Successful(s) :
              /\ Successful(s)[i].outcome = "succeeded"
              /\ \E j \in DOMAIN m : Successful(s)[i] = m[j]
<1> DEFINE J == Had(m, "succeeded")
           t == Those(m, J)
<1>1. m \in Seq(T)
  BY MeasuredAre
<1>2. Successful(s) = t
  BY DEF Successful, Selected, Passing, Had
<1>3. Tally(m)["succeeded"] = Cardinality(J)
  BY DEF Tally, Number, Passing, Had, Outcomes
<1>4. J \subseteq DOMAIN m /\ \A i \in J : m[i].outcome = "succeeded"
  BY DEF Had
<1> HIDE DEF J
<1>5. /\ t \in Seq(T) /\ Len(t) = Cardinality(J) /\ Cardinality(J) \in Nat
      /\ \A k \in 1 .. Cardinality(J) :
           At(J, k) \in J /\ At(J, k) \in DOMAIN m /\ t[k] = m[At(J, k)]
  BY <1>1, <1>4, ThoseAre
<1> HIDE DEF t
<1>6. DOMAIN t = 1 .. Cardinality(J)
  BY <1>5
<1>7. \A i \in DOMAIN t : t[i].outcome = "succeeded" /\ \E j \in DOMAIN m : t[i] = m[j]
  BY <1>4, <1>5, <1>6
<1> QED
  BY <1>2, <1>3, <1>5, <1>7

(***************************************************************************)
(* Sums and joins                                                          *)
(***************************************************************************)

LEMMA TotalFold ==
  /\ \A s : Total(s) = Sums!Fold(s)
  /\ Sums!Fold(<<>>) = 0
  /\ \A s \in Seq(Int), e \in Int : Sums!Fold(Append(s, e)) = Sums!Fold(s) + e
<1>1. \A s : Total(s) = Sums!Fold(s)
  BY DEF Total, FoldLeft, MapThenFoldSet, Max,
         Sums!Fold, Sums!FoldLeft, Sums!MapThenFoldSet, Sums!Max
<1> QED
  BY <1>1, Sums!FoldEmpty, Sums!FoldAppend

LEMMA JoinedFold ==
  /\ \A s : Joined(s) = Joins!Fold(s)
  /\ Joins!Fold(<<>>) = <<>>
  /\ \A T : \A s \in Seq(T), e \in T : Joins!Fold(Append(s, e)) = Joins!Fold(s) \o e
<1>1. \A s : Joined(s) = Joins!Fold(s)
  BY DEF Joined, FoldLeft, MapThenFoldSet, Max,
         Joins!Fold, Joins!FoldLeft, Joins!MapThenFoldSet, Joins!Max
<1> QED
  BY <1>1, Joins!FoldEmpty, Joins!FoldAppend

(* the indices of the sequences that have an element                       *)
Filled(s) == {i \in DOMAIN s : s[i] # <<>>}

(* Sequences without an element add nothing to a join.                     *)
LEMMA JoinedFilled ==
  ASSUME NEW T, NEW V, \A v \in V : v \in Seq(T), NEW s \in Seq(V)
  PROVE  Joined(Those(s, Filled(s))) = Joined(s) /\ Joined(s) \in Seq(T)
<1> DEFINE S == {q \in Seq(V) :
                   Joined(Those(q, Filled(q))) = Joined(q) /\ Joined(q) \in Seq(T)}
<1>1. <<>> \in S
  <2>1. Filled(<<>>) = {} /\ {} \subseteq DOMAIN <<>> /\ <<>> \in Seq(V)
    BY DEF Filled
  <2>2. Those(<<>>, {}) \in Seq(V) /\ Len(Those(<<>>, {})) = Cardinality({})
    BY <2>1, ThoseAre
  <2>3. Cardinality({}) = 0
    BY FS_EmptySet
  <2>4. Those(<<>>, {}) = <<>>
    BY <2>2, <2>3
  <2>5. Joined(<<>>) = <<>> /\ <<>> \in Seq(T)
    BY JoinedFold
  <2> QED
    BY <2>1, <2>4, <2>5
<1>2. ASSUME NEW q \in Seq(V), NEW e \in V, q \in S PROVE Append(q, e) \in S
  <2> DEFINE u == Append(q, e)
             n == Len(q)
             I == Filled(q)
  <2>1. /\ u \in Seq(V) /\ n \in Nat /\ DOMAIN q = 1 .. n /\ DOMAIN u = 1 .. n + 1
        /\ u[n + 1] = e /\ \A i \in 1 .. n : u[i] = q[i]
        /\ \A i \in 1 .. n + 1 : i \in 1 .. n \/ i = n + 1
        /\ \A i \in 1 .. n : i \in 1 .. n + 1 /\ i # n + 1
        /\ n + 1 \in 1 .. n + 1
    OBVIOUS
  <2>2. Joined(u) = Joined(q) \o e
    BY JoinedFold
  <2>3. Joined(Those(q, I)) = Joined(q) /\ Joined(q) \in Seq(T)
    BY <1>2
  <2>4. I \subseteq DOMAIN q
    BY DEF Filled
  <2>5. Those(u, I) = Those(q, I) /\ Those(u, I \cup {n + 1}) = Append(Those(q, I), e)
    <3> HIDE DEF I
    <3> QED
      BY <2>4, ThoseAppend
  <2>6. Those(q, I) \in Seq(V)
    BY <2>4, ThoseAre
  <2>7. Joined(Append(Those(q, I), e)) = Joined(Those(q, I)) \o e
    BY <2>6, JoinedFold
  <2>8. Filled(u) = IF e = <<>> THEN I ELSE I \cup {n + 1}
    <3> HIDE DEF u, n
    <3>1. CASE e = <<>>
      BY <2>1, <3>1 DEF Filled
    <3>2. CASE e # <<>>
      BY <2>1, <3>2 DEF Filled
    <3> QED
      BY <3>1, <3>2
  <2> HIDE DEF u, I, n
  <2>9. Joined(u) \in Seq(T)
    BY <2>2, <2>3
  <2>10. Joined(Those(u, Filled(u))) = Joined(u)
    <3>1. CASE e = <<>>
      <4>1. Joined(q) \o <<>> = Joined(q)
        BY <2>3
      <4> QED
        BY <2>2, <2>3, <2>5, <2>8, <3>1, <4>1
    <3>2. CASE e # <<>>
      BY <2>2, <2>3, <2>5, <2>7, <2>8, <3>2
    <3> QED
      BY <3>1, <3>2
  <2> QED
    BY <2>1, <2>9, <2>10 DEF u
<1>3. Seq(V) \subseteq S
  <2> HIDE DEF S
  <2> QED
    BY <1>1, <1>2, Joins!SeqInduct
<1> QED
  BY <1>3

(***************************************************************************)
(* Tokens                                                                  *)
(***************************************************************************)

TokenCounts == [input : Nat, output : Nat, total : Nat]

(* A request has the server's token usage, or none.                        *)
Metered(q) == q.metrics.usage = NoTokens \/ q.metrics.usage \in TokenCounts

AllCounted(s)    == \A i \in DOMAIN s : s[i].metrics.usage # NoTokens
AllConsistent(s) ==
  \A i \in DOMAIN s :
    s[i].metrics.usage.input + s[i].metrics.usage.output = s[i].metrics.usage.total

Column(s, field) == [i \in DOMAIN s |-> s[i].metrics.usage[field]]

TokenSums ==
  [covered : Nat, refused : BOOLEAN, input : 0 .. MaxInt, output : 0 .. MaxInt, total : 0 .. MaxInt]

(* What is known of the totals on the way.                                 *)
Summed(s, sum) ==
  /\ sum \in TokenSums
  /\ sum.covered <= Len(s)
  /\ AllCounted(s) <=> sum.covered = Len(s)
  /\ AllCounted(s) /\ ~sum.refused =>
       /\ sum.input = Total(Column(s, "input"))
       /\ sum.output = Total(Column(s, "output"))
       /\ sum.total = Total(Column(s, "total"))
       /\ sum.input + sum.output = sum.total
  /\ AllCounted(s) /\ AllConsistent(s) /\ sum.refused => Total(Column(s, "total")) > MaxInt

LEMMA TotalAppend ==
  ASSUME NEW u \in Seq(Int), NEW v \in Int
  PROVE  Total(Append(u, v)) = Total(u) + v
  BY TotalFold

LEMMA TotalInt ==
  ASSUME NEW u \in Seq(Nat)
  PROVE  Total(u) \in Nat
<1> DEFINE S == {q \in Seq(Nat) : Total(q) \in Nat}
<1>1. <<>> \in S
  BY TotalFold
<1>2. ASSUME NEW q \in Seq(Nat), NEW e \in Nat, q \in S PROVE Append(q, e) \in S
  <2>1. q \in Seq(Int) /\ e \in Int
    OBVIOUS
  <2>2. Total(Append(q, e)) = Total(q) + e
    BY <2>1, TotalAppend
  <2> QED
    BY <1>2, <2>2
<1>3. Seq(Nat) \subseteq S
  <2> HIDE DEF S
  <2> QED
    BY <1>1, <1>2, Sums!SeqInduct
<1> QED
  BY <1>3

LEMMA AppendIs ==
  ASSUME NEW T, NEW u \in Seq(T), NEW v \in T, NEW n, n = Len(u)
  PROVE  Append(u, v) = [i \in 1 .. n + 1 |-> IF i <= n THEN u[i] ELSE v]
<1> DEFINE w == Append(u, v)
<1>1. /\ w \in Seq(T) /\ Len(w) = n + 1 /\ n \in Nat
      /\ \A i \in 1 .. n : w[i] = u[i]
      /\ w[n + 1] = v
  BY Appended
<1> HIDE DEF w
<1>2. w = [i \in 1 .. n + 1 |-> w[i]]
  BY <1>1
<1>3. \A i \in 1 .. n + 1 : w[i] = IF i <= n THEN u[i] ELSE v
  <2> SUFFICES ASSUME NEW i \in 1 .. n + 1 PROVE w[i] = IF i <= n THEN u[i] ELSE v
    OBVIOUS
  <2>1. i <= n => i \in 1 .. n
    BY <1>1
  <2>2. ~ (i <= n) => i = n + 1
    BY <1>1
  <2> QED
    BY <1>1, <2>1, <2>2
<1> QED
  BY <1>2, <1>3 DEF w

(* one more request with a usage                                           *)
LEMMA ColumnAppend ==
  ASSUME NEW Q, \A q \in Q : Metered(q), NEW s \in Seq(Q), NEW q \in Q, AllCounted(s),
         q.metrics.usage # NoTokens, NEW field \in {"input", "output", "total"}
  PROVE  /\ Total(Column(Append(s, q), field)) = Total(Column(s, field)) + q.metrics.usage[field]
         /\ Total(Column(s, field)) \in Nat
         /\ q.metrics.usage[field] \in Nat
<1> DEFINE n == Len(s)
           t == Append(s, q)
           u == Column(s, field)
           v == q.metrics.usage[field]
<1>1. /\ n \in Nat /\ DOMAIN s = 1 .. n /\ DOMAIN t = 1 .. n + 1
      /\ \A i \in 1 .. n : t[i] = s[i] /\ s[i] \in Q
      /\ t[n + 1] = q
  OBVIOUS
<1>2. v \in Nat
  <2>1. q.metrics.usage \in TokenCounts
    BY DEF Metered
  <2> QED
    BY <2>1 DEF TokenCounts
<1>3. \A i \in 1 .. n : s[i].metrics.usage[field] \in Nat
  <2> SUFFICES ASSUME NEW i \in 1 .. n PROVE s[i].metrics.usage[field] \in Nat
    OBVIOUS
  <2>1. s[i] \in Q /\ s[i].metrics.usage # NoTokens
    BY <1>1 DEF AllCounted
  <2>2. s[i].metrics.usage \in TokenCounts
    BY <2>1 DEF Metered
  <2> QED
    BY <2>2 DEF TokenCounts
<1> HIDE DEF n, t, v
<1>4. u = [i \in 1 .. n |-> s[i].metrics.usage[field]]
  BY <1>1 DEF Column
<1>5. u \in Seq(Nat) /\ Len(u) = n /\ \A i \in 1 .. n : u[i] = s[i].metrics.usage[field]
  BY <1>1, <1>3, <1>4
<1>6. Column(t, field) = [i \in 1 .. n + 1 |-> t[i].metrics.usage[field]]
  BY <1>1 DEF Column
<1> HIDE DEF u
<1>7. Append(u, v) = [i \in 1 .. n + 1 |-> IF i <= n THEN u[i] ELSE v]
  <2>1. u \in Seq(Nat) /\ v \in Nat /\ n = Len(u)
    BY <1>2, <1>5
  <2> QED
    BY <2>1, AppendIs
<1>8. \A i \in 1 .. n + 1 : t[i].metrics.usage[field] = IF i <= n THEN u[i] ELSE v
  <2> SUFFICES ASSUME NEW i \in 1 .. n + 1
               PROVE  t[i].metrics.usage[field] = IF i <= n THEN u[i] ELSE v
    OBVIOUS
  <2>1. CASE i <= n
    <3>1. i \in 1 .. n
      BY <1>1, <2>1
    <3> QED
      BY <1>1, <1>5, <2>1, <3>1
  <2>2. CASE ~ (i <= n)
    <3>1. i = n + 1
      BY <1>1, <2>2
    <3> QED
      BY <1>1, <2>2, <3>1 DEF v
  <2> QED
    BY <2>1, <2>2
<1>9. Column(t, field) = Append(u, v)
  BY <1>6, <1>7, <1>8
<1>10. Total(Append(u, v)) = Total(u) + v /\ Total(u) \in Nat
  <2>1. u \in Seq(Int) /\ v \in Int
    BY <1>2, <1>5
  <2> QED
    BY <1>5, <2>1, TotalAppend, TotalInt
<1> QED
  BY <1>2, <1>9, <1>10 DEF t, u, v

LEMMA AppendAll ==
  ASSUME NEW Q, NEW s \in Seq(Q), NEW q \in Q
  PROVE  /\ AllCounted(Append(s, q)) <=> AllCounted(s) /\ q.metrics.usage # NoTokens
         /\ AllConsistent(Append(s, q)) <=>
              /\ AllConsistent(s)
              /\ q.metrics.usage.input + q.metrics.usage.output = q.metrics.usage.total
<1> DEFINE n == Len(s)
           t == Append(s, q)
<1>1. /\ n \in Nat /\ DOMAIN s = 1 .. n /\ DOMAIN t = 1 .. n + 1
      /\ \A i \in 1 .. n : t[i] = s[i] /\ i \in 1 .. n + 1
      /\ t[n + 1] = q /\ n + 1 \in 1 .. n + 1
      /\ \A i \in 1 .. n + 1 : i \in 1 .. n \/ i = n + 1
  OBVIOUS
<1> HIDE DEF n, t
<1>2. AllCounted(t) <=> AllCounted(s) /\ q.metrics.usage # NoTokens
  BY <1>1 DEF AllCounted
<1>3. AllConsistent(t) <=>
        /\ AllConsistent(s)
        /\ q.metrics.usage.input + q.metrics.usage.output = q.metrics.usage.total
  BY <1>1 DEF AllConsistent
<1> QED
  BY <1>2, <1>3 DEF t

(* the sums a usage is added to                                            *)
LEMMA UsageFits ==
  ASSUME NEW sum \in TokenSums, NEW usage \in TokenCounts, Consistent(usage), SumsFit(sum, usage)
  PROVE  /\ sum.input + usage.input \in 0 .. MaxInt
         /\ sum.output + usage.output \in 0 .. MaxInt
         /\ sum.total + usage.total \in 0 .. MaxInt
         /\ usage.input + usage.output = usage.total
<1>1. /\ sum.input \in 0 .. MaxInt /\ sum.output \in 0 .. MaxInt /\ sum.total \in 0 .. MaxInt
      /\ usage.input \in Nat /\ usage.output \in Nat /\ usage.total \in Nat /\ MaxInt \in Nat
  BY AdmissionAssumption DEF TokenSums, TokenCounts
<1> QED
  BY <1>1 DEF Consistent, SumsFit, Fits

(* why a consistent usage is not added                                     *)
LEMMA UsageTooLarge ==
  ASSUME NEW sum \in TokenSums, NEW usage \in TokenCounts,
         ~Consistent(usage) \/ ~SumsFit(sum, usage),
         usage.input + usage.output = usage.total, sum.input + sum.output = sum.total
  PROVE  sum.total + usage.total > MaxInt
<1>1. /\ sum.input \in 0 .. MaxInt /\ sum.output \in 0 .. MaxInt /\ sum.total \in 0 .. MaxInt
      /\ usage.input \in Nat /\ usage.output \in Nat /\ usage.total \in Nat /\ MaxInt \in Nat
  BY AdmissionAssumption DEF TokenSums, TokenCounts
<1> QED
  BY <1>1 DEF Consistent, SumsFit, Fits

LEMMA SumRefused ==
  ASSUME NEW sum \in TokenSums, NEW new,
         new = [sum EXCEPT !.covered = sum.covered + 1, !.refused = TRUE]
  PROVE  new \in TokenSums /\ new.covered = sum.covered + 1 /\ new.refused
<1>1. new.covered = sum.covered + 1 /\ new.refused
  BY DEF TokenSums
<1>2. sum = [covered |-> sum.covered, refused |-> sum.refused,
             input |-> sum.input, output |-> sum.output, total |-> sum.total]
  BY DEF TokenSums
<1>3. new = [covered |-> sum.covered + 1, refused |-> TRUE,
             input |-> sum.input, output |-> sum.output, total |-> sum.total]
  BY <1>2
<1>4. /\ sum.covered + 1 \in Nat /\ sum.input \in 0 .. MaxInt /\ sum.output \in 0 .. MaxInt
      /\ sum.total \in 0 .. MaxInt
  BY DEF TokenSums
<1> QED
  BY <1>1, <1>3, <1>4 DEF TokenSums

LEMMA SummedStep ==
  ASSUME NEW Q, \A q \in Q : Metered(q), NEW s \in Seq(Q), NEW q \in Q, NEW sum, Summed(s, sum)
  PROVE  Summed(Append(s, q), AddUsage(sum, q))
<1> DEFINE n == Len(s)
           t == Append(s, q)
           usage == q.metrics.usage
           new == AddUsage(sum, q)
<1>1. n \in Nat /\ Len(t) = n + 1
  OBVIOUS
<1>2. /\ sum \in TokenSums /\ sum.covered \in Nat /\ sum.covered <= n
      /\ AllCounted(s) <=> sum.covered = n
  BY DEF Summed, TokenSums
<1>3. /\ AllCounted(t) <=> AllCounted(s) /\ usage # NoTokens
      /\ AllConsistent(t) <=> AllConsistent(s) /\ usage.input + usage.output = usage.total
  BY AppendAll
<1>4. CASE usage = NoTokens
  <2>1. new = sum /\ ~AllCounted(t)
    BY <1>3, <1>4 DEF AddUsage
  <2> HIDE DEF n, t, new, usage
  <2> QED
    BY <1>1, <1>2, <2>1 DEF Summed, n, t, new
<1>5. CASE usage # NoTokens
  <2>1. usage \in TokenCounts
    BY <1>5 DEF Metered
  <2>2. AllCounted(s) =>
          \A field \in {"input", "output", "total"} :
            /\ Total(Column(t, field)) = Total(Column(s, field)) + usage[field]
            /\ Total(Column(s, field)) \in Nat
            /\ usage[field] \in Nat
    <3> SUFFICES ASSUME AllCounted(s), NEW field \in {"input", "output", "total"}
                 PROVE  /\ Total(Column(t, field)) = Total(Column(s, field)) + usage[field]
                        /\ Total(Column(s, field)) \in Nat
                        /\ usage[field] \in Nat
      OBVIOUS
    <3> QED
      BY <1>5, ColumnAppend
  <2> DEFINE i == Total(Column(s, "input"))
             o == Total(Column(s, "output"))
             c == Total(Column(s, "total"))
  <2>3. AllCounted(s) =>
          /\ Total(Column(t, "input")) = i + usage.input
          /\ Total(Column(t, "output")) = o + usage.output
          /\ Total(Column(t, "total")) = c + usage.total
          /\ c \in Nat /\ usage.total \in Nat
    BY <2>2
  <2>4. AllCounted(s) /\ ~sum.refused =>
          sum.input = i /\ sum.output = o /\ sum.total = c /\ sum.input + sum.output = sum.total
    BY DEF Summed
  <2>5. AllCounted(s) /\ AllConsistent(s) /\ sum.refused => c > MaxInt
    BY DEF Summed
  <2>6. sum.refused \in BOOLEAN
    BY <1>2 DEF TokenSums
  <2>7. AllCounted(t) <=> AllCounted(s)
    BY <1>3, <1>5
  <2>8. CASE ~Consistent(usage) \/ ~SumsFit(sum, usage)
    <3>1. new = [sum EXCEPT !.covered = sum.covered + 1, !.refused = TRUE]
      BY <1>5, <2>8 DEF AddUsage
    <3>2. new \in TokenSums /\ new.covered = sum.covered + 1 /\ new.refused
      <4> HIDE DEF new, n, t, usage
      <4> QED
        BY <1>2, <3>1, SumRefused
    <3>3. AllCounted(t) /\ AllConsistent(t) => Total(Column(t, "total")) > MaxInt
      <4> SUFFICES ASSUME AllCounted(t), AllConsistent(t) PROVE Total(Column(t, "total")) > MaxInt
        OBVIOUS
      <4>1. AllCounted(s) /\ AllConsistent(s) /\ usage.input + usage.output = usage.total
        BY <1>3, <2>7
      <4>2. c \in Nat /\ usage.total \in Nat /\ Total(Column(t, "total")) = c + usage.total
        BY <2>3, <4>1
      <4>3. MaxInt \in Nat
        BY AdmissionAssumption
      <4> HIDE DEF c, i, o, t, new, usage
      <4>4. CASE sum.refused
        <5>1. c > MaxInt
          BY <2>5, <4>1, <4>4
        <5> QED
          BY <4>2, <4>3, <5>1
      <4>5. CASE ~sum.refused
        <5>1. sum.input + sum.output = sum.total /\ sum.total = c
          BY <2>4, <4>1, <4>5
        <5>2. sum.total + usage.total > MaxInt
          BY <1>2, <2>1, <2>8, <4>1, <5>1, UsageTooLarge
        <5> QED
          BY <4>2, <5>1, <5>2
      <4> QED
        BY <4>4, <4>5
    <3> HIDE DEF n, t, new, usage, c, i, o
    <3>4. new.covered <= Len(t) /\ (AllCounted(t) <=> new.covered = Len(t))
      BY <1>1, <1>2, <2>7, <3>2
    <3> QED
      BY <3>2, <3>3, <3>4 DEF Summed, new, t
  <2>9. CASE Consistent(usage) /\ SumsFit(sum, usage)
    <3>1. new = [covered |-> sum.covered + 1,
                 refused |-> sum.refused,
                 input   |-> sum.input + usage.input,
                 output  |-> sum.output + usage.output,
                 total   |-> sum.total + usage.total]
      BY <1>5, <2>9 DEF AddUsage
    <3>2. /\ sum.input + usage.input \in 0 .. MaxInt
          /\ sum.output + usage.output \in 0 .. MaxInt
          /\ sum.total + usage.total \in 0 .. MaxInt
          /\ usage.input + usage.output = usage.total
      BY <1>2, <2>1, <2>9, UsageFits
    <3>3. sum.input \in Int /\ sum.output \in Int /\ sum.total \in Int
          /\ usage.input \in Int /\ usage.output \in Int /\ usage.total \in Int
      BY <1>2, <2>1 DEF TokenSums, TokenCounts
    <3> HIDE DEF n, t, new, usage, c, i, o
    <3>4. /\ new \in TokenSums /\ new.covered = sum.covered + 1 /\ new.refused = sum.refused
          /\ new.input = sum.input + usage.input /\ new.output = sum.output + usage.output
          /\ new.total = sum.total + usage.total
      BY <1>2, <2>6, <3>1, <3>2 DEF TokenSums
    <3>5. new.covered <= Len(t) /\ (AllCounted(t) <=> new.covered = Len(t))
      BY <1>1, <1>2, <2>7, <3>4
    <3>6. AllCounted(t) /\ ~new.refused =>
            /\ new.input = Total(Column(t, "input"))
            /\ new.output = Total(Column(t, "output"))
            /\ new.total = Total(Column(t, "total"))
            /\ new.input + new.output = new.total
      <4> SUFFICES ASSUME AllCounted(t), ~new.refused
                   PROVE  /\ new.input = Total(Column(t, "input"))
                          /\ new.output = Total(Column(t, "output"))
                          /\ new.total = Total(Column(t, "total"))
                          /\ new.input + new.output = new.total
        OBVIOUS
      <4>1. AllCounted(s) /\ ~sum.refused
        BY <2>7, <3>4
      <4>2. sum.input = i /\ sum.output = o /\ sum.total = c /\ sum.input + sum.output = sum.total
        BY <2>4, <4>1
      <4>3. /\ Total(Column(t, "input")) = i + usage.input
            /\ Total(Column(t, "output")) = o + usage.output
            /\ Total(Column(t, "total")) = c + usage.total
        BY <2>3, <4>1
      <4>4. new.input = i + usage.input /\ new.output = o + usage.output /\ new.total = c + usage.total
        BY <3>4, <4>2
      <4>5. (sum.input + usage.input) + (sum.output + usage.output) = sum.total + usage.total
        <5>1. sum.input + sum.output = sum.total /\ usage.input + usage.output = usage.total
          BY <3>2, <4>2
        <5> QED
          BY <3>3, <5>1
      <4>6. new.input + new.output = new.total
        BY <3>4, <4>5
      <4> QED
        BY <4>3, <4>4, <4>6
    <3>7. AllCounted(t) /\ AllConsistent(t) /\ new.refused => Total(Column(t, "total")) > MaxInt
      <4> SUFFICES ASSUME AllCounted(t), AllConsistent(t), new.refused
                   PROVE  Total(Column(t, "total")) > MaxInt
        OBVIOUS
      <4>1. AllCounted(s) /\ AllConsistent(s) /\ sum.refused
        BY <1>3, <2>7, <3>4
      <4>2. c > MaxInt
        BY <2>5, <4>1
      <4>3. Total(Column(t, "total")) = c + usage.total /\ c \in Nat /\ usage.total \in Nat
        BY <2>3, <4>1
      <4>4. MaxInt \in Nat
        BY AdmissionAssumption
      <4> QED
        BY <4>2, <4>3, <4>4
    <3> QED
      BY <3>4, <3>5, <3>6, <3>7 DEF Summed, new, t
  <2> QED
    BY <2>8, <2>9
<1> QED
  BY <1>4, <1>5

LEMMA UsageFold ==
  /\ \A s : FoldLeft(AddUsage, NoTotals, s) = Usages!Fold(s)
  /\ Usages!Fold(<<>>) = NoTotals
  /\ \A T : \A s \in Seq(T), e \in T : Usages!Fold(Append(s, e)) = AddUsage(Usages!Fold(s), e)
<1>1. \A s : FoldLeft(AddUsage, NoTotals, s) = Usages!Fold(s)
  BY DEF FoldLeft, MapThenFoldSet, Max, Usages!Fold, Usages!FoldLeft, Usages!MapThenFoldSet,
         Usages!Max
<1> QED
  BY <1>1, Usages!FoldEmpty, Usages!FoldAppend

LEMMA UsagesSummed ==
  ASSUME NEW Q, \A q \in Q : Metered(q), NEW s \in Seq(Q)
  PROVE  Summed(s, FoldLeft(AddUsage, NoTotals, s))
<1> DEFINE S == {q \in Seq(Q) : Summed(q, Usages!Fold(q))}
<1>1. <<>> \in S
  <2>1. /\ Column(<<>>, "input") = <<>> /\ Column(<<>>, "output") = <<>>
        /\ Column(<<>>, "total") = <<>> /\ Len(<<>>) = 0 /\ <<>> \in Seq(Q)
    BY DEF Column
  <2>2. Total(<<>>) = 0
    BY TotalFold
  <2>3. AllCounted(<<>>)
    BY DEF AllCounted
  <2>4. NoTotals \in TokenSums
    BY AdmissionAssumption DEF NoTotals, TokenSums
  <2>5. Summed(<<>>, NoTotals)
    BY <2>1, <2>2, <2>3, <2>4 DEF Summed, NoTotals
  <2> QED
    BY <2>1, <2>5, UsageFold
<1>2. ASSUME NEW q \in Seq(Q), NEW e \in Q, q \in S PROVE Append(q, e) \in S
  <2>1. Usages!Fold(Append(q, e)) = AddUsage(Usages!Fold(q), e)
    BY UsageFold
  <2>2. Summed(Append(q, e), AddUsage(Usages!Fold(q), e))
    BY <1>2, SummedStep
  <2> QED
    BY <2>1, <2>2
<1>3. Seq(Q) \subseteq S
  <2> HIDE DEF S
  <2> QED
    BY <1>1, <1>2, Usages!SeqInduct
<1> QED
  BY <1>3, UsageFold

(* The totals that are published, and why they may be missing.             *)
TotalsOf(s, tokens) ==
  /\ tokens.available =>
       /\ AllCounted(s)
       /\ \A field \in {"input", "output", "total"} :
            /\ tokens[field] = Total(Column(s, field))
            /\ Total(Column(s, field)) <= MaxInt
       /\ tokens.input + tokens.output = tokens.total
  /\ ~tokens.available /\ s # <<>> =>
       ~AllCounted(s) \/ ~AllConsistent(s) \/ Total(Column(s, "total")) > MaxInt

(* Token totals are the sums of every request's usage; they are missing    *)
(* only when a usage is, when one does not add up, or when the sum is too  *)
(* large for its type (calculate.go:415-462).                              *)
THEOREM TokensAre ==
  ASSUME NEW Q, \A q \in Q : Metered(q), NEW s \in Seq(Q), NEW elapsed \in Int,
         s # <<>> => elapsed > 0
  PROVE  TotalsOf(s, Tokens(s, elapsed))
<1> DEFINE sum == FoldLeft(AddUsage, NoTotals, s)
           tokens == Tokens(s, elapsed)
<1>1. Summed(s, sum)
  BY UsagesSummed
<1>2. tokens = IF s = <<>> \/ sum.refused \/ sum.covered # Len(s) \/ elapsed <= 0
               THEN [available |-> FALSE, covered |-> sum.covered]
               ELSE [available |-> TRUE, covered |-> sum.covered,
                     input |-> sum.input, output |-> sum.output, total |-> sum.total]
  BY DEF Tokens
<1> HIDE DEF sum, tokens
<1>3. ASSUME tokens.available
      PROVE  /\ AllCounted(s)
             /\ \A field \in {"input", "output", "total"} :
                  /\ tokens[field] = Total(Column(s, field))
                  /\ Total(Column(s, field)) <= MaxInt
             /\ tokens.input + tokens.output = tokens.total
  <2>1. ~sum.refused /\ sum.covered = Len(s)
    BY <1>2, <1>3
  <2>2. tokens.input = sum.input /\ tokens.output = sum.output /\ tokens.total = sum.total
    BY <1>2, <1>3
  <2>3. AllCounted(s)
    BY <1>1, <2>1 DEF Summed
  <2>4. /\ sum.input = Total(Column(s, "input")) /\ sum.output = Total(Column(s, "output"))
        /\ sum.total = Total(Column(s, "total")) /\ sum.input + sum.output = sum.total
    BY <1>1, <2>1, <2>3 DEF Summed
  <2>5. sum.input <= MaxInt /\ sum.output <= MaxInt /\ sum.total <= MaxInt
    BY <1>1, AdmissionAssumption DEF Summed, TokenSums
  <2> QED
    BY <2>2, <2>3, <2>4, <2>5
<1>4. ASSUME ~tokens.available, s # <<>>
      PROVE  ~AllCounted(s) \/ ~AllConsistent(s) \/ Total(Column(s, "total")) > MaxInt
  <2>1. sum.refused \/ sum.covered # Len(s)
    BY <1>2, <1>4
  <2> QED
    BY <1>1, <2>1 DEF Summed
<1> QED
  BY <1>3, <1>4 DEF TotalsOf, tokens

(***************************************************************************)
(* Service level objectives                                                *)
(***************************************************************************)

(* The metrics that an objective can be set for are fractions, or missing. *)
Measurable(q, slo) ==
  \A k \in DOMAIN slo : q.metrics[k] = Unavailable \/ q.metrics[k] \in Fraction

WithMetric(s, k)     == {i \in DOMAIN s : s[i].metrics[k] # Unavailable}
PassingMetric(s, k, slo) ==
  {i \in DOMAIN s : s[i].metrics[k] # Unavailable /\ Passes(s[i].metrics[k], slo[k])}
MeetingAll(s, slo)   ==
  {i \in DOMAIN s : \A k \in DOMAIN slo :
     s[i].metrics[k] # Unavailable /\ Passes(s[i].metrics[k], slo[k])}
LackingOne(s, slo)   == {i \in DOMAIN s : \E k \in DOMAIN slo : s[i].metrics[k] = Unavailable}
MissingOne(s, slo)   == {i \in DOMAIN s : Evaluable(s[i], slo) /\ ~PassedAll(s[i], slo)}

Partitioned(s, slo, v) ==
  /\ v.good + v.bad + v.unevaluable = Len(s)
  /\ v.good = Cardinality(MeetingAll(s, slo))
  /\ v.unevaluable = Cardinality(LackingOne(s, slo))
  /\ \A k \in DOMAIN slo : v.metrics[k].passing >= v.good

LEMMA PassingIs ==
  ASSUME NEW T, NEW s \in Seq(T), NEW slo, NEW k \in DOMAIN slo
  PROVE  MetricSummary(k, slo, s).passing = Cardinality(PassingMetric(s, k, slo))
<1> DEFINE I == WithMetric(s, k)
           J == PassingMetric(s, k, slo)
           w == Those(s, I)
           c == Cardinality(I)
<1>1. /\ I \subseteq DOMAIN s /\ J \subseteq I /\ Len(s) \in Nat /\ DOMAIN s = 1 .. Len(s)
  BY DEF WithMetric, PassingMetric
<1>2. MetricSummary(k, slo, s).passing = Cardinality({j \in DOMAIN w : Passes(w[j].metrics[k], slo[k])})
  BY DEF MetricSummary, Selected, Passing, Number, WithMetric
<1>3. /\ w \in Seq(T) /\ Len(w) = c /\ c \in Nat
      /\ \A j \in 1 .. c : At(I, j) \in I /\ w[j] = s[At(I, j)]
  BY <1>1, ThoseAre
<1>4. DOMAIN w = 1 .. c
  BY <1>3
<1>5. \A i \in I : Passes(s[i].metrics[k], slo[k]) <=> i \in J
  BY DEF WithMetric, PassingMetric
<1> HIDE DEF I, J, w, c
<1>6. {j \in DOMAIN w : Passes(w[j].metrics[k], slo[k])} = Picked(I, J)
  BY <1>3, <1>4, <1>5 DEF Picked, c
<1>7. Cardinality(Picked(I, J)) = Cardinality(J)
  <2>1. Len(s) \in Nat /\ I \subseteq 1 .. Len(s)
    BY <1>1
  <2> QED
    BY <1>1, <2>1, ThoseCounted
<1> QED
  BY <1>2, <1>6, <1>7 DEF J

(* The requests are divided into those that meet every objective, those    *)
(* that miss one, and those that lack a metric of one (calculate.go:464).  *)
THEOREM ObjectivesAre ==
  ASSUME NEW T, NEW s \in Seq(T), NEW slo, slo # <<>>, NEW v, v = SLOSummary(slo, s)
  PROVE  v.configured /\ Partitioned(s, slo, v)
<1> DEFINE n == Len(s)
           G == MeetingAll(s, slo)
           B == MissingOne(s, slo)
           U == LackingOne(s, slo)
           A == {i \in DOMAIN s : Evaluable(s[i], slo) /\ PassedAll(s[i], slo)}
           L == {i \in DOMAIN s : ~Evaluable(s[i], slo)}
           M == [k \in DOMAIN slo |-> MetricSummary(k, slo, s)]
<1>1. n \in Nat /\ DOMAIN s = 1 .. n
  OBVIOUS
<1>2. v = [configured  |-> TRUE,
           metrics     |-> M,
           good        |-> Cardinality(A),
           bad         |-> Cardinality(B),
           unevaluable |-> Cardinality(L)]
  BY DEF SLOSummary, Number, Passing, MissingOne
<1>3. A = G
  BY DEF Evaluable, PassedAll, MeetingAll
<1>4. L = U
  BY DEF Evaluable, LackingOne
<1>5. /\ G \subseteq 1 .. n /\ B \subseteq 1 .. n /\ U \subseteq 1 .. n
      /\ G \cap B = {} /\ (G \cup B) \cap U = {} /\ (G \cup B) \cup U = 1 .. n
      /\ G \cup B \subseteq 1 .. n
  BY <1>1 DEF MeetingAll, MissingOne, LackingOne, Evaluable, PassedAll
<1>6. \A k \in DOMAIN slo : G \subseteq PassingMetric(s, k, slo) /\ PassingMetric(s, k, slo) \subseteq 1 .. n
  BY <1>1 DEF MeetingAll, PassingMetric
<1>7. \A k \in DOMAIN slo : MetricSummary(k, slo, s).passing = Cardinality(PassingMetric(s, k, slo))
  BY PassingIs
<1> HIDE DEF n, G, B, U, A, L, M
<1>8. /\ v.configured /\ v.good = Cardinality(G) /\ v.bad = Cardinality(B)
      /\ v.unevaluable = Cardinality(U)
      /\ v.metrics = M
  BY <1>2, <1>3, <1>4
<1>11. \A k \in DOMAIN slo : v.metrics[k].passing = Cardinality(PassingMetric(s, k, slo))
  <2>1. \A k \in DOMAIN slo : v.metrics[k] = MetricSummary(k, slo, s)
    BY <1>8 DEF M
  <2> QED
    BY <1>7, <2>1
<1>9. Cardinality(G) + Cardinality(B) + Cardinality(U) = n
  <2>1. /\ Cardinality(G \cup B) = Cardinality(G) + Cardinality(B)
        /\ Cardinality((G \cup B) \cup U) = Cardinality(G \cup B) + Cardinality(U)
    BY <1>1, <1>5, PartsAdd
  <2>2. Cardinality(1 .. n) = n
    <3>1. Cardinality(1 .. n) = n - 1 + 1
      BY <1>1, IntervalSize
    <3> QED
      BY <1>1, <3>1
  <2>3. (G \cup B) \cup U = 1 .. n
    BY <1>5
  <2> QED
    BY <2>1, <2>2, <2>3
<1>10. ASSUME NEW k \in DOMAIN slo PROVE v.metrics[k].passing >= v.good
  <2> DEFINE P == PassingMetric(s, k, slo)
  <2>1. P \subseteq 1 .. n /\ G \subseteq P
    BY <1>6
  <2>2. v.metrics[k].passing = Cardinality(P)
    BY <1>11
  <2> HIDE DEF P
  <2>3. Cardinality(G) <= Cardinality(P)
    BY <1>1, <2>1, PartSmaller
  <2>4. Cardinality(G) \in Nat /\ Cardinality(P) \in Nat
    BY <1>1, <1>5, <2>1, FiniteIndices
  <2> QED
    BY <1>8, <2>2, <2>3, <2>4
<1> QED
  BY <1>8, <1>9, <1>10 DEF Partitioned, n, G, U

(***************************************************************************)
(* The metrics of one request                                              *)
(***************************************************************************)

LEMMA ContentFold ==
  /\ \A o : ContentEvents(o) = Contents!Fold(o.events)
  /\ Contents!Fold(<<>>) = <<>>
  /\ \A T : \A s \in Seq(T), e \in T :
       Contents!Fold(Append(s, e)) = KeepContent(Contents!Fold(s), e)
<1>1. \A o : ContentEvents(o) = Contents!Fold(o.events)
  BY DEF ContentEvents, FoldLeft, MapThenFoldSet, Max, KeepContent,
         Contents!Fold, Contents!FoldLeft, Contents!MapThenFoldSet, Contents!Max
<1> QED
  BY <1>1, Contents!FoldEmpty, Contents!FoldAppend

LEMMA TokenFold ==
  /\ \A o : TokenEvents(o) = Carriers!Fold(o.events)
  /\ Carriers!Fold(<<>>) = <<>>
  /\ \A T : \A s \in Seq(T), e \in T :
       Carriers!Fold(Append(s, e)) = KeepTokens(Carriers!Fold(s), e)
<1>1. \A o : TokenEvents(o) = Carriers!Fold(o.events)
  BY DEF TokenEvents, FoldLeft, MapThenFoldSet, Max, KeepTokens,
         Carriers!Fold, Carriers!FoldLeft, Carriers!MapThenFoldSet, Carriers!Max
<1> QED
  BY <1>1, Carriers!FoldEmpty, Carriers!FoldAppend

(* the events that are kept are events                                     *)
LEMMA EventsKept ==
  ASSUME NEW s \in Seq(StreamEvent)
  PROVE  Contents!Fold(s) \in Seq(StreamEvent) /\ Carriers!Fold(s) \in Seq(StreamEvent)
<1> DEFINE S == {q \in Seq(StreamEvent) :
                   Contents!Fold(q) \in Seq(StreamEvent) /\ Carriers!Fold(q) \in Seq(StreamEvent)}
<1>1. <<>> \in S
  <2>1. Contents!Fold(<<>>) = <<>> /\ Carriers!Fold(<<>>) = <<>> /\ <<>> \in Seq(StreamEvent)
    BY ContentFold, TokenFold
  <2> QED
    BY <2>1, Zenon
<1>2. ASSUME NEW q \in Seq(StreamEvent), NEW e \in StreamEvent, q \in S PROVE Append(q, e) \in S
  <2> DEFINE c == Contents!Fold(q)
             d == Carriers!Fold(q)
  <2>1. c \in Seq(StreamEvent) /\ d \in Seq(StreamEvent)
    BY <1>2
  <2>2. /\ Contents!Fold(Append(q, e)) = KeepContent(c, e)
        /\ Carriers!Fold(Append(q, e)) = KeepTokens(d, e)
    BY ContentFold, TokenFold
  <2> HIDE DEF c, d
  <2>3. KeepContent(c, e) \in Seq(StreamEvent) /\ KeepTokens(d, e) \in Seq(StreamEvent)
    <3>1. Append(c, e) \in Seq(StreamEvent) /\ Append(d, e) \in Seq(StreamEvent)
      BY <2>1
    <3> QED
      BY <2>1, <3>1 DEF KeepContent, KeepTokens
  <2> QED
    BY <2>2, <2>3
<1>3. Seq(StreamEvent) \subseteq S
  <2> HIDE DEF S
  <2> QED
    BY <1>1, <1>2, Sums!SeqInduct
<1> QED
  BY <1>3

TokenColumn(s) == [i \in DOMAIN s |-> s[i].tokens]
Single(s)      == \A i \in DOMAIN s : s[i].tokens = 1

(* As many events carry tokens as there are tokens, when each carries one. *)
OneEach(s) == Single(Carriers!Fold(s)) => Total(TokenColumn(s)) = Len(Carriers!Fold(s))

LEMMA SingleAppend ==
  ASSUME NEW T, NEW s \in Seq(T), NEW e \in T, Single(Append(s, e))
  PROVE  Single(s) /\ e.tokens = 1
<1>1. /\ Len(s) \in Nat /\ DOMAIN s = 1 .. Len(s) /\ DOMAIN Append(s, e) = 1 .. Len(s) + 1
      /\ Len(s) + 1 \in 1 .. Len(s) + 1
      /\ \A i \in 1 .. Len(s) : Append(s, e)[i] = s[i] /\ i \in 1 .. Len(s) + 1
      /\ Append(s, e)[Len(s) + 1] = e
  OBVIOUS
<1> QED
  BY <1>1 DEF Single

LEMMA TokenColumnAppend ==
  ASSUME NEW s \in Seq(StreamEvent), NEW e \in StreamEvent
  PROVE  /\ TokenColumn(s) \in Seq(Int)
         /\ Total(TokenColumn(Append(s, e))) = Total(TokenColumn(s)) + e.tokens
<1> DEFINE n == Len(s)
           t == Append(s, e)
           u == TokenColumn(s)
           v == e.tokens
<1>1. /\ n \in Nat /\ DOMAIN s = 1 .. n /\ DOMAIN t = 1 .. n + 1
      /\ \A i \in 1 .. n : t[i] = s[i] /\ s[i] \in StreamEvent
      /\ t[n + 1] = e
  OBVIOUS
<1>2. v \in Int /\ \A i \in 1 .. n : s[i].tokens \in Int
  BY <1>1 DEF StreamEvent
<1> HIDE DEF n, t, v
<1>3. u = [i \in 1 .. n |-> s[i].tokens]
  BY <1>1 DEF TokenColumn
<1>4. u \in Seq(Int) /\ Len(u) = n /\ \A i \in 1 .. n : u[i] = s[i].tokens
  BY <1>1, <1>2, <1>3
<1>5. TokenColumn(t) = [i \in 1 .. n + 1 |-> t[i].tokens]
  BY <1>1 DEF TokenColumn
<1> HIDE DEF u
<1>6. Append(u, v) = [i \in 1 .. n + 1 |-> IF i <= n THEN u[i] ELSE v]
  <2>1. u \in Seq(Int) /\ v \in Int /\ n = Len(u)
    BY <1>2, <1>4
  <2> QED
    BY <2>1, AppendIs
<1>7. \A i \in 1 .. n + 1 : t[i].tokens = IF i <= n THEN u[i] ELSE v
  <2> SUFFICES ASSUME NEW i \in 1 .. n + 1
               PROVE  t[i].tokens = IF i <= n THEN u[i] ELSE v
    OBVIOUS
  <2>1. CASE i <= n
    <3>1. i \in 1 .. n
      BY <1>1, <2>1
    <3> QED
      BY <1>1, <1>4, <2>1, <3>1
  <2>2. CASE ~ (i <= n)
    <3>1. i = n + 1
      BY <1>1, <2>2
    <3> QED
      BY <1>1, <2>2, <3>1 DEF v
  <2> QED
    BY <2>1, <2>2
<1>8. TokenColumn(t) = Append(u, v)
  BY <1>5, <1>6, <1>7
<1>9. Total(Append(u, v)) = Total(u) + v
  BY <1>2, <1>4, TotalAppend
<1> QED
  BY <1>4, <1>8, <1>9 DEF t, u, v

LEMMA TokensEach ==
  ASSUME NEW s \in Seq(StreamEvent)
  PROVE  OneEach(s)
<1> DEFINE S == {q \in Seq(StreamEvent) : OneEach(q) /\ Total(TokenColumn(q)) \in Int}
<1>1. <<>> \in S
  <2>1. TokenColumn(<<>>) = <<>> /\ Len(<<>>) = 0 /\ <<>> \in Seq(StreamEvent)
    BY DEF TokenColumn
  <2>2. Total(<<>>) = 0 /\ Carriers!Fold(<<>>) = <<>>
    BY TotalFold, TokenFold
  <2> QED
    BY <2>1, <2>2 DEF OneEach
<1>2. ASSUME NEW q \in Seq(StreamEvent), NEW e \in StreamEvent, q \in S PROVE Append(q, e) \in S
  <2> DEFINE d == Carriers!Fold(q)
             t == Append(q, e)
  <2>1. d \in Seq(StreamEvent) /\ e.tokens \in Nat /\ Len(d) \in Nat
    BY EventsKept DEF StreamEvent
  <2>2. Carriers!Fold(t) = IF e.tokens # 0 THEN Append(d, e) ELSE d
    BY TokenFold DEF KeepTokens
  <2>3. Total(TokenColumn(t)) = Total(TokenColumn(q)) + e.tokens
    BY TokenColumnAppend
  <2>4. Total(TokenColumn(q)) \in Int /\ (Single(d) => Total(TokenColumn(q)) = Len(d))
    BY <1>2 DEF OneEach
  <2>5. t \in Seq(StreamEvent)
    OBVIOUS
  <2> HIDE DEF d, t
  <2>6. CASE e.tokens # 0
    <3>1. Carriers!Fold(t) = Append(d, e) /\ Len(Append(d, e)) = Len(d) + 1
      BY <2>1, <2>2, <2>6
    <3>2. Single(Append(d, e)) => Single(d) /\ e.tokens = 1
      BY <2>1, SingleAppend
    <3>3. Single(Append(d, e)) => Total(TokenColumn(t)) = Len(Append(d, e))
      BY <2>1, <2>3, <2>4, <3>1, <3>2
    <3>4. Total(TokenColumn(t)) \in Int
      BY <2>1, <2>3, <2>4
    <3> QED
      BY <2>5, <3>1, <3>3, <3>4 DEF OneEach, t
  <2>7. CASE e.tokens = 0
    <3>1. Carriers!Fold(t) = d /\ Total(TokenColumn(t)) = Total(TokenColumn(q))
      BY <2>2, <2>3, <2>4, <2>7
    <3> QED
      BY <2>4, <2>5, <3>1 DEF OneEach, t
  <2> QED
    BY <2>6, <2>7
<1>3. Seq(StreamEvent) \subseteq S
  <2> HIDE DEF S
  <2> QED
    BY <1>1, <1>2, Sums!SeqInduct
<1> QED
  BY <1>3

LEMMA GapsAre ==
  ASSUME NEW s \in Seq(StreamEvent)
  PROVE  Gaps(s) \in Seq(Int) /\ (Len(s) >= 2 => Len(Gaps(s)) = Len(s) - 1)
<1>1. Len(s) \in Nat /\ \A i \in 1 .. Len(s) : s[i].at \in Int
  <2>1. Len(s) \in Nat /\ \A i \in 1 .. Len(s) : s[i] \in StreamEvent
    OBVIOUS
  <2>2. \A e \in StreamEvent : e.at \in Int
    BY DEF StreamEvent
  <2> QED
    BY <2>1, <2>2
<1>2. CASE Len(s) = 0
  <2>1. 1 .. Len(s) - 1 = {}
    BY <1>2
  <2>2. Gaps(s) = [i \in {} |-> s[i + 1].at - s[i].at]
    BY <2>1 DEF Gaps
  <2>3. Gaps(s) = <<>>
    BY <2>2
  <2> QED
    BY <1>2, <2>3
<1>3. CASE Len(s) # 0
  <2> DEFINE m == Len(s) - 1
  <2>1. m \in Nat /\ \A i \in 1 .. m : s[i + 1].at - s[i].at \in Int
    BY <1>1, <1>3
  <2>2. Gaps(s) = [i \in 1 .. m |-> s[i + 1].at - s[i].at]
    BY DEF Gaps
  <2> HIDE DEF m
  <2>3. Gaps(s) \in Seq(Int) /\ Len(Gaps(s)) = m
    BY <2>1, <2>2
  <2> QED
    BY <2>3 DEF m
<1> QED
  BY <1>2, <1>3

Scalar(v) == v = Unavailable \/ v \in Fraction

(* The metrics of an observation: fractions, or missing, and gaps.         *)
LEMMA CalculateIs ==
  ASSUME NEW o, TypedObservation(o), NEW m, m = Calculate(o)
  PROVE  /\ \A s \in Scalars : Scalar(m[s])
         /\ m.itl \in Seq(Int) /\ m.icl \in Seq(Int)
         /\ m.itl # Unavailable => o.usage # NoUsage /\ Len(m.itl) = o.usage - 1
<1>0. /\ o.usage \in Int /\ o.usage >= -1 /\ o.completed \in Int
      /\ o.firstContent \in Int /\ o.lastContent \in Int
  BY DEF TypedObservation, NoTime, NoUsage
<1>1. ASSUME NEW t \in Nat \cup {NoTime} PROVE Scalar(Elapsed(t))
  <2>1. <<t, 1>> \in Fraction
    BY DEF NoTime, Fraction
  <2> QED
    BY <2>1 DEF Elapsed, Scalar
<1>2. DecodeWindow(o) # NoWindow => DecodeWindow(o) \in Nat \ {0} /\ o.usage - 1 \in Nat \ {0}
  <2> SUFFICES ASSUME DecodeWindow(o) # NoWindow
               PROVE  DecodeWindow(o) \in Nat \ {0} /\ o.usage - 1 \in Nat \ {0}
    OBVIOUS
  <2>1. /\ o.usage > 1 /\ o.lastContent > o.firstContent
        /\ DecodeWindow(o) = o.lastContent - o.firstContent
    BY DEF DecodeWindow
  <2> QED
    BY <1>0, <2>1
<1>3. Scalar(TimePerOutputToken(o)) /\ Scalar(DecodeRate(o))
  <2>1. CASE DecodeWindow(o) = NoWindow
    BY <2>1 DEF TimePerOutputToken, DecodeRate, Scalar
  <2>2. CASE DecodeWindow(o) # NoWindow
    <3> DEFINE a == DecodeWindow(o)
               b == o.usage - 1
    <3>2. a \in Nat \ {0} /\ b \in Nat \ {0}
      BY <1>2, <2>2
    <3> HIDE DEF a, b
    <3>3. <<a, b>> \in Fraction /\ <<b, a>> \in Fraction
      BY <3>2 DEF Fraction
    <3>1. /\ <<DecodeWindow(o), o.usage - 1>> \in Fraction
          /\ <<o.usage - 1, DecodeWindow(o)>> \in Fraction
      BY <3>3 DEF a, b
    <3> QED
      BY <2>2, <3>1 DEF TimePerOutputToken, DecodeRate, Scalar
  <2> QED
    BY <2>1, <2>2
<1>4. Scalar(OutputRate(o))
  <2>1. o.completed > 0 => <<o.usage, o.completed>> \in Fraction
    BY <1>0 DEF Fraction
  <2> QED
    BY <2>1 DEF OutputRate, Scalar
<1>5. /\ Scalar(Elapsed(o.headers)) /\ Scalar(Elapsed(o.firstByte)) /\ Scalar(Elapsed(o.firstContent))
      /\ Scalar(Elapsed(o.lastContent)) /\ Scalar(Elapsed(o.completed))
  BY <1>1 DEF TypedObservation
<1>6. \A s \in Scalars : Scalar(m[s])
  BY <1>3, <1>4, <1>5 DEF Calculate, Scalars
<1>7. TokenEvents(o) \in Seq(StreamEvent) /\ ContentEvents(o) \in Seq(StreamEvent)
  BY ContentFold, TokenFold, EventsKept DEF TypedObservation
<1>8. m.itl = InterTokenLatency(o) /\ m.icl = InterChunkLatency(o)
  BY DEF Calculate
<1>9. m.itl \in Seq(Int) /\ m.icl \in Seq(Int)
  BY <1>7, <1>8, GapsAre DEF InterTokenLatency, InterChunkLatency
<1>10. ASSUME m.itl # Unavailable PROVE o.usage # NoUsage /\ Len(m.itl) = o.usage - 1
  <2>1. ITLAvailable(o) /\ m.itl = Gaps(TokenEvents(o))
    BY <1>8, <1>10 DEF InterTokenLatency, Unavailable
  <2>2. /\ o.usage # NoUsage /\ ObservedTokens(o) = o.usage /\ OneTokenPerEvent(o)
        /\ Len(TokenEvents(o)) >= 2
    BY <2>1 DEF ITLAvailable
  <2>3. OneEach(o.events)
    BY TokensEach DEF TypedObservation
  <2>4. Single(Carriers!Fold(o.events)) /\ TokenEvents(o) = Carriers!Fold(o.events)
    BY <2>2, TokenFold DEF OneTokenPerEvent, Single
  <2>5. ObservedTokens(o) = Total(TokenColumn(o.events))
    BY DEF ObservedTokens, TokenColumn
  <2>6. Len(TokenEvents(o)) = o.usage
    BY <2>2, <2>3, <2>4, <2>5 DEF OneEach
  <2> QED
    BY <1>7, <2>1, <2>2, <2>6, GapsAre
<1> QED
  BY <1>6, <1>9, <1>10

=============================================================================
