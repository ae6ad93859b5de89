----------------------------- MODULE FoldLemmas -----------------------------
(***************************************************************************)
(* What FoldLeft computes, for any operator: an instance of this module    *)
(* with Op and Base gives the two equations that define the fold.          *)
(*                                                                         *)
(* The library defines FoldLeft by a recursive function on the subsets of  *)
(* the sequence's domain.  FoldExists builds that function by induction on *)
(* the length, FoldPrefix shows that it is the only one where it matters.  *)
(***************************************************************************)
EXTENDS Integers, Sequences, SequencesExt, SequenceTheorems, WellFoundedInduction, TLAPS

CONSTANTS
  Base,       (* the fold of no element                                    *)
  Op(_, _)    (* one more element                                          *)

Fold(s) == FoldLeft(Op, Base, s)

(***************************************************************************)
(* Induction                                                               *)
(***************************************************************************)

(* a set of natural numbers has a least element                            *)
LEMMA NatMin ==
  ASSUME NEW T, T \subseteq Nat, T # {}
  PROVE  \E x \in T : \A y \in T : x <= y
<1> DEFINE R == OpToRel(<, Nat)
<1>1. IsWellFoundedOn(R, Nat)
  BY NatLessThanWellFounded
<1>2. PICK x \in T : \A y \in T : ~ (<<y, x>> \in R)
  <2> HIDE DEF R
  <2> QED
    BY <1>1, WFMin
<1>3. \A y \in T : ~ (y < x)
  BY <1>2 DEF OpToRel
<1> QED
  BY <1>3

(* a set that holds 0 and every successor holds every natural number       *)
LEMMA NatInduct ==
  ASSUME NEW S, 0 \in S, \A n \in Nat : n \in S => n + 1 \in S
  PROVE  Nat \subseteq S
<1> SUFFICES ASSUME Nat \ S # {} PROVE FALSE
  OBVIOUS
<1>1. PICK x \in Nat \ S : \A y \in Nat \ S : x <= y
  BY NatMin
<1>2. x # 0 /\ x - 1 \in Nat
  BY <1>1
<1>3. x - 1 \in S
  BY <1>1, <1>2
<1> QED
  BY <1>1, <1>2, <1>3

(* a set that holds <<>> and every extension holds every sequence          *)
LEMMA SeqInduct ==
  ASSUME NEW T, NEW S, <<>> \in S,
         \A s \in Seq(T), e \in T : s \in S => Append(s, e) \in S
  PROVE  Seq(T) \subseteq S
<1> DEFINE N == {n \in Nat : \A s \in Seq(T) : Len(s) = n => s \in S}
<1>1. 0 \in N
  <2>1. \A s \in Seq(T) : Len(s) = 0 => s = <<>>
    BY EmptySeq
  <2> QED
    BY <2>1
<1>2. ASSUME NEW n \in Nat, n \in N PROVE n + 1 \in N
  <2> SUFFICES ASSUME NEW s \in Seq(T), Len(s) = n + 1 PROVE s \in S
    OBVIOUS
  <2> DEFINE front == [i \in 1 .. n |-> s[i]]
  <2>1. s[n + 1] \in T /\ \A i \in 1 .. n : s[i] \in T
    BY ElementOfSeq
  <2>2. front \in Seq(T) /\ Len(front) = n /\ \A i \in 1 .. n : front[i] = s[i]
    BY <2>1
  <2> HIDE DEF front
  <2>3. front \in S
    BY <1>2, <2>2
  <2>4. Append(front, s[n + 1]) \in S /\ Append(front, s[n + 1]) \in Seq(T)
    BY <2>1, <2>2, <2>3
  <2>5. Len(Append(front, s[n + 1])) = n + 1
        /\ \A i \in 1 .. n + 1 : Append(front, s[n + 1])[i] = s[i]
    BY <2>1, <2>2
  <2>6. Append(front, s[n + 1]) = s
    BY <2>4, <2>5, SeqEqual
  <2> QED
    BY <2>4, <2>6
<1>3. Nat \subseteq N
  <2> HIDE DEF N
  <2> QED
    BY <1>1, <1>2, NatInduct
<1> QED
  BY <1>3, LenProperties

(***************************************************************************)
(* Folds                                                                   *)
(***************************************************************************)

(* the last index is the one that FoldLeft takes first                     *)
LEMMA MaxUpTo ==
  ASSUME NEW n \in Nat, NEW S, S \subseteq 1 .. n, n \in S
  PROVE  Max(S) = n
<1>1. \A y \in S : n >= y
  OBVIOUS
<1>2. \A x \in S : (\A y \in S : x >= y) => x = n
  OBVIOUS
<1>3. Max(S) \in S /\ \A y \in S : Max(S) >= y
  BY <1>1 DEF Max
<1> QED
  BY <1>2, <1>3

(* the function that the library's definition chooses                      *)
Folded(s, D, it) ==
  it = [S \in SUBSET D |-> IF S = {} THEN Base ELSE Op(it[S \ {Max(S)}], s[Max(S)])]

(* there is one                                                            *)
LEMMA FoldExists ==
  ASSUME NEW s
  PROVE  \A n \in Nat : \E it : Folded(s, 1 .. n, it)
<1> DEFINE N == {n \in Nat : \E it : Folded(s, 1 .. n, it)}
<1>1. 0 \in N
  <2> DEFINE it == [S \in SUBSET {} |-> Base]
  <2>1. 1 .. 0 = {}
    OBVIOUS
  <2>2. Folded(s, {}, it)
    <3>1. \A S \in SUBSET {} : S = {}
      OBVIOUS
    <3> QED
      BY <3>1 DEF Folded
  <2> QED
    BY <2>1, <2>2
<1>2. ASSUME NEW n \in Nat, n \in N PROVE n + 1 \in N
  <2>1. PICK it : Folded(s, 1 .. n, it)
    BY <1>2
  <2> DEFINE m == n + 1
             new == [S \in SUBSET (1 .. m) |-> IF m \in S THEN Op(it[S \ {m}], s[m]) ELSE it[S]]
  <2>2. ASSUME NEW S \in SUBSET (1 .. m)
        PROVE  new[S] = IF S = {} THEN Base ELSE Op(new[S \ {Max(S)}], s[Max(S)])
    <3>1. CASE m \in S
      <4>1. Max(S) = m
        <5>1. m \in Nat /\ S \subseteq 1 .. m
          OBVIOUS
        <5> HIDE DEF m
        <5> QED
          BY <3>1, <5>1, MaxUpTo
      <4>2. S \ {m} \in SUBSET (1 .. m) /\ m \notin S \ {m}
        OBVIOUS
      <4>3. new[S \ {m}] = it[S \ {m}] /\ new[S] = Op(it[S \ {m}], s[m])
        BY <3>1, <4>2
      <4> QED
        BY <3>1, <4>1, <4>3
    <3>2. CASE m \notin S
      <4>1. S \in SUBSET (1 .. n)
        BY <3>2
      <4>2. new[S] = it[S]
        BY <3>2
      <4>3. it[S] = IF S = {} THEN Base ELSE Op(it[S \ {Max(S)}], s[Max(S)])
        BY <2>1, <4>1 DEF Folded
      <4>4. m \notin S \ {Max(S)} /\ S \ {Max(S)} \in SUBSET (1 .. m)
        BY <3>2
      <4>5. new[S \ {Max(S)}] = it[S \ {Max(S)}]
        BY <4>4
      <4> QED
        BY <4>2, <4>3, <4>5
    <3> QED
      BY <3>1, <3>2
  <2>3. new = [S \in SUBSET (1 .. m) |-> new[S]]
    OBVIOUS
  <2> HIDE DEF new
  <2>4. Folded(s, 1 .. m, new)
    BY <2>2, <2>3 DEF Folded
  <2> QED
    BY <2>4
<1>3. Nat \subseteq N
  <2> HIDE DEF N
  <2> QED
    BY <1>1, <1>2, NatInduct
<1> QED
  BY <1>3

(* the fold is its value at the whole domain                               *)
LEMMA FoldIs ==
  ASSUME NEW T, NEW s \in Seq(T)
  PROVE  \E it : Folded(s, 1 .. Len(s), it) /\ Fold(s) = it[1 .. Len(s)]
<1>1. DOMAIN s = 1 .. Len(s) /\ Len(s) \in Nat
  OBVIOUS
<1>2. Fold(s) = (CHOOSE it : Folded(s, DOMAIN s, it))[DOMAIN s]
  BY DEF Fold, FoldLeft, MapThenFoldSet, Folded
<1>3. Folded(s, 1 .. Len(s), CHOOSE it : Folded(s, 1 .. Len(s), it))
  BY <1>1, FoldExists
<1> QED
  BY <1>1, <1>2, <1>3

(* two of them agree where their sequences do                              *)
LEMMA FoldPrefix ==
  ASSUME NEW s, NEW t, NEW n \in Nat, NEW m \in Nat, n <= m, NEW it, NEW jt,
         Folded(s, 1 .. n, it), Folded(t, 1 .. m, jt), \A i \in 1 .. n : s[i] = t[i]
  PROVE  it[1 .. n] = jt[1 .. n]
<1> DEFINE N == {k \in Nat : k <= n => it[1 .. k] = jt[1 .. k]}
<1>1. 0 \in N
  <2>1. 1 .. 0 = {} /\ {} \in SUBSET (1 .. n) /\ {} \in SUBSET (1 .. m)
    OBVIOUS
  <2>2. it[{}] = Base /\ jt[{}] = Base
    BY <2>1 DEF Folded
  <2> QED
    BY <2>1, <2>2
<1>2. ASSUME NEW k \in Nat, k \in N PROVE k + 1 \in N
  <2> SUFFICES ASSUME k + 1 <= n PROVE it[1 .. k + 1] = jt[1 .. k + 1]
    OBVIOUS
  <2> DEFINE S == 1 .. k + 1
  <2>1. S \in SUBSET (1 .. n) /\ S \in SUBSET (1 .. m) /\ k + 1 \in S
    <3>1. k + 1 <= m
      OBVIOUS
    <3> QED
      BY <3>1
  <2>2. Max(S) = k + 1
    BY MaxUpTo
  <2>3. S \ {Max(S)} = 1 .. k
    BY <2>2
  <2>4. it[1 .. k] = jt[1 .. k] /\ s[k + 1] = t[k + 1]
    BY <1>2
  <2> HIDE DEF S
  <2>5. it[S] = Op(it[S \ {Max(S)}], s[Max(S)]) /\ jt[S] = Op(jt[S \ {Max(S)}], t[Max(S)])
    BY <2>1 DEF Folded
  <2>6. it[S] = jt[S]
    BY <2>2, <2>3, <2>4, <2>5
  <2> QED
    BY <2>6 DEF S
<1>3. Nat \subseteq N
  <2> HIDE DEF N
  <2> QED
    BY <1>1, <1>2, NatInduct
<1> QED
  BY <1>3

(* FoldLeft of no element is its base.                                     *)
LEMMA FoldEmpty == Fold(<<>>) = Base
<1>1. <<>> \in Seq({}) /\ Len(<<>>) = 0
  OBVIOUS
<1>2. PICK it : Folded(<<>>, 1 .. 0, it) /\ Fold(<<>>) = it[1 .. 0]
  BY <1>1, FoldIs
<1>3. 1 .. 0 = {}
  OBVIOUS
<1>4. it[{}] = Base
  BY <1>2, <1>3 DEF Folded
<1> QED
  BY <1>2, <1>3, <1>4

(* FoldLeft of one more element applies the operator once more: the loops  *)
(* of the code that the models write as folds.                             *)
LEMMA FoldAppend ==
  ASSUME NEW T, NEW s \in Seq(T), NEW e \in T
  PROVE  Fold(Append(s, e)) = Op(Fold(s), e)
<1> DEFINE t == Append(s, e)
           n == Len(s)
<1>1. /\ t \in Seq(T) /\ Len(t) = n + 1 /\ n \in Nat
      /\ t[n + 1] = e /\ \A i \in 1 .. n : s[i] = t[i]
  OBVIOUS
<1> HIDE DEF t, n
<1>2. PICK it : Folded(s, 1 .. n, it) /\ Fold(s) = it[1 .. n]
  BY FoldIs DEF n
<1>3. PICK jt : Folded(t, 1 .. n + 1, jt) /\ Fold(t) = jt[1 .. n + 1]
  BY <1>1, FoldIs
<1>4. it[1 .. n] = jt[1 .. n]
  <2>1. n \in Nat /\ n + 1 \in Nat /\ n <= n + 1
    BY <1>1
  <2> QED
    BY <1>1, <1>2, <1>3, <2>1, FoldPrefix
<1>5. Max(1 .. n + 1) = n + 1
  BY <1>1, MaxUpTo
<1>6. (1 .. n + 1) \ {n + 1} = 1 .. n /\ 1 .. n + 1 # {}
  BY <1>1
<1>7. jt[1 .. n + 1] = Op(jt[1 .. n], t[n + 1])
  <2> DEFINE S == 1 .. n + 1
  <2>1. S \in SUBSET (1 .. n + 1) /\ S # {}
    BY <1>6
  <2> HIDE DEF S
  <2>2. jt[S] = Op(jt[S \ {Max(S)}], t[Max(S)])
    BY <1>3, <2>1 DEF Folded
  <2> QED
    BY <1>5, <1>6, <2>2 DEF S
<1> QED
  BY <1>1, <1>2, <1>3, <1>4, <1>7 DEF t

=============================================================================
