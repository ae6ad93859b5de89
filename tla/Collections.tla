----------------------------- MODULE Collections -----------------------------
(***************************************************************************)
(* Operators on functions and sequences that the models of a run's         *)
(* configuration and evidence share.  They are written with sets and their *)
(* cardinalities, and without recursion, so that theorems can be proved    *)
(* about them.                                                             *)
(***************************************************************************)
EXTENDS Integers, Sequences, FiniteSets

(* top, and base where top says nothing                                    *)
Overlay(top, base) ==
  [x \in DOMAIN top \cup DOMAIN base |-> IF x \in DOMAIN top THEN top[x] ELSE base[x]]

(***************************************************************************)
(* The elements of a sequence at some of its indices, in order             *)
(***************************************************************************)

Rank(i, indices) == Cardinality({j \in indices : j <= i})

At(indices, k) == CHOOSE i \in indices : Rank(i, indices) = k

Those(s, indices) == [k \in 1 .. Cardinality(indices) |-> s[At(indices, k)]]

(***************************************************************************)
(* The elements of a sequence that pass a test                             *)
(***************************************************************************)

Passing(test(_), s) == {i \in DOMAIN s : test(s[i])}

Number(test(_), s) == Cardinality(Passing(test, s))

Selected(test(_), s) == Those(s, Passing(test, s))
=============================================================================
