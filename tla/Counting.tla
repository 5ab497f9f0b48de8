------------------------------ MODULE Counting ------------------------------
(***************************************************************************)
(* What the proofs use of finite sets and their cardinality.  The modules  *)
(* that state theorems establish it from the library.                      *)
(***************************************************************************)
EXTENDS Integers, FiniteSets

CountingFact ==
  /\ IsFiniteSet({}) /\ Cardinality({}) = 0
  /\ \A S : IsFiniteSet(S) =>
       /\ Cardinality(S) \in Nat
       /\ Cardinality(S) = 0 => S = {}
       /\ \A T \in SUBSET S : IsFiniteSet(T) /\ Cardinality(T) <= Cardinality(S)
       /\ \A x \in S : IsFiniteSet(S \ {x}) /\ Cardinality(S \ {x}) = Cardinality(S) - 1
       /\ \A x : x \notin S => /\ IsFiniteSet(S \cup {x})
                               /\ Cardinality(S \cup {x}) = Cardinality(S) + 1
=============================================================================
