------------------------------- MODULE Picking --------------------------------
(***************************************************************************)
(* What is left of a sequence when some of its positions are kept, in      *)
(* their order: the loops that compact an array, skip entries or look for  *)
(* the ends of lines.                                                      *)
(***************************************************************************)
EXTENDS Naturals, Sequences, FiniteSets

UpTo(K, i) == {m \in K : m <= i}

(* The positions in K: the j-th has j of them up to it. *)
Ranked(K) == [j \in 1..Cardinality(K) |->
                 CHOOSE i \in K : Cardinality(UpTo(K, i)) = j]

Pick(q, K) == [j \in 1..Cardinality(K) |-> q[Ranked(K)[j]]]
===============================================================================
