------------------------------ MODULE Picking ------------------------------
(***************************************************************************)
(* Part of a sequence, in its order.  SelectSeq and the folds are defined  *)
(* by recursion; these are not, so that facts about them can be proved.    *)
(***************************************************************************)
EXTENDS Naturals, Sequences, FiniteSets

(* The k-th of a set of numbers. *)
Nth(places, k) ==
    CHOOSE i \in places : Cardinality({j \in places : j <= i}) = k

(* What a sequence has at some of its places. *)
Picked(seq, places) == [k \in 1 .. Cardinality(places) |-> seq[Nth(places, k)]]

(* ... and without some of its elements. *)
Without(seq, gone) == Picked(seq, {i \in DOMAIN seq : seq[i] \notin gone})
=============================================================================
