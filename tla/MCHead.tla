------------------------------- MODULE MCHead -------------------------------
(* Instances of Head for TLC; each configuration picks the operations it needs.
   Paths and texts are interchangeable, so they may be permuted. *)
EXTENDS HeadLedger, TLC

Symmetry == Permutations(Paths) \cup Permutations(Texts)
=============================================================================
