----------------------------- MODULE MCIdentity -----------------------------
(* Instances of Identity for TLC: slot 1 is in one file, slots 2 and 3 in another,
   and the last slot is a method of a class. *)
EXTENDS Identity, TLC

MCFileOf == [s \in 1..NSlots |-> IF s = 1 THEN "a.py" ELSE "b.py"]
Symmetry == Permutations(Hashes)
MCNested == {s \in 1..NSlots : s = 3}
=============================================================================
