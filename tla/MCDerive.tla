------------------------------ MODULE MCDerive ------------------------------
(* Instances of Derive for TLC. *)
EXTENDS Derive, TLC

CONSTANTS a, b, plain, documented, calling

(* Two texts reference nothing and differ in a docstring, the third references every
   entity. *)
MCTexts == {plain, documented, calling}
MCNormal == plain :> plain @@ documented :> plain @@ calling :> calling
MCCalls == plain :> {} @@ documented :> {} @@ calling :> {a, b}

(* a starts to call b; b gets a docstring, is edited, deleted and created again. *)
MCEdits == {<<a, calling>>, <<b, documented>>, <<b, calling>>, <<b, Gone>>}

Layer(l, s, r) == [locality |-> l, serving |-> s, recompute |-> r]

(* Every locality, every way of serving and of recomputing, not every product: the
   worker meets the hook of an eager layer, and the reads of a traced one. *)
MCLayers ==
    {Layer("local", "stale", "eager"), Layer("semantic", "block", "eager"),
     Layer("reverse-semantic", "block", "lazy"), Layer("traced", "stale", "lazy"),
     Layer("traced", "block", "lazy")}
=============================================================================
