------------------------------- MODULE MCBus -------------------------------
(* Instances of Bus for TLC: subscribers to everything, to the id "a", and to the file "f"
   or the authored layer; in the compound instance, also to the id "b" or the authored
   layer.  A commit changes "a" in "f" and creates "b" there, authors a note on "a", or is
   a rescan. *)
EXTENDS Bus

Interested(ids, files, layers) ==
    [all |-> FALSE, ids |-> ids, files |-> files, layers |-> layers]
MCInterests ==
    {[all |-> TRUE, ids |-> {}, files |-> {}, layers |-> {}],
     Interested({"a"}, {}, {}), Interested({}, {"f"}, {"authored"})}
MCCompounds == MCInterests \cup {Interested({"b"}, {}, {"authored"})}

Changed(ids, affected, files, layers) ==
    [ids |-> ids, affected |-> affected, files |-> files, layers |-> layers,
     rescan |-> FALSE]
MCChanges ==
    {Changed({"a", "b"}, {"a"}, {"f"}, {"code"}), Changed({"a"}, {}, {}, {"authored"}),
     [Changed({}, {}, {"f"}, {"code"}) EXCEPT !.rescan = TRUE]}
=============================================================================
