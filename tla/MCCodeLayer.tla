---------------------------- MODULE MCCodeLayer ----------------------------
(* Instances of CodeLayer for TLC: three files.  Class A is in a, B in b, C in c, with a
   chain of overrides of the method m, of which only the docstring may change; b may only
   re-export A; c may reach A through b or directly, with or without another import of b,
   uses a function of b whose result has the member m, and a package. *)
EXTENDS CodeLayer

Sym(id, name, container, kind, lo, hi, body) ==
    [id |-> id, name |-> name, qname |-> IF container = NoContainer THEN name
                                         ELSE container \o "." \o name,
     container |-> container, kind |-> kind, lo |-> lo, hi |-> hi, at |-> lo, body |-> body,
     doc |-> 1]
Documented(s) == [s EXCEPT !.doc = 2]
Occ(line, role, from, name) == [line |-> line, role |-> role, from |-> from, name |-> name]
Text(syms, occs, supers, exports, flows) ==
    [syms |-> syms, occs |-> occs, supers |-> supers, exports |-> exports, flows |-> flows]

ClassA(body) == <<Sym("A", "A", NoContainer, "class", 1, 3, 1),
                  Sym("A.m", "m", "A", "method", 2, 3, body)>>
A1 == Text(ClassA(1), {}, {}, {}, {})
A4 == Text(<<ClassA(1)[1], Documented(ClassA(1)[2])>>, {}, {}, {}, {})
A2 == Text(ClassA(2), {}, {}, {}, {})
A3 == Text(<<Sym("A", "A", NoContainer, "class", 1, 1, 1)>>, {}, {}, {}, {})

FromA == [name |-> "A", from |-> "a"]
BaseOf(c, f, n) == [cls |-> c, from |-> f, name |-> n]
Make == Sym("make", "make", NoContainer, "function", 5, 6, 1)
B1 == Text(<<Sym("B", "B", NoContainer, "class", 2, 4, 1), Sym("B.m", "m", "B", "method", 3, 4, 1), Make>>,
           {Occ(1, "import", "a", "A"), Occ(2, "read", "a", "A"), Occ(6, "read", "b", "B")},
           {BaseOf("B", "a", "A")}, {FromA}, {})
B2 == Text(<<Sym("B", "B", NoContainer, "class", 2, 2, 1), Make>>,
           {Occ(1, "import", "a", "A"), Occ(2, "read", "a", "A"), Occ(6, "read", "b", "B")},
           {BaseOf("B", "a", "A")}, {FromA}, {})
B3 == Text(<<>>, {Occ(1, "import", "a", "A")}, {}, {FromA}, {})

ClassC == <<Sym("C", "C", NoContainer, "class", 3, 5, 1), Sym("C.m", "m", "C", "method", 4, 5, 1)>>
C1 == Text(ClassC, {Occ(1, "import", "b", "B"), Occ(3, "read", "b", "B")},
           {BaseOf("C", "b", "B")}, {}, {})
C2 == Text(ClassC, {Occ(1, "import", "b", "B"), Occ(2, "module", "a", "a"), Occ(3, "read", "b", "B"),
                    Occ(5, "read", "lib", "x")},
           {BaseOf("C", "b", "B")}, {}, {})
C3 == Text(<<Sym("render", "render", NoContainer, "function", 3, 4, 1)>>,
           {Occ(1, "import", "b", "make"), Occ(3, "read", "b", "make"), Occ(4, "read", "b", "make"),
            Occ(2, "import", "lib", "x")},
           {}, {}, {[user |-> "render", via |-> "make", member |-> "A.m"],
                    [user |-> "render", via |-> "make", member |-> "B.m"]})
C4 == Text(ClassC, {Occ(1, "import", "b", "A"), Occ(3, "read", "b", "A")},
           {BaseOf("C", "b", "A")}, {}, {})
C5 == Text(ClassC, {Occ(1, "import", "b", "make"), Occ(2, "import", "b", "A"), Occ(3, "read", "b", "A")},
           {BaseOf("C", "b", "A")}, {}, {})

MCTexts == [f \in {"a", "b", "c"} |->
               CASE f = "a" -> {A1, A2, A3, A4} [] f = "b" -> {B1, B2, B3} [] f = "c" -> {C1, C2, C3, C4, C5}]
=============================================================================
