------------------------------ MODULE CodeLayer ------------------------------
(***************************************************************************)
(* The code layer (rust/src/code_layer.rs): the graph of modules, entities *)
(* and external stubs that every commit carries forward.  A commit         *)
(* re-derives only its dirty files and their one-hop importers over the    *)
(* layer of the revision before, keeps the reverse-dependency index edge   *)
(* by edge, and closes the changed and deleted ids under it to tell        *)
(* subscribers what is affected.                                           *)
(*                                                                         *)
(* The text of a file is what the analysis engine reads from it:           *)
(*   syms    its entities in document order: id, name, qualified name,     *)
(*           container, kind, the lines lo..hi, the line of its name, a    *)
(*           body and a docstring;                                         *)
(*   occs    its name occurrences: line, role, the module the name is      *)
(*           written from, and the name;                                   *)
(*   supers  the base classes written for its classes;                     *)
(*   exports the names it imports from other files and so re-exports;      *)
(*   flows   uses of a member through the inferred result of a function,   *)
(*           which no occurrence names.                                    *)
(* A file is named by its module stem.  Durable ids are those the registry *)
(* (module Identity) has bound.                                            *)
(***************************************************************************)
EXTENDS Naturals, Sequences, FiniteSets, FiniteSetsExt, Functions

CONSTANTS
    Files,      \* the files of the project
    Packages,   \* files outside the root: the standard library, dependencies
    Texts,      \* file -> the texts it may have
    Absent      \* the file does not exist

VARIABLES
    text,       \* file -> its committed text
    layer,      \* head.code_layer
    settled     \* history: every layer since the last full build was OneHop

vars == <<text, layer, settled>>

ModuleName == "<module>"

(* What the engine reports of a file: symbols with ids and lines of their own, none of them
   of the kind of a stub, base classes of the file's own classes, names from files or
   packages. *)
WellFormed(x) ==
    /\ x.syms \in Seq(Range(x.syms))
    /\ \A m, n \in DOMAIN x.syms : x.syms[m].id = x.syms[n].id => m = n
    /\ \A s \in Range(x.syms) : s.kind # "stub" /\ s.lo \in Nat /\ s.hi \in Nat
    /\ \A o \in x.occs : o.line \in Nat
    /\ \A b \in x.supers : b.cls \in {s.id : s \in Range(x.syms)}
    /\ \A y \in x.occs \cup x.supers \cup x.exports : y.from \in Files \cup Packages

(* The ids that occur in some text. *)
TextIds == UNION {UNION {{s.id : s \in Range(x.syms)} : x \in Texts[f]} : f \in Files}

(* The names that occur in some text, and that of a module. *)
TextNames == {ModuleName} \cup
    UNION {UNION {{y.name : y \in x.occs \cup x.supers} : x \in Texts[f]} : f \in Files}

ASSUME CodeLayerAssumption ==
    /\ Packages \cap Files = {}
    /\ DOMAIN Texts = Files
    /\ \A f \in Files : Absent \notin Texts[f] /\ \A x \in Texts[f] : WellFormed(x)
    /\ IsFiniteSet(Files) /\ IsFiniteSet(Packages)
    /\ IsFiniteSet(TextIds) /\ IsFiniteSet(TextNames)

NoContainer == "-"
NoNode == <<>>
Entity(id) == <<"entity", id>>
ModuleId(f) == <<"module", f>>
ExternalId(p, name) == <<"external", p, name>>

Existing(t) == {f \in Files : t[f] # Absent}
Symbols(t, f) == IF t[f] = Absent THEN {} ELSE Range(t[f].syms)
SymbolIds(t, f) == {Entity(s.id) : s \in Symbols(t, f)}

(* f, and g where f has no value. *)
Over(f, g) == [x \in DOMAIN f \cup DOMAIN g |-> IF x \in DOMAIN f THEN f[x] ELSE g[x]]

(* What a sequence has at the positions in P, in its order. *)
Kept(seq, P) == [k \in 1..Cardinality(P) |-> seq[CHOOSE n \in P : Cardinality(P \cap 1..n) = k]]

-----------------------------------------------------------------------------
(* The layer: nodes by id, edges, the index reverse_deps as pairs of a target and a
   source, and file_to_nodes, the ids of each file in document order. *)

EmptyLayer == [nodes |-> <<>>, edges |-> {}, rdeps |-> {}, order |-> <<>>]
IsEmpty(L) == DOMAIN L.nodes = {} /\ L.edges = {}

Edge(source, target, kind, at) ==
    [source |-> source, target |-> target, kind |-> kind, at |-> at]
IsDependency(e) == e.kind \in {"references", "imports", "inherits", "overrides"}
Inbound(E) == {<<e.target, e.source>> : e \in {e \in E : IsDependency(e)}}

(* add_edge, for a set of edges. *)
AddEdges(L, E) == [L EXCEPT !.edges = @ \cup E, !.rdeps = @ \cup Inbound(E)]

(* remove_edge, for a set of edges: an index entry goes with the last dependency edge
   of its source and target. *)
RemoveEdges(L, E) ==
    [L EXCEPT !.edges = @ \ E, !.rdeps = @ \ (Inbound(E) \ Inbound(L.edges \ E))]

(* try_add_edge: only between nodes that exist. *)
TryEdges(L, E) ==
    AddEdges(L, {e \in E : {e.source, e.target} \subseteq DOMAIN L.nodes})

NodesOf(L, f) == IF f \in DOMAIN L.order THEN L.order[f] ELSE <<>>

(* name_to_id: the ids registered under a name.  A module is not registered under
   its stem. *)
Registered(L, f, name) ==
    {i \in Range(NodesOf(L, f)) :
        name \in {L.nodes[i].qname} \cup (IF i = ModuleId(f) THEN {} ELSE {L.nodes[i].name})}

(* find_symbol_in_file: the one id registered, else the first node of the file with
   that name, which may be the module itself. *)
FindSymbol(L, f, name) ==
    LET ids == Registered(L, f, name)
        all == NodesOf(L, f)
        hits == {n \in DOMAIN all : name \in {L.nodes[all[n]].name, L.nodes[all[n]].qname}}
    IN  IF Cardinality(ids) = 1 THEN CHOOSE i \in ids : TRUE
        ELSE IF hits # {} THEN all[Min(hits)] ELSE NoNode

(* find_enclosing_symbol: the smallest entity around the line, else the module. *)
Enclosing(L, f, line) ==
    LET around == {i \in Range(NodesOf(L, f)) \ {ModuleId(f)} :
                      L.nodes[i].lo <= line /\ line <= L.nodes[i].hi}
        span(i) == L.nodes[i].hi - L.nodes[i].lo
    IN  IF around = {} THEN ModuleId(f)
        ELSE CHOOSE i \in around : \A j \in around : span(i) <= span(j)

-----------------------------------------------------------------------------
(* The analysis engine (external): what a written name resolves to. *)

Names(t, f) == {s.name : s \in Symbols(t, f)}

(* definitions_for_name follows an import alias to the file of the definition. *)
Exports(t, from, name) ==
    IF from \in Packages \/ t[from] = Absent THEN {}
    ELSE {x.from : x \in {x \in t[from].exports : x.name = name}}
Defines(t, f, name) == f \in Packages \/ name \in Names(t, f)
Target(t, from, name) ==
    IF Defines(t, from, name) THEN {from}
    ELSE {f \in Exports(t, from, name) : Defines(t, f, name)}

(* goto_definition on `import m`. *)
GotoModule(t, from) == IF from \in Packages \/ t[from] # Absent THEN {from} ELSE {}

(* Mistaken: the hash of a class leaves its members out. *)
HashAlone(t, f, s) == <<s.body>>

(* render_stmt: the hash of an entity covers the bodies of its members. *)
Hash(t, f, s) ==
    <<s.body, {<<m.name, m.body>> : m \in {m \in Symbols(t, f) : m.container = s.name}}>>

(* render_stmt under a profile that includes docstrings. *)
DocHash(t, f, s) ==
    <<s.body, s.doc,
      {<<m.name, m.body, m.doc>> : m \in {m \in Symbols(t, f) : m.container = s.name}}>>

-----------------------------------------------------------------------------
(* The passes of the builder, over the files fs of a project with texts t. *)

(* A node has its content hash and, by profile, one that takes docstrings in.  External
   nodes are those of kind stub; the file of a stub stands for its package. *)
EntityNode(t, f, s) ==
    [name |-> s.name, qname |-> s.qname, kind |-> s.kind, file |-> f,
     lo |-> s.lo, hi |-> s.hi, at |-> s.at, hash |-> Hash(t, f, s), hashes |-> DocHash(t, f, s)]
ModuleNode(f) ==
    [name |-> f, qname |-> ModuleName, kind |-> "module", file |-> f,
     lo |-> 1, hi |-> 1, at |-> 0, hash |-> <<>>, hashes |-> <<>>]
Stub(p, name) ==
    [name |-> name, qname |-> name, kind |-> "stub", file |-> p,
     lo |-> 1, hi |-> 1, at |-> 0, hash |-> <<>>, hashes |-> <<>>]

(* materialize_file_nodes: the module and its entities, unless a node has the id. *)
NodeOf(t, f, i) ==
    IF i = ModuleId(f) THEN ModuleNode(f)
    ELSE EntityNode(t, f, CHOOSE s \in Symbols(t, f) : Entity(s.id) = i)

Listed(L, t, f) ==
    LET ids == [n \in DOMAIN t[f].syms |-> Entity(t[f].syms[n].id)]
    IN  <<ModuleId(f)>> \o Kept(ids, {n \in DOMAIN ids : ids[n] \notin DOMAIN L.nodes})

Materialized(L, t, fs) ==
    LET ids == UNION {Range(Listed(L, t, f)) : f \in fs}
        home == [i \in ids |-> CHOOSE f \in fs : i \in Range(Listed(L, t, f))]
    IN  [L EXCEPT !.nodes = Over(@, [i \in ids |-> NodeOf(t, home[i], i)]),
                  !.order = Over([f \in fs |-> Listed(L, t, f)], @)]

(* add_containment_edges *)
Parent(L, f, s) ==
    LET found == IF s.container = NoContainer THEN NoNode ELSE FindSymbol(L, f, s.container)
    IN  IF found = NoNode THEN ModuleId(f) ELSE found
Containment(L, t, f) ==
    {Edge(Parent(L, f, s), Entity(s.id),
          IF Parent(L, f, s) = ModuleId(f) THEN "defines" ELSE "contains", 0) :
        s \in Symbols(t, f)}

(* add_import_edge: to the module of a project file or to the stub of a package. *)
ImportEdge(f, to, line) ==
    Edge(ModuleId(f), IF to \in Packages THEN ExternalId(to, ModuleName) ELSE ModuleId(to),
         "imports", line)

(* resolve_references, one occurrence: the node it resolves to. *)
Resolved(L, to, name) ==
    IF to \in Packages THEN ExternalId(to, name) ELSE FindSymbol(L, to, name)

(* resolve_references and resolve_import_via_goto: a use is a references edge from the
   entity around it; both a use and an import of another file are imports edges. *)
OccurrenceEdges(L, t, f, o) ==
    IF o.role = "module"
    THEN {ImportEdge(f, to, o.line) : to \in GotoModule(t, o.from) \ {f}}
    ELSE LET hit == {to \in Target(t, o.from, o.name) :
                        Resolved(L, to, o.name) \notin {NoNode, Enclosing(L, f, o.line)}}
         IN  {ImportEdge(f, to, o.line) : to \in hit \ {f}} \cup
             {Edge(Enclosing(L, f, o.line), Resolved(L, to, o.name), "references", o.line) :
                 to \in {to \in hit : o.role = "read"}}

(* ensure_external_target and add_import_edge: the stubs an occurrence makes.  The
   stub of an imported name is made even if no edge leads to it. *)
OccurrenceStubs(t, o) ==
    IF o.role = "module" THEN {<<p, ModuleName>> : p \in GotoModule(t, o.from) \cap Packages}
    ELSE {<<p, n>> : p \in Target(t, o.from, o.name) \cap Packages, n \in {o.name, ModuleName}}

(* inherits_pass *)
InheritsEdges(L, t, f) ==
    UNION {{Edge(Entity(b.cls), Resolved(L, to, b.name), "inherits", 0) :
                to \in {to \in Target(t, b.from, b.name) : Resolved(L, to, b.name) # NoNode}} :
            b \in t[f].supers}
InheritsStubs(t, f) ==
    UNION {{<<p, b.name>> : p \in Target(t, b.from, b.name) \cap Packages} : b \in t[f].supers}

WithStubs(L, S) ==
    [L EXCEPT !.nodes = Over(@, [i \in {ExternalId(x[1], x[2]) : x \in S} |-> Stub(i[2], i[3])])]

(* The classes at each distance up the chain of inherits edges: a chain that meets no
   class twice is not longer than there are ids. *)
Ancestors(L, i) ==
    LET inherits == {e \in L.edges : e.kind = "inherits"}
        up[n \in 0..Cardinality(TextIds)] ==
          IF n = 0 THEN {i}
          ELSE LET below == up[n - 1] IN {e.target : e \in {e \in inherits : e.source \in below}}
    IN  up

(* children_of, the methods among them with a name. *)
Methods(L, cs, name) ==
    {e.target : e \in {e \in L.edges : /\ e.source \in cs /\ e.kind \in {"defines", "contains"}
                                       /\ e.target \in DOMAIN L.nodes
                                       /\ L.nodes[e.target].kind = "method"
                                       /\ L.nodes[e.target].name = name}}

(* The methods with a name that the search up the chain meets first. *)
Nearest(L, i, name) ==
    LET up == Ancestors(L, i)
        hits == {n \in DOMAIN up \ {0} : Methods(L, up[n], name) # {}}
    IN  IF hits = {} THEN {} ELSE Methods(L, up[Min(hits)], name)

(* overrides_pass: a method overrides the method of its name that is met first. *)
ClassMethods(t, f) ==
    {x \in Symbols(t, f) \X Symbols(t, f) :
        x[1].kind = "class" /\ x[2].kind = "method" /\ x[2].container = x[1].name}
OverridesEdges(L, t, f) ==
    UNION {LET near == Nearest(L, FindSymbol(L, f, x[1].qname), x[2].name)
           IN  IF near = {} THEN {}
               ELSE {Edge(Entity(x[2].id), CHOOSE y \in near : TRUE, "overrides", 0)} :
            x \in ClassMethods(t, f)}

(* The passes, each over all the files. *)
ContainmentPass(L, t, fs) == TryEdges(L, UNION {Containment(L, t, f) : f \in fs})
ReferencesPass(L, t, fs) ==
    TryEdges(WithStubs(L, UNION {UNION {OccurrenceStubs(t, o) : o \in t[f].occs} : f \in fs}),
             UNION {UNION {OccurrenceEdges(L, t, f, o) : o \in t[f].occs} : f \in fs})
InheritsPass(L, t, fs) ==
    TryEdges(WithStubs(L, UNION {InheritsStubs(t, f) : f \in fs}),
             UNION {InheritsEdges(L, t, f) : f \in fs})
OverridesPass(L, t, fs) == TryEdges(L, UNION {OverridesEdges(L, t, f) : f \in fs})

Passes(L, t, fs) ==
    LET L2 == Materialized(L, t, fs)
        L3 == ContainmentPass(L2, t, fs)
        L4 == ReferencesPass(L3, t, fs)
        L5 == InheritsPass(L4, t, fs)
    IN  OverridesPass(L5, t, fs)

(* build *)
Full(t) == Passes(EmptyLayer, t, Existing(t))

(* The projects that can be: an id is bound to one entity (Identity!OneToOne), which may
   move from file to file.  And a full build of each. *)
Projects ==
    {t \in [Files -> (UNION Range(Texts)) \cup {Absent}] :
        /\ \A f \in Files : t[f] \in Texts[f] \cup {Absent}
        /\ \A f, g \in Files : f # g => SymbolIds(t, f) \cap SymbolIds(t, g) = {}}
FullOf == [t \in Projects |-> Full(t)]

(* Mistaken: the files that import a dirty file are not dirty themselves. *)
DirtySeeds(L, seeds) == seeds

(* The dirty files: the seeds and the files with an imports edge to one of them. *)
Dirty(L, seeds) ==
    seeds \cup {L.nodes[e.source].file :
        e \in {e \in L.edges : /\ e.kind = "imports" /\ e.source \in DOMAIN L.nodes
                               /\ e.target \in {ModuleId(f) : f \in seeds}}}

(* Mistaken: the edges are dropped without their index entries. *)
EvictUnindexed(L, fs) ==
    LET ids == UNION {Range(NodesOf(L, f)) : f \in fs}
    IN  [L EXCEPT !.edges = {e \in @ : e.source \notin ids},
                  !.nodes = Restrict(@, DOMAIN @ \ ids), !.order = Restrict(@, DOMAIN @ \ fs)]

(* evict_file: the nodes of the files and the edges that start at them. *)
Evict(L, fs) ==
    LET ids == UNION {Range(NodesOf(L, f)) : f \in fs}
        L2 == RemoveEdges(L, {e \in L.edges : e.source \in ids})
    IN  [L2 EXCEPT !.nodes = Restrict(@, DOMAIN @ \ ids), !.order = Restrict(@, DOMAIN @ \ fs)]

IdleStubs(L) ==
    {i \in DOMAIN L.nodes : L.nodes[i].kind = "stub" /\ i \notin {e.target : e \in L.edges}}

(* gc_external_stubs *)
Collected(L) == [L EXCEPT !.nodes = Restrict(@, DOMAIN @ \ IdleStubs(L))]

(* build_scoped *)
Scoped(L, t, seeds) ==
    LET dirty == Dirty(L, seeds)
    IN  Collected(Passes(Evict(L, dirty), t, dirty \cap Existing(t)))

(* produce_layer: a full build on a rescan, for an event batch without a Python file,
   and over an empty layer. *)
Produce(L, t, seeds, rescan) ==
    IF rescan \/ seeds = {} \/ IsEmpty(L) THEN FullOf[t] ELSE Scoped(L, t, seeds)

(* affected_closure_with_deleted: the seeds and everything that depends on them, where
   the dependents of a deleted id are those of the layer before. *)
Affected(prev, next, seeds, deleted) ==
    LET grow(S) == S \cup {p[2] : p \in {p \in next.rdeps : p[1] \in S}}
                     \cup {p[2] : p \in {p \in prev.rdeps : p[1] \in S \cap deleted}}
        at[n \in 0..Cardinality(DOMAIN next.nodes \cup DOMAIN prev.nodes)] ==
            IF n = 0 THEN seeds ELSE grow(at[n - 1])
    IN  at[Cardinality(DOMAIN next.nodes \cup DOMAIN prev.nodes)]

(* full_code_delta_for: the carried layer, or a build when there is none, all of whose
   nodes and edges are new to the empty layer it is compared with. *)
Served == IF IsEmpty(layer) THEN FullOf[text] ELSE layer

-----------------------------------------------------------------------------
(* What a layer owes to one hop: the files that each file's derivation reads, and those it
   has an imports edge to.  A name is looked up in the file it is written from and where
   that file has it from; a method's override is looked up along the base classes written
   for every class above its own. *)

Reaches(t, from, name) == ({from} \cup Exports(t, from, name)) \ Packages
SupersAbove(L, t, f) ==
    LET above == UNION {UNION Range(Ancestors(L, i)) : i \in Range(NodesOf(L, f))}
    IN  {b \in UNION {t[g].supers : g \in Existing(t)} : Entity(b.cls) \in above}
ReadsOf(L, t, f) ==
    (UNION {Reaches(t, o.from, o.name) : o \in {o \in t[f].occs : o.role # "module"}})
    \cup {o.from : o \in {o \in t[f].occs : o.role = "module" /\ o.from \notin Packages}}
    \cup (UNION {Reaches(t, b.from, b.name) : b \in SupersAbove(L, t, f)})
OneHop(t) ==
    LET L == FullOf[t]
    IN  \A f \in Existing(t) : \A g \in ReadsOf(L, t, f) \ {f} :
            \E e \in L.edges : e.kind = "imports" /\ e.source = ModuleId(f) /\ e.target = ModuleId(g)

OneHopOf == [t \in Projects |-> OneHop(t)]

Hashes(t) == UNION {{<<Entity(s.id), Hash(t, f, s)>> : s \in Symbols(t, f)} : f \in Files}
Ids(t) == UNION {SymbolIds(t, f) : f \in Files}

(* Reconciliation classifies the ids of the changed files: those bound before and
   after with another body, and those whose entity is gone. *)
ChangedIds(t, u) == {h[1] : h \in Hashes(u) \ Hashes(t)} \cap Ids(t)
DeletedIds(t, u) == Ids(t) \ Ids(u)

(* The affected ids of a commit: the closure of the changed and the deleted ones. *)
AffectedIds(t, u, prev, next) ==
    Affected(prev, next, ChangedIds(t, u) \cup DeletedIds(t, u), DeletedIds(t, u))

(* open: materialize_initial_code_layer. *)
Init ==
    /\ text \in Projects
    /\ layer = FullOf[text]
    /\ settled = OneHopOf[text]

(* run_staged: a commit of the files in seeds, or of the whole project. *)
Commit(seeds, rescan) ==
    \E t \in Projects :
        /\ \A f \in Files \ seeds : t[f] = text[f]
        /\ text' = t
        /\ layer' = Produce(layer, t, seeds, rescan)
        /\ settled' = (OneHopOf[t] /\ (settled \/ layer' = FullOf[t]))

Next == \E seeds \in SUBSET Files, rescan \in BOOLEAN :
            (rescan => seeds = Files) /\ Commit(seeds, rescan)

Spec == Init /\ [][Next]_vars

-----------------------------------------------------------------------------
(* Properties. *)

(* The index reverse_deps, kept edge by edge through evictions and re-derivations, is
   the one the dependency edges define. *)
IndexExact == layer.rdeps = Inbound(layer.edges)

(* What scoped commits carry forward is what a full build has.  Always: the nodes of
   modules and entities, with every field of theirs, also those that no content hash
   covers, each listed once under its file, so that no commit leaves a node behind.  While every file reads only files it has an imports edge to: also the
   edges and every referenced node. *)
CarriedExact ==
    LET full == FullOf[text]
        Own(L) == Restrict(L.nodes, {i \in DOMAIN L.nodes : L.nodes[i].kind # "stub"})
    IN  /\ Own(layer) = Own(full) /\ layer.order = full.order
        /\ settled => /\ Served.edges = full.edges
                      /\ Collected(Served).nodes = Collected(full).nodes

(* "a miss is not": while the layer is settled, an entity that depends on a changed
   entity, or depended on a deleted one, is affected, also where it uses a member
   through an inferred result that no edge records. *)
FlowPairs(t) ==
    {<<Entity(x.user), Entity(x.member)>> :
        x \in {x \in UNION {t[f].flows : f \in Existing(t)} :
                  {Entity(x.user), Entity(x.via), Entity(x.member)} \subseteq Ids(t)}}
DependsOn(t) == {<<p[2], p[1]>> : p \in Inbound(FullOf[t].edges)} \cup FlowPairs(t)
NoMiss ==
    [][settled /\ settled' =>
        LET affected == AffectedIds(text, text', layer, layer')
        IN  /\ \A p \in DependsOn(text') : p[2] \in ChangedIds(text, text') => p[1] \in affected
            /\ \A p \in DependsOn(text) : p[2] \in DeletedIds(text, text') => p[1] \in affected]_vars
=============================================================================
