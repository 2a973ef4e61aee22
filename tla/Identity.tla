------------------------------ MODULE Identity ------------------------------
(***************************************************************************)
(* The identity registry (rust/src/identity.rs): durable ids bound to the  *)
(* entities of the source, and the reconciliation that rebinds them after  *)
(* every commit by four passes: exact path, same body elsewhere, same      *)
(* name and container, and a fresh id.                                     *)
(*                                                                         *)
(* A slot is a qualified path (file::name); slots are numbered in the      *)
(* order of the pre-sort.  At most one entity is defined at a slot and its *)
(* kind never changes.  A durable id is a ULID, so ids minted by a later   *)
(* commit are larger and those of one commit come in any order.  by_hash   *)
(* always lists exactly the anchors that carry a hash, so it is not state. *)
(* The registry is persisted by every commit (module Head shows that the   *)
(* file and the memory agree), so a restart starts from the same anchors.  *)
(***************************************************************************)
EXTENDS Naturals, FiniteSets, FiniteSetsExt, Functions

CONSTANTS
    NSlots,     \* the number of qualified paths
    Files,      \* the project files
    FileOf,     \* the file of each slot
    Nested,     \* the slots inside a class, whose entities have a container
    Hashes,     \* content hashes of entity bodies
    NoEntity,   \* nothing is defined at the slot
    MaxIds      \* bound: ids the registry may hold

Slots == 1..NSlots
NoId == 0

ASSUME IdentityAssumption ==
    /\ NSlots \in Nat /\ MaxIds \in Nat
    /\ FileOf \in [Slots -> Files]
    /\ Nested \subseteq Slots
    /\ NoEntity \notin Hashes

VARIABLES
    code,      \* slot -> body hash of the entity defined there
    anchors,   \* by_id: durable id -> anchor
    byPath     \* by_path: slot -> durable id

vars == <<code, anchors, byPath>>

Statuses == {"active", "review", "orphaned"}
Anchor == [path : Slots, hash : Hashes, status : Statuses]

-----------------------------------------------------------------------------
(* reconcile_impl, pass by pass.  A is by_id, bp is by_path, src the new source and
   scope the files it was extracted from (all of them for a full reconciliation). *)

Entities(src, scope) == {s \in Slots : FileOf[s] \in scope /\ src[s] # NoEntity}

(* anchor_in_scope *)
InScope(A, scope) == {i \in DOMAIN A : FileOf[A[i].path] \in scope}

Bound(b, s, i) == [x \in DOMAIN b \cup {s} |-> IF x = s THEN i ELSE b[x]]

(* Mistaken: pass A asks for an unchanged body as well. *)
ExactBody(A, bp, src, scope) ==
    [s \in {s \in Entities(src, scope) :
               bp[s] # NoId /\ A[bp[s]].hash = src[s]} |-> bp[s]]

(* Pass A: the id indexed under the entity's path. *)
Exact(A, bp, src, scope) ==
    [s \in {s \in Entities(src, scope) : bp[s] # NoId} |-> bp[s]]

(* Mistaken: pass B looks among the orphans only. *)
CandidatesOrphaned(A, bp, src, scope, s, b) ==
    {i \in InScope(A, scope) \ Range(b) :
        A[i].hash = src[s] /\ A[i].status = "orphaned"}

(* Pass B, for one entity: the unbound anchors with its body, at another path or
   at one that is not indexed. *)
Candidates(A, bp, src, scope, s, b) ==
    {i \in InScope(A, scope) \ Range(b) :
        A[i].hash = src[s] /\ (A[i].path # s \/ bp[A[i].path] = NoId)}

(* Pass B, one entity: it consumes its smallest candidate. *)
Take(A, bp, src, scope, s, b) ==
    LET c == Candidates(A, bp, src, scope, s, b)
    IN  IF s \in Entities(src, scope) \ DOMAIN b /\ c # {} THEN Bound(b, s, Min(c)) ELSE b

(* Pass B takes the entities in order. *)
Moved(A, bp, src, scope) ==
    LET b[n \in 0..NSlots] == IF n = 0 THEN Exact(A, bp, src, scope)
                                       ELSE Take(A, bp, src, scope, n, b[n - 1])
    IN  b[NSlots]

(* Pass C: the unbound anchors with the entity's name, kind and container.  The
   container of a top-level entity is none and that of an anchor at a top-level path
   is its file, so the pass matches entities in a class only, at their own path. *)
Struct(A, src, scope, b) ==
    LET same(s) == {i \in InScope(A, scope) \ Range(b) : A[i].path = s}
        hit == {s \in (Entities(src, scope) \ DOMAIN b) \cap Nested : same(s) # {}}
    IN  [s \in hit |-> Min(same(s))]

Join(b, c) == [s \in DOMAIN b \cup DOMAIN c |-> IF s \in DOMAIN b THEN b[s] ELSE c[s]]

(* Pass D: fresh ids for the entities left; one batch is minted in any order. *)
Minted(A, left) ==
    {f \in [left -> (Cardinality(DOMAIN A) + 1)..(Cardinality(DOMAIN A)
                                                    + Cardinality(left))] :
        \A s, t \in left : f[s] = f[t] => s = t}

(* The ids to review: an exact bind whose body changed, and every struct bind. *)
Review(A, src, exact, struct) ==
    {exact[s] : s \in {s \in DOMAIN exact : A[exact[s]].hash # src[s]}}
        \cup Range(struct)

(* rebind, one entity: the anchor's old path goes out of the index, whoever is indexed
   there, then its new one goes in. *)
Rebind(A, b, s, idx) ==
    IF s \notin DOMAIN b THEN idx
    ELSE [x \in Slots |-> IF x = s THEN b[s]
                          ELSE IF b[s] \in DOMAIN A /\ A[b[s]].path = x THEN NoId
                          ELSE idx[x]]

(* The apply loop takes the entities in order. *)
Reindexed(A, bp, b) ==
    LET p[n \in 0..NSlots] == IF n = 0 THEN bp ELSE Rebind(A, b, n, p[n - 1])
    IN  p[NSlots]

(* Mistaken: every anchor no entity was bound to has vanished. *)
VanishedAnywhere(A, scope, b) ==
    {i \in DOMAIN A \ Range(b) : A[i].status # "orphaned"}

(* The anchors that vanished: in scope, bound to nothing, not orphaned yet. *)
Vanished(A, scope, b) ==
    {i \in InScope(A, scope) \ Range(b) : A[i].status # "orphaned"}

(* Mistaken: a retired anchor forgets where it was. *)
RetiredNowhere(a) == [a EXCEPT !.path = 1, !.status = "orphaned"]

(* retire: the anchor stays, with the path and the hash it was last seen with. *)
Retired(a) == [a EXCEPT !.status = "orphaned"]

(* by_id after the apply loop and the retirements. *)
Rebound(A, src, b, review, gone) ==
    [i \in DOMAIN A \cup Range(b) |->
        IF i \in Range(b)
        THEN LET s == CHOOSE s \in DOMAIN b : b[s] = i
             IN  [path |-> s, hash |-> src[s],
                  status |-> IF i \in review THEN "review" ELSE "active"]
        ELSE IF i \in gone THEN Retired(A[i])
        ELSE A[i]]

Reconcile(A, bp, src, scope) ==
    LET exact == Exact(A, bp, src, scope)
        moved == Moved(A, bp, src, scope)
        struct == Struct(A, src, scope, moved)
        known == Join(moved, struct)
        left == Entities(src, scope) \ DOMAIN known
    IN  /\ Cardinality(DOMAIN A) + Cardinality(left) <= MaxIds
        /\ \E fresh \in Minted(A, left) :
              LET b == Join(known, fresh)
                  gone == Vanished(A, scope, b)
                  paths == Reindexed(A, bp, b)
              IN  /\ anchors' = Rebound(A, src, b, Review(A, src, exact, struct), gone)
                  /\ byPath' = [s \in Slots |-> IF \E i \in gone : A[i].path = s
                                                THEN NoId ELSE paths[s]]

-----------------------------------------------------------------------------
(* from_json inserts every anchor, the orphaned ones too, in the order of their
   ids: the largest id at a path is the one indexed. *)
Loaded(A) ==
    [s \in Slots |-> LET at == {i \in DOMAIN A : A[i].path = s}
                     IN  IF at = {} THEN NoId ELSE Max(at)]

Init ==
    /\ code = [s \in Slots |-> NoEntity]
    /\ anchors = [i \in {} |-> NoId]
    /\ byPath = [s \in Slots |-> NoId]

(* A commit that changes the source of some files reconciles those files. *)
Commit ==
    \E scope \in (SUBSET Files) \ {{}} :
        \E src \in [Slots -> Hashes \cup {NoEntity}] :
            /\ \A s \in Slots : FileOf[s] \notin scope => src[s] = code[s]
            /\ code' = src
            /\ Reconcile(anchors, byPath, src, scope)

(* close and open: load identity.db, reconcile all of the source, which other
   programs leave as it is. *)
Restart ==
    /\ UNCHANGED code
    /\ Reconcile(anchors, Loaded(anchors), code, Files)

Next == Commit \/ Restart

Spec == Init /\ [][Next]_vars

-----------------------------------------------------------------------------
(* Properties. *)

Live == {i \in DOMAIN anchors : anchors[i].status # "orphaned"}

(* One to one: after every reconciliation each entity of the source has exactly one
   live anchor, which carries its path and body, and no anchor is live for an entity
   that is not there, also for the files the reconciliation did not look at; and the
   index, where it has an entry, leads to an anchor of that path. *)
OneToOne ==
    /\ \A i \in DOMAIN anchors : anchors[i] \in Anchor
    /\ \A s \in Slots : byPath[s] # NoId =>
          byPath[s] \in DOMAIN anchors /\ anchors[byPath[s]].path = s
    /\ \A s \in Slots : code[s] # NoEntity =>
          Cardinality({i \in Live : anchors[i].path = s}) = 1
    /\ \A i \in Live : code[anchors[i].path] = anchors[i].hash

(* An entity that is indexed and still there keeps its id through a commit, however
   its body or the rest of the source changed. *)
EditKeepsId ==
    [][code' # code => \A s \in Slots :
          byPath[s] # NoId /\ code'[s] # NoEntity => byPath[s] \in Live'
                                                  /\ anchors'[byPath[s]].path = s]_vars

(* A move keeps its id: when one commit takes a body away from one slot and puts it
   at a slot that had no entity, and no other anchor ever had that body, the id moves
   with it. *)
MoveKeepsId ==
    [][code' # code => \A s, t \in Slots :
          /\ code[s] # NoEntity /\ code'[s] = NoEntity
          /\ code[t] = NoEntity /\ code'[t] = code[s] /\ byPath[t] = NoId
          /\ \A u \in Slots \ {t} : code'[u] # code[s]
          /\ \A i, j \in DOMAIN anchors :
                anchors[i].hash = code[s] /\ anchors[j].hash = code[s] => i = j
          => \A i \in Live : anchors[i].path = s => i \in Live' /\ anchors'[i].path = t]_vars

(* Nothing is forgotten: no id ever leaves the registry, and an id that is orphaned
   still tells where its entity was last seen and with which body, so that a note on
   it can be shown and the entity found again. *)
NothingForgotten ==
    [][\A i \in DOMAIN anchors :
          /\ i \in DOMAIN anchors'
          /\ anchors'[i].status = "orphaned" =>
                /\ anchors'[i].path = anchors[i].path
                /\ anchors'[i].hash = anchors[i].hash]_vars

(* "rebuild twice: identical id assignment after reload": a restart over unchanged
   source leaves every live id live. *)
RestartKeepsIds == [][Restart => Live' = Live]_vars
=============================================================================
