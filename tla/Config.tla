------------------------------- MODULE Config -------------------------------
(***************************************************************************)
(* The configuration of a session (rust/src/config.rs) and the layer table *)
(* it leads to: loading the sidecar's files, validation, the topological   *)
(* order of the layers, the authored layers that plug-ins register after   *)
(* the project is open, and which authored records are loaded for them.    *)
(*                                                                         *)
(* Data: a document maps the top-level tables it sets to their contents; a *)
(* layer's name is a number, because the order of the layers is settled by *)
(* comparing names; of all strings only a generator's endpoint may refer   *)
(* to a variable or look like a credential; an authored layer holds one    *)
(* entity's record, a sequence of versions.                                *)
(***************************************************************************)
EXTENDS Naturals, Sequences, FiniteSets, FiniteSetsExt

CONSTANTS
    Names,       \* names a layer may have, numbers in the order of the strings
    Code,        \* the reserved name "code", one of Names
    Installations, \* the configuration files and the variable at the first open
    Edits,       \* what config.toml may be replaced by
    Plugins,     \* sequences of authored layer specifications a process may have
    NoFile,      \* a file that does not exist
    Unset,       \* an option or a variable that is not set
    MaxNotes,    \* bound: versions authored
    MaxEdits     \* bound: replacements of config.toml

(* What the parser lets through: a layer table has layers with lists of names and flags,
   and every generator has an endpoint, which may be left out. *)
WellFormed(document) ==
    /\ "layers" \in DOMAIN document =>
          /\ DOMAIN document.layers \subseteq Names
          /\ \A n \in DOMAIN document.layers :
                /\ document.layers[n].depends_on \in Seq(Names)
                /\ document.layers[n].history \in BOOLEAN
    /\ "generators" \in DOMAIN document =>
          /\ Unset \notin DOMAIN document.generators
          /\ \A g \in DOMAIN document.generators :
                "endpoint" \in DOMAIN document.generators[g]

(* The files that are read parse. *)
ASSUME ConfigAssumption ==
    /\ Names \subseteq Nat /\ IsFiniteSet(Names) /\ Code \in Names
    /\ \A i \in Installations :
          \A document \in {i.committed, i.local} : document = NoFile \/ WellFormed(document)
    /\ \A document \in Edits : WellFormed(document)
    /\ Plugins \subseteq Seq([name : Names, history : BOOLEAN])
    /\ MaxNotes \in Nat /\ MaxEdits \in Nat

VARIABLES
    committed,   \* .tyo3/config.toml
    local,       \* .tyo3/config.local.toml
    env,         \* the variable in the process environment
    secrets,     \* the same variable in .tyo3/secrets.toml
    plugins,     \* the authored specifications still to be registered
    status,      \* "closed", "opening" (registering) or "ready"
    outcome,     \* how the last attempt to open ended
    config,      \* HeadState.config.raw
    order,       \* HeadState.config.topo_order
    notes,       \* HeadState.authored, per layer
    records,     \* the record files under .tyo3/authored, per layer
    declared,    \* history: the layers the files declared at the last open
    reloaded,    \* history: reload was called in this session
    skipped,     \* history: the layers whose record file could not be read
    authored, edits   \* counters for the bounds

files == <<committed, local, env, secrets>>
vars == <<files, plugins, status, outcome, config, order, notes, records, declared,
          reloaded, skipped, authored, edits>>

-----------------------------------------------------------------------------
(* RawConfig.load *)

Empty == [x \in {} |-> x]

(* RawConfig.defaults, and the serde defaults of the tables a document leaves out. *)
Defaults ==
    [schema_version |-> 1, spine |-> "structure", hashing |-> {"structure"},
     layers |-> Empty, generators |-> Empty, stores |-> Empty,
     coordination |-> "coalesce",
     code_graph |-> [precision |-> "container", refinement |-> "async"]]

(* The entries of one table over those of another. *)
Over(f, g) ==
    [x \in DOMAIN f \cup DOMAIN g |-> IF x \in DOMAIN f THEN f[x] ELSE g[x]]

(* shallow_merge: a table of config.local.toml replaces the whole table. *)
Merge(base, overlay) == IF overlay = NoFile THEN base ELSE Over(overlay, base)

(* expand_string: the environment first, then secrets.toml, else UndefinedEnv. *)
Value == IF env # Unset THEN env ELSE secrets
Expand(generators) ==
    [g \in DOMAIN generators |->
        IF generators[g].endpoint = "ref" THEN [generators[g] EXCEPT !.endpoint = Value]
                                          ELSE generators[g]]
Refers(document) ==
    /\ "generators" \in DOMAIN document
    /\ \E g \in DOMAIN document.generators : document.generators[g].endpoint = "ref"

(* The document a process reads, or the error that stops it. *)
Document == IF committed = NoFile THEN Defaults ELSE Merge(committed, local)
LoadError ==
    IF Refers(Document) /\ Value = Unset THEN "UndefinedEnv"
    ELSE IF "schema_version" \notin DOMAIN Document THEN "Parse"
    ELSE "none"

(* The tables with their defaults, and the built-in profile seeded into them. *)
Load ==
    LET tables == Over(Document, Defaults)
    IN  [tables EXCEPT !.hashing = @ \cup {"structure"}, !.generators = Expand(@)]

-----------------------------------------------------------------------------
(* topo_order: Kahn's algorithm over dependency entries, smallest ready name first. *)

(* effective_depends_on *)
DependsOn(layer) ==
    IF layer.origin = "derived" /\ layer.depends_on = <<>> THEN <<Code>>
                                                           ELSE layer.depends_on
Targets(layer) == {DependsOn(layer)[i] : i \in DOMAIN DependsOn(layer)}
Nodes(raw) == {Code} \cup DOMAIN raw.layers
Dangling(raw) == \E n \in DOMAIN raw.layers : ~ Targets(raw.layers[n]) \subseteq Nodes(raw)

(* Mistaken: a dependency listed twice releases its layer by one. *)
EntriesOnce(raw, n, node) ==
    IF n \in DOMAIN raw.layers /\ node \in Targets(raw.layers[n]) THEN 1 ELSE 0

(* How many entries of n's dependencies name this node. *)
Entries(raw, n, node) ==
    IF n \notin DOMAIN raw.layers THEN 0
    ELSE Cardinality({i \in DOMAIN DependsOn(raw.layers[n]) :
                          DependsOn(raw.layers[n])[i] = node})

(* The nodes whose count this step brought to zero. *)
Released(before, after) == {n \in DOMAIN before : before[n] > 0 /\ after[n] = 0}

KahnStart(raw) ==
    LET counts == [n \in Nodes(raw) |-> IF n \in DOMAIN raw.layers
                                        THEN Len(DependsOn(raw.layers[n])) ELSE 0]
    IN  [ready |-> {n \in Nodes(raw) : counts[n] = 0}, incoming |-> counts, order |-> <<>>]

(* List the first ready node and release what waited for nothing else. *)
KahnStep(raw, s) ==
    LET node == Min(s.ready)
        after == [n \in Nodes(raw) |-> s.incoming[n] - Entries(raw, n, node)]
    IN  IF s.ready = {} THEN s
        ELSE [ready |-> (s.ready \ {node}) \cup Released(s.incoming, after),
              incoming |-> after, order |-> Append(s.order, node)]

Kahn(raw) ==
    LET run[k \in 0..Cardinality(Nodes(raw))] ==
            IF k = 0 THEN KahnStart(raw) ELSE KahnStep(raw, run[k - 1])
    IN  run[Cardinality(Nodes(raw))].order

-----------------------------------------------------------------------------
(* validate: the checks in their order; the first one that fails is the error. *)

(* The profile of a layer (profile_for). *)
ProfileOf(raw, n) ==
    IF n = Code \/ raw.layers[n].hash_profile = Unset THEN raw.spine
                                                      ELSE raw.layers[n].hash_profile

(* What a derived layer lacks: its generator and its store must be set and exist. *)
DerivedFlaw(raw, n) ==
    LET layer == raw.layers[n]
    IN  IF layer.origin # "derived" THEN "none"
        ELSE IF layer.generator = Unset THEN "OriginViolation"
        ELSE IF layer.generator \notin DOMAIN raw.generators THEN "DanglingRef"
        ELSE IF layer.store = Unset THEN "OriginViolation"
        ELSE IF layer.store \notin DOMAIN raw.stores THEN "DanglingRef"
        ELSE "none"
Flawed(raw) == {n \in DOMAIN raw.layers : DerivedFlaw(raw, n) # "none"}

(* Some layer depends on an authored one. *)
AuthoredDependency(raw) ==
    \E n \in DOMAIN raw.layers : \E d \in Targets(raw.layers[n]) \cap DOMAIN raw.layers :
        raw.layers[d].origin = "authored"

(* The keys that a layer of its origin needs or may not have. *)
WrongKeys(layer) ==
    \/ layer.origin = "derived" /\ layer.generator_version \in {Unset, ""}
    \/ /\ layer.origin = "authored"
       /\ \/ layer.depends_on # <<>> \/ layer.generator_version # Unset
          \/ {layer.generator, layer.hash_profile, layer.store} # {Unset}

(* Generator and store both give a dimension, and not the same one. *)
DimMismatch(raw, layer) ==
    /\ layer.generator \in DOMAIN raw.generators /\ layer.store \in DOMAIN raw.stores
    /\ LET dims == {raw.generators[layer.generator].dim, raw.stores[layer.store]}
       IN  Unset \notin dims /\ Cardinality(dims) > 1

(* lint_secrets: some string of the configuration looks like a credential. *)
LintSecrets(raw) == \E g \in DOMAIN raw.generators : raw.generators[g].endpoint = "secret"

Check(error, fails) == [error |-> error, fails |-> fails]
Checks(raw) ==
    LET layers == {raw.layers[n] : n \in DOMAIN raw.layers}
        sound == ~Dangling(raw)
    IN  << Check("UnknownVersion", raw.schema_version # 1),
           Check("DanglingRef", raw.spine \notin raw.hashing),
           Check("DanglingRef",
                 \E n \in DOMAIN raw.layers : ProfileOf(raw, n) \notin raw.hashing),
           Check(IF Flawed(raw) = {} THEN "none" ELSE DerivedFlaw(raw, Min(Flawed(raw))),
                 Flawed(raw) # {}),
           Check("ReservedName", Code \in DOMAIN raw.layers),
           Check("DanglingRef", Dangling(raw)),
           Check("Cycle", sound /\ Len(Kahn(raw)) # Cardinality(Nodes(raw))),
           Check("OriginViolation", AuthoredDependency(raw)),
           Check("OriginViolation", \E layer \in layers : WrongKeys(layer)),
           Check("UnknownKind", \E layer \in layers : ~layer.known_kinds),
           Check("DimMismatch", \E layer \in layers : DimMismatch(raw, layer)),
           Check("BlockingOverflow", raw.coordination \notin
                     {"coalesce", "drop_and_mark_lagged", "error_and_close"}),
           Check("InvalidValue", raw.code_graph.precision \notin {"container", "method"}),
           Check("InvalidValue", raw.code_graph.refinement \notin {"sync", "async"}),
           Check("SecretInline", LintSecrets(raw)) >>

Validate(raw) ==
    LET failing == {i \in DOMAIN Checks(raw) : Checks(raw)[i].fails}
    IN  IF failing = {} THEN "none" ELSE Checks(raw)[Min(failing)].error

-----------------------------------------------------------------------------
(* The session. *)

NoNotes == [n \in Names |-> <<>>]

Init ==
    /\ \E i \in Installations : /\ committed = i.committed /\ local = i.local
                                /\ env = i.env /\ secrets = i.secrets
    /\ plugins = <<>>
    /\ status = "closed" /\ outcome = "none"
    /\ config = Defaults /\ order = <<>>
    /\ notes = NoNotes /\ records = NoNotes
    /\ declared = {} /\ reloaded = FALSE /\ skipped = {} /\ authored = 0 /\ edits = 0

(* The layers whose record files opening reads: the authored ones of the order. *)
Recorded(raw, sequence) ==
    {n \in {sequence[i] : i \in DOMAIN sequence} \cap DOMAIN raw.layers :
        raw.layers[n].origin = "authored" /\ records[n] # <<>>}

(* Mistaken: takes the order's first element for the code layer and skips it. *)
LoadedAfterFirst(raw, sequence, unread) ==
    [n \in Names |->
        IF n \in (Recorded(raw, sequence) \ {sequence[1]}) \ unread
        THEN IF raw.layers[n].history THEN records[n] ELSE <<records[n][Len(records[n])]>>
        ELSE <<>>]

(* load_authored_records: the record of each of them, with its history where the layer
   keeps one; a file or a directory that cannot be read is passed over. *)
Loaded(raw, sequence, unread) ==
    [n \in Names |->
        IF n \in Recorded(raw, sequence) \ unread
        THEN IF raw.layers[n].history THEN records[n] ELSE <<records[n][Len(records[n])]>>
        ELSE <<>>]

(* TyProject.open and the start of the session's constructor: load, validate, read
   the authored records; what plug-ins specify comes next.  A record that does not
   parse, or is of a newer format, ends the opening. *)
Open ==
    /\ status = "closed"
    /\ LET raw == Load
           error == IF LoadError # "none" THEN LoadError ELSE Validate(raw)
       IN  \/ /\ outcome' \in IF error # "none" THEN {error}
                             ELSE {"FormatVersion" : n \in Recorded(raw, Kahn(raw))}
             /\ UNCHANGED <<plugins, status, config, order, notes, declared, reloaded,
                            skipped>>
          \/ /\ error = "none" /\ outcome' = "none" /\ status' = "opening"
             /\ plugins' \in Plugins
             /\ config' = raw /\ order' = Kahn(raw)
             /\ skipped' \in SUBSET Recorded(raw, Kahn(raw))
             /\ notes' = Loaded(raw, Kahn(raw), skipped')
             /\ declared' = DOMAIN raw.layers /\ reloaded' = FALSE
    /\ UNCHANGED <<files, records, authored, edits>>

(* The LayerCfg register_authored_layer makes up. *)
RegisteredLayer(history) ==
    [origin |-> "authored", depends_on |-> <<>>, generator |-> Unset,
     generator_version |-> Unset, hash_profile |-> Unset, store |-> Unset,
     known_kinds |-> TRUE, history |-> history]

(* The layer table with one layer more. *)
Registered(layers, spec) ==
    Over([n \in {spec.name} |-> RegisteredLayer(spec.history)], layers)

(* Mistaken: a layer that exists is replaced, whatever its origin. *)
CollidesNever(name) == FALSE

(* The name is taken by a layer that is not authored. *)
Collides(name) ==
    name \in DOMAIN config.layers /\ config.layers[name].origin # "authored"

(* The order after a registration: the name is appended if it is not listed. *)
Ordered(name) ==
    IF name \in {order[i] : i \in DOMAIN order} THEN order ELSE Append(order, name)

(* register_authored_layer for the next specification: a taken name ends the
   constructor with an error, a known authored layer stays as it is. *)
Register ==
    /\ status = "opening" /\ plugins # <<>>
    /\ LET spec == Head(plugins)
       IN  IF Collides(spec.name)
           THEN /\ status' = "closed" /\ outcome' = "Collision" /\ plugins' = <<>>
                /\ UNCHANGED <<config, order>>
           ELSE /\ plugins' = Tail(plugins)
                /\ IF spec.name \in DOMAIN config.layers
                      /\ config.layers[spec.name].origin = "authored"
                   THEN UNCHANGED <<config, order>>
                   ELSE /\ config' = [config EXCEPT !.layers = Registered(@, spec)]
                        /\ order' = Ordered(spec.name)
                /\ UNCHANGED <<status, outcome>>
    /\ UNCHANGED <<files, notes, records, declared, reloaded, skipped, authored, edits>>

(* The constructor reads config_json and the session is usable. *)
Start ==
    /\ status = "opening" /\ plugins = <<>>
    /\ status' = "ready"
    /\ UNCHANGED <<files, plugins, outcome, config, order, notes, records, declared,
                   reloaded, skipped, authored, edits>>

(* author: the layer must be an authored one (authored_layer_config); the record in
   memory is extended and written over the file. *)
Author ==
    /\ status = "ready" /\ authored < MaxNotes
    /\ \E n \in DOMAIN config.layers :
          /\ config.layers[n].origin = "authored"
          /\ LET put == IF config.layers[n].history THEN Append(notes[n], authored + 1)
                                                    ELSE <<authored + 1>>
             IN  notes' = [notes EXCEPT ![n] = put] /\ records' = [records EXCEPT ![n] = put]
          /\ skipped' = skipped \ {n}
    /\ authored' = authored + 1
    /\ UNCHANGED <<files, plugins, status, outcome, config, order, declared, reloaded, edits>>

(* reload: the configuration is kept, nothing is loaded again. *)
Reload ==
    /\ status = "ready" /\ ~reloaded
    /\ notes' = NoNotes /\ reloaded' = TRUE
    /\ UNCHANGED <<files, plugins, status, outcome, config, order, records, declared,
                   skipped, authored, edits>>

Close ==
    /\ status = "ready"
    /\ status' = "closed"
    /\ UNCHANGED <<files, plugins, outcome, config, order, notes, records, declared,
                   reloaded, skipped, authored, edits>>

(* Someone replaces config.toml, at any time. *)
EditConfig ==
    /\ edits < MaxEdits
    /\ committed' \in Edits \ {committed}
    /\ edits' = edits + 1
    /\ UNCHANGED <<local, env, secrets, plugins, status, outcome, config, order, notes,
                   records, declared, reloaded, skipped, authored>>

Next == Open \/ Register \/ Start \/ Author \/ Reload \/ Close \/ EditConfig

Spec == Init /\ [][Next]_vars

-----------------------------------------------------------------------------
(* Properties. *)

Running == status # "closed"

(* Some layers wait for each other: each one depends on one of them. *)
Circular(raw) ==
    \E S \in (SUBSET DOMAIN raw.layers) \ {{}} :
        \A n \in S : Targets(raw.layers[n]) \cap S # {}

(* The order of the layers that commits, loading and derivation walk lists "code" and
   every layer exactly once, and each one after everything it depends on: for every
   dependency table that is accepted (entries may be repeated), and after any
   registrations, which only append.  A project is refused with a cycle only if some
   layers wait for each other. *)
OrderSound ==
    /\ Running =>
          /\ {order[i] : i \in DOMAIN order} = Nodes(config)
          /\ Len(order) = Cardinality(Nodes(config))
          /\ \A i, j \in DOMAIN order :
                order[i] \in DOMAIN config.layers
                /\ order[j] \in Targets(config.layers[order[i]]) => j < i
    /\ status = "closed" /\ outcome = "Cycle" /\ edits = 0 => Circular(Load)

(* A session keeps a configuration that would be accepted: what registrations add never
   puts an authored layer under a derived one, hides a profile or breaks a reference,
   as long as nothing is registered under the reserved name.  And no reference is left
   unexpanded but one that a variable's value contains: expansion is not repeated. *)
StaysValid ==
    Running =>
        /\ Code \notin DOMAIN config.layers => Validate(config) = "none"
        /\ \A g \in DOMAIN config.generators :
              config.generators[g].endpoint \notin {"ref"} \ {Value}

(* What was authored in a layer follows the layer: however config.toml changed between
   sessions, a session that declares an authored layer holds the latest version ever
   authored in it, and the whole record if the layer keeps history.  (Not claimed after
   reload, nor for layers that only a plug-in registers: neither is loaded; nor for a
   layer whose file could not be read, until a note is written over it.) *)
NotesFollowLayers ==
    Running /\ ~reloaded =>
        \A n \in declared \ skipped :
            config.layers[n].origin = "authored" /\ records[n] # <<>> =>
                /\ notes[n] # <<>>
                /\ notes[n][Len(notes[n])] = records[n][Len(records[n])]
                /\ config.layers[n].history => notes[n] = records[n]

(* What CONFIG_SCHEMA.md says of credentials: generators get them through references,
   from the environment or secrets.toml, and those written into the configuration are
   rejected.  So a project is refused for a credential only if its files hold one. *)
SecretsByReference ==
    outcome = "SecretInline" /\ edits = 0 => LintSecrets(Over(Document, Defaults))
=============================================================================
