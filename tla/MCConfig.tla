------------------------------ MODULE MCConfig ------------------------------
(* Instances of Config for TLC.  The name 2 is "code"; 1 comes before it, 3 and 4 after,
   and no document has a layer 5.  Graphs has every table of three layers over a set of
   dependency lists with repeated, missing and circular entries; Flaws has one document
   for each other way to be rejected, and documents that config.local.toml mends. *)
EXTENDS Config, TLC

Derived(deps) ==
    [origin |-> "derived", depends_on |-> deps, generator |-> "gen",
     generator_version |-> "v1", hash_profile |-> Unset, store |-> "store",
     known_kinds |-> TRUE, history |-> TRUE]
Notes(history) == RegisteredLayer(history)

Generator(endpoint, dim) == [endpoint |-> endpoint, dim |-> dim]
Generators(endpoint) == "gen" :> Generator(endpoint, 8)
Tables(layers) ==
    [schema_version |-> 1, layers |-> layers, generators |-> Generators("plain"),
     stores |-> "store" :> 8]

Lists == {<<>>, <<1>>, <<3>>, <<4>>, <<5>>, <<1, 1>>, <<3, 4, 3>>}
Candidates == {Derived(deps) : deps \in Lists} \cup {Notes(TRUE)}
Graphs == {Tables(layers) : layers \in [{1, 3, 4} -> Candidates]}

Simple == Tables(1 :> Notes(TRUE) @@ 3 :> Derived(<<>>) @@ 4 :> Derived(<<3>>))
With(layer) == Tables(3 :> layer)
Flaws ==
    { [layers |-> Empty], [Simple EXCEPT !.schema_version = 2],
      [hashing |-> {"loose"}] @@ Simple, [spine |-> "loose"] @@ Simple,
      [spine |-> "loose", hashing |-> {"loose"}] @@ Simple,
      With([Derived(<<>>) EXCEPT !.hash_profile = "loose"]),
      With([Derived(<<>>) EXCEPT !.generator = Unset]),
      With([Derived(<<>>) EXCEPT !.generator = "other"]),
      With([Derived(<<>>) EXCEPT !.store = Unset]),
      With([Derived(<<>>) EXCEPT !.store = "other"]),
      With([Derived(<<>>) EXCEPT !.generator_version = Unset]),
      With([Derived(<<>>) EXCEPT !.generator_version = ""]),
      With([Notes(TRUE) EXCEPT !.generator_version = ""]),
      With([Derived(<<>>) EXCEPT !.known_kinds = FALSE]),
      With([Notes(TRUE) EXCEPT !.store = "store"]),
      Tables(2 :> Notes(TRUE)),
      [Simple EXCEPT !.stores = "store" :> 16],
      [Simple EXCEPT !.generators = Generators("ref")],
      [Simple EXCEPT !.generators = Generators("secret")],
      [Simple EXCEPT !.generators = Generators(Unset)],
      [coordination |-> "block"] @@ Simple,
      [code_graph |-> [precision |-> "line", refinement |-> "async"]] @@ Simple,
      [code_graph |-> [precision |-> "method", refinement |-> "never"]] @@ Simple }

Install(c, l, e, s) == [committed |-> c, local |-> l, env |-> e, secrets |-> s]
Locals == { NoFile, [generators |-> Generators("ref")], [layers |-> 4 :> Notes(TRUE)] }
Variables == {<<Unset, Unset>>, <<Unset, "secret">>, <<"plain", "secret">>, <<"secret", "plain">>,
              <<"ref", Unset>>}
MCInstallations ==
    {Install(g, NoFile, Unset, Unset) : g \in Graphs}
    \cup {Install(f, l, Unset, Unset) : f \in Flaws, l \in Locals}
    \cup {Install(f, l, v[1], v[2]) :
              f \in {Simple, [Simple EXCEPT !.generators = Generators("ref")], NoFile},
              l \in Locals, v \in Variables}
MCEdits == { Tables(1 :> Notes(FALSE)), Tables(5 :> Notes(TRUE) @@ 1 :> Derived(<<>>)) }
Spec1(name, history) == <<[name |-> name, history |-> history]>>
MCPlugins == { <<>>, Spec1(4, TRUE) \o Spec1(5, TRUE), Spec1(1, FALSE), Spec1(2, TRUE) }
=============================================================================
