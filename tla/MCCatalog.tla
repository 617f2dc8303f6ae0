----------------------------- MODULE MCCatalog -----------------------------
EXTENDS Catalog, TLC

Path(p, n) == [blank |-> FALSE, fn |-> "path", path |-> p, len |-> n, compiles |-> TRUE]
Length(p) == [blank |-> FALSE, fn |-> "length", path |-> p, len |-> 3, compiles |-> TRUE]
Broken == [blank |-> FALSE, fn |-> "path", path |-> <<>>, len |-> 1, compiles |-> FALSE]
Blank == [blank |-> TRUE, fn |-> "path", path |-> <<>>, len |-> 0, compiles |-> TRUE]

Hole(p, d) == [kind |-> "hole", path |-> p, divisor |-> d]

(* The cap of expressions is 3, of template bodies 2. *)
Usual ==
    <<[type |-> "template", body |-> ("t" :> Hole(<<"data", "n">>, "two"))],
      [type |-> "jmespath", expression |-> Path(<<"t">>, 2)]>>

MCPipelines == {
    Usual,
    <<[type |-> "jmespath", expression |-> Length(<<"data", "n">>)]>>,
    <<[type |-> "jmespath", expression |-> Path(<<"data">>, 4)]>>,
    <<[type |-> "jmespath"]>>
  }

MCFilters == {Blank, Path(<<"headers", "kind">>, 2), Broken}

Public == [scheme |-> "https", host |-> "public", credentials |-> FALSE]
Named == [scheme |-> "https", host |-> "name", credentials |-> FALSE]
Plain == [scheme |-> "http", host |-> "name", credentials |-> FALSE]
Local == [scheme |-> "https", host |-> "localhost", credentials |-> FALSE]

MCUrls == {Public, Named, Plain, Local}

MCUpdates == {
    [url |-> Named, pipeline |-> Usual, filter |-> Blank, active |-> TRUE],
    [url |-> Public], [url |-> Plain], [url |-> NoUrl, active |-> FALSE],
    [url |-> Public,
     pipeline |-> <<[type |-> "jmespath", expression |-> Length(<<"data", "n">>)]>>],
    [pipeline |-> <<[type |-> "jmespath"]>>], [filter |-> Broken],
    [filter |-> Path(<<"headers", "kind">>, 2), active |-> TRUE], [active |-> FALSE]
  }

MCInitial == {[url |-> Named, pipeline |-> Usual, filter |-> Blank, active |-> TRUE]}

(* The second number is beyond MAX_FLOAT. *)
MCRequests == {
    [body |-> Dict("data" :> Dict("n" :> Num(n)) @@ "headers" :> Dict("kind" :> Num(1))),
     headers |-> Dict(<<>>)] : n \in {4, 9}
  }

Symmetry == Permutations(Clients)

=============================================================================
