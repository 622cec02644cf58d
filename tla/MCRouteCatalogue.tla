--------------------------- MODULE MCRouteCatalogue ---------------------------
(* A file of three routes that share a rank, spelt in two ways, one of them a *)
(* loop, and a feature without destination; two corridors that share a stop,  *)
(* with their return trips; the leftovers of one test.                        *)
EXTENDS RouteCatalogue

MCFeatures ==
    <<[id |-> 1, origin |-> "X", dest |-> "Y'", points |-> 2, metres |-> 900],
      [id |-> 2, origin |-> "X", dest |-> "", points |-> 2, metres |-> 100],
      [id |-> 3, origin |-> "Y", dest |-> "Z", points |-> 3, metres |-> 2500],
      [id |-> 4, origin |-> "Y", dest |-> "Y'", points |-> 4, metres |-> 1250]>>
MCCanonical == [s \in {"X", "Y", "Y'", "Z"} |-> IF s = "Y'" THEN "Y" ELSE s]

MCStops == <<"a", "b", "c">>
MCCorridors ==
    <<[name |-> <<"ab">>, legs |-> <<[from |-> "a", to |-> "b", fare |-> 8]>>],
      [name |-> <<"abc">>, legs |-> <<[from |-> "a", to |-> "b", fare |-> 6],
                                      [from |-> "b", to |-> "c", fare |-> 7]>>]>>
MCReverse == [n \in {<<"ab">>, <<"abc">>} |-> IF n = <<"ab">> THEN <<"ba">> ELSE <<"cba">>]
MCLeftovers == {[name |-> <<"test">>, from |-> "t", to |-> "u", fare |-> 1]}

MCStopNames == {"X", "Y", "Z", "a", "b", "c", "t", "u"}
MCOrder == <<<<"X", "Y", 1>>, <<"Y", "Y", 4>>, <<"Y", "Z", 3>>, <<"ab">>, <<"abc">>, <<"ba">>,
             <<"cba">>, <<"test">>>>
MCRouteNames == ToSet(MCOrder)
MCQuestions == {<<"a", "c">>, <<"X", "Z">>}

Plan(i, c, s, k, p, r) ==
    [import |-> i, clear |-> c, seed |-> s, cleanup |-> k, code |-> p, request |-> r]
MCPlans == {Plan(2, 2, 0, 0, 0, 0), Plan(2, 1, 0, 0, 0, 1), Plan(1, 1, 2, 0, 0, 0),
            Plan(0, 0, 1, 1, 1, 1), Plan(1, 1, 0, 2, 2, 0)}
=============================================================================
