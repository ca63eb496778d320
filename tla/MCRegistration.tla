--------------------------- MODULE MCRegistration ---------------------------
(***************************************************************************)
(* Instances of Registration for TLC: a model of two layers, "fc1" of type *)
(* Linear and "act" of another, and one without submodules.                *)
(***************************************************************************)
EXTENDS Registration, TLC

LayerNames == {"fc1", "act", ""}
NetOrLeaf  == {[layers |-> <<"fc1", "act">>, leaf |-> FALSE],
               [layers |-> <<>>, leaf |-> TRUE]}
Net        == {[layers |-> <<"fc1">>, leaf |-> FALSE]}

Globs  == {"*", "fc*", "Linear"}
ByName == [p \in Globs |-> CASE p = "*" -> LayerNames
                             [] p = "fc*" -> {"fc1"}
                             [] OTHER -> {}]
ByType == [p \in Globs |-> IF p = "Linear" THEN {"fc1"} ELSE {}]

TwoFns == {"max", "mean"}
OneFn  == {"max"}
Lists  == {<<"fc*", "*">>, <<"*">>}
OneList == {<<"fc*">>}

All          == [include |-> {}, exclude |-> {}]
ButLinear    == [include |-> {}, exclude |-> {"Linear"}]
LinearOnly   == [include |-> {"Linear"}, exclude |-> {}]
SomeFilters  == {LinearOnly, ButLinear}
NoFilter     == {All}
OutputOrBoth == {"output", "both"}
OnlyOutput   == {"output"}
AnyCapture   == {"output", "input", "both"}
SuffixedKeys == {"output"}
BareNames    == {"bare"}
=============================================================================
