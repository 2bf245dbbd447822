----------------------------- MODULE MCImports -----------------------------
(* Small instances of Imports for TLC: a file, and a directory with a file. *)
EXTENDS Imports

CONSTANTS s1, s2, n1, n2

MCPaths    == {<<>>, <<"f">>, <<"d">>, <<"d", "g">>}
FlatPaths  == {<<>>, <<"f">>}
MCHostTree == [x \in MCPaths |-> IF x \in {<<>>, <<"d">>} THEN "dir" ELSE "file"]
FlatTree   == [x \in FlatPaths |-> IF x = <<>> THEN "dir" ELSE "file"]
OnePlan    == {<<[source |-> s1, name |-> n1]>>}
MixedPlans == {<<[source |-> s1, name |-> n1]>>,
               <<[source |-> s2, name |-> n1], [source |-> s1, name |-> n2]>>}
=============================================================================
