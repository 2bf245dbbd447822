---------------------------- MODULE MCPageClients ----------------------------
(* A small instance of PageClients for TLC: lists and texts that are empty, *)
(* accepted, refused or without their last line break.                      *)
EXTENDS PageClients

MCLists == {Empty, [lines |-> {"a"}, ended |-> TRUE]}
MCTyped == {Empty, [lines |-> {"a"}, ended |-> FALSE], [lines |-> {"a"}, ended |-> TRUE],
            [lines |-> {"bad"}, ended |-> TRUE]}
=============================================================================
