---------------------------- MODULE NginxEdge_MC ----------------------------
(***************************************************************************)
(* Values of the constants of NginxEdge: a list names at most one domain   *)
(* of each kind.                                                           *)
(***************************************************************************)
EXTENDS NginxEdge, FiniteSets

CONSTANTS d1, d2, b1

Empty == [site |-> {}, root |-> {}]
\* A domain in both lists stays in site mode.
TwoLists == {Empty, [site |-> {d1}, root |-> {d1, d2} \cap Domains]}
OneList == {Empty, [site |-> {d1}, root |-> {}]}
BothLists == TwoLists \cup OneList
EmptyOnly == {Empty}
=============================================================================
