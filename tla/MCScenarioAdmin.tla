-------------------------- MODULE MCScenarioAdmin --------------------------
(* Two concurrent users of three scenarios over one label, at one replica  *)
(* or at two.                                                              *)
EXTENDS ScenarioAdmin, TLC

CONSTANTS e1, e2

Symmetry == Permutations(Editors)
=============================================================================
