-------------------------- MODULE MCPluginRegistry --------------------------
(* Small instances of PluginRegistry.  Objects are interchangeable, and so *)
(* are names; only invariants are checked, so the symmetry is sound.       *)
EXTENDS PluginRegistry, TLC

Symmetry == Permutations(Plugins) \union Permutations(Names)
=============================================================================
