-------------------------- MODULE MCPluginSession ---------------------------
(* A manifest with one key for TLC.                                        *)
EXTENDS PluginSession

CONSTANTS v0, v1

MCDefault == [k \in Keys |-> v0]
=============================================================================
