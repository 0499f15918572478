-------------------------- MODULE MCContextSwitch --------------------------
(* Instances of ContextSwitch for TLC.                                      *)
EXTENDS ContextSwitch, TLC

\* Threads differ in nothing.
Perms == Permutations(Threads)
=============================================================================
