-------------------------- MODULE MCServiceManager --------------------------
(* ServiceManager for TLC: two names.                                       *)
EXTENDS ServiceManager, TLC

CONSTANTS n1, n2

NameSymmetry == Permutations(Names)
=============================================================================
