----------------------------- MODULE MCEPPSession -----------------------------
(* Instances of EPPSession for TLC. *)
EXTENDS EPPSession, TLC

Symmetry == Permutations(Callers) \cup Permutations(Conns)
=============================================================================
