----------------------------- MODULE MCArqLink ------------------------------
(* ArqLink on small instances; the cfgs choose callers, hops and bounds. *)
EXTENDS ArqLink, TLC

CallerSymmetry == Permutations(Callers)
=============================================================================
