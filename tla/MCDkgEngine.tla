---------------------------- MODULE MCDkgEngine ----------------------------
(* Small instances of DkgEngine for TLC. *)
EXTENDS DkgEngine, TLC

\* Provers are interchangeable: the engine never computes with an index.
Symmetry == Permutations(Provers)
=============================================================================
