------------------------ MODULE MCSignatureAggregator ------------------------
(* Small instances of SignatureAggregator for TLC. *)
EXTENDS SignatureAggregator, TLC

\* Signers are interchangeable: their indices only order the list.
Symmetry == Permutations(Holders)
=============================================================================
