----------------------------- MODULE MCListener -----------------------------
(***************************************************************************)
(* Bounds for Listener: with two provers nobody is killed; with one, one   *)
(* process is, at any time.                                                *)
(***************************************************************************)
EXTENDS Listener, TLC

MCMaxCrash == (4 :> 1) @@ (5 :> 0)
=============================================================================
