-------------------------- MODULE MCVerificationSetup --------------------------
(***************************************************************************)
(* Instances of VerificationSetup for TLC.                                 *)
(***************************************************************************)
EXTENDS VerificationSetup, TLC

\* Requests are interchangeable.
Symmetry == Permutations(Requests)
===============================================================================
