--------------------------- MODULE MCVerificationPanel ---------------------------
(***************************************************************************)
(* Instances of VerificationPanel for TLC.                                 *)
(***************************************************************************)
EXTENDS VerificationPanel, TLC

\* The interactions of one member are alike.
Symmetry == Permutations(Slots)

PanelSettings ==
  { [ verification |-> TRUE, dedicated |-> FALSE, condition |-> "CAPTCHA_ONLY",
      welcome |-> {}, dm |-> {}, goodbye |-> FALSE, deletes |-> FALSE,
      autoRole |-> FALSE, allowed |-> {}, assignable |-> {},
      retry |-> TRUE, continueOnError |-> TRUE, screening |-> FALSE, panel |-> TRUE,
      joins |-> 1, commands |-> 0, changes |-> 0, mishaps |-> 0 ] }
===============================================================================
