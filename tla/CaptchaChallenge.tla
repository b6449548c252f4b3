--------------------------- MODULE CaptchaChallenge ---------------------------
(***************************************************************************)
(* What the captcha store promises about the challenges of one member: a   *)
(* challenge is issued once, and it is then either solved, once, or lost,  *)
(* for good.  A new one usually takes the place of the others.             *)
(***************************************************************************)
CONSTANT Challenges

VARIABLE phase

Phases == { "new", "open", "solved", "lost" }

Init == phase = [ c \in Challenges |-> "new" ]

Open == { c \in Challenges : phase[c] = "open" }

Issue(c) ==
  /\ phase[c] = "new"
  /\ \E replaced \in SUBSET Open :
       phase' = [ d \in Challenges |->
                    IF d = c THEN "open" ELSE IF d \in replaced THEN "lost" ELSE phase[d] ]

Solve(c) ==
  /\ phase[c] = "open"
  /\ phase' = [ phase EXCEPT ![c] = "solved" ]

Lose(c) ==
  /\ phase[c] = "open"
  /\ phase' = [ phase EXCEPT ![c] = "lost" ]

Next == \E c \in Challenges : Issue(c) \/ Solve(c) \/ Lose(c)

Spec == Init /\ [][Next]_phase
===============================================================================
