-------------------------- MODULE MCOnboardingMembers --------------------------
(***************************************************************************)
(* Instances of OnboardingMembers for TLC.                                 *)
(***************************************************************************)
EXTENDS OnboardingMembers

Base ==
  [ verification |-> TRUE, dedicated |-> FALSE, condition |-> "CAPTCHA_ONLY",
    welcome |-> {}, dm |-> {}, goodbye |-> FALSE, deletes |-> FALSE,
    autoRole |-> FALSE, allowed |-> {}, assignable |-> Roles,
    retry |-> TRUE, continueOnError |-> TRUE, screening |-> FALSE, panel |-> FALSE,
    joins |-> 1, commands |-> 0, changes |-> 0, mishaps |-> 0 ]

\* Captchas with moderators, with a failure, or with Discord's membership
\* screening.
Panel == [ Base EXCEPT !.panel = TRUE ]
Both == { [ Panel EXCEPT !.condition = "BOTH", !.screening = TRUE ] }
Captchas == { [ Panel EXCEPT !.commands = 1 ], [ Panel EXCEPT !.mishaps = 1 ] } \cup Both

\* The membership screening or a moderator verifies, and a welcome follows that
\* is deleted again.
Welcoming ==
  [ Base EXCEPT !.condition = "SCREENING_ONLY", !.screening = TRUE,
                !.welcome = { "VERIFICATION" }, !.deletes = TRUE, !.commands = 1 ]

\* Newcomers get a role and a message, and leave with another.
Faulty ==
  [ Base EXCEPT !.verification = FALSE, !.autoRole = TRUE, !.allowed = { "newcomer", "regular" },
                !.welcome = { "JOIN" }, !.goodbye = TRUE, !.mishaps = 1 ]

\* Nothing is switched on; an administrator asks for a test or a migration.
Quiet ==
  [ Base EXCEPT !.dedicated = TRUE, !.assignable = { "verified" },
                !.dm = { "JOIN" }, !.commands = 1 ]

\* The welcome, which is deleted again, is switched on or off.
Changing ==
  { [ Base EXCEPT !.verification = FALSE, !.deletes = TRUE, !.changes = 1, !.welcome = triggers ]
      : triggers \in { {}, { "JOIN" } } }

\* TLC computes this once, and what is substituted for a constant at every use.
Scenarios == Captchas \cup { Welcoming, Faulty, Quiet } \cup Changing

MemberScenarios == Scenarios
===============================================================================
