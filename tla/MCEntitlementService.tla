------------------------- MODULE MCEntitlementService -------------------------
(***************************************************************************)
(* Instances of EntitlementService for TLC.                                *)
(***************************************************************************)
EXTENDS EntitlementService

CONSTANTS bot, api, r1, r2

\* Two readers in the bot.
Placed == [ r \in { r1, r2 } |-> bot ]

\* Both read what the guild comes to be entitled to, or another segment; one of
\* them reads while an entitlement is prolonged or taken away.
Scenarios ==
  { [ checked |-> c, ends |-> 0, asking |-> { r1, r2 } ] : c \in BOOLEAN }
  \cup { [ checked |-> TRUE, ends |-> 1, asking |-> { r1 } ] }
===============================================================================
