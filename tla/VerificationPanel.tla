--------------------------- MODULE VerificationPanel ---------------------------
(***************************************************************************)
(* The verification panel with the captcha store: the member's starts and  *)
(* answers, the handlers that invalidate a challenge, and expiring keys.   *)
(* The worker changes nothing that these read.                             *)
(***************************************************************************)
EXTENDS VerificationInteractions

vars == << captchaVars, memberVars, interactionVars >>

Init == CaptchaInit /\ MemberInit /\ InteractionsInit

Next ==
  \/ (HandlerNext \/ EnvironmentNext) /\ UNCHANGED interactionVars
  \/ InteractionNext

Spec == Init /\ [][Next]_vars

-------------------------------------------------------------------------------
\* The abstract phase of each challenge.
Phase ==
  [ c \in Challenges |->
      IF challenge[c].mode = "unused" THEN "new"
      ELSE IF Live(c) THEN "open" ELSE IF c \in consumed THEN "solved" ELSE "lost" ]

Abstract == INSTANCE CaptchaChallenge WITH phase <- Phase

\* (captcha.ts:378, captcha.ts:403) Whatever answers, starts, invalidations and
\* expiry come between the commands of an answer, a challenge is solved at most
\* once, and one that was replaced, locked, expired or invalidated stays lost.
ImplementsChallenge == Abstract!Spec

\* The invalidations of the member's challenge that have begun.
Invalidations ==
  { h \in Handlers : h[1] \in { "remove", "unverify" } /\ handler[h].at # "idle" }

\* (captcha.ts:158, captcha.ts:322) Starts that overlap leave one challenge open;
\* only an invalidation, whose two commands another start may come between, can
\* leave one more behind.
OpenChallenges ==
  Cardinality({ c \in Challenges : Live(c) }) <= 1 + Cardinality(Invalidations)

\* (captcha.ts:205, captcha.ts:403) What may still be answered wrongly, over all
\* challenges, and what was already, stay within two budgets for every member who
\* is not invalidated: the one a start found, and the one that is used up while
\* it replaces the challenge.
Left(c) == IF Live(c) THEN challenge[c].attempts ELSE 0

FailuresBounded == Invalidations = {} => \A c \in Challenges : failures + Left(c) <= 2 * CaptchaTries
===============================================================================
