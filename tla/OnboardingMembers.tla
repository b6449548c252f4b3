--------------------------- MODULE OnboardingMembers ---------------------------
(***************************************************************************)
(* The whole of a member's onboarding: the gateway and the moderators, the *)
(* verification panel, and the worker, in one bot that may be restarted.   *)
(***************************************************************************)
EXTENDS OnboardingDeliveries, VerificationInteractions

vars == << captchaVars, memberVars, deliveryVars, interactionVars >>

Init == CaptchaInit /\ MemberInit /\ DeliveriesInit /\ InteractionsInit

\* The bot dies and is started again.  What it was doing is lost; BullMQ gives a
\* job whose worker is gone to another run once.
Crash ==
  /\ mishaps < settings.mishaps
  /\ mishaps' = mishaps + 1
  /\ run' = [ k \in Keys |-> NoRun ]
  /\ job' = [ k \in Keys |->
       IF job[k].state # "active" THEN job[k]
       ELSE IF job[k].stalled THEN [ job[k] EXCEPT !.state = "over" ]
       ELSE [ job[k] EXCEPT !.state = "queued", !.stalled = TRUE ] ]
  /\ inter' = [ s \in Slots |-> NoInter ]
  /\ handler' = [ h \in Handlers |->
       IF handler[h].at = "idle" THEN Idle ELSE [ Idle EXCEPT !.at = "done", !.join = handler[h].join ] ]
  /\ UNCHANGED << captchaVars, settings, row, member, sent, posted, joined, commands, changes,
                  journal, recent, cleaned, shown >>

Next ==
  \/ (HandlerNext \/ EnvironmentNext) /\ UNCHANGED << deliveryVars, interactionVars >>
  \/ DeliveryNext /\ UNCHANGED interactionVars
  \/ (InteractionNext \/ \E s \in Slots : InteractionFails(s)) /\ UNCHANGED deliveryVars
  \/ Crash

Spec == Init /\ [][Next]_vars

-------------------------------------------------------------------------------
(***************************************************************************)
(* Properties.                                                             *)
(***************************************************************************)

TypeOK == CaptchaTypeOK /\ MemberTypeOK /\ DeliveriesTypeOK /\ InteractionsTypeOK

\* What the member really did, or a moderator vouched for.
Earned ==
  [ captcha |-> consumed # {} \/ \E n \in Commands : handler[<< "verify", n >>].at # "idle",
    screening |-> member.screened # {} ]

\* (onboarding-service.ts:1037-1111) A member has the verified role only if the
\* guild's condition was met by what happened, or the member was migrated: none
\* of the interleavings of answers, row updates and evaluations makes the role a
\* present.
VerifiedWasEarned ==
  changes = 0 /\ "verified" \in member.roles =>
    \/ Satisfied(settings.condition, Earned)
    \/ \E k \in Keys : k[1] = "migrate" /\ WasClaimed(k)

\* (event-journal.ts:29-62, onboarding-service.ts:905-920, queue/index.ts:269,
\* worker/src/index.ts:539-581) A message is sent again for no other reason than
\* that a call failed, or the bot died, before the journal had it as sent, or that
\* its row was deleted since: each of these costs one repetition at most, however
\* many evaluations find the member verified, runs overlap, attempts follow and
\* jobs are forgotten by BullMQ.
SentOnce == \A k \in Keys : sent[k] <= 1 + mishaps + cleaned[k]

\* (onboarding-service.ts:1223) A welcome for a verification is only sent to a
\* member who was verified.
WelcomedWhenVerified ==
  changes = 0 =>
    \A k \in Keys :
      k[1] \in { "channel", "dm" } /\ k[2] = "VERIFICATION" /\ sent[k] > 0
        => Satisfied(settings.condition, Earned)

\* Nothing is being done, and nothing is queued.
AtRest ==
  /\ \A h \in Handlers : handler[h].at \in { "idle", "done" }
  /\ \A s \in Slots : inter[s].at = "idle"
  /\ \A k \in Keys : job[k].state \notin { "queued", "active" }

\* A captcha is recorded, the guild asks for no more, and nothing has failed.
Owed ==
  /\ mishaps = 0 /\ changes = 0 /\ joined = 1
  /\ Present
  /\ settings.verification
  /\ settings.condition \in { "CAPTCHA_ONLY", "EITHER" }
  /\ "verified" \in settings.assignable
  /\ row.captcha

\* (verification-interactions.ts:339, onboarding-service.ts:1037)
\* Where a captcha is enough, and while nothing fails, no member is left without
\* the verified role whose captcha is recorded, by an answer or by a moderator:
\* whatever ran in between, it has been given when all handlers, interactions and
\* jobs have ended.  Where the screening counts there is no such promise: a member
\* who joins without one is not evaluated, and see ScreeningIsKept.
OwedRoleIsGiven == AtRest /\ Owed => "verified" \in member.roles

\* (docs/onboarding.md:24-25, verification-interactions.ts:459-517) A completed
\* screening is persisted: once the row says so, it does while the member stays.
ScreeningIsKept ==
  [][ row.screening /\ Present /\ member'.join = member.join => row'.screening ]_vars
===============================================================================
