-------------------------- MODULE OnboardingDeliveries --------------------------
(***************************************************************************)
(* The bot's worker of onboarding jobs (#process of onboarding-service.ts  *)
(* and what it calls): messages, roles and the evaluation of a member's    *)
(* conditions, each claimed in the event journal first.                    *)
(***************************************************************************)
EXTENDS MemberOnboarding

CONSTANTS
  Concurrency,  \* jobs the worker runs at a time
  MaxAttempts,  \* attempts of a job (queue.defaultAttempts)
  Outlived      \* bound: the kinds of job whose journal rows are deleted, once each

ASSUME DeliveriesAssumption == { Concurrency, MaxAttempts } \subseteq Nat \ { 0 }

VARIABLES
  run,      \* the worker's run of a key's job
  journal,
  recent,
  cleaned

INSTANCE OnboardingJournal

deliveryVars == << run, journal, recent, cleaned >>
outside == << captchaVars, settings, handler, joined, commands, changes >>

RunSteps ==
  { "none", "claim", "load", "send", "roles", "complete", "after", "follow", "skip", "leave" }

\* `satisfied' is what an evaluation found, `todo' the roles to give, `failed'
\* whether a role could not be given, `error' whether Discord refused one.
Run ==
  [ at : RunSteps, satisfied : BOOLEAN, todo : SUBSET Roles, failed : BOOLEAN, error : BOOLEAN ]

NoRun == [ at |-> "none", satisfied |-> FALSE, todo |-> {}, failed |-> FALSE, error |-> FALSE ]

DeliveriesTypeOK ==
  /\ run \in [ Keys -> Run ]
  /\ \A k \in Keys : job[k].attempts <= MaxAttempts /\ (job[k].state = "active" <=> run[k].at # "none")
  /\ JournalTypeOK

DeliveriesInit ==
  /\ run = [ k \in Keys |-> NoRun ]
  /\ JournalInit

Runs == { k \in Keys : run[k].at # "none" }

Reaches(k, step) == run' = [ run EXCEPT ![k].at = step ]

\* Ends a run without an error: BullMQ completes the job.
Ends(k) ==
  /\ run' = [ run EXCEPT ![k] = NoRun ]
  /\ job' = [ job EXCEPT ![k].state = "over" ]

\* Ends it with one: BullMQ queues the job again, until its attempts are used
\* up and a record of it goes to the dead letters.
Throws(k) ==
  LET attempts == job[k].attempts + 1 IN
  /\ run' = [ run EXCEPT ![k] = NoRun ]
  /\ job' = [ job EXCEPT ![k].attempts = attempts,
                         ![k].state = IF attempts < MaxAttempts THEN "queued" ELSE "dead" ]

-------------------------------------------------------------------------------
Take(k) ==
  /\ job[k].state = "queued"
  /\ Cardinality(Runs) < Concurrency
  /\ job' = [ job EXCEPT ![k].state = "active" ]
  /\ Reaches(k, "claim")
  /\ UNCHANGED << outside, row, member, sent, posted, mishaps, journal, recent, cleaned >>

ClaimRun(k) ==
  /\ run[k].at = "claim"
  /\ Claim(k)
  /\ Reaches(k, "load")
  /\ UNCHANGED << outside, row, member, sent, posted, job, mishaps >>

ClaimRefused(k) ==
  /\ run[k].at = "claim"
  /\ ~Claimable(k)
  /\ Ends(k)
  /\ UNCHANGED << outside, row, member, sent, posted, mishaps, journal, recent, cleaned >>

\* #resolveCurrentMember, for a job about the join it was queued for, or
\* #resolveMember.
Resolved(k) ==
  CASE k[1] \in { "channel", "dm", "roles", "evaluate" } -> Present /\ member.join = job[k].join
    [] k[1] = "test" -> Present
    [] OTHER -> TRUE

\* #selectMigrationMembers: the members who do not have the verified role yet.
MigrationWants(role) == role = "verified" /\ Present /\ role \notin member.roles

\* The roles a job is to give, by what an evaluation found.
Wanted(k, satisfied) ==
  { role \in Roles :
      CASE k[1] = "roles" ->
             \/ role = "unverified" /\ UsesUnverifiedRole
             \/ role = "newcomer" /\ Automatic(role)
        [] k[1] = "evaluate" ->
             \/ role = "screened" /\ row.screening /\ Automatic(role)
             \/ role = "verified" /\ satisfied /\ settings.verification
             \/ role = "regular" /\ satisfied /\ Automatic(role)
        [] k[1] = "migrate" -> MigrationWants(role) }

\* The message that a job is to delete again.
ToDelete(k) == << IF k[2] = "LEAVE" THEN "goodbye" ELSE "channel", k[2], k[3] >>

\* Whether the configuration, or the row, still asks for what the job does.
Eligible(k) ==
  CASE k[1] \in { "channel", "dm" } -> Delivers(k[1], k[2])
    [] k[1] = "goodbye" -> settings.goodbye
    [] k[1] = "roles" -> Wanted(k, FALSE) # {}
    [] k[1] = "evaluate" -> row.exists
    [] k[1] = "delete" -> ToDelete(k) \in posted
    [] OTHER -> TRUE

\* The member, the configuration, the row and the plan are read.  A migration
\* that selects nobody is over.
Load(k) ==
  LET satisfied == k[1] = "evaluate" /\ Satisfied(settings.condition, row) IN
  /\ run[k].at = "load"
  /\ IF ~(Resolved(k) /\ Eligible(k)) THEN Reaches(k, "skip")
     ELSE IF k[1] \in { "roles", "evaluate", "migrate" }
       THEN run' = [ run EXCEPT ![k] =
              [ at |-> IF k[1] = "migrate" /\ Wanted(k, FALSE) = {} THEN "complete" ELSE "roles",
                satisfied |-> satisfied, failed |-> FALSE, error |-> FALSE,
                todo |-> Wanted(k, satisfied) ] ]
       ELSE Reaches(k, "send")
  /\ UNCHANGED << outside, row, member, sent, posted, job, mishaps, journal, recent, cleaned >>

Skip(k) ==
  /\ run[k].at = "skip"
  /\ Settle(k, "SKIPPED")
  /\ Ends(k)
  /\ UNCHANGED << outside, row, member, sent, posted, mishaps >>

-------------------------------------------------------------------------------
(***************************************************************************)
(* Messages.                                                               *)
(***************************************************************************)

\* A welcome or a goodbye; one for a channel may have to be deleted later.
Send(k) ==
  /\ run[k].at = "send"
  /\ k[1] \in { "channel", "dm", "goodbye" }
  /\ sent' = [ sent EXCEPT ![k] = @ + 1 ]
  /\ posted' = IF k[1] # "dm" /\ settings.deletes THEN posted \cup { k } ELSE posted
  /\ Reaches(k, "complete")
  /\ UNCHANGED << outside, row, member, job, mishaps, journal, recent, cleaned >>

\* An administrator's test, which stays.
SendTest(k) ==
  /\ run[k].at = "send"
  /\ k[1] = "test"
  /\ sent' = [ sent EXCEPT ![k] = @ + 1 ]
  /\ Reaches(k, "complete")
  /\ UNCHANGED << outside, row, member, posted, job, mishaps, journal, recent, cleaned >>

DeleteMessage(k) ==
  /\ run[k].at = "send"
  /\ k[1] = "delete"
  /\ posted' = posted \ { ToDelete(k) }
  /\ Reaches(k, "complete")
  /\ UNCHANGED << outside, row, member, sent, job, mishaps, journal, recent, cleaned >>

\* Dates and flags are written that nothing reads, then the message's deletion
\* is queued.
QueueDelete(k) ==
  /\ run[k].at = "follow"
  /\ k[1] \in { "channel", "dm", "goodbye" }
  /\ run' = [ run EXCEPT ![k] = NoRun ]
  /\ job' = LET over == [ job EXCEPT ![k].state = "over" ] IN
            IF k \in posted THEN WithJob(over, << "delete", k[2], k[3] >>, Absent) ELSE over
  /\ UNCHANGED << outside, row, member, sent, posted, mishaps, journal, recent, cleaned >>

-------------------------------------------------------------------------------
(***************************************************************************)
(* Roles.                                                                  *)
(***************************************************************************)

\* The role that is tried next.
NextRole(roles) ==
  RoleOrder[CHOOSE n \in DOMAIN RoleOrder :
    RoleOrder[n] \in roles /\ \A m \in 1 .. n - 1 : RoleOrder[m] \notin roles]

\* #assignRoles: the next role is given, to the user who is a member now; one
\* the bot may not give is noted.
GiveRole(k) ==
  LET role == NextRole(run[k].todo) IN
  /\ run[k].at = "roles"
  /\ run[k].todo # {}
  /\ Present
  /\ IF role \in member.roles \cup settings.assignable
       THEN /\ member' = [ member EXCEPT !.roles = @ \cup { role } ]
            /\ run' = [ run EXCEPT ![k].todo = @ \ { role } ]
       ELSE /\ run' = [ run EXCEPT ![k].todo = @ \ { role }, ![k].failed = TRUE ]
            /\ UNCHANGED member
  /\ UNCHANGED << outside, row, sent, posted, job, mishaps, journal, recent, cleaned >>

\* Discord refuses a role, as it does for a user who has left: the others are
\* tried if the guild wants that.
RoleRefused(k) ==
  /\ run[k].at = "roles"
  /\ run[k].todo # {}
  /\ IF Present THEN mishaps < settings.mishaps /\ mishaps' = mishaps + 1 ELSE UNCHANGED mishaps
  /\ run' = [ run EXCEPT ![k].failed = TRUE, ![k].error = TRUE,
                         ![k].todo = IF settings.continueOnError THEN @ \ { NextRole(@) } ELSE {} ]
  /\ UNCHANGED << outside, row, member, sent, posted, job, journal, recent, cleaned >>

\* All are tried.  The run fails if one was refused and the guild wants retries.
Fails(k) == run[k].error /\ settings.retry

\* A member whose conditions are satisfied, or who was migrated, loses the
\* unverified role.
RemoveUnverified(k) ==
  LET owns == /\ \/ k[1] = "migrate"
                 \/ k[1] = "evaluate" /\ run[k].satisfied
              /\ settings.dedicated
              /\ "unverified" \in member.roles
      may == "unverified" \in settings.assignable
  IN
  /\ run[k].at = "roles" /\ run[k].todo = {} /\ ~Fails(k)
  /\ member' = [ member EXCEPT !.roles = IF owns /\ may THEN @ \ { "unverified" } ELSE @ ]
  /\ run' = [ run EXCEPT ![k].at = "complete", ![k].failed = @ \/ (owns /\ ~may) ]
  /\ UNCHANGED << outside, row, sent, posted, job, mishaps, journal, recent, cleaned >>

\* #evaluateMemberConditions writes what it found, after the journal says so.
WriteOutcome(k) ==
  /\ run[k].at = "after"
  /\ row' = [ row EXCEPT !.granted = run[k].satisfied /\ ~run[k].failed ]
  /\ Reaches(k, "follow")
  /\ UNCHANGED << outside, member, sent, posted, job, mishaps, journal, recent, cleaned >>

\* The jobs that an evaluation adds, as it ends.
WelcomeKeys(k) ==
  { key \in Keys : /\ key[1] \in { "channel", "dm" } /\ Delivers(key[1], "VERIFICATION")
                   /\ key[2] = "VERIFICATION" /\ key[3] = job[k].join }

EndsWith(k, keys) ==
  /\ run' = [ run EXCEPT ![k] = NoRun ]
  /\ job' = [ key \in Keys |-> IF key = k THEN [ job[k] EXCEPT !.state = "over" ]
                                ELSE IF key \in keys THEN WithJob(job, key, job[k].join)[key]
                                ELSE job[key] ]

\* (mutant) a welcome after every evaluation
QueueAnyWelcome(k) ==
  /\ run[k].at = "follow"
  /\ k[1] = "evaluate"
  /\ EndsWith(k, WelcomeKeys(k))
  /\ UNCHANGED << outside, row, member, sent, posted, mishaps, journal, recent, cleaned >>

\* #enqueueVerifiedWelcome
QueueWelcome(k) ==
  /\ run[k].at = "follow"
  /\ k[1] = "evaluate"
  /\ EndsWith(k, IF run[k].satisfied THEN WelcomeKeys(k) ELSE {})
  /\ UNCHANGED << outside, row, member, sent, posted, mishaps, journal, recent, cleaned >>

-------------------------------------------------------------------------------
(***************************************************************************)
(* How a run ends.                                                         *)
(***************************************************************************)

\* #completeRoleDelivery settles the journal and appends to the audit log.
CompleteRoles(k) ==
  /\ run[k].at = "complete"
  /\ k[1] \in { "roles", "evaluate", "migrate" }
  /\ Settle(k, IF run[k].failed THEN "FAILED" ELSE "SUCCEEDED")
  /\ IF k[1] = "evaluate" THEN Reaches(k, "after") /\ UNCHANGED job ELSE Ends(k)
  /\ UNCHANGED << outside, row, member, sent, posted, mishaps >>

\* #completeDelivery does, for the other jobs.
CompleteDelivery(k) ==
  /\ run[k].at = "complete"
  /\ k[1] \in { "channel", "dm", "goodbye", "delete", "test" }
  /\ Settle(k, "SUCCEEDED")
  /\ IF k[1] \in { "channel", "dm", "goodbye" } THEN Reaches(k, "follow") /\ UNCHANGED job ELSE Ends(k)
  /\ UNCHANGED << outside, row, member, sent, posted, mishaps >>

\* A call to the database or to Discord fails.
RunFails(k) ==
  /\ mishaps < settings.mishaps
  /\ run[k].at \notin { "none", "leave" }
  /\ run[k].at = "roles" => run[k].todo = {}
  /\ mishaps' = mishaps + 1
  /\ IF run[k].at = "claim" THEN Throws(k) ELSE Reaches(k, "leave") /\ UNCHANGED job
  /\ UNCHANGED << outside, row, member, sent, posted, journal, recent, cleaned >>

\* #process writes the failure over whatever the journal says.
Abandon(k) ==
  /\ \/ run[k].at = "leave"
     \/ run[k].at = "roles" /\ run[k].todo = {} /\ Fails(k)
  /\ Settle(k, "FAILED")
  /\ Throws(k)
  /\ UNCHANGED << outside, row, member, sent, posted, mishaps >>

\* The row was deleted in the meantime: to settle it fails, to write the failure
\* fails too, and the job with it.
RowGone(k) ==
  /\ \/ run[k].at \in { "skip", "complete", "leave" }
     \/ run[k].at = "roles" /\ run[k].todo = {} /\ Fails(k)
  /\ journal[k] = "NONE"
  /\ Throws(k)
  /\ UNCHANGED << outside, row, member, sent, posted, mishaps, journal, recent, cleaned >>

\* The age of a claim matters once its run is gone.
Ages(k) ==
  /\ run[k].at = "none"
  /\ ClaimAges(k)
  /\ UNCHANGED << outside, row, member, sent, posted, job, mishaps, run >>

CleanupEvents(k) ==
  /\ k[1] \in Outlived
  /\ cleaned[k] = 0
  /\ Cleanup(k)
  /\ UNCHANGED << outside, row, member, sent, posted, job, mishaps, run >>

DeliveryStep(k) ==
  \/ Take(k) \/ ClaimRun(k) \/ ClaimRefused(k) \/ Load(k) \/ Skip(k)
  \/ Send(k) \/ SendTest(k) \/ DeleteMessage(k) \/ QueueDelete(k)
  \/ GiveRole(k) \/ RemoveUnverified(k) \/ WriteOutcome(k) \/ QueueWelcome(k)
  \/ CompleteRoles(k) \/ CompleteDelivery(k) \/ Abandon(k) \/ RoleRefused(k) \/ RowGone(k)

DeliveryNext ==
  \E k \in Keys : DeliveryStep(k) \/ RunFails(k) \/ Ages(k) \/ CleanupEvents(k)
===============================================================================
