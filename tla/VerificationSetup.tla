--------------------------- MODULE VerificationSetup ---------------------------
(***************************************************************************)
(* The guided verification setup of one guild: administrators who edit the *)
(* configuration or ask for a setup, the API that makes the configuration  *)
(* PENDING and queues a job, the bot that runs the job, and the gateway    *)
(* that reports deleted Discord resources.                                 *)
(*                                                                         *)
(* Sources: apps/api/src/routes/onboarding.ts,                             *)
(* apps/web/app/actions/onboarding.ts, apps/bot/src/onboarding-service.ts. *)
(***************************************************************************)
EXTENDS OnboardingRepository

CONSTANTS
  Requests,     \* requests of administrators; each edits or sets up once
  MaxAttempts,  \* attempts of a queued job (queue.defaultAttempts)
  MaxCrashes,   \* bound on the restarts of the bot
  Existing,     \* resources the guild has before
  Deletable,    \* resources that somebody may delete
  StaleReads,   \* whether the bot's configuration cache may be out of date
  Faults        \* whether database, Discord and queue calls may fail

ASSUME SetupAssumption ==
  /\ MaxAttempts \in Nat \ { 0 }
  /\ MaxCrashes \in Nat
  /\ Existing \subseteq Resources
  /\ Deletable \subseteq Resources
  /\ StaleReads \in BOOLEAN
  /\ Faults \in BOOLEAN

VARIABLES
  api,       \* where a request is
  expected,  \* the version its page showed
  shown,     \* and the contents
  pending,   \* the version its PENDING row got; 0 before
  job,       \* the BullMQ job of a setup request
  attempts,  \* attemptsMade of that job
  stalled,   \* whether that job lost its bot before
  run,       \* where the bot's run of the job is
  held,      \* what that run holds
  journal,
  recent,
  live,      \* resources that exist at Discord
  deleted,   \* resources that once existed
  notice,    \* the handler of a deletion event
  crashes

\* No row is deleted while its setup is going on: by default history is kept for
\* a week or more.
INSTANCE OnboardingJournal WITH Keys <- Requests, cleaned <- [ q \in Requests |-> 0 ]

requestVars == << api, expected, shown, pending >>
jobVars     == << job, attempts, stalled, run, held, journal, recent >>
discordVars == << live, deleted, notice >>

vars == << config, requestVars, jobVars, discordVars, crashes >>

ApiStates == { "idle", "open", "edit", "begin", "enqueue", "undo", "undoWrite", "done" }
JobStates == { "none", "queued", "active", "over" }
RunStates ==
  { "none", "claim", "check", "setup", "panel", "complete", "commit", "record",
    "fail", "failWrite", "leave" }

\* `resources' is what the run has resolved, `created' whether it created any,
\* `ends' the status it will leave in the journal if it does not succeed.
Held ==
  [ resources : SUBSET Resources, created : BOOLEAN, ends : { "SKIPPED", "FAILED" } ]

NothingHeld == [ resources |-> {}, created |-> FALSE, ends |-> "FAILED" ]

TypeOK ==
  /\ RepositoryTypeOK
  /\ api \in [ Requests -> ApiStates ]
  /\ expected \in [ Requests -> Nat ]
  /\ shown \in [ Requests -> Nat ]
  /\ pending \in [ Requests -> Nat ]
  /\ job \in [ Requests -> JobStates ]
  /\ attempts \in [ Requests -> Nat ]
  /\ stalled \in [ Requests -> BOOLEAN ]
  /\ run \in [ Requests -> RunStates ]
  /\ held \in [ Requests -> Held ]
  /\ JournalTypeOK
  /\ live \in SUBSET Resources
  /\ deleted \in SUBSET Resources
  /\ notice \in [ Resources -> { "none", "noticed", "write" } ]
  /\ crashes \in Nat

Init ==
  /\ RepositoryInit
  /\ api = [ q \in Requests |-> "idle" ]
  /\ expected = [ q \in Requests |-> 0 ]
  /\ shown = [ q \in Requests |-> 0 ]
  /\ pending = [ q \in Requests |-> 0 ]
  /\ job = [ q \in Requests |-> "none" ]
  /\ attempts = [ q \in Requests |-> 0 ]
  /\ stalled = [ q \in Requests |-> FALSE ]
  /\ run = [ q \in Requests |-> "none" ]
  /\ held = [ q \in Requests |-> NothingHeld ]
  /\ JournalInit
  /\ live = Existing
  /\ deleted = {}
  /\ notice = [ x \in Resources |-> "none" ]
  /\ crashes = 0

-------------------------------------------------------------------------------
(***************************************************************************)
(* Administrators and the API.                                             *)
(***************************************************************************)

Moves(q, state) == api' = [ api EXCEPT ![q] = state ]

\* The administrator's page shows the configuration.
Open(q) ==
  /\ api[q] = "idle"
  /\ Moves(q, "open")
  /\ expected' = [ expected EXCEPT ![q] = config.version ]
  /\ shown' = [ shown EXCEPT ![q] = config.edited ]
  /\ UNCHANGED << config, pending, jobVars, discordVars, crashes >>

\* A section is saved, or a setup is asked for; the transaction reads the row.
Submit(q) ==
  /\ api[q] = "open"
  /\ IF MayChange(expected[q])
       THEN Moves(q, "edit") \/ Moves(q, "begin")
       ELSE Moves(q, "done")
  /\ UNCHANGED << config, expected, shown, pending, jobVars, discordVars, crashes >>

CommitEdit(q) ==
  /\ api[q] = "edit"
  /\ SameRow(expected[q])
  /\ EditSections
  /\ Moves(q, "done")
  /\ UNCHANGED << expected, shown, pending, jobVars, discordVars, crashes >>

CommitBegin(q) ==
  /\ api[q] = "begin"
  /\ SameRow(expected[q])
  /\ BeginSetup
  /\ pending' = [ pending EXCEPT ![q] = config'.version ]
  /\ Moves(q, "enqueue")
  /\ UNCHANGED << expected, shown, jobVars, discordVars, crashes >>

\* The configuration was changed by another request.
Conflict(q) ==
  /\ api[q] \in { "edit", "begin" }
  /\ ~SameRow(expected[q])
  /\ Moves(q, "done")
  /\ UNCHANGED << config, expected, shown, pending, jobVars, discordVars, crashes >>

Enqueue(q) ==
  /\ api[q] = "enqueue"
  /\ job' = [ job EXCEPT ![q] = "queued" ]
  /\ Moves(q, "done")
  /\ UNCHANGED << config, expected, shown, pending, attempts, stalled, run, held,
                  journal, recent, discordVars, crashes >>

\* The queue does not answer; it may have added the job.
EnqueueFails(q) ==
  /\ Faults
  /\ api[q] = "enqueue"
  /\ job' \in { job, [ job EXCEPT ![q] = "queued" ] }
  /\ Moves(q, "undo")
  /\ UNCHANGED << config, expected, shown, pending, attempts, stalled, run, held,
                  journal, recent, discordVars, crashes >>

Undo(q) ==
  /\ api[q] = "undo"
  /\ Moves(q, IF Owns(pending[q]) THEN "undoWrite" ELSE "done")
  /\ UNCHANGED << config, expected, shown, pending, jobVars, discordVars, crashes >>

CommitUndo(q) ==
  /\ api[q] = "undoWrite"
  /\ FailSetup(FALSE)
  /\ Moves(q, "done")
  /\ UNCHANGED << expected, shown, pending, jobVars, discordVars, crashes >>

\* The process dies, or the database does not answer.
RequestDies(q) ==
  /\ Faults
  /\ api[q] \in { "edit", "begin", "enqueue", "undo", "undoWrite" }
  /\ Moves(q, "done")
  /\ UNCHANGED << config, expected, shown, pending, jobVars, discordVars, crashes >>

RequestStep(q) ==
  \/ CommitEdit(q) \/ CommitBegin(q) \/ Conflict(q)
  \/ Enqueue(q) \/ EnqueueFails(q)
  \/ Undo(q) \/ CommitUndo(q)
  \/ RequestDies(q)

-------------------------------------------------------------------------------
(***************************************************************************)
(* The bot's worker.  A request's job has at most one run at a time.       *)
(***************************************************************************)

Reaches(q, state) == run' = [ run EXCEPT ![q] = state ]

Holds(q, h) == held' = [ held EXCEPT ![q] = h ]

\* The run ends without an error: BullMQ completes the job.
JobCompletes(q) ==
  /\ Reaches(q, "none")
  /\ Holds(q, NothingHeld)
  /\ job' = [ job EXCEPT ![q] = "over" ]
  /\ UNCHANGED << attempts, stalled >>

\* The run throws: BullMQ queues the job again until its attempts are used up.
JobThrows(q) ==
  /\ Reaches(q, "none")
  /\ Holds(q, NothingHeld)
  /\ attempts' = [ attempts EXCEPT ![q] = @ + 1 ]
  /\ job' = [ job EXCEPT ![q] = IF attempts'[q] < MaxAttempts THEN "queued" ELSE "over" ]
  /\ UNCHANGED stalled

Take(q) ==
  /\ job[q] = "queued"
  /\ job' = [ job EXCEPT ![q] = "active" ]
  /\ Reaches(q, "claim")
  /\ UNCHANGED << config, requestVars, attempts, stalled, held, journal, recent,
                  discordVars, crashes >>

ClaimRun(q) ==
  /\ run[q] = "claim"
  /\ Claim(q)
  /\ Reaches(q, "check")
  /\ UNCHANGED << config, requestVars, job, attempts, stalled, held, discordVars, crashes >>

\* Without the claim #process returns, and the job is done.
ClaimRefused(q) ==
  /\ run[q] = "claim"
  /\ ~Claimable(q)
  /\ JobCompletes(q)
  /\ UNCHANGED << config, requestVars, journal, recent, discordVars, crashes >>

\* The claim is not inside the try.
ClaimFails(q) ==
  /\ Faults
  /\ run[q] = "claim"
  /\ JobThrows(q)
  /\ UNCHANGED << config, requestVars, journal, recent, discordVars, crashes >>

\* The run goes on with what it now holds.
Gives(q, h, state) ==
  /\ Holds(q, h)
  /\ Reaches(q, state)
  /\ UNCHANGED << config, requestVars, job, attempts, stalled, journal, recent,
                  discordVars, crashes >>

\* (mutant) a refusal that is not written to the configuration
RefuseSilently(q) ==
  /\ run[q] = "check"
  /\ \E ends \in { "SKIPPED", "FAILED" } : Gives(q, [ held[q] EXCEPT !.ends = ends ], "leave")

\* The guild is gone (the job is skipped), or the administrator or the bot
\* lacks a permission (it fails).
Refuse(q) ==
  /\ run[q] = "check"
  /\ \E ends \in { "SKIPPED", "FAILED" } : Gives(q, [ held[q] EXCEPT !.ends = ends ], "fail")

\* The configuration must still be the PENDING one.  A mismatch is thrown
\* without failVerificationSetup, and so is any other error here.
Check(q) ==
  /\ run[q] = "check"
  /\ \/ /\ config.version = pending[q] \/ StaleReads
        /\ Gives(q, held[q], "setup")
     \/ /\ config.version # pending[q] \/ StaleReads \/ Faults
        /\ Gives(q, held[q], "leave")

WithResource(h, x, creates) ==
  [ resources |-> h.resources \union { x }, created |-> h.created \/ creates,
    ends |-> h.ends ]

New == Resources \ (live \union deleted)

Takes(q, x, creates, state) ==
  /\ live' = live \union { x }
  /\ Holds(q, WithResource(held[q], x, creates))
  /\ Reaches(q, state)
  /\ UNCHANGED << config, requestVars, job, attempts, stalled, journal, recent, deleted,
                  notice, crashes >>

\* The channel or role is chosen or created, and gets its permissions.
Resolve(q) ==
  /\ run[q] = "setup"
  /\ \/ \E x \in live : Takes(q, x, FALSE, "panel")
     \/ \E x \in New : Takes(q, x, TRUE, "panel")

\* The message with the button is sent into the channel.
SendPanel(q) ==
  /\ run[q] = "panel"
  /\ held[q].resources \subseteq live
  /\ \E x \in New : Takes(q, x, FALSE, "complete")

\* A chosen resource is not usable, a resolved one is gone, or a call fails;
\* (bound) when Resources are used up, no message can be sent either.
SetupFails(q) ==
  /\ \/ run[q] = "setup"
     \/ run[q] = "panel" /\ (Faults \/ New = {} \/ ~(held[q].resources \subseteq live))
     \/ run[q] \in { "complete", "commit" } /\ Faults
  /\ Gives(q, held[q], "fail")

\* completeVerificationSetup reads the row ...
Complete(q) ==
  /\ run[q] = "complete"
  /\ Gives(q, held[q], IF Owns(pending[q]) THEN "commit" ELSE "fail")

\* ... and writes it.
Commit(q) ==
  /\ run[q] = "commit"
  /\ CompleteSetup(held[q].resources)
  /\ Reaches(q, "record")
  /\ UNCHANGED << requestVars, job, attempts, stalled, held, journal, recent,
                  discordVars, crashes >>

Record(q) ==
  /\ run[q] = "record"
  /\ Settle(q, "SUCCEEDED")
  /\ JobCompletes(q)
  /\ UNCHANGED << config, requestVars, discordVars, crashes >>

\* A call after the commit fails, the last of them with the journal settled.
RecordFails(q) ==
  /\ Faults
  /\ run[q] = "record"
  /\ journal' \in { journal, [ journal EXCEPT ![q] = "SUCCEEDED" ] }
  /\ Reaches(q, "fail")
  /\ UNCHANGED << config, requestVars, job, attempts, stalled, held, recent, discordVars,
                  crashes >>

\* failVerificationSetup reads the row ...
Fail(q) ==
  /\ run[q] = "fail"
  /\ Gives(q, held[q], IF Owns(pending[q]) THEN "failWrite" ELSE "leave")

\* ... and writes it.
FailWrite(q) ==
  /\ run[q] = "failWrite"
  /\ FailSetup(held[q].created)
  /\ Reaches(q, "leave")
  /\ UNCHANGED << requestVars, job, attempts, stalled, held, journal, recent,
                  discordVars, crashes >>

\* It throws: a refusal is not skipped then.
FailThrows(q) ==
  /\ Faults
  /\ run[q] \in { "fail", "failWrite" }
  /\ Gives(q, [ held[q] EXCEPT !.ends = "FAILED" ], "leave")

\* The journal is settled and the error, if any, thrown again.
Leave(q) ==
  /\ run[q] = "leave"
  /\ Settle(q, held[q].ends)
  /\ IF held[q].ends = "SKIPPED" THEN JobCompletes(q) ELSE JobThrows(q)
  /\ UNCHANGED << config, requestVars, discordVars, crashes >>

LeaveFails(q) ==
  /\ Faults
  /\ run[q] = "leave"
  /\ JobThrows(q)
  /\ UNCHANGED << config, requestVars, journal, recent, discordVars, crashes >>

RunStep(q) ==
  \/ ClaimRun(q) \/ ClaimRefused(q) \/ ClaimFails(q)
  \/ Refuse(q) \/ Check(q)
  \/ Resolve(q) \/ SendPanel(q) \/ SetupFails(q)
  \/ Complete(q) \/ Commit(q)
  \/ Record(q) \/ RecordFails(q)
  \/ Fail(q) \/ FailWrite(q) \/ FailThrows(q)
  \/ Leave(q) \/ LeaveFails(q)

\* A claim passes the age at which another run may take it over.
ClaimExpires(q) ==
  /\ ClaimAges(q)
  /\ UNCHANGED << config, requestVars, job, attempts, stalled, run, held, discordVars,
                  crashes >>

-------------------------------------------------------------------------------
(***************************************************************************)
(* The gateway, and the bot's process.                                     *)
(***************************************************************************)

\* Somebody deletes a resource; the bot may miss the event.
Delete(x) ==
  /\ x \in Deletable \intersect live
  /\ live' = live \ { x }
  /\ deleted' = deleted \union { x }
  /\ \/ notice' = [ notice EXCEPT ![x] = "noticed" ]
     \/ Faults /\ UNCHANGED notice
  /\ UNCHANGED << config, requestVars, jobVars, crashes >>

\* markVerificationResourceDeleted reads the row ...
Notice(x) ==
  /\ notice[x] = "noticed"
  /\ notice' = [ notice EXCEPT ![x] = IF Names(x) THEN "write" ELSE "none" ]
  /\ UNCHANGED << config, requestVars, jobVars, live, deleted, crashes >>

\* ... and writes it.
NoticeWrite(x) ==
  /\ notice[x] = "write"
  /\ MarkDeleted
  /\ notice' = [ notice EXCEPT ![x] = "none" ]
  /\ UNCHANGED << requestVars, jobVars, live, deleted, crashes >>

\* The bot restarts.  BullMQ hands out a stalled job again, once; the
\* handlers of events are gone.
Crash ==
  /\ crashes < MaxCrashes
  /\ crashes' = crashes + 1
  /\ run' = [ q \in Requests |-> "none" ]
  /\ held' = [ q \in Requests |-> NothingHeld ]
  /\ job' = [ q \in Requests |->
               IF job[q] # "active" THEN job[q]
               ELSE IF stalled[q] THEN "over" ELSE "queued" ]
  /\ stalled' = [ q \in Requests |-> stalled[q] \/ job[q] = "active" ]
  /\ notice' = [ x \in Resources |-> "none" ]
  /\ UNCHANGED << config, requestVars, attempts, journal, recent, live, deleted >>

BotStep(q) == Take(q) \/ RunStep(q) \/ ClaimExpires(q)

Next ==
  \/ \E q \in Requests : Open(q) \/ Submit(q) \/ RequestStep(q) \/ BotStep(q)
  \/ \E x \in Resources : Delete(x) \/ Notice(x) \/ NoticeWrite(x)
  \/ Crash

Spec == Init /\ [][Next]_vars

\* Handlers that have started go on, and the worker takes the jobs it finds.
Fairness ==
  /\ \A q \in Requests : WF_vars(RequestStep(q)) /\ WF_vars(Take(q) \/ RunStep(q))
  /\ \A x \in Resources : WF_vars(Notice(x) \/ NoticeWrite(x))

FairSpec == Spec /\ Fairness

-------------------------------------------------------------------------------
(***************************************************************************)
(* Properties.                                                             *)
(***************************************************************************)

\* (repository.ts:415, repository.ts:424) The sections are never edited while
\* a setup is in progress, although a transaction checks the row some time
\* before it writes it.
EditsRefusedWhilePending ==
  [][config'.edited # config.edited => config.health # "PENDING"]_vars

\* (repository.ts:418, repository.ts:424) No update is lost: whoever saves a
\* section has seen the contents that the save replaces.
EditsOnWhatWasSeen ==
  [][\A q \in Requests : CommitEdit(q) => shown[q] = config.edited]_vars

\* The configuration is PENDING for this request.
OwnedBy(q) == config.health = "PENDING" /\ config.version = pending[q]

\* (repository.ts:195, repository.ts:199) A PENDING configuration belongs to
\* one setup only, however setups, failures and retries follow one another.
ExclusiveSetup ==
  \A q1, q2 \in Requests : OwnedBy(q1) /\ OwnedBy(q2) => q1 = q2

\* (repository.ts:252, repository.ts:301) A run that retries, or comes late,
\* never ends the setup of somebody else, nor spoils a finished one.  (The
\* update does not repeat the check, so the handler of a deletion may come
\* between.)
OthersSetupSurvives ==
  [][\A q \in Requests :
       deleted = {} /\ config' # config /\ run'[q] # run[q] => OwnedBy(q)]_vars

\* (onboarding-service.ts:1264, onboarding-service.ts:1453,
\* onboarding-service.ts:858) The journal never calls a setup done or skipped
\* while the configuration is still PENDING for it, wherever calls fail and the
\* bot restarts: a row in either state would refuse every later run of the job,
\* and nothing would end the setup.
PendingIsUnfinished ==
  \A q \in Requests : OwnedBy(q) => journal[q] \notin { "SUCCEEDED", "SKIPPED" }

\* (onboarding-operations.md:5) A PENDING configuration has a request or a job
\* that will still decide about it.
PendingHasOwner ==
  config.health = "PENDING" =>
    \E q \in Requests :
      /\ OwnedBy(q)
      /\ \/ api[q] \in { "enqueue", "undo", "undoWrite" }
         \/ job[q] \in { "queued", "active" }

\* (onboarding-service.ts:1261) Every setup comes to an end.
SetupSettles == config.health = "PENDING" ~> config.health # "PENDING"
===============================================================================
