------------------------ MODULE OnboardingMembersProofs ------------------------
(***************************************************************************)
(* Theorems of OnboardingMembers, for any configurations of the guild, any *)
(* number of jobs at a time, of interactions, restarts and failures.       *)
(*                                                                         *)
(* What happened to the member (a captcha consumed, a screening completed, *)
(* a moderator's word) only grows, and the row, the runs and the queue     *)
(* never say more than that.  A message is sent by a run that has claimed  *)
(* its key, and its row says so before the job can be run again, unless a  *)
(* failure, a restart or the deletion of the row comes first.              *)
(***************************************************************************)
EXTENDS OnboardingMembers, SequenceTheorems, TLAPS

-------------------------------------------------------------------------------
(***************************************************************************)
(* The inductive invariant.                                                *)
(***************************************************************************)
RoleKinds == { "roles", "evaluate", "migrate" }

\* The welcomes that a verification leads to.
Welcome(k) == k[1] \in { "channel", "dm" } /\ k[2] = "VERIFICATION"

\* The condition is met by what happened.
IsVerified == Satisfied(settings.condition, Earned)
WasMigrated == \E k \in Keys : k[1] = "migrate" /\ WasClaimed(k)

RunFields == { "at", "satisfied", "todo", "failed", "error" }
JobFields == { "state", "join", "attempts", "stalled" }
HandlerFields == { "at", "join", "seen", "todo" }
InterFields == { "at", "join", "challenge", "seen", "previous", "next", "result", "screened" }
RowFields == { "exists", "captcha", "screening", "granted", "closed" }

\* What a handler queues.
HandlerKeys ==
  ({ "channel", "dm", "roles" } \X { "JOIN" } \X Joins)
  \cup ({ "evaluate" } \X { "SCREENING" } \X Joins)
  \cup ({ "evaluate" } \X { "COMMAND" } \X Commands)
  \cup ({ "goodbye" } \X { "LEAVE" } \X Joins)

ShapesHold ==
  /\ run = [ k \in Keys |-> run[k] ] /\ \A k \in Keys : DOMAIN run[k] = RunFields
  /\ job = [ k \in Keys |-> job[k] ] /\ \A k \in Keys : DOMAIN job[k] = JobFields
  /\ handler = [ h \in Handlers |-> handler[h] ]
  /\ \A h \in Handlers :
       /\ DOMAIN handler[h] = HandlerFields
       /\ handler[h].todo \in Seq(HandlerKeys)
       /\ handler[h].at = "jobs" => handler[h].todo # << >>
  /\ inter = [ s \in Slots |-> inter[s] ] /\ \A s \in Slots : DOMAIN inter[s] = InterFields
  /\ DOMAIN row = RowFields
  /\ DOMAIN member = { "join", "screened", "roles" }
  /\ sent \in [ Keys -> Nat ]
  /\ journal = [ k \in Keys |-> journal[k] ]
  /\ cleaned \in [ Keys -> Nat ]
  /\ { mishaps, changes } \subseteq Nat

\* The row says no more than what happened.
RowHolds ==
  /\ row.captcha => Earned.captcha
  /\ row.screening => Earned.screening
  /\ \A s \in Slots :
       /\ inter[s].result = "SUCCESS" => consumed # {}
       /\ inter[s].screened => Earned.screening
  /\ \A j \in Joins : handler[<< "update", j >>].at # "idle" => member.screened # {}

\* A job has a run while it is active, and the run has claimed its key before it
\* does anything.
RunHolds(k) ==
  /\ job[k].state = "active" <=> run[k].at # "none"
  /\ run[k].at \notin { "none", "claim" } => WasClaimed(k)
  /\ run[k].at = "roles" => k[1] \in RoleKinds
  /\ run[k].todo \subseteq Roles

RunsHold == \A k \in Keys : RunHolds(k)

\* What an evaluation found is still so when it gives the roles and queues the
\* welcomes.
VerifiedHolds ==
  changes = 0 =>
    /\ "verified" \in member.roles => IsVerified \/ WasMigrated
    /\ \A k \in Keys : run[k].satisfied => IsVerified
    /\ \A k \in Keys :
         run[k].at = "roles" /\ "verified" \in run[k].todo => IsVerified \/ k[1] = "migrate"

WelcomesHold ==
  changes = 0 =>
    \A k \in Keys : Welcome(k) /\ (job[k].state # "none" \/ sent[k] > 0) => IsVerified

\* A run that has claimed its key and has not sent anything yet, and one whose
\* message the row stands for, or will.
Pending(k) == run[k].at \in { "load", "skip", "send", "roles" }
Delivered(k) ==
  \/ run[k].at = "complete" /\ journal[k] # "NONE"
  \/ journal[k] = "SUCCEEDED" /\ ~Pending(k) /\ run[k].at # "leave"

\* Every message but the one the row stands for was paid for by a failure, a
\* restart or a deletion of the row; a run whose row was deleted under it may still
\* send one on account of that.
SentHolds(k) ==
  /\ k[1] \in RoleKinds => sent[k] = 0
  /\ k[1] \notin RoleKinds =>
       sent[k] + (IF Pending(k) /\ journal[k] = "NONE" THEN 1 ELSE 0)
         <= mishaps + cleaned[k] + (IF Delivered(k) THEN 1 ELSE 0)

DeliveredHolds == \A k \in Keys : SentHolds(k)

Inv == ShapesHold /\ RowHolds /\ RunsHold /\ VerifiedHolds /\ WelcomesHold /\ DeliveredHolds

-------------------------------------------------------------------------------
(***************************************************************************)
(* What happened only grows.                                               *)
(***************************************************************************)
LEMMA Verified ==
  IsVerified <=>
    \/ settings.condition \in { "CAPTCHA_ONLY", "EITHER" } /\ Earned.captcha
    \/ settings.condition \in { "SCREENING_ONLY", "EITHER" } /\ Earned.screening
    \/ settings.condition = "BOTH" /\ Earned.captcha /\ Earned.screening
  BY DEF IsVerified, Satisfied

LEMMA EarnedIs ==
  /\ Earned.captcha <=> consumed # {} \/ \E n \in Commands : handler[<< "verify", n >>].at # "idle"
  /\ Earned.screening <=> member.screened # {}
  BY DEF Earned

Grows ==
  /\ consumed \subseteq consumed'
  /\ member.screened \subseteq member'.screened
  /\ \A h \in Handlers : handler[h].at # "idle" => handler'[h].at # "idle"
  /\ changes' = 0 => changes = 0 /\ settings' = settings

LEMMA EarnedGrows ==
  ASSUME Grows
  PROVE  /\ Earned.captcha => Earned'.captcha
         /\ Earned.screening => Earned'.screening
         /\ changes' = 0 /\ IsVerified => IsVerified'
  <1>1. \A n \in Commands : << "verify", n >> \in Handlers
    BY DEF Handlers
  <1>2. Earned.captcha => Earned'.captcha
    BY <1>1 DEF Grows, Earned
  <1>3. Earned.screening => Earned'.screening
    BY DEF Grows, Earned
  <1>4. changes' = 0 /\ IsVerified => IsVerified'
    BY <1>2, <1>3 DEF Grows, IsVerified, Satisfied
  <1>5. QED
    BY <1>2, <1>3, <1>4

-------------------------------------------------------------------------------
(***************************************************************************)
(* The pieces of which the steps are made.                                 *)
(***************************************************************************)
RunTo(k, at) ==
  /\ run' = [ q \in Keys |-> run'[q] ]
  /\ \A q \in Keys : q # k => run'[q] = run[q]
  /\ DOMAIN run'[k] = RunFields
  /\ run'[k].at = at
  /\ run'[k].satisfied => run[k].satisfied
  /\ run'[k].todo \subseteq run[k].todo

JobTo(k, state) ==
  /\ job' = [ q \in Keys |-> job'[q] ]
  /\ \A q \in Keys : DOMAIN job'[q] = JobFields
  /\ job'[k].state = state
  /\ \A q \in Keys : q # k =>
       \/ job'[q].state = job[q].state
       \/ /\ job[q].state = "none" /\ job'[q].state = "queued"
          /\ Welcome(q) => run[k].satisfied

JournalTo(k, status) ==
  /\ journal' = [ q \in Keys |-> journal'[q] ]
  /\ journal'[k] = status
  /\ \A q \in Keys : q # k => journal'[q] = journal[q]
  /\ cleaned' = cleaned
  /\ WasClaimed(k) => WasClaimed(k)'

LEMMA Counts ==
  ASSUME ShapesHold, NEW k \in Keys
  PROVE  sent[k] \in Nat /\ cleaned[k] \in Nat /\ mishaps \in Nat
  BY DEF ShapesHold

LEMMA ReachesTo ==
  ASSUME ShapesHold, NEW k \in Keys, NEW at, Reaches(k, at)
  PROVE  RunTo(k, at)
  <1> DEFINE x == [ run[k] EXCEPT !.at = at ]
  <1>1. DOMAIN run[k] = RunFields /\ run' = [ run EXCEPT ![k] = x ] /\ run = [ q \in Keys |-> run[q] ]
    BY DEF ShapesHold, Reaches
  <1>2. DOMAIN x = RunFields /\ x.at = at /\ x.satisfied = run[k].satisfied /\ x.todo = run[k].todo
    BY <1>1 DEF RunFields
  <1> HIDE DEF x
  <1>3. run'[k] = x /\ (\A q \in Keys : q # k => run'[q] = run[q]) /\ run' = [ q \in Keys |-> run'[q] ]
    BY <1>1
  <1>4. QED
    BY <1>2, <1>3 DEF RunTo

LEMMA NoRunTo ==
  ASSUME ShapesHold, NEW k \in Keys, run' = [ run EXCEPT ![k] = NoRun ]
  PROVE  RunTo(k, "none")
  <1>1. DOMAIN NoRun = RunFields /\ NoRun.at = "none" /\ NoRun.todo = {} /\ ~ NoRun.satisfied
    BY DEF NoRun, RunFields
  <1>2. /\ run'[k] = NoRun /\ (\A q \in Keys : q # k => run'[q] = run[q])
        /\ run' = [ q \in Keys |-> run'[q] ]
    BY DEF ShapesHold
  <1>3. QED
    BY <1>1, <1>2 DEF RunTo

LEMMA JobStateTo ==
  ASSUME ShapesHold, NEW k \in Keys, NEW x, DOMAIN x = JobFields, job' = [ job EXCEPT ![k] = x ]
  PROVE  JobTo(k, x.state)
  <1>1. /\ job'[k] = x /\ (\A q \in Keys : q # k => job'[q] = job[q])
        /\ job' = [ q \in Keys |-> job'[q] ] /\ \A q \in Keys : DOMAIN job[q] = JobFields
    BY DEF ShapesHold
  <1>2. \A q \in Keys : DOMAIN job'[q] = JobFields
    BY <1>1
  <1>3. QED
    BY <1>1, <1>2 DEF JobTo

LEMMA JobFieldsOf ==
  ASSUME ShapesHold, NEW k \in Keys, NEW state, NEW attempts
  PROVE  /\ LET x == [ job[k] EXCEPT !.state = state ] IN DOMAIN x = JobFields /\ x.state = state
         /\ LET x == [ job[k] EXCEPT !.attempts = attempts, !.state = state ]
            IN  DOMAIN x = JobFields /\ x.state = state
  BY DEF ShapesHold, JobFields

LEMMA JobReaches ==
  ASSUME ShapesHold, NEW k \in Keys, NEW state, job' = [ job EXCEPT ![k].state = state ]
  PROVE  JobTo(k, state)
  <1> DEFINE x == [ job[k] EXCEPT !.state = state ]
  <1>1. DOMAIN x = JobFields /\ x.state = state /\ job' = [ job EXCEPT ![k] = x ]
    BY JobFieldsOf
  <1> HIDE DEF x
  <1>2. QED
    BY <1>1, JobStateTo

LEMMA EndsTo ==
  ASSUME ShapesHold, NEW k \in Keys, Ends(k)
  PROVE  RunTo(k, "none") /\ JobTo(k, "over")
  BY NoRunTo, JobReaches DEF Ends

LEMMA ThrowsTo ==
  ASSUME ShapesHold, NEW k \in Keys, Throws(k)
  PROVE  RunTo(k, "none") /\ \E state \in { "queued", "dead" } : JobTo(k, state)
  <1>1. RunTo(k, "none")
    BY NoRunTo DEF Throws
  <1> DEFINE attempts == job[k].attempts + 1
             state == IF attempts < MaxAttempts THEN "queued" ELSE "dead"
             x == [ job[k] EXCEPT !.attempts = attempts, !.state = state ]
  <1>2. job' = [ job EXCEPT ![k] = x ]
    <2>1. job' = [ job EXCEPT ![k].attempts = attempts, ![k].state = state ]
      BY DEF Throws
    <2> HIDE DEF attempts, state
    <2>2. job = [ q \in Keys |-> job[q] ] /\ DOMAIN job[k] = JobFields
      BY DEF ShapesHold
    <2>3. QED
      BY <2>1, <2>2 DEF JobFields
  <1>3. state \in { "queued", "dead" }
    OBVIOUS
  <1> HIDE DEF attempts, state
  <1>4. DOMAIN x = JobFields /\ x.state = state
    BY JobFieldsOf
  <1> HIDE DEF x
  <1>5. JobTo(k, state)
    BY <1>2, <1>4, JobStateTo
  <1>6. QED
    BY <1>1, <1>3, <1>5

LEMMA JobKept ==
  ASSUME ShapesHold, NEW k \in Keys, UNCHANGED job
  PROVE  JobTo(k, job[k].state)
  BY DEF ShapesHold, JobTo

LEMMA JournalKept ==
  ASSUME ShapesHold, NEW k \in Keys, UNCHANGED << journal, cleaned >>
  PROVE  JournalTo(k, journal[k])
  BY DEF ShapesHold, JournalTo, WasClaimed

LEMMA SettleTo ==
  ASSUME ShapesHold, NEW k \in Keys, NEW status, status # "NONE", Settle(k, status)
  PROVE  JournalTo(k, status)
  BY DEF ShapesHold, Settle, JournalTo, WasClaimed

LEMMA ClaimTo ==
  ASSUME ShapesHold, NEW k \in Keys, Claim(k)
  PROVE  JournalTo(k, "PROCESSING")
  BY DEF ShapesHold, Claim, JournalTo, WasClaimed

-------------------------------------------------------------------------------
(***************************************************************************)
(* A step of the worker.                                                   *)
(***************************************************************************)

\* The steps of a run change no more than this, except that Load fills in what
\* an evaluation found.
LEMMA DeliveryKeeps ==
  ASSUME Inv, NEW k \in Keys, NEW at, NEW state, NEW status,
         run' = [ q \in Keys |-> run'[q] ],
         \A q \in Keys : q # k => run'[q] = run[q],
         DOMAIN run'[k] = RunFields, run'[k].at = at, run'[k].todo \subseteq Roles,
         run'[k].satisfied => run[k].satisfied \/ IsVerified,
         at = "roles" /\ "verified" \in run'[k].todo =>
           (run[k].at = "roles" /\ "verified" \in run[k].todo) \/ IsVerified \/ k[1] = "migrate",
         JobTo(k, state), JournalTo(k, status),
         UNCHANGED << captchaVars, settings, handler, changes, inter >>,
         state = "active" <=> at # "none",
         at \notin { "none", "claim" } => WasClaimed(k) \/ status # "NONE",
         at = "roles" => k[1] \in RoleKinds,
         job[k].state # "none",
         DOMAIN member' = { "join", "screened", "roles" }, member'.screened = member.screened,
         "verified" \in member'.roles =>
           "verified" \in member.roles \/ (run[k].at = "roles" /\ "verified" \in run[k].todo),
         DOMAIN row' = RowFields, row'.captcha => row.captcha, row'.screening => row.screening,
         sent' \in [ Keys -> Nat ],
         \A q \in Keys : q # k => sent'[q] = sent[q],
         mishaps' \in { mishaps, mishaps + 1 },
         SentHolds(k) => SentHolds(k)'
  PROVE  Inv'
  <1> USE DEF Inv
  <1>1. consumed' = consumed /\ changes' = changes /\ settings' = settings /\ handler' = handler
        /\ inter' = inter
    BY DEF captchaVars
  <1>2. ShapesHold'
    <2>1. \A q \in Keys : DOMAIN run'[q] = RunFields
      BY DEF ShapesHold
    <2>2. job' = [ q \in Keys |-> job'[q] ] /\ \A q \in Keys : DOMAIN job'[q] = JobFields
      BY DEF JobTo
    <2>3. journal' = [ q \in Keys |-> journal'[q] ] /\ cleaned' \in [ Keys -> Nat ]
      BY DEF JournalTo, ShapesHold
    <2>4. mishaps' \in Nat /\ changes' \in Nat
      BY <1>1 DEF ShapesHold
    <2>5. /\ handler' = [ h \in Handlers |-> handler'[h] ]
          /\ \A h \in Handlers :
               /\ DOMAIN handler'[h] = HandlerFields
               /\ handler'[h].todo \in Seq(HandlerKeys)
               /\ handler'[h].at = "jobs" => handler'[h].todo # << >>
          /\ inter' = [ s \in Slots |-> inter'[s] ] /\ \A s \in Slots : DOMAIN inter'[s] = InterFields
      BY <1>1 DEF ShapesHold
    <2>6. QED
      BY <2>1, <2>2, <2>3, <2>4, <2>5 DEF ShapesHold
  <1>3. /\ Earned'.captcha <=> Earned.captcha
        /\ Earned'.screening <=> Earned.screening
        /\ IsVerified' <=> IsVerified
    BY <1>1 DEF Earned, IsVerified, Satisfied
  <1>4. RowHolds'
    BY <1>1, <1>3 DEF RowHolds
  <1>5. RunsHold'
    <2>1. RunHolds(k)'
      <3>1. job'[k].state = state /\ journal'[k] = status
        BY DEF JobTo, JournalTo
      <3>2. QED
        BY <3>1 DEF RunHolds, JournalTo, WasClaimed
    <2>2. ASSUME NEW q \in Keys, q # k PROVE RunHolds(q)'
      <3>1. run'[q] = run[q] /\ (WasClaimed(q) => WasClaimed(q)') /\ RunHolds(q)
        BY <2>2 DEF JournalTo, RunsHold, WasClaimed
      <3>2. job'[q].state = "active" <=> job[q].state = "active"
        BY <2>2 DEF JobTo
      <3>3. QED
        BY <3>1, <3>2 DEF RunHolds
    <2>3. QED
      BY <2>1, <2>2 DEF RunsHold
  <1>6. WasMigrated => WasMigrated'
    BY DEF WasMigrated, WasClaimed, JournalTo
  <1>7. RunHolds(k)
    BY DEF RunsHold
  <1>8. VerifiedHolds'
    <2> SUFFICES ASSUME changes' = 0
                 PROVE  /\ "verified" \in member'.roles => IsVerified \/ WasMigrated'
                        /\ \A q \in Keys : run'[q].satisfied => IsVerified
                        /\ \A q \in Keys : run'[q].at = "roles" /\ "verified" \in run'[q].todo
                                              => IsVerified \/ q[1] = "migrate"
      BY <1>3 DEF VerifiedHolds
    <2>1. /\ "verified" \in member.roles => IsVerified \/ WasMigrated
          /\ \A q \in Keys : run[q].satisfied => IsVerified
          /\ \A q \in Keys : run[q].at = "roles" /\ "verified" \in run[q].todo
                                => IsVerified \/ q[1] = "migrate"
      BY <1>1 DEF VerifiedHolds
    <2>2. run[k].at = "roles" => WasClaimed(k)
      BY <1>7 DEF RunHolds
    <2>3. "verified" \in member'.roles => IsVerified \/ WasMigrated
      BY <2>1, <2>2 DEF WasMigrated
    <2>4. \A q \in Keys : run'[q].satisfied => IsVerified
      BY <2>1
    <2>5. \A q \in Keys : run'[q].at = "roles" /\ "verified" \in run'[q].todo
                            => IsVerified \/ q[1] = "migrate"
      BY <2>1
    <2>6. QED
      BY <1>6, <2>3, <2>4, <2>5
  <1>9. WelcomesHold'
    <2> SUFFICES ASSUME changes' = 0, NEW q \in Keys, Welcome(q), job'[q].state # "none" \/ sent'[q] > 0
                 PROVE  IsVerified
      BY <1>3 DEF WelcomesHold
    <2>1. /\ \A p \in Keys : run[p].satisfied => IsVerified
          /\ \A p \in Keys : Welcome(p) /\ (job[p].state # "none" \/ sent[p] > 0) => IsVerified
      BY <1>1 DEF VerifiedHolds, WelcomesHold
    <2>2. CASE q = k
      BY <2>1, <2>2
    <2>3. CASE q # k
      <3>1. sent'[q] = sent[q]
        BY <2>3
      <3>2. job'[q].state = job[q].state \/ (Welcome(q) => run[k].satisfied)
        BY <2>3 DEF JobTo
      <3>3. QED
        BY <2>1, <3>1, <3>2
    <2>4. QED
      BY <2>2, <2>3
  <1>10. DeliveredHolds'
    <2> SUFFICES ASSUME NEW q \in Keys PROVE SentHolds(q)'
      BY DEF DeliveredHolds
    <2>1. SentHolds(q)
      BY DEF DeliveredHolds
    <2>2. CASE q = k
      BY <2>1, <2>2
    <2>3. CASE q # k
      <3>1. /\ run'[q] = run[q] /\ journal'[q] = journal[q] /\ sent'[q] = sent[q]
            /\ cleaned' = cleaned
        BY <2>3 DEF JournalTo
      <3>2. QED
        BY <2>1, <3>1, Counts DEF SentHolds, Pending, Delivered
    <2>4. QED
      BY <2>2, <2>3
  <1>11. QED
    BY <1>2, <1>4, <1>5, <1>8, <1>9, <1>10

\* The steps after which the row, the roles and what was sent are as they were.
LEMMA DeliveryGoes ==
  ASSUME Inv, NEW k \in Keys, NEW at, NEW state, NEW status,
         RunTo(k, at), JobTo(k, state), JournalTo(k, status),
         UNCHANGED << captchaVars, settings, handler, changes, inter, row, member, sent >>,
         state = "active" <=> at # "none",
         at \notin { "none", "claim" } => WasClaimed(k) \/ status # "NONE",
         at = "roles" => run[k].at = "roles",
         job[k].state # "none",
         mishaps' \in { mishaps, mishaps + 1 },
         SentHolds(k) => SentHolds(k)'
  PROVE  Inv'
  <1>1. /\ run' = [ q \in Keys |-> run'[q] ]
        /\ \A q \in Keys : q # k => run'[q] = run[q]
        /\ DOMAIN run'[k] = RunFields /\ run'[k].at = at
        /\ run'[k].satisfied => run[k].satisfied
        /\ run'[k].todo \subseteq run[k].todo
    BY DEF RunTo
  <1>2. RunHolds(k) /\ run'[k].todo \subseteq Roles
    BY <1>1 DEF Inv, RunsHold, RunHolds
  <1>3. /\ DOMAIN member' = { "join", "screened", "roles" } /\ member' = member
        /\ DOMAIN row' = RowFields /\ row' = row
        /\ sent' = sent /\ sent' \in [ Keys -> Nat ]
    BY DEF Inv, ShapesHold
  <1>5. at = "roles" => k[1] \in RoleKinds
    BY <1>2 DEF RunHolds
  <1>6. at = "roles" /\ "verified" \in run'[k].todo =>
           (run[k].at = "roles" /\ "verified" \in run[k].todo) \/ IsVerified \/ k[1] = "migrate"
    BY <1>1
  <1>7. QED
    BY <1>1, <1>2, <1>3, <1>5, <1>6, DeliveryKeeps

LEMMA WithJobTo ==
  ASSUME NEW jobs, jobs = [ q \in Keys |-> jobs[q] ], \A q \in Keys : DOMAIN jobs[q] = JobFields,
         NEW key, NEW join
  PROVE  /\ WithJob(jobs, key, join) = [ q \in Keys |-> WithJob(jobs, key, join)[q] ]
         /\ \A q \in Keys :
              /\ DOMAIN WithJob(jobs, key, join)[q] = JobFields
              /\ \/ WithJob(jobs, key, join)[q].state = jobs[q].state
                 \/ /\ q = key /\ jobs[q].state = "none"
                    /\ WithJob(jobs, key, join)[q].state = "queued"
  <1> DEFINE x == [ state |-> "queued", join |-> join, attempts |-> 0, stalled |-> FALSE ]
  <1>1. DOMAIN x = JobFields /\ x.state = "queued"
    BY DEF JobFields
  <1>2. WithJob(jobs, key, join) = IF jobs[key].state = "none" THEN [ jobs EXCEPT ![key] = x ] ELSE jobs
    BY DEF WithJob
  <1> HIDE DEF x
  <1>3. CASE jobs[key].state = "none"
    <2>1. WithJob(jobs, key, join) = [ jobs EXCEPT ![key] = x ]
      BY <1>2, <1>3
    <2>2. WithJob(jobs, key, join) = [ q \in Keys |-> IF q = key THEN x ELSE jobs[q] ]
      BY <2>1
    <2>3. QED
      BY <2>2, <1>1, <1>3
  <1>4. CASE jobs[key].state # "none"
    BY <1>2, <1>4
  <1>5. QED
    BY <1>3, <1>4

LEMMA TakeKeeps ==
  ASSUME Inv, NEW k \in Keys, Take(k), UNCHANGED interactionVars
  PROVE  Inv'
  <1>1. ShapesHold /\ RunHolds(k) /\ inter' = inter
    BY DEF Inv, RunsHold, interactionVars
  <1>2. RunTo(k, "claim") /\ JobTo(k, "active") /\ JournalTo(k, journal[k])
    BY <1>1, ReachesTo, JobReaches, JournalKept DEF Take
  <1>3. /\ job[k].state = "queued" /\ run[k].at = "none"
        /\ UNCHANGED << captchaVars, settings, handler, changes, inter, row, member, sent >>
        /\ mishaps' = mishaps /\ UNCHANGED << journal, cleaned >>
    BY <1>1 DEF Take, outside, RunHolds
  <1>4. run'[k].at = "claim"
    BY <1>2 DEF RunTo
  <1>5. SentHolds(k) => SentHolds(k)'
    BY <1>1, <1>2, <1>3, <1>4, Counts
       DEF SentHolds, Pending, Delivered, JournalTo
  <1>6. QED
    BY <1>2, <1>3, <1>5, DeliveryGoes

LEMMA ClaimRunKeeps ==
  ASSUME Inv, NEW k \in Keys, ClaimRun(k), UNCHANGED interactionVars
  PROVE  Inv'
  <1>1. ShapesHold /\ RunHolds(k) /\ inter' = inter
    BY DEF Inv, RunsHold, interactionVars
  <1>2. RunTo(k, "load") /\ JobTo(k, job[k].state) /\ JournalTo(k, "PROCESSING")
    BY <1>1, ReachesTo, JobKept, ClaimTo DEF ClaimRun
  <1>3. /\ job[k].state = "active" /\ run[k].at = "claim"
        /\ UNCHANGED << captchaVars, settings, handler, changes, inter, row, member, sent >>
        /\ mishaps' = mishaps /\ journal[k] # "SUCCEEDED"
    BY <1>1 DEF ClaimRun, outside, RunHolds, Claim, Claimable
  <1>4. run'[k].at = "load"
    BY <1>2 DEF RunTo
  <1>5. SentHolds(k) => SentHolds(k)'
    BY <1>1, <1>2, <1>3, <1>4, Counts
       DEF SentHolds, Pending, Delivered, JournalTo
  <1>6. QED
    BY <1>2, <1>3, <1>5, DeliveryGoes

LEMMA ClaimRefusedKeeps ==
  ASSUME Inv, NEW k \in Keys, ClaimRefused(k), UNCHANGED interactionVars
  PROVE  Inv'
  <1>1. ShapesHold /\ RunHolds(k) /\ inter' = inter
    BY DEF Inv, RunsHold, interactionVars
  <1>2. RunTo(k, "none") /\ JobTo(k, "over") /\ JournalTo(k, journal[k])
    BY <1>1, EndsTo, JournalKept DEF ClaimRefused
  <1>3. /\ job[k].state = "active" /\ run[k].at = "claim"
        /\ UNCHANGED << captchaVars, settings, handler, changes, inter, row, member, sent >>
        /\ mishaps' = mishaps /\ UNCHANGED << journal, cleaned >>
    BY <1>1 DEF ClaimRefused, outside, RunHolds
  <1>4. run'[k].at = "none"
    BY <1>2 DEF RunTo
  <1>5. SentHolds(k) => SentHolds(k)'
    BY <1>1, <1>2, <1>3, <1>4, Counts
       DEF SentHolds, Pending, Delivered, JournalTo
  <1>6. QED
    BY <1>2, <1>3, <1>5, DeliveryGoes

LEMMA SkipKeeps ==
  ASSUME Inv, NEW k \in Keys, Skip(k), UNCHANGED interactionVars
  PROVE  Inv'
  <1>1. ShapesHold /\ RunHolds(k) /\ inter' = inter
    BY DEF Inv, RunsHold, interactionVars
  <1>2. RunTo(k, "none") /\ JobTo(k, "over") /\ JournalTo(k, "SKIPPED")
    BY <1>1, EndsTo, SettleTo DEF Skip
  <1>3. /\ job[k].state = "active" /\ run[k].at = "skip"
        /\ UNCHANGED << captchaVars, settings, handler, changes, inter, row, member, sent >>
        /\ mishaps' = mishaps
    BY <1>1 DEF Skip, outside, RunHolds
  <1>4. run'[k].at = "none"
    BY <1>2 DEF RunTo
  <1>5. SentHolds(k) => SentHolds(k)'
    BY <1>1, <1>2, <1>3, <1>4, Counts
       DEF SentHolds, Pending, Delivered, JournalTo
  <1>6. QED
    BY <1>2, <1>3, <1>5, DeliveryGoes

LEMMA QueueDeleteKeeps ==
  ASSUME Inv, NEW k \in Keys, QueueDelete(k), UNCHANGED interactionVars
  PROVE  Inv'
  <1>1. ShapesHold /\ RunHolds(k) /\ inter' = inter
    BY DEF Inv, RunsHold, interactionVars
  <1>2. RunTo(k, "none") /\ JournalTo(k, journal[k])
    BY <1>1, NoRunTo, JournalKept DEF QueueDelete
  <1>3. /\ job[k].state = "active" /\ run[k].at = "follow"
        /\ UNCHANGED << captchaVars, settings, handler, changes, inter, row, member, sent >>
        /\ mishaps' = mishaps /\ UNCHANGED << journal, cleaned >>
    BY <1>1 DEF QueueDelete, outside, RunHolds
  <1>4. JobTo(k, "over")
    <2> DEFINE x == [ job[k] EXCEPT !.state = "over" ]
               over == [ job EXCEPT ![k] = x ]
               key == << "delete", k[2], k[3] >>
    <2>1. DOMAIN x = JobFields /\ x.state = "over" /\ over = [ job EXCEPT ![k].state = "over" ]
      BY <1>1, JobFieldsOf
    <2>2. job' = IF k \in posted THEN WithJob(over, key, Absent) ELSE over
      BY <2>1 DEF QueueDelete
    <2>3. ~ Welcome(key)
      BY DEF Welcome
    <2> HIDE DEF x, key
    <2>4. /\ over[k] = x /\ over = [ q \in Keys |-> over[q] ]
          /\ \A q \in Keys : q # k => over[q] = job[q]
      BY <1>1 DEF ShapesHold
    <2> HIDE DEF over
    <2>5. \A q \in Keys : DOMAIN over[q] = JobFields
      BY <1>1, <2>1, <2>4 DEF ShapesHold
    <2>6. CASE k \in posted
      <3>1. job' = WithJob(over, key, Absent)
        BY <2>2, <2>6
      <3>2. /\ job' = [ q \in Keys |-> job'[q] ]
            /\ \A q \in Keys :
                 /\ DOMAIN job'[q] = JobFields
                 /\ \/ job'[q].state = over[q].state
                    \/ q = key /\ over[q].state = "none" /\ job'[q].state = "queued"
        BY <2>4, <2>5, <3>1, WithJobTo
      <3>3. job'[k].state = "over"
        BY <3>2, <2>1, <2>4
      <3>4. \A q \in Keys : q # k =>
               \/ job'[q].state = job[q].state
               \/ job[q].state = "none" /\ job'[q].state = "queued" /\ ~ Welcome(q)
        BY <3>2, <2>3, <2>4
      <3>5. QED
        BY <3>2, <3>3, <3>4 DEF JobTo
    <2>7. CASE k \notin posted
      BY <2>1, <2>2, <2>4, <2>5, <2>7 DEF JobTo
    <2>8. QED
      BY <2>6, <2>7
  <1>5. run'[k].at = "none"
    BY <1>2 DEF RunTo
  <1>6. SentHolds(k) => SentHolds(k)'
    BY <1>1, <1>2, <1>3, <1>4, <1>5, Counts
       DEF SentHolds, Pending, Delivered, JournalTo
  <1>7. QED
    BY <1>2, <1>3, <1>4, <1>6, DeliveryGoes

LEMMA QueueWelcomeKeeps ==
  ASSUME Inv, NEW k \in Keys, QueueWelcome(k), UNCHANGED interactionVars
  PROVE  Inv'
  <1>1. ShapesHold /\ RunHolds(k) /\ inter' = inter
    BY DEF Inv, RunsHold, interactionVars
  <1>2. RunTo(k, "none") /\ JournalTo(k, journal[k])
    BY <1>1, NoRunTo, JournalKept DEF QueueWelcome, EndsWith
  <1>3. /\ job[k].state = "active" /\ run[k].at = "follow"
        /\ UNCHANGED << captchaVars, settings, handler, changes, inter, row, member, sent >>
        /\ mishaps' = mishaps /\ UNCHANGED << journal, cleaned >>
    BY <1>1 DEF QueueWelcome, outside, RunHolds
  <1>4. JobTo(k, "over")
    <2> DEFINE keys == IF run[k].satisfied THEN WelcomeKeys(k) ELSE {}
               x == [ job[k] EXCEPT !.state = "over" ]
    <2>1. job' = [ key \in Keys |-> IF key = k THEN x
                                  ELSE IF key \in keys THEN WithJob(job, key, job[k].join)[key]
                                  ELSE job[key] ]
      BY DEF QueueWelcome, EndsWith
    <2>2. DOMAIN x = JobFields /\ x.state = "over"
      BY <1>1, JobFieldsOf
    <2>3. \A key \in keys : run[k].satisfied
      OBVIOUS
    <2> HIDE DEF keys, x
    <2>4. ASSUME NEW q \in Keys, q # k
          PROVE  /\ DOMAIN job'[q] = JobFields
                 /\ \/ job'[q].state = job[q].state
                    \/ /\ job[q].state = "none" /\ job'[q].state = "queued"
                       /\ run[k].satisfied
      <3>1. CASE q \in keys
        <4>1. job'[q] = WithJob(job, q, job[k].join)[q]
          BY <2>1, <2>4, <3>1
        <4>2. job = [ p \in Keys |-> job[p] ] /\ \A p \in Keys : DOMAIN job[p] = JobFields
          BY <1>1 DEF ShapesHold
        <4>3. /\ DOMAIN WithJob(job, q, job[k].join)[q] = JobFields
              /\ \/ WithJob(job, q, job[k].join)[q].state = job[q].state
                 \/ job[q].state = "none" /\ WithJob(job, q, job[k].join)[q].state = "queued"
          BY <4>2, WithJobTo
        <4>4. QED
          BY <4>1, <4>3, <2>3, <3>1
      <3>2. CASE q \notin keys
        BY <1>1, <2>1, <2>4, <3>2 DEF ShapesHold
      <3>3. QED
        BY <3>1, <3>2
    <2>5. job'[k] = x /\ job' = [ q \in Keys |-> job'[q] ]
      BY <2>1
    <2>6. QED
      BY <2>2, <2>4, <2>5 DEF JobTo
  <1>5. run'[k].at = "none"
    BY <1>2 DEF RunTo
  <1>6. SentHolds(k) => SentHolds(k)'
    BY <1>1, <1>2, <1>3, <1>4, <1>5, Counts
       DEF SentHolds, Pending, Delivered, JournalTo
  <1>7. QED
    BY <1>2, <1>3, <1>4, <1>6, DeliveryGoes

LEMMA CompleteRolesKeeps ==
  ASSUME Inv, NEW k \in Keys, CompleteRoles(k), UNCHANGED interactionVars
  PROVE  Inv'
  <1> DEFINE status == IF run[k].failed THEN "FAILED" ELSE "SUCCEEDED"
             at == IF k[1] = "evaluate" THEN "after" ELSE "none"
             state == IF k[1] = "evaluate" THEN job[k].state ELSE "over"
  <1>1. ShapesHold /\ RunHolds(k) /\ inter' = inter
    BY DEF Inv, RunsHold, interactionVars
  <1>2. RunTo(k, at) /\ JobTo(k, state)
    BY <1>1, ReachesTo, EndsTo, JobKept DEF CompleteRoles
  <1>3. JournalTo(k, status)
    BY <1>1, SettleTo DEF CompleteRoles
  <1>4. /\ job[k].state = "active" /\ run[k].at = "complete" /\ k[1] \in RoleKinds
        /\ UNCHANGED << captchaVars, settings, handler, changes, inter, row, member, sent >>
        /\ mishaps' = mishaps
    BY <1>1 DEF CompleteRoles, outside, RunHolds, RoleKinds
  <1>5. status # "NONE" /\ at # "roles" /\ (state = "active" <=> at # "none")
    BY <1>4
  <1>6. run'[k].at = at /\ at \notin { "leave", "load", "skip", "send" }
    BY <1>2 DEF RunTo
  <1> HIDE DEF at, state, status
  <1>7. SentHolds(k) => SentHolds(k)'
    BY <1>1, <1>2, <1>3, <1>4, <1>5, <1>6, Counts
       DEF SentHolds, Pending, Delivered, JournalTo
  <1>8. QED
    BY <1>2, <1>3, <1>4, <1>5, <1>7, DeliveryGoes

LEMMA CompleteDeliveryKeeps ==
  ASSUME Inv, NEW k \in Keys, CompleteDelivery(k), UNCHANGED interactionVars
  PROVE  Inv'
  <1> DEFINE follows == k[1] \in { "channel", "dm", "goodbye" }
             at == IF follows THEN "follow" ELSE "none"
             state == IF follows THEN job[k].state ELSE "over"
  <1>1. ShapesHold /\ RunHolds(k) /\ inter' = inter
    BY DEF Inv, RunsHold, interactionVars
  <1>2. RunTo(k, at) /\ JobTo(k, state)
    BY <1>1, ReachesTo, EndsTo, JobKept DEF CompleteDelivery
  <1>3. JournalTo(k, "SUCCEEDED")
    BY <1>1, SettleTo DEF CompleteDelivery
  <1>4. /\ job[k].state = "active" /\ run[k].at = "complete"
        /\ UNCHANGED << captchaVars, settings, handler, changes, inter, row, member, sent >>
        /\ mishaps' = mishaps
    BY <1>1 DEF CompleteDelivery, outside, RunHolds
  <1>5. at # "roles" /\ (state = "active" <=> at # "none")
    BY <1>4
  <1>6. run'[k].at = at /\ at \notin { "leave", "load", "skip", "send" } /\ journal'[k] = "SUCCEEDED"
    BY <1>2, <1>3 DEF RunTo, JournalTo
  <1> HIDE DEF at, state
  <1>7. SentHolds(k) => SentHolds(k)'
    BY <1>1, <1>2, <1>3, <1>4, <1>5, <1>6, Counts
       DEF SentHolds, Pending, Delivered, JournalTo
  <1>8. QED
    BY <1>2, <1>3, <1>4, <1>5, <1>7, DeliveryGoes

LEMMA AbandonKeeps ==
  ASSUME Inv, NEW k \in Keys, Abandon(k), UNCHANGED interactionVars
  PROVE  Inv'
  <1>1. ShapesHold /\ RunHolds(k) /\ inter' = inter
    BY DEF Inv, RunsHold, interactionVars
  <1>2. PICK state \in { "queued", "dead" } : JobTo(k, state)
    BY <1>1, ThrowsTo DEF Abandon
  <1>3. RunTo(k, "none") /\ JournalTo(k, "FAILED")
    BY <1>1, ThrowsTo, SettleTo DEF Abandon
  <1>4. /\ job[k].state = "active" /\ (run[k].at = "leave" \/ k[1] \in RoleKinds)
        /\ UNCHANGED << captchaVars, settings, handler, changes, inter, row, member, sent >>
        /\ mishaps' = mishaps
    BY <1>1 DEF Abandon, outside, RunHolds
  <1>5. run'[k].at = "none"
    BY <1>3 DEF RunTo
  <1>6. SentHolds(k) => SentHolds(k)'
    BY <1>1, <1>2, <1>3, <1>4, <1>5, Counts
       DEF SentHolds, Pending, Delivered, JournalTo
  <1>7. QED
    BY <1>2, <1>3, <1>4, <1>6, DeliveryGoes

LEMMA RunFailsKeeps ==
  ASSUME Inv, NEW k \in Keys, RunFails(k), UNCHANGED interactionVars
  PROVE  Inv'
  <1>1. ShapesHold /\ RunHolds(k) /\ inter' = inter
    BY DEF Inv, RunsHold, interactionVars
  <1>2. /\ job[k].state = "active" /\ run[k].at # "none"
        /\ UNCHANGED << captchaVars, settings, handler, changes, inter, row, member, sent >>
        /\ mishaps' = mishaps + 1 /\ UNCHANGED << journal, cleaned >>
    BY <1>1 DEF RunFails, outside, RunHolds
  <1>4. JournalTo(k, journal[k])
    BY <1>1, <1>2, JournalKept
  <1>5. CASE run[k].at = "claim"
    <2>1. PICK state \in { "queued", "dead" } : JobTo(k, state)
      BY <1>1, <1>5, ThrowsTo DEF RunFails
    <2>2. RunTo(k, "none")
      BY <1>1, <1>5, ThrowsTo DEF RunFails
    <2>3. run'[k].at = "none"
      BY <2>2 DEF RunTo
    <2>4. SentHolds(k) => SentHolds(k)'
      BY <1>1, <1>2, <1>4, <1>5, <2>3, Counts DEF SentHolds, Pending, Delivered, JournalTo
    <2>5. QED
      BY <1>2, <1>4, <2>1, <2>2, <2>4, DeliveryGoes
  <1>6. CASE run[k].at # "claim"
    <2>1. RunTo(k, "leave") /\ JobTo(k, job[k].state)
      BY <1>1, <1>6, ReachesTo, JobKept DEF RunFails
    <2>2. WasClaimed(k)
      BY <1>1, <1>2, <1>6 DEF RunHolds
    <2>3. run'[k].at = "leave"
      BY <2>1 DEF RunTo
    <2>4. SentHolds(k) => SentHolds(k)'
      BY <1>1, <1>2, <1>4, <2>3, Counts DEF SentHolds, Pending, Delivered, JournalTo
    <2>5. QED
      BY <1>2, <1>4, <2>1, <2>2, <2>4, DeliveryGoes
  <1>7. QED
    BY <1>5, <1>6

LEMMA RoleRefusedKeeps ==
  ASSUME Inv, NEW k \in Keys, RoleRefused(k), UNCHANGED interactionVars
  PROVE  Inv'
  <1>1. ShapesHold /\ RunHolds(k) /\ inter' = inter
    BY DEF Inv, RunsHold, interactionVars
  <1>2. /\ job[k].state = "active" /\ run[k].at = "roles"
        /\ UNCHANGED << captchaVars, settings, handler, changes, inter, row, member, sent >>
        /\ mishaps' \in { mishaps, mishaps + 1 } /\ UNCHANGED << journal, cleaned >> /\ job' = job
        /\ WasClaimed(k)
    BY <1>1 DEF RoleRefused, outside, RunHolds
  <1>3. RunTo(k, "roles")
    <2> DEFINE todo == IF settings.continueOnError THEN run[k].todo \ { NextRole(run[k].todo) } ELSE {}
               x == [ run[k] EXCEPT !.failed = TRUE, !.error = TRUE, !.todo = todo ]
    <2>1. todo \subseteq run[k].todo
      OBVIOUS
    <2>2. /\ DOMAIN run[k] = RunFields /\ run = [ q \in Keys |-> run[q] ]
          /\ run' = [ run EXCEPT ![k].failed = TRUE, ![k].error = TRUE, ![k].todo = todo ]
      BY <1>1 DEF ShapesHold, RoleRefused
    <2> HIDE DEF todo
    <2>3. run' = [ run EXCEPT ![k] = x ]
      BY <2>2 DEF RunFields
    <2>4. DOMAIN x = RunFields /\ x.at = "roles" /\ x.satisfied = run[k].satisfied /\ x.todo = todo
      BY <1>2, <2>2 DEF RunFields
    <2> HIDE DEF x
    <2>5. run'[k] = x /\ (\A q \in Keys : q # k => run'[q] = run[q]) /\ run' = [ q \in Keys |-> run'[q] ]
      BY <2>2, <2>3
    <2>6. QED
      BY <2>1, <2>4, <2>5 DEF RunTo
  <1>4. JobTo(k, job[k].state) /\ JournalTo(k, journal[k])
    BY <1>1, <1>2, JobKept, JournalKept
  <1>5. run'[k].at = "roles"
    BY <1>3 DEF RunTo
  <1>6. SentHolds(k) => SentHolds(k)'
    BY <1>1, <1>2, <1>3, <1>4, <1>5, Counts
       DEF SentHolds, Pending, Delivered, JournalTo
  <1>7. QED
    BY <1>2, <1>3, <1>4, <1>6, DeliveryGoes

LEMMA StutterKeeps ==
  ASSUME Inv, UNCHANGED << captchaVars, settings, handler, changes, row, member, sent, job, mishaps,
                           run, journal, cleaned, inter >>
  PROVE  Inv'
  <1>1. consumed' = consumed
    BY DEF captchaVars
  <1>2. IsVerified' = IsVerified /\ Earned' = Earned /\ WasMigrated' = WasMigrated
    BY <1>1 DEF IsVerified, Earned, WasMigrated, WasClaimed, Satisfied
  <1>3. ShapesHold' /\ RowHolds'
    BY <1>1, <1>2 DEF Inv, ShapesHold, RowHolds
  <1>4. RunsHold' /\ VerifiedHolds' /\ WelcomesHold'
    BY <1>2 DEF Inv, RunsHold, RunHolds, WasClaimed, VerifiedHolds, WelcomesHold
  <1>5. DeliveredHolds'
    BY DEF Inv, DeliveredHolds, SentHolds, Pending, Delivered
  <1>6. QED
    BY <1>3, <1>4, <1>5 DEF Inv

LEMMA AgesKeeps ==
  ASSUME Inv, NEW k \in Keys, Ages(k), UNCHANGED interactionVars
  PROVE  Inv'
  <1>1. UNCHANGED << captchaVars, settings, handler, changes, row, member, sent, job, mishaps, run,
                     journal, cleaned, inter >>
    BY DEF Ages, ClaimAges, outside, interactionVars
  <1>2. QED
    BY <1>1, StutterKeeps

\* What an evaluation finds is what happened.
LEMMA LoadKeeps ==
  ASSUME Inv, NEW k \in Keys, Load(k), UNCHANGED interactionVars
  PROVE  Inv'
  <1>1. ShapesHold /\ RunHolds(k) /\ inter' = inter /\ RowHolds
    BY DEF Inv, RunsHold, interactionVars
  <1>2. /\ job[k].state = "active" /\ run[k].at = "load" /\ WasClaimed(k)
        /\ UNCHANGED << captchaVars, settings, handler, changes, inter, row, member, sent >>
        /\ mishaps' = mishaps /\ UNCHANGED << journal, cleaned >> /\ job' = job
    BY <1>1 DEF Load, outside, RunHolds
  <1>3. JobTo(k, job[k].state) /\ JournalTo(k, journal[k])
    BY <1>1, <1>2, JobKept, JournalKept
  <1>4. ASSUME NEW at \in { "skip", "send" }, Reaches(k, at)
        PROVE  Inv'
    <2>1. RunTo(k, at) /\ run'[k].at = at
      BY <1>1, <1>4, ReachesTo DEF RunTo
    <2>2. SentHolds(k) => SentHolds(k)'
      BY <1>1, <1>2, <1>3, <2>1, Counts DEF SentHolds, Pending, Delivered, JournalTo
    <2>3. QED
      BY <1>2, <1>3, <2>1, <2>2, DeliveryGoes
  <1> DEFINE satisfied == k[1] = "evaluate" /\ Satisfied(settings.condition, row)
             at == IF k[1] = "migrate" /\ Wanted(k, FALSE) = {} THEN "complete" ELSE "roles"
             x == [ at |-> at, satisfied |-> satisfied, failed |-> FALSE, error |-> FALSE,
                    todo |-> Wanted(k, satisfied) ]
  <1>5. CASE k[1] \in RoleKinds /\ run' = [ run EXCEPT ![k] = x ]
    <2>1. satisfied => IsVerified
      BY <1>1 DEF RowHolds, Satisfied, IsVerified
    <2>2. Wanted(k, satisfied) \subseteq Roles
      BY DEF Wanted
    <2>3. "verified" \in Wanted(k, satisfied) => satisfied \/ k[1] = "migrate"
      BY <1>5 DEF Wanted, RoleKinds
    <2>0. at \in { "complete", "roles" }
      OBVIOUS
    <2>4. /\ DOMAIN x = RunFields /\ x.at = at /\ x.todo = Wanted(k, satisfied)
          /\ x.satisfied => satisfied
      BY DEF RunFields
    <2> HIDE DEF x, at
    <2>5. run'[k] = x /\ (\A q \in Keys : q # k => run'[q] = run[q]) /\ run' = [ q \in Keys |-> run'[q] ]
      BY <1>1, <1>5 DEF ShapesHold
    <2>6. /\ DOMAIN run'[k] = RunFields /\ run'[k].at = at /\ run'[k].todo \subseteq Roles
          /\ run'[k].satisfied => run[k].satisfied \/ IsVerified
          /\ "verified" \in run'[k].todo => IsVerified \/ k[1] = "migrate"
      BY <2>1, <2>2, <2>3, <2>4, <2>5
    <2>7. SentHolds(k) => SentHolds(k)'
      BY <2>1, <2>2, <2>3, <2>4, <2>5, <2>6, <1>1, <1>2, <1>3, Counts
         DEF SentHolds, Pending, Delivered, JournalTo
    <2>8. /\ DOMAIN member' = { "join", "screened", "roles" } /\ member' = member
          /\ DOMAIN row' = RowFields /\ row' = row
          /\ sent' = sent /\ sent' \in [ Keys -> Nat ]
      BY <1>1, <1>2 DEF ShapesHold
    <2>9. QED
      BY <1>2, <1>3, <1>5, <2>0, <2>5, <2>6, <2>7, <2>8, DeliveryKeeps
  <1>6. QED
    <2>1. \/ Reaches(k, "skip") \/ Reaches(k, "send")
          \/ k[1] \in RoleKinds /\ run' = [ run EXCEPT ![k] = x ]
      BY DEF Load, RoleKinds
    <2>2. QED
      BY <2>1, <1>4, <1>5

\* A message is sent by a run that has claimed a key for which none was sent.
LEMMA SendKeeps ==
  ASSUME Inv, NEW k \in Keys, Send(k) \/ SendTest(k), UNCHANGED interactionVars
  PROVE  Inv'
  <1>1. ShapesHold /\ RunHolds(k) /\ inter' = inter
    BY DEF Inv, RunsHold, interactionVars
  <1>2. /\ job[k].state = "active" /\ run[k].at = "send" /\ WasClaimed(k) /\ k[1] \notin RoleKinds
        /\ UNCHANGED << captchaVars, settings, handler, changes, inter, row, member >>
        /\ mishaps' = mishaps /\ UNCHANGED << journal, cleaned >> /\ job' = job
        /\ sent' = [ sent EXCEPT ![k] = @ + 1 ]
        /\ Reaches(k, "complete")
    BY <1>1 DEF Send, SendTest, outside, RunHolds, RoleKinds
  <1>3. JobTo(k, job[k].state) /\ JournalTo(k, journal[k]) /\ RunTo(k, "complete")
    BY <1>1, <1>2, JobKept, JournalKept, ReachesTo
  <1>4. /\ sent' \in [ Keys -> Nat ] /\ \A q \in Keys : q # k => sent'[q] = sent[q]
        /\ sent'[k] = sent[k] + 1
    BY <1>1, <1>2 DEF ShapesHold
  <1>5. /\ run' = [ q \in Keys |-> run'[q] ]
        /\ \A q \in Keys : q # k => run'[q] = run[q]
        /\ DOMAIN run'[k] = RunFields /\ run'[k].at = "complete"
        /\ run'[k].satisfied => run[k].satisfied
        /\ run'[k].todo \subseteq run[k].todo /\ run'[k].todo \subseteq Roles
    BY <1>1, <1>3 DEF RunTo, RunHolds
  <1>6. SentHolds(k) => SentHolds(k)'
    BY <1>1, <1>2, <1>3, <1>4, <1>5, Counts
       DEF SentHolds, Pending, Delivered, JournalTo
  <1>7. /\ DOMAIN member' = { "join", "screened", "roles" } /\ member' = member
        /\ DOMAIN row' = RowFields /\ row' = row
    BY <1>1, <1>2 DEF ShapesHold
  <1>8. QED
    BY <1>2, <1>3, <1>4, <1>5, <1>6, <1>7, DeliveryKeeps

LEMMA DeleteMessageKeeps ==
  ASSUME Inv, NEW k \in Keys, DeleteMessage(k), UNCHANGED interactionVars
  PROVE  Inv'
  <1>1. ShapesHold /\ RunHolds(k) /\ inter' = inter
    BY DEF Inv, RunsHold, interactionVars
  <1>2. /\ job[k].state = "active" /\ run[k].at = "send" /\ WasClaimed(k)
        /\ UNCHANGED << captchaVars, settings, handler, changes, inter, row, member, sent >>
        /\ mishaps' = mishaps /\ UNCHANGED << journal, cleaned >> /\ job' = job
        /\ Reaches(k, "complete")
    BY <1>1 DEF DeleteMessage, outside, RunHolds
  <1>3. JobTo(k, job[k].state) /\ JournalTo(k, journal[k]) /\ RunTo(k, "complete")
    BY <1>1, <1>2, JobKept, JournalKept, ReachesTo
  <1>4. run'[k].at = "complete"
    BY <1>3 DEF RunTo
  <1>5. SentHolds(k) => SentHolds(k)'
    BY <1>1, <1>2, <1>3, <1>4, Counts
       DEF SentHolds, Pending, Delivered, JournalTo
  <1>6. QED
    BY <1>2, <1>3, <1>5, DeliveryGoes

\* The role that is tried next is one that is to give.
LEMMA NextRoleIn ==
  ASSUME NEW roles, roles \subseteq Roles, roles # {}
  PROVE  NextRole(roles) \in roles
  <1> DEFINE First(n) == RoleOrder[n] \in roles /\ \A m \in 1 .. n - 1 : RoleOrder[m] \notin roles
  <1>1. DOMAIN RoleOrder = 1 .. 5 /\ Len(RoleOrder) = 5
    BY DEF RoleOrder
  <1>2. Roles = { RoleOrder[n] : n \in 1 .. 5 }
    BY <1>1 DEF Roles
  <1> HIDE DEF RoleOrder
  <1>3. \E n \in 1 .. 5 : RoleOrder[n] \in roles
    BY <1>2
  <1>4. \E n \in 1 .. 5 : First(n)
    <2>1. CASE RoleOrder[1] \in roles
      <3>1. First(1)
        BY <2>1
      <3>2. QED
        BY <3>1
    <2>2. CASE RoleOrder[1] \notin roles /\ RoleOrder[2] \in roles
      <3>1. First(2)
        BY <2>2
      <3>2. QED
        BY <3>1
    <2>3. CASE { RoleOrder[1], RoleOrder[2] } \cap roles = {} /\ RoleOrder[3] \in roles
      <3>1. First(3)
        BY <2>3
      <3>2. QED
        BY <3>1
    <2>4. CASE { RoleOrder[1], RoleOrder[2], RoleOrder[3] } \cap roles = {} /\ RoleOrder[4] \in roles
      <3>1. First(4)
        BY <2>4
      <3>2. QED
        BY <3>1
    <2>5. CASE { RoleOrder[1], RoleOrder[2], RoleOrder[3], RoleOrder[4] } \cap roles = {}
      <3>1. First(5)
        BY <2>5, <1>3
      <3>2. QED
        BY <3>1
    <2>6. QED
      BY <2>1, <2>2, <2>3, <2>4, <2>5
  <1>5. PICK n \in DOMAIN RoleOrder : First(n)
    BY <1>1, <1>4
  <1>6. First(CHOOSE m \in DOMAIN RoleOrder : First(m))
    BY <1>5
  <1>7. QED
    BY <1>6 DEF NextRole

LEMMA GiveRoleKeeps ==
  ASSUME Inv, NEW k \in Keys, GiveRole(k), UNCHANGED interactionVars
  PROVE  Inv'
  <1> DEFINE todo == run[k].todo \ { NextRole(run[k].todo) }
             failed == \/ run[k].failed
                       \/ NextRole(run[k].todo) \notin member.roles \cup settings.assignable
             x == [ run[k] EXCEPT !.todo = todo, !.failed = failed ]
  <1>1. ShapesHold /\ RunHolds(k) /\ inter' = inter
    BY DEF Inv, RunsHold, interactionVars
  <1>2. /\ job[k].state = "active" /\ run[k].at = "roles" /\ WasClaimed(k) /\ k[1] \in RoleKinds
        /\ UNCHANGED << captchaVars, settings, handler, changes, inter, row, sent >>
        /\ mishaps' = mishaps /\ UNCHANGED << journal, cleaned >> /\ job' = job
    BY <1>1 DEF GiveRole, outside, RunHolds, RoleKinds
  <1>3. JobTo(k, job[k].state) /\ JournalTo(k, journal[k])
    BY <1>1, <1>2, JobKept, JournalKept
  <1>4. NextRole(run[k].todo) \in run[k].todo
    BY <1>1, NextRoleIn DEF GiveRole, RunHolds
  <1>5. /\ DOMAIN run[k] = RunFields /\ run = [ q \in Keys |-> run[q] ]
        /\ DOMAIN member = { "join", "screened", "roles" }
    BY <1>1 DEF ShapesHold
  <1>6. \/ run' = [ run EXCEPT ![k].todo = todo ]
        \/ run' = [ run EXCEPT ![k].todo = todo, ![k].failed = TRUE ]
    BY DEF GiveRole
  <1>7. \/ member' = member
        \/ member' = [ member EXCEPT !.roles = @ \cup { NextRole(run[k].todo) } ]
    BY DEF GiveRole
  <1>8. /\ run' = [ q \in Keys |-> run'[q] ]
        /\ \A q \in Keys : q # k => run'[q] = run[q]
        /\ DOMAIN run'[k] = RunFields /\ run'[k].at = "roles"
        /\ run'[k].satisfied => run[k].satisfied
        /\ run'[k].todo = todo
    <2> HIDE DEF todo
    <2> DEFINE y == [ run[k] EXCEPT !.todo = todo ]
               z == [ run[k] EXCEPT !.todo = todo, !.failed = TRUE ]
    <2>1. run' = [ run EXCEPT ![k] = y ] \/ run' = [ run EXCEPT ![k] = z ]
      BY <1>5, <1>6 DEF RunFields
    <2>2. /\ DOMAIN y = RunFields /\ y.at = "roles" /\ y.satisfied = run[k].satisfied /\ y.todo = todo
          /\ DOMAIN z = RunFields /\ z.at = "roles" /\ z.satisfied = run[k].satisfied /\ z.todo = todo
      BY <1>2, <1>5 DEF RunFields
    <2> HIDE DEF y, z
    <2>3. (run'[k] = y \/ run'[k] = z) /\ (\A q \in Keys : q # k => run'[q] = run[q])
          /\ run' = [ q \in Keys |-> run'[q] ]
      BY <1>5, <2>1
    <2>4. QED
      BY <2>2, <2>3
  <1>9. run'[k].todo \subseteq run[k].todo /\ run'[k].todo \subseteq Roles
    BY <1>1, <1>8 DEF RunHolds
  <1>10. /\ DOMAIN member' = { "join", "screened", "roles" } /\ member'.screened = member.screened
         /\ "verified" \in member'.roles => "verified" \in member.roles \/ "verified" \in run[k].todo
    <2> DEFINE role == NextRole(run[k].todo)
               z == [ member EXCEPT !.roles = @ \cup { role } ]
    <2> HIDE DEF role
    <2>1. /\ DOMAIN z = { "join", "screened", "roles" } /\ z.screened = member.screened
          /\ z.roles = member.roles \cup { role }
      BY <1>5
    <2>2. member' = member \/ member' = z
      BY <1>7 DEF role
    <2> HIDE DEF z
    <2>3. CASE member' = member
      BY <1>5, <2>3
    <2>4. CASE member' = z
      BY <1>4, <2>1, <2>4 DEF role
    <2>5. QED
      BY <2>2, <2>3, <2>4
  <1>11. SentHolds(k) => SentHolds(k)'
    BY <1>1, <1>2, <1>3, <1>4, <1>5, <1>6, <1>7, <1>8, <1>9, <1>10, Counts
       DEF SentHolds, Pending, Delivered, JournalTo
  <1>12. /\ DOMAIN row' = RowFields /\ row' = row
         /\ sent' = sent /\ sent' \in [ Keys -> Nat ]
    BY <1>1, <1>2 DEF ShapesHold
  <1> HIDE DEF x, todo, failed
  <1>13. QED
    BY <1>2, <1>3, <1>8, <1>9, <1>10, <1>11, <1>12, DeliveryKeeps

LEMMA RemoveUnverifiedKeeps ==
  ASSUME Inv, NEW k \in Keys, RemoveUnverified(k), UNCHANGED interactionVars
  PROVE  Inv'
  <1>1. ShapesHold /\ RunHolds(k) /\ inter' = inter
    BY DEF Inv, RunsHold, interactionVars
  <1>2. /\ job[k].state = "active" /\ run[k].at = "roles" /\ WasClaimed(k) /\ k[1] \in RoleKinds
        /\ UNCHANGED << captchaVars, settings, handler, changes, inter, row, sent >>
        /\ mishaps' = mishaps /\ UNCHANGED << journal, cleaned >> /\ job' = job
    BY <1>1 DEF RemoveUnverified, outside, RunHolds, RoleKinds
  <1>3. JobTo(k, job[k].state) /\ JournalTo(k, journal[k])
    BY <1>1, <1>2, JobKept, JournalKept
  <1>4. /\ DOMAIN run[k] = RunFields /\ run = [ q \in Keys |-> run[q] ]
        /\ DOMAIN member = { "join", "screened", "roles" }
    BY <1>1 DEF ShapesHold
  <1>5. PICK failed : run' = [ run EXCEPT ![k].at = "complete", ![k].failed = failed ]
    BY DEF RemoveUnverified
  <1>6. PICK roles : roles \subseteq member.roles /\ member' = [ member EXCEPT !.roles = roles ]
    <2>1. /\ member.roles \ { "unverified" } \subseteq member.roles
          /\ \/ member' = [ member EXCEPT !.roles = member.roles ]
             \/ member' = [ member EXCEPT !.roles = member.roles \ { "unverified" } ]
      BY DEF RemoveUnverified
    <2>2. QED
      BY <2>1
  <1>7. /\ run' = [ q \in Keys |-> run'[q] ]
        /\ \A q \in Keys : q # k => run'[q] = run[q]
        /\ DOMAIN run'[k] = RunFields /\ run'[k].at = "complete"
        /\ run'[k].satisfied => run[k].satisfied
        /\ run'[k].todo = run[k].todo
    <2> DEFINE y == [ run[k] EXCEPT !.at = "complete", !.failed = failed ]
    <2>1. run' = [ run EXCEPT ![k] = y ]
      BY <1>4, <1>5 DEF RunFields
    <2>2. DOMAIN y = RunFields /\ y.at = "complete" /\ y.satisfied = run[k].satisfied /\ y.todo = run[k].todo
      BY <1>4 DEF RunFields
    <2> HIDE DEF y
    <2>3. run'[k] = y /\ (\A q \in Keys : q # k => run'[q] = run[q]) /\ run' = [ q \in Keys |-> run'[q] ]
      BY <1>4, <2>1
    <2>4. QED
      BY <2>2, <2>3
  <1>8. run'[k].todo \subseteq Roles
    BY <1>1, <1>7 DEF RunHolds
  <1>9. /\ DOMAIN member' = { "join", "screened", "roles" } /\ member'.screened = member.screened
        /\ member'.roles = roles
    BY <1>4, <1>6
  <1>10. SentHolds(k) => SentHolds(k)'
    BY <1>1, <1>2, <1>3, <1>4, <1>5, <1>6, <1>7, <1>8, <1>9, Counts
       DEF SentHolds, Pending, Delivered, JournalTo
  <1>11. /\ DOMAIN row' = RowFields /\ row' = row
         /\ sent' = sent /\ sent' \in [ Keys -> Nat ]
    BY <1>1, <1>2 DEF ShapesHold
  <1>12. "verified" \in member'.roles => "verified" \in member.roles
    BY <1>6, <1>9
  <1>13. QED
    BY <1>2, <1>3, <1>7, <1>8, <1>9, <1>10, <1>11, <1>12, DeliveryKeeps

LEMMA WriteOutcomeKeeps ==
  ASSUME Inv, NEW k \in Keys, WriteOutcome(k), UNCHANGED interactionVars
  PROVE  Inv'
  <1>1. ShapesHold /\ RunHolds(k) /\ inter' = inter
    BY DEF Inv, RunsHold, interactionVars
  <1>2. /\ job[k].state = "active" /\ run[k].at = "after" /\ WasClaimed(k)
        /\ UNCHANGED << captchaVars, settings, handler, changes, inter, member, sent >>
        /\ mishaps' = mishaps /\ UNCHANGED << journal, cleaned >> /\ job' = job
        /\ Reaches(k, "follow")
    BY <1>1 DEF WriteOutcome, outside, RunHolds
  <1>3. JobTo(k, job[k].state) /\ JournalTo(k, journal[k]) /\ RunTo(k, "follow")
    BY <1>1, <1>2, JobKept, JournalKept, ReachesTo
  <1>4. PICK granted : row' = [ row EXCEPT !.granted = granted ]
    BY DEF WriteOutcome
  <1>5. DOMAIN row' = RowFields /\ row'.captcha = row.captcha /\ row'.screening = row.screening
    BY <1>1, <1>4 DEF ShapesHold, RowFields
  <1>6. /\ run' = [ q \in Keys |-> run'[q] ]
        /\ \A q \in Keys : q # k => run'[q] = run[q]
        /\ DOMAIN run'[k] = RunFields /\ run'[k].at = "follow"
        /\ run'[k].satisfied => run[k].satisfied
        /\ run'[k].todo \subseteq run[k].todo /\ run'[k].todo \subseteq Roles
    BY <1>1, <1>3 DEF RunTo, RunHolds
  <1>7. SentHolds(k) => SentHolds(k)'
    BY <1>1, <1>2, <1>3, <1>4, <1>5, <1>6, Counts
       DEF SentHolds, Pending, Delivered, JournalTo
  <1>8. /\ DOMAIN member' = { "join", "screened", "roles" } /\ member' = member
        /\ sent' = sent /\ sent' \in [ Keys -> Nat ]
    BY <1>1, <1>2 DEF ShapesHold
  <1>9. QED
    BY <1>2, <1>3, <1>5, <1>6, <1>7, <1>8, DeliveryKeeps

LEMMA RowGoneKeeps ==
  ASSUME Inv, NEW k \in Keys, RowGone(k), UNCHANGED interactionVars
  PROVE  Inv'
  <1>1. ShapesHold /\ RunHolds(k) /\ inter' = inter
    BY DEF Inv, RunsHold, interactionVars
  <1>2. PICK state \in { "queued", "dead" } : JobTo(k, state)
    BY <1>1, ThrowsTo DEF RowGone
  <1>3. /\ job[k].state = "active" /\ run[k].at \in { "skip", "complete", "leave", "roles" }
        /\ UNCHANGED << captchaVars, settings, handler, changes, inter, row, member, sent >>
        /\ mishaps' = mishaps /\ journal[k] = "NONE"
        /\ UNCHANGED << journal, cleaned >>
    BY <1>1 DEF RowGone, outside, RunHolds
  <1>4. RunTo(k, "none") /\ JournalTo(k, journal[k])
    BY <1>1, <1>3, ThrowsTo, JournalKept DEF RowGone
  <1>5. run'[k].at = "none"
    BY <1>4 DEF RunTo
  <1>6. SentHolds(k) => SentHolds(k)'
    BY <1>1, <1>3, <1>4, <1>5, Counts DEF SentHolds, Pending, Delivered, JournalTo
  <1>7. QED
    BY <1>2, <1>3, <1>4, <1>6, DeliveryGoes

\* A row that is deleted leaves room for one more message.
LEMMA CleanupEventsKeeps ==
  ASSUME Inv, NEW k \in Keys, CleanupEvents(k), UNCHANGED interactionVars
  PROVE  Inv'
  <1>1. ShapesHold
    BY DEF Inv
  <1>2. /\ UNCHANGED << settings, handler, changes, row, member, sent, job, mishaps, run, inter >>
        /\ consumed' = consumed
        /\ journal' = [ journal EXCEPT ![k] = "NONE" ]
        /\ cleaned' = [ cleaned EXCEPT ![k] = @ + 1 ]
    BY DEF CleanupEvents, Cleanup, outside, interactionVars, captchaVars
  <1>3. /\ journal' = [ q \in Keys |-> journal'[q] ] /\ cleaned' \in [ Keys -> Nat ]
        /\ journal'[k] = "NONE" /\ cleaned'[k] = cleaned[k] + 1
        /\ \A q \in Keys : q # k => journal'[q] = journal[q] /\ cleaned'[q] = cleaned[q]
    <2>1. journal = [ q \in Keys |-> journal[q] ] /\ cleaned \in [ Keys -> Nat ]
      BY <1>1 DEF ShapesHold
    <2>2. cleaned[k] + 1 \in Nat
      BY <2>1
    <2>3. QED
      BY <1>2, <2>1, <2>2
  <1>4. \A q \in Keys : WasClaimed(q) => WasClaimed(q)'
    BY <1>1, <1>3, Counts DEF WasClaimed
  <1>5. IsVerified' = IsVerified /\ Earned' = Earned /\ (WasMigrated => WasMigrated')
    BY <1>2, <1>4 DEF IsVerified, Earned, WasMigrated, Satisfied
  <1>6. ShapesHold' /\ RowHolds'
    BY <1>2, <1>3, <1>5 DEF Inv, ShapesHold, RowHolds
  <1>7. RunsHold' /\ VerifiedHolds' /\ WelcomesHold'
    BY <1>2, <1>4, <1>5 DEF Inv, RunsHold, RunHolds, VerifiedHolds, WelcomesHold
  <1>8. DeliveredHolds'
    <2> SUFFICES ASSUME NEW q \in Keys PROVE SentHolds(q)'
      BY DEF DeliveredHolds
    <2>1. SentHolds(q)
      BY DEF Inv, DeliveredHolds
    <2>2. CASE q # k
      BY <1>2, <1>3, <2>1, <2>2 DEF SentHolds, Pending, Delivered
    <2>3. CASE q = k
      BY <1>1, <1>2, <1>3, <2>1, <2>3, Counts DEF SentHolds, Pending, Delivered
    <2>4. QED
      BY <2>2, <2>3
  <1>9. QED
    BY <1>6, <1>7, <1>8 DEF Inv

LEMMA DeliveryNextKeeps ==
  ASSUME Inv, DeliveryNext, UNCHANGED interactionVars
  PROVE  Inv'
  <1>1. PICK k \in Keys : DeliveryStep(k) \/ RunFails(k) \/ Ages(k) \/ CleanupEvents(k)
    BY DEF DeliveryNext
  <1>2. QED
    BY <1>1, TakeKeeps, ClaimRunKeeps, ClaimRefusedKeeps, LoadKeeps, SkipKeeps, SendKeeps,
       DeleteMessageKeeps, QueueDeleteKeeps, GiveRoleKeeps, RemoveUnverifiedKeeps, WriteOutcomeKeeps,
       QueueWelcomeKeeps, CompleteRolesKeeps, CompleteDeliveryKeeps, AbandonKeeps, RoleRefusedKeeps,
       RunFailsKeeps, AgesKeeps, RowGoneKeeps, CleanupEventsKeeps
       DEF DeliveryStep

-------------------------------------------------------------------------------
(***************************************************************************)
(* The steps of the others: the gateway, the moderators, the interactions. *)
(***************************************************************************)
JobsShaped ==
  job = [ k \in Keys |-> job[k] ] /\ \A k \in Keys : DOMAIN job[k] = JobFields

HandlersShaped ==
  /\ handler = [ h \in Handlers |-> handler[h] ]
  /\ \A h \in Handlers :
       /\ DOMAIN handler[h] = HandlerFields
       /\ handler[h].todo \in Seq(HandlerKeys)
       /\ handler[h].at = "jobs" => handler[h].todo # << >>

IntersShaped ==
  inter = [ s \in Slots |-> inter[s] ] /\ \A s \in Slots : DOMAIN inter[s] = InterFields

\* They queue jobs, none of them a welcome for a verification.
JobsGo ==
  /\ JobsShaped'
  /\ \A k \in Keys :
       /\ job'[k].state = "active" <=> job[k].state = "active"
       /\ Welcome(k) /\ job'[k].state # "none" => job[k].state # "none"

LEMMA OutsideKeeps ==
  ASSUME Inv, Grows, UNCHANGED << run, journal, cleaned, sent >>,
         JobsGo, HandlersShaped', IntersShaped', RowHolds',
         DOMAIN row' = RowFields, DOMAIN member' = { "join", "screened", "roles" },
         "verified" \in member'.roles => "verified" \in member.roles,
         mishaps' \in { mishaps, mishaps + 1 }, changes' \in Nat
  PROVE  Inv'
  <1>1. ShapesHold'
    <2>1. mishaps' \in Nat
      BY DEF Inv, ShapesHold
    <2>2. sent' \in [ Keys -> Nat ] /\ journal' = [ q \in Keys |-> journal'[q] ]
          /\ cleaned' \in [ Keys -> Nat ]
      BY DEF Inv, ShapesHold
    <2>3. run' = [ q \in Keys |-> run'[q] ] /\ \A k \in Keys : DOMAIN run'[k] = RunFields
      BY DEF Inv, ShapesHold
    <2>4. QED
      BY <2>1, <2>2, <2>3 DEF JobsGo, JobsShaped, HandlersShaped, IntersShaped, ShapesHold
  <1>2. changes' = 0 => changes = 0 /\ (IsVerified => IsVerified')
    BY EarnedGrows DEF Grows
  <1>3. WasMigrated' = WasMigrated
    BY DEF WasMigrated, WasClaimed
  <1>4. RunsHold'
    BY DEF Inv, RunsHold, RunHolds, WasClaimed, JobsGo
  <1>5. VerifiedHolds'
    BY <1>2, <1>3 DEF Inv, VerifiedHolds
  <1>6. WelcomesHold'
    BY <1>2 DEF Inv, WelcomesHold, JobsGo
  <1>7. DeliveredHolds'
    <2> SUFFICES ASSUME NEW k \in Keys PROVE SentHolds(k)'
      BY DEF DeliveredHolds
    <2>1. SentHolds(k) /\ ShapesHold
      BY DEF Inv, DeliveredHolds
    <2>2. QED
      BY <2>1, Counts DEF SentHolds, Pending, Delivered
  <1>8. QED
    BY <1>1, <1>4, <1>5, <1>6, <1>7 DEF Inv

LEMMA JobsStay ==
  ASSUME ShapesHold, UNCHANGED job
  PROVE  JobsGo
  BY DEF ShapesHold, JobsGo, JobsShaped

LEMMA WithJobGoes ==
  ASSUME ShapesHold, NEW key, NEW join, ~ Welcome(key), job' = WithJob(job, key, join)
  PROVE  JobsGo
  <1>1. job = [ q \in Keys |-> job[q] ] /\ \A q \in Keys : DOMAIN job[q] = JobFields
    BY DEF ShapesHold
  <1>2. /\ job' = [ q \in Keys |-> job'[q] ]
        /\ \A q \in Keys :
             /\ DOMAIN job'[q] = JobFields
             /\ \/ job'[q].state = job[q].state
                \/ q = key /\ job[q].state = "none" /\ job'[q].state = "queued"
    BY <1>1, WithJobTo
  <1>3. QED
    BY <1>2 DEF JobsGo, JobsShaped

\* A handler goes on: the others stay, and none is idle again.
HandlerGoes(h) ==
  /\ HandlersShaped'
  /\ \A g \in Handlers : /\ g # h => handler'[g] = handler[g]
                         /\ handler[g].at # "idle" => handler'[g].at # "idle"

LEMMA HandlerTo ==
  ASSUME ShapesHold, NEW h, NEW r, DOMAIN r = HandlerFields, r.todo \in Seq(HandlerKeys),
         r.at = "jobs" => r.todo # << >>, r.at # "idle",
         handler' = [ handler EXCEPT ![h] = r ]
  PROVE  HandlerGoes(h)
  <1>1. /\ handler = [ g \in Handlers |-> handler[g] ]
        /\ \A g \in Handlers :
             /\ DOMAIN handler[g] = HandlerFields
             /\ handler[g].todo \in Seq(HandlerKeys)
             /\ handler[g].at = "jobs" => handler[g].todo # << >>
    BY DEF ShapesHold
  <1>2. handler' = [ g \in Handlers |-> IF g = h THEN r ELSE handler[g] ]
    BY <1>1
  <1>3. handler' = [ g \in Handlers |-> handler'[g] ]
    BY <1>2
  <1>4. \A g \in Handlers : handler'[g] = IF g = h THEN r ELSE handler[g]
    BY <1>2
  <1>5. HandlersShaped'
    BY <1>1, <1>3, <1>4 DEF HandlersShaped
  <1>6. QED
    BY <1>4, <1>5 DEF HandlerGoes

LEMMA StartsTo ==
  ASSUME ShapesHold, NEW h, NEW at, NEW join, at \notin { "idle", "jobs" }, Starts(h, at, join)
  PROVE  HandlerGoes(h)
  <1> DEFINE r == [ at |-> at, join |-> join, seen |-> Nothing, todo |-> << >> ]
  <1>1. DOMAIN r = HandlerFields /\ r.at = at /\ r.todo = << >> /\ handler' = [ handler EXCEPT ![h] = r ]
    BY DEF HandlerFields, Starts
  <1>2. << >> \in Seq(HandlerKeys)
    OBVIOUS
  <1> HIDE DEF r
  <1>3. QED
    BY <1>1, <1>2, HandlerTo

LEMMA GoesToGoes ==
  ASSUME ShapesHold, NEW h \in Handlers, NEW at, at \notin { "idle", "jobs" }, GoesTo(h, at)
  PROVE  HandlerGoes(h)
  <1> DEFINE r == [ handler[h] EXCEPT !.at = at ]
  <1>1. DOMAIN handler[h] = HandlerFields /\ handler[h].todo \in Seq(HandlerKeys)
    BY DEF ShapesHold
  <1>2. DOMAIN r = HandlerFields /\ r.at = at /\ r.todo = handler[h].todo
    BY <1>1 DEF HandlerFields
  <1>3. handler' = [ handler EXCEPT ![h] = r ]
    BY DEF GoesTo
  <1> HIDE DEF r
  <1>4. QED
    BY <1>1, <1>2, <1>3, HandlerTo

LEMMA QueuesTo ==
  ASSUME ShapesHold, NEW h, NEW keys \in Seq(HandlerKeys), Queues(h, keys)
  PROVE  HandlerGoes(h)
  <1> DEFINE at == IF keys = << >> THEN "done" ELSE "jobs"
             r == [ at |-> at, join |-> handler[h].join, seen |-> Nothing, todo |-> keys ]
  <1>1. handler' = [ handler EXCEPT ![h] = r ]
    BY DEF Queues
  <1>2. at # "idle" /\ (at = "jobs" => keys # << >>)
    OBVIOUS
  <1> HIDE DEF at
  <1>3. DOMAIN r = HandlerFields /\ r.at = at /\ r.todo = keys
    BY DEF HandlerFields
  <1> HIDE DEF r
  <1>4. QED
    BY <1>1, <1>2, <1>3, HandlerTo

LEMMA HandlerKeeps ==
  ASSUME Inv, NEW h \in Handlers, handler[h].at # "idle", HandlerGoes(h),
         UNCHANGED << run, journal, cleaned, inter, settings, sent, changes >>,
         consumed' = consumed, JobsGo,
         DOMAIN member' = { "join", "screened", "roles" }, member'.screened = member.screened,
         "verified" \in member'.roles => "verified" \in member.roles,
         DOMAIN row' = RowFields,
         row'.captcha => row.captcha \/ Earned.captcha,
         row'.screening => row.screening \/ Earned.screening,
         mishaps' \in { mishaps, mishaps + 1 }
  PROVE  Inv'
  <1>1. Grows
    BY DEF Grows, HandlerGoes
  <1>2. RowHolds'
    <2>1. RowHolds
      BY DEF Inv
    <2>2. (row'.captcha => Earned'.captcha) /\ (row'.screening => Earned'.screening)
      BY <1>1, <2>1, EarnedGrows DEF RowHolds
    <2>3. \A s \in Slots :
            /\ inter'[s].result = "SUCCESS" => consumed' # {}
            /\ inter'[s].screened => Earned'.screening
      BY <1>1, <2>1, EarnedGrows DEF RowHolds
    <2>4. \A j \in Joins : << "update", j >> \in Handlers
      BY DEF Handlers
    <2>5. \A j \in Joins : handler'[<< "update", j >>].at # "idle" => member'.screened # {}
      BY <2>1, <2>4 DEF RowHolds, HandlerGoes
    <2>6. QED
      BY <2>2, <2>3, <2>5 DEF RowHolds
  <1>3. HandlersShaped' /\ IntersShaped' /\ changes' \in Nat
    BY DEF HandlerGoes, Inv, ShapesHold, IntersShaped
  <1>4. QED
    BY <1>1, <1>2, <1>3, OutsideKeeps

LEMMA KeysOfHandlers ==
  ASSUME NEW j \in Joins
  PROVE  /\ JoinJobs(j) \in Seq(HandlerKeys)
         /\ << << "evaluate", "SCREENING", j >> >> \in Seq(HandlerKeys)
         /\ << << "goodbye", "LEAVE", j >> >> \in Seq(HandlerKeys)
         /\ << >> \in Seq(HandlerKeys)
  <1>1. /\ << "channel", "JOIN", j >> \in HandlerKeys /\ << "dm", "JOIN", j >> \in HandlerKeys
        /\ << "roles", "JOIN", j >> \in HandlerKeys /\ << "evaluate", "SCREENING", j >> \in HandlerKeys
        /\ << "goodbye", "LEAVE", j >> \in HandlerKeys
    BY DEF HandlerKeys
  <1>2. \A key \in HandlerKeys : << key >> \in Seq(HandlerKeys)
    OBVIOUS
  <1>3. << >> \in Seq(HandlerKeys)
    OBVIOUS
  <1> DEFINE wanted(kind) ==
               IF Delivers(kind, "JOIN") THEN << << kind, "JOIN", j >> >> ELSE << >>
             roles == IF settings.autoRole \/ UsesUnverifiedRole THEN << << "roles", "JOIN", j >> >> ELSE << >>
  <1>4. wanted("channel") \in Seq(HandlerKeys) /\ wanted("dm") \in Seq(HandlerKeys)
    BY <1>1, <1>2, <1>3
  <1>5. roles \in Seq(HandlerKeys)
    BY <1>1, <1>2, <1>3
  <1>6. JoinJobs(j) = (wanted("channel") \o wanted("dm")) \o roles
    BY DEF JoinJobs, Welcomes
  <1> HIDE DEF wanted, roles
  <1>7. (wanted("channel") \o wanted("dm")) \o roles \in Seq(HandlerKeys)
    BY <1>4, <1>5, ConcatProperties
  <1>8. QED
    BY <1>1, <1>2, <1>3, <1>6, <1>7

LEMMA AddRowKeeps ==
  ASSUME Inv, NEW j \in Joins, AddRow(j), UNCHANGED << deliveryVars, interactionVars >>
  PROVE  Inv'
  <1> DEFINE h == << "add", j >>
  <1>1. ShapesHold /\ DOMAIN row = RowFields /\ DOMAIN member = { "join", "screened", "roles" }
    BY DEF Inv, ShapesHold
  <1>2. /\ h \in Handlers /\ handler[h].at = "row" /\ Queues(h, JoinJobs(j))
        /\ UNCHANGED << run, journal, cleaned, inter, settings, sent, changes, member, job, mishaps >>
        /\ consumed' = consumed
    BY DEF AddRow, Handlers, deliveryVars, interactionVars, captchaVars
  <1>3. HandlerGoes(h)
    BY <1>1, <1>2, KeysOfHandlers, QueuesTo
  <1>4. DOMAIN row' = RowFields /\ (row'.captcha => row.captcha)
        /\ (row'.screening => row.screening \/ Earned.screening)
    <2> DEFINE r == [ NoRow EXCEPT !.exists = TRUE, !.screening = j \in member.screened ]
    <2>1. row' = IF settings.verification THEN r ELSE row
      BY DEF AddRow
    <2>2. DOMAIN r = RowFields /\ ~ r.captcha /\ (r.screening => member.screened # {})
      BY DEF NoRow, RowFields
    <2> HIDE DEF r
    <2>3. QED
      BY <1>1, <2>1, <2>2, EarnedIs
  <1> HIDE DEF h
  <1>5. QED
    BY <1>1, <1>2, <1>3, <1>4, JobsStay, HandlerKeeps

LEMMA UpdateRowKeeps ==
  ASSUME Inv, NEW j \in Joins, UpdateRow(j), UNCHANGED << deliveryVars, interactionVars >>
  PROVE  Inv'
  <1> DEFINE h == << "update", j >>
  <1>1. ShapesHold /\ DOMAIN row = RowFields /\ DOMAIN member = { "join", "screened", "roles" }
    BY DEF Inv, ShapesHold
  <1>2. /\ h \in Handlers /\ handler[h].at = "row"
        /\ UNCHANGED << run, journal, cleaned, inter, settings, sent, changes, member, job, mishaps >>
        /\ consumed' = consumed
    BY DEF UpdateRow, Handlers, deliveryVars, interactionVars, captchaVars
  <1>3. Queues(h, << << "evaluate", "SCREENING", j >> >>) \/ Queues(h, << >>)
    BY DEF UpdateRow
  <1>4. HandlerGoes(h)
    BY <1>1, <1>2, <1>3, KeysOfHandlers, QueuesTo
  <1>5. Earned.screening
    BY <1>2, EarnedIs DEF Inv, RowHolds
  <1>6. DOMAIN row' = RowFields /\ (row'.captcha => row.captcha)
    BY <1>1 DEF UpdateRow, RowFields
  <1> HIDE DEF h
  <1>7. QED
    BY <1>1, <1>2, <1>4, <1>5, <1>6, JobsStay, HandlerKeeps

LEMMA CloseRowKeeps ==
  ASSUME Inv, NEW j \in Joins, CloseRow(j), UNCHANGED << deliveryVars, interactionVars >>
  PROVE  Inv'
  <1> DEFINE h == << "remove", j >>
  <1>1. ShapesHold /\ DOMAIN row = RowFields /\ DOMAIN member = { "join", "screened", "roles" }
    BY DEF Inv, ShapesHold
  <1>2. /\ h \in Handlers /\ handler[h].at = "close"
        /\ UNCHANGED << run, journal, cleaned, inter, settings, sent, changes, member, job, mishaps >>
        /\ consumed' = consumed
    BY DEF CloseRow, Handlers, deliveryVars, interactionVars, captchaVars
  <1>3. Queues(h, << << "goodbye", "LEAVE", j >> >>) \/ Queues(h, << >>)
    BY DEF CloseRow
  <1>4. HandlerGoes(h)
    BY <1>1, <1>2, <1>3, KeysOfHandlers, QueuesTo
  <1>5. DOMAIN row' = RowFields /\ row'.captcha = row.captcha /\ row'.screening = row.screening
    <2>1. PICK closed : row' = [ row EXCEPT !.closed = closed ]
      BY DEF CloseRow
    <2>2. QED
      BY <1>1, <2>1 DEF RowFields
  <1> HIDE DEF h
  <1>6. QED
    BY <1>1, <1>2, <1>4, <1>5, JobsStay, HandlerKeeps

LEMMA VerifyRowKeeps ==
  ASSUME Inv, NEW n \in Commands, VerifyRow(n), UNCHANGED << deliveryVars, interactionVars >>
  PROVE  Inv'
  <1> DEFINE h == << "verify", n >>
             key == << "evaluate", "COMMAND", n >>
  <1>1. ShapesHold /\ DOMAIN row = RowFields /\ DOMAIN member = { "join", "screened", "roles" }
    BY DEF Inv, ShapesHold
  <1>2. /\ h \in Handlers /\ handler[h].at = "row" /\ Queues(h, << key >>)
        /\ UNCHANGED << run, journal, cleaned, inter, settings, sent, changes, member, job, mishaps >>
        /\ consumed' = consumed
    BY DEF VerifyRow, Handlers, deliveryVars, interactionVars, captchaVars
  <1>3. Earned.captcha
    BY <1>2, EarnedIs
  <1>4. key \in HandlerKeys
    BY DEF HandlerKeys
  <1>5. DOMAIN row' = RowFields /\ (row'.screening => Earned.screening)
    <2> DEFINE screening == handler[h].join \in member.screened
    <2>1. row' = [ row EXCEPT !.exists = TRUE, !.captcha = TRUE, !.screening = screening ]
      BY DEF VerifyRow
    <2>2. screening => Earned.screening
      BY EarnedIs
    <2> HIDE DEF screening
    <2>3. DOMAIN row' = RowFields
      BY <1>1, <2>1
    <2>4. row'.screening = screening
      BY <1>1, <2>1 DEF RowFields
    <2>5. QED
      BY <2>2, <2>3, <2>4
  <1> HIDE DEF h, key
  <1>6. << key >> \in Seq(HandlerKeys)
    BY <1>4
  <1>7. HandlerGoes(h)
    BY <1>1, <1>2, <1>6, QueuesTo
  <1>8. QED
    BY <1>1, <1>2, <1>3, <1>5, <1>7, JobsStay, HandlerKeeps

LEMMA TakeRolesKeeps ==
  ASSUME Inv, NEW n \in Commands, TakeRoles(n), UNCHANGED << deliveryVars, interactionVars >>
  PROVE  Inv'
  <1> DEFINE h == << "unverify", n >>
             taken == { "screened", "verified", "regular" } \cap settings.assignable
  <1>1. ShapesHold /\ DOMAIN row = RowFields /\ DOMAIN member = { "join", "screened", "roles" }
    BY DEF Inv, ShapesHold
  <1>2. /\ h \in Handlers /\ handler[h].at = "take"
        /\ UNCHANGED << run, journal, cleaned, inter, settings, sent, changes, row, job, mishaps >>
        /\ consumed' = consumed
    BY DEF TakeRoles, Handlers, deliveryVars, interactionVars, captchaVars
  <1>3. GoesTo(h, "give") \/ GoesTo(h, "find") \/ GoesTo(h, "done")
    BY DEF TakeRoles
  <1>4. member' = [ member EXCEPT !.roles = @ \ taken ]
    BY DEF TakeRoles
  <1> HIDE DEF h, taken
  <1>5. HandlerGoes(h)
    BY <1>1, <1>2, <1>3, GoesToGoes
  <1>6. /\ DOMAIN member' = { "join", "screened", "roles" } /\ member'.screened = member.screened
        /\ member'.roles = member.roles \ taken
    BY <1>1, <1>4
  <1>7. QED
    BY <1>1, <1>2, <1>5, <1>6, JobsStay, HandlerKeeps

LEMMA GiveUnverifiedKeeps ==
  ASSUME Inv, NEW n \in Commands, GiveUnverified(n), UNCHANGED << deliveryVars, interactionVars >>
  PROVE  Inv'
  <1> DEFINE h == << "unverify", n >>
  <1>1. ShapesHold /\ DOMAIN row = RowFields /\ DOMAIN member = { "join", "screened", "roles" }
    BY DEF Inv, ShapesHold
  <1>2. /\ h \in Handlers /\ handler[h].at = "give" /\ (GoesTo(h, "find") \/ GoesTo(h, "done"))
        /\ UNCHANGED << run, journal, cleaned, inter, settings, sent, changes, row, job, mishaps >>
        /\ consumed' = consumed
    BY DEF GiveUnverified, Handlers, deliveryVars, interactionVars, captchaVars
  <1>3. member' = member \/ member' = [ member EXCEPT !.roles = @ \cup { "unverified" } ]
    BY DEF GiveUnverified
  <1> HIDE DEF h
  <1>4. HandlerGoes(h)
    BY <1>1, <1>2, GoesToGoes
  <1>5. /\ DOMAIN member' = { "join", "screened", "roles" } /\ member'.screened = member.screened
        /\ member'.roles \in { member.roles, member.roles \cup { "unverified" } }
    BY <1>1, <1>3
  <1>6. "verified" \in member'.roles => "verified" \in member.roles
    BY <1>5
  <1>7. QED
    BY <1>1, <1>2, <1>4, <1>5, <1>6, JobsStay, HandlerKeeps

LEMMA ResetRowKeeps ==
  ASSUME Inv, NEW n \in Commands, ResetRow(n), UNCHANGED << deliveryVars, interactionVars >>
  PROVE  Inv'
  <1> DEFINE h == << "unverify", n >>
  <1>1. ShapesHold /\ DOMAIN row = RowFields /\ DOMAIN member = { "join", "screened", "roles" }
    BY DEF Inv, ShapesHold
  <1>2. /\ h \in Handlers /\ handler[h].at = "reset" /\ Queues(h, << >>)
        /\ UNCHANGED << run, journal, cleaned, inter, settings, sent, changes, member, job, mishaps >>
        /\ consumed' = consumed
    BY DEF ResetRow, Handlers, deliveryVars, interactionVars, captchaVars
  <1>3. DOMAIN row' = RowFields /\ (row'.captcha => row.captcha)
        /\ (row'.screening => row.screening \/ Earned.screening)
    <2> DEFINE screening == handler[h].join \in member.screened
               r == [ NoRow EXCEPT !.exists = TRUE, !.screening = screening ]
               q == [ row EXCEPT !.captcha = FALSE, !.granted = FALSE ]
    <2>1. row' = IF row.exists THEN q ELSE r
      BY DEF ResetRow
    <2>2. screening => Earned.screening
      BY EarnedIs
    <2> HIDE DEF screening
    <2>3. DOMAIN r = RowFields /\ ~ r.captcha /\ r.screening = screening
      BY DEF NoRow, RowFields
    <2>4. DOMAIN q = RowFields /\ ~ q.captcha /\ q.screening = row.screening
      BY <1>1 DEF RowFields
    <2> HIDE DEF r, q
    <2>5. QED
      BY <2>1, <2>2, <2>3, <2>4
  <1> HIDE DEF h
  <1>4. << >> \in Seq(HandlerKeys)
    OBVIOUS
  <1>5. HandlerGoes(h)
    BY <1>1, <1>2, <1>4, QueuesTo
  <1>6. QED
    BY <1>1, <1>2, <1>3, <1>5, JobsStay, HandlerKeeps

LEMMA FindChallengeKeeps ==
  ASSUME Inv, NEW h \in Handlers, FindChallenge(h), UNCHANGED << deliveryVars, interactionVars >>
  PROVE  Inv'
  <1> DEFINE r == [ at |-> "drop", join |-> handler[h].join, seen |-> active, todo |-> << >> ]
  <1>1. ShapesHold /\ DOMAIN row = RowFields /\ DOMAIN member = { "join", "screened", "roles" }
    BY DEF Inv, ShapesHold
  <1>2. /\ handler[h].at = "find" /\ handler' = [ handler EXCEPT ![h] = r ]
        /\ UNCHANGED << run, journal, cleaned, inter, settings, sent, changes, row, member, job, mishaps >>
        /\ consumed' = consumed
    BY DEF FindChallenge, deliveryVars, interactionVars, captchaVars
  <1>3. DOMAIN r = HandlerFields /\ r.at = "drop" /\ r.todo = << >> /\ << >> \in Seq(HandlerKeys)
    BY DEF HandlerFields
  <1> HIDE DEF r
  <1>4. HandlerGoes(h)
    BY <1>1, <1>2, <1>3, HandlerTo
  <1>5. QED
    BY <1>1, <1>2, <1>4, JobsStay, HandlerKeeps

LEMMA DropChallengeKeeps ==
  ASSUME Inv, NEW h \in Handlers, DropChallenge(h), UNCHANGED << deliveryVars, interactionVars >>
  PROVE  Inv'
  <1>1. ShapesHold /\ DOMAIN row = RowFields /\ DOMAIN member = { "join", "screened", "roles" }
    BY DEF Inv, ShapesHold
  <1>2. /\ handler[h].at = "drop" /\ (GoesTo(h, "close") \/ GoesTo(h, "reset"))
        /\ UNCHANGED << run, journal, cleaned, inter, settings, sent, changes, row, member, job, mishaps >>
        /\ consumed' = consumed
    BY DEF DropChallenge, Invalidated, deliveryVars, interactionVars
  <1>3. HandlerGoes(h)
    BY <1>1, <1>2, GoesToGoes
  <1>4. QED
    BY <1>1, <1>2, <1>3, JobsStay, HandlerKeeps

LEMMA HandlerFailsKeeps ==
  ASSUME Inv, NEW h \in Handlers, HandlerFails(h), UNCHANGED << deliveryVars, interactionVars >>
  PROVE  Inv'
  <1>1. ShapesHold /\ DOMAIN row = RowFields /\ DOMAIN member = { "join", "screened", "roles" }
    BY DEF Inv, ShapesHold
  <1>2. /\ handler[h].at # "idle" /\ (GoesTo(h, "close") \/ GoesTo(h, "done"))
        /\ UNCHANGED << run, journal, cleaned, inter, settings, sent, changes, row, member, job >>
        /\ consumed' = consumed /\ mishaps' = mishaps + 1
    BY DEF HandlerFails, deliveryVars, interactionVars, captchaVars
  <1>3. HandlerGoes(h)
    BY <1>1, <1>2, GoesToGoes
  <1>4. QED
    BY <1>1, <1>2, <1>3, JobsStay, HandlerKeeps

\* What a handler queues is no welcome for a verification.
LEMMA QueueJobKeeps ==
  ASSUME Inv, NEW h \in Handlers, QueueJob(h), UNCHANGED << deliveryVars, interactionVars >>
  PROVE  Inv'
  <1> DEFINE todo == handler[h].todo
  <1>1. ShapesHold /\ DOMAIN row = RowFields /\ DOMAIN member = { "join", "screened", "roles" }
    BY DEF Inv, ShapesHold
  <1>2. /\ handler[h].at = "jobs" /\ Queues(h, Tail(todo))
        /\ job' = WithJob(job, Head(todo), handler[h].join)
        /\ UNCHANGED << run, journal, cleaned, inter, settings, sent, changes, row, member, mishaps >>
        /\ consumed' = consumed
    BY DEF QueueJob, deliveryVars, interactionVars, captchaVars
  <1>3. todo \in Seq(HandlerKeys) /\ todo # << >>
    BY <1>1, <1>2 DEF ShapesHold
  <1> HIDE DEF todo
  <1>4. Head(todo) \in HandlerKeys /\ Tail(todo) \in Seq(HandlerKeys)
    BY <1>3, HeadTailProperties
  <1>5. \A key \in HandlerKeys : ~ Welcome(key)
    BY DEF HandlerKeys, Welcome
  <1>6. JobsGo
    BY <1>1, <1>2, <1>4, <1>5, WithJobGoes
  <1>7. HandlerGoes(h)
    BY <1>1, <1>2, <1>4, QueuesTo
  <1>8. QED
    BY <1>1, <1>2, <1>6, <1>7, HandlerKeeps

LEMMA HandlerNextKeeps ==
  ASSUME Inv, HandlerNext, UNCHANGED << deliveryVars, interactionVars >>
  PROVE  Inv'
  BY AddRowKeeps, UpdateRowKeeps, CloseRowKeeps, VerifyRowKeeps, TakeRolesKeeps, GiveUnverifiedKeeps,
     ResetRowKeeps, FindChallengeKeeps, DropChallengeKeeps, QueueJobKeeps
     DEF HandlerNext

\* RowHolds, when no interaction has got a result.
LEMMA RowStays ==
  ASSUME Inv, Grows, row' = row, inter' = inter,
         \A j \in Joins : handler'[<< "update", j >>].at # "idle" =>
           handler[<< "update", j >>].at # "idle" \/ member'.screened # {}
  PROVE  RowHolds'
  <1>1. RowHolds
    BY DEF Inv
  <1>2. (row'.captcha => Earned'.captcha) /\ (row'.screening => Earned'.screening)
    BY <1>1, EarnedGrows DEF RowHolds
  <1>3. \A s \in Slots :
          /\ inter'[s].result = "SUCCESS" => consumed' # {}
          /\ inter'[s].screened => Earned'.screening
    BY <1>1, EarnedGrows DEF RowHolds, Grows
  <1>4. \A j \in Joins : handler'[<< "update", j >>].at # "idle" => member'.screened # {}
    BY <1>1 DEF RowHolds, Grows
  <1>5. QED
    BY <1>2, <1>3, <1>4 DEF RowHolds

LEMMA ChangeSettingsKeeps ==
  ASSUME Inv, ChangeSettings, UNCHANGED << deliveryVars, interactionVars >>
  PROVE  Inv'
  <1>1. ShapesHold /\ DOMAIN row = RowFields /\ DOMAIN member = { "join", "screened", "roles" }
    BY DEF Inv, ShapesHold
  <1>2. /\ UNCHANGED << run, journal, cleaned, inter, handler, sent, row, member, job, mishaps >>
        /\ consumed' = consumed /\ changes' = changes + 1
    BY DEF ChangeSettings, deliveryVars, interactionVars, captchaVars
  <1>3. changes' \in Nat /\ changes' # 0
    BY <1>1, <1>2 DEF ShapesHold
  <1>4. Grows
    BY <1>2, <1>3 DEF Grows
  <1>5. HandlersShaped' /\ IntersShaped'
    BY <1>1, <1>2 DEF ShapesHold, HandlersShaped, IntersShaped
  <1>6. RowHolds'
    BY <1>2, <1>4, RowStays
  <1>7. QED
    BY <1>1, <1>2, <1>3, <1>4, <1>5, <1>6, JobsStay, OutsideKeeps

\* An event or a command starts a handler.
LEMMA StartKeeps ==
  ASSUME Inv, NEW h, HandlerGoes(h),
         h[1] = "update" => member'.screened # {},
         UNCHANGED << run, journal, cleaned, inter, settings, sent, changes, row, job, mishaps >>,
         consumed' = consumed,
         DOMAIN member' = { "join", "screened", "roles" }, member.screened \subseteq member'.screened,
         "verified" \in member'.roles => "verified" \in member.roles
  PROVE  Inv'
  <1>1. ShapesHold /\ DOMAIN row = RowFields
    BY DEF Inv, ShapesHold
  <1>2. Grows
    BY DEF Grows, HandlerGoes
  <1>3. RowHolds'
    <2>1. \A j \in Joins : << "update", j >> \in Handlers
      BY DEF Handlers
    <2>2. \A j \in Joins : handler'[<< "update", j >>].at # "idle" =>
            handler[<< "update", j >>].at # "idle" \/ member'.screened # {}
      BY <2>1 DEF HandlerGoes
    <2>3. QED
      BY <1>2, <2>2, RowStays
  <1>4. HandlersShaped' /\ IntersShaped' /\ changes' \in Nat
    BY <1>1 DEF ShapesHold, HandlerGoes, IntersShaped
  <1>5. QED
    BY <1>1, <1>2, <1>3, <1>4, JobsStay, OutsideKeeps

LEMMA JoinKeeps ==
  ASSUME Inv, Join, UNCHANGED << deliveryVars, interactionVars >>
  PROVE  Inv'
  <1> DEFINE h == << "add", joined' >>
  <1>1. ShapesHold
    BY DEF Inv
  <1>2. /\ UNCHANGED << run, journal, cleaned, inter, settings, sent, changes, row, job, mishaps >>
        /\ consumed' = consumed /\ h[1] # "update" /\ Starts(h, "row", joined')
    BY DEF Join, deliveryVars, interactionVars, captchaVars
  <1>3. /\ DOMAIN member' = { "join", "screened", "roles" } /\ member'.roles = {}
        /\ member.screened \subseteq member'.screened
    BY DEF Join
  <1> HIDE DEF h
  <1>4. HandlerGoes(h)
    BY <1>1, <1>2, StartsTo
  <1>5. QED
    BY <1>2, <1>3, <1>4, StartKeeps

LEMMA ScreenKeeps ==
  ASSUME Inv, Screen, UNCHANGED << deliveryVars, interactionVars >>
  PROVE  Inv'
  <1> DEFINE h == << "update", member.join >>
  <1>1. ShapesHold /\ DOMAIN member = { "join", "screened", "roles" }
    BY DEF Inv, ShapesHold
  <1>2. /\ UNCHANGED << run, journal, cleaned, inter, settings, sent, changes, row, job, mishaps >>
        /\ consumed' = consumed /\ Starts(h, "row", member.join)
        /\ member' = [ member EXCEPT !.screened = @ \cup { member.join } ]
    BY DEF Screen, deliveryVars, interactionVars, captchaVars
  <1>3. /\ DOMAIN member' = { "join", "screened", "roles" } /\ member'.roles = member.roles
        /\ member.screened \subseteq member'.screened /\ member'.screened # {}
    BY <1>1, <1>2
  <1> HIDE DEF h
  <1>4. HandlerGoes(h)
    BY <1>1, <1>2, StartsTo
  <1>5. QED
    BY <1>2, <1>3, <1>4, StartKeeps

LEMMA LeaveKeeps ==
  ASSUME Inv, Leave, UNCHANGED << deliveryVars, interactionVars >>
  PROVE  Inv'
  <1> DEFINE h == << "remove", member.join >>
  <1>1. ShapesHold /\ DOMAIN member = { "join", "screened", "roles" }
    BY DEF Inv, ShapesHold
  <1>2. /\ UNCHANGED << run, journal, cleaned, inter, settings, sent, changes, row, job, mishaps >>
        /\ consumed' = consumed /\ h[1] # "update" /\ Starts(h, "find", member.join)
        /\ member' = [ member EXCEPT !.join = Absent, !.roles = {} ]
    BY DEF Leave, deliveryVars, interactionVars, captchaVars
  <1>3. /\ DOMAIN member' = { "join", "screened", "roles" } /\ member'.roles = {}
        /\ member'.screened = member.screened
    BY <1>1, <1>2
  <1> HIDE DEF h
  <1>4. HandlerGoes(h)
    BY <1>1, <1>2, StartsTo
  <1>5. QED
    BY <1>2, <1>3, <1>4, StartKeeps

LEMMA VerifyKeeps ==
  ASSUME Inv, NEW n \in Commands, Verify(n), UNCHANGED << deliveryVars, interactionVars >>
  PROVE  Inv'
  <1>1. ShapesHold /\ DOMAIN member = { "join", "screened", "roles" }
    BY DEF Inv, ShapesHold
  <1>2. /\ UNCHANGED << run, journal, cleaned, inter, settings, sent, changes, row, job, mishaps, member >>
        /\ consumed' = consumed
    BY DEF Verify, deliveryVars, interactionVars, captchaVars
  <1>3. PICK kind \in { "verify", "unverify" } :
          Starts(<< kind, n >>, IF kind = "verify" THEN "row" ELSE "take", member.join)
    BY DEF Verify
  <1> DEFINE h == << kind, n >>
             at == IF kind = "verify" THEN "row" ELSE "take"
  <1>4. h[1] # "update" /\ at \notin { "idle", "jobs" } /\ Starts(h, at, member.join)
    BY <1>3
  <1> HIDE DEF h, at
  <1>5. HandlerGoes(h)
    BY <1>1, <1>4, StartsTo
  <1>6. QED
    BY <1>1, <1>2, <1>4, <1>5, StartKeeps

\* The queue alone changes.
LEMMA QueueKeeps ==
  ASSUME Inv, JobsGo, UNCHANGED << run, journal, cleaned, inter, settings, sent, changes, row, member, mishaps,
                                   handler >>,
         consumed' = consumed
  PROVE  Inv'
  <1>1. ShapesHold /\ DOMAIN row = RowFields /\ DOMAIN member = { "join", "screened", "roles" }
    BY DEF Inv, ShapesHold
  <1>2. Grows
    BY DEF Grows
  <1>3. RowHolds'
    BY <1>2, RowStays
  <1>4. HandlersShaped' /\ IntersShaped' /\ changes' \in Nat
    BY <1>1 DEF ShapesHold, HandlersShaped, IntersShaped
  <1>5. QED
    BY <1>1, <1>2, <1>3, <1>4, OutsideKeeps

LEMMA RequestKeeps ==
  ASSUME Inv, NEW n \in Commands, Request(n), UNCHANGED << deliveryVars, interactionVars >>
  PROVE  Inv'
  <1>1. PICK key \in Keys : key[1] \in { "migrate", "test" } /\ job' = WithJob(job, key, Absent)
    BY DEF Request
  <1>2. /\ UNCHANGED << run, journal, cleaned, inter, settings, sent, changes, row, member, mishaps, handler >>
        /\ consumed' = consumed
    BY DEF Request, deliveryVars, interactionVars, captchaVars
  <1>3. ShapesHold /\ ~ Welcome(key)
    BY <1>1 DEF Inv, Welcome
  <1>4. JobsGo
    BY <1>1, <1>3, WithJobGoes
  <1>5. QED
    BY <1>2, <1>4, QueueKeeps

LEMMA JobForgottenKeeps ==
  ASSUME Inv, NEW k \in Keys, JobForgotten(k), UNCHANGED << deliveryVars, interactionVars >>
  PROVE  Inv'
  <1>1. /\ UNCHANGED << run, journal, cleaned, inter, settings, sent, changes, row, member, mishaps, handler >>
        /\ consumed' = consumed
    BY DEF JobForgotten, deliveryVars, interactionVars, captchaVars
  <1>2. DOMAIN NoJob = JobFields /\ NoJob.state = "none"
    BY DEF NoJob, JobFields
  <1>3. job' = [ job EXCEPT ![k] = NoJob ] /\ job[k].state # "active"
    BY DEF JobForgotten
  <1>4. job = [ q \in Keys |-> job[q] ] /\ \A q \in Keys : DOMAIN job[q] = JobFields
    BY DEF Inv, ShapesHold
  <1>5. /\ job' = [ q \in Keys |-> job'[q] ] /\ job'[k] = NoJob
        /\ \A q \in Keys : q # k => job'[q] = job[q]
    BY <1>3, <1>4
  <1>6. JobsGo
    BY <1>2, <1>3, <1>4, <1>5 DEF JobsGo, JobsShaped
  <1>7. QED
    BY <1>1, <1>6, QueueKeeps

LEMMA EnvironmentNextKeeps ==
  ASSUME Inv, EnvironmentNext, UNCHANGED << deliveryVars, interactionVars >>
  PROVE  Inv'
  BY ChangeSettingsKeeps, JoinKeeps, ScreenKeeps, LeaveKeeps, VerifyKeeps, RequestKeeps,
     JobForgottenKeeps, HandlerFailsKeeps
     DEF EnvironmentNext

\* An interaction goes on: one that has succeeded has consumed a challenge, and
\* one that found the screening completed found what happened.
IntersGo ==
  /\ IntersShaped'
  /\ \A s \in Slots :
       /\ inter'[s].result = "SUCCESS" => inter[s].result = "SUCCESS" \/ consumed' # {}
       /\ inter'[s].screened => inter[s].screened \/ Earned.screening

LEMMA BecomesTo ==
  ASSUME ShapesHold, NEW s \in Slots, NEW i, DOMAIN i = InterFields, Becomes(s, i),
         i.result = "SUCCESS" => inter[s].result = "SUCCESS" \/ consumed' # {},
         i.screened => inter[s].screened \/ Earned.screening
  PROVE  IntersGo
  <1>1. inter = [ t \in Slots |-> inter[t] ] /\ \A t \in Slots : DOMAIN inter[t] = InterFields
    BY DEF ShapesHold
  <1>2. inter' = [ inter EXCEPT ![s] = i ]
    BY DEF Becomes
  <1>3. inter' = [ t \in Slots |-> inter'[t] ] /\ inter'[s] = i /\ \A t \in Slots : t # s => inter'[t] = inter[t]
    BY <1>1, <1>2
  <1>4. IntersShaped'
    BY <1>1, <1>3 DEF IntersShaped
  <1>5. QED
    BY <1>3, <1>4 DEF IntersGo

LEMMA EndsInter ==
  ASSUME ShapesHold, NEW s \in Slots, Becomes(s, NoInter)
  PROVE  IntersGo
  <1>1. DOMAIN NoInter = InterFields /\ NoInter.result = "NONE" /\ ~ NoInter.screened
    BY DEF NoInter, InterFields
  <1>2. QED
    BY <1>1, BecomesTo

LEMMA GoesInter ==
  ASSUME ShapesHold, NEW s \in Slots, NEW step, Goes(s, step)
  PROVE  IntersGo
  <1> DEFINE i == [ inter[s] EXCEPT !.at = step ]
  <1>1. DOMAIN inter[s] = InterFields /\ Becomes(s, i)
    BY DEF ShapesHold, Goes
  <1>2. DOMAIN i = InterFields /\ i.result = inter[s].result /\ i.screened = inter[s].screened
    BY <1>1 DEF InterFields
  <1> HIDE DEF i
  <1>3. QED
    BY <1>1, <1>2, BecomesTo

LEMMA GetsInter ==
  ASSUME ShapesHold, NEW s \in Slots, NEW result, Gets(s, result),
         result = "SUCCESS" => consumed' # {}
  PROVE  IntersGo
  <1> DEFINE i == [ inter[s] EXCEPT !.at = "record", !.result = result, !.seen = 0, !.next = << >> ]
  <1>1. DOMAIN inter[s] = InterFields /\ Becomes(s, i)
    BY DEF ShapesHold, Gets
  <1>2. DOMAIN i = InterFields /\ i.result = result /\ i.screened = inter[s].screened
    BY <1>1 DEF InterFields
  <1> HIDE DEF i
  <1>3. QED
    BY <1>1, <1>2, BecomesTo

LEMMA InteractionKeeps ==
  ASSUME Inv, IntersGo, UNCHANGED << rest, run, journal, cleaned >>, consumed \subseteq consumed', JobsGo,
         DOMAIN row' = RowFields,
         row'.captcha => row.captcha \/ consumed' # {},
         row'.screening => row.screening \/ member.screened # {},
         mishaps' \in { mishaps, mishaps + 1 }
  PROVE  Inv'
  <1>1. UNCHANGED << settings, member, sent, handler, changes >>
    BY DEF rest
  <1>2. Grows
    BY <1>1 DEF Grows
  <1>3. /\ Earned'.captcha <=> consumed' # {} \/ \E n \in Commands : handler'[<< "verify", n >>].at # "idle"
        /\ Earned'.screening <=> member'.screened # {}
    BY DEF Earned
  <1>4. RowHolds'
    <2>1. RowHolds
      BY DEF Inv
    <2>2. (row.captcha => Earned'.captcha) /\ (row.screening => Earned'.screening)
      BY <1>2, <2>1, EarnedGrows DEF RowHolds
    <2>3. (row'.captcha => Earned'.captcha) /\ (row'.screening => Earned'.screening)
      BY <1>1, <1>3, <2>2
    <2>4. \A s \in Slots :
            /\ inter'[s].result = "SUCCESS" => consumed' # {}
            /\ inter'[s].screened => Earned'.screening
      BY <1>2, <2>1, EarnedGrows DEF RowHolds, IntersGo
    <2>5. \A j \in Joins : handler'[<< "update", j >>].at # "idle" => member'.screened # {}
      BY <1>1, <2>1 DEF RowHolds
    <2>6. QED
      BY <2>3, <2>4, <2>5 DEF RowHolds
  <1>5. HandlersShaped' /\ IntersShaped' /\ changes' \in Nat
    BY <1>1 DEF Inv, ShapesHold, HandlersShaped, IntersGo
  <1>6. DOMAIN member' = { "join", "screened", "roles" }
    BY <1>1 DEF Inv, ShapesHold
  <1>7. QED
    BY <1>1, <1>2, <1>4, <1>5, <1>6, OutsideKeeps

\* The interactions that leave the row and the queue alone.
LEMMA CaptchaKeeps ==
  ASSUME Inv, IntersGo, UNCHANGED << rest, run, journal, cleaned, row, job, mishaps >>, consumed \subseteq consumed'
  PROVE  Inv'
  <1>1. ShapesHold /\ DOMAIN row = RowFields
    BY DEF Inv, ShapesHold
  <1>2. QED
    BY <1>1, JobsStay, InteractionKeeps

LEMMA StartsKeeps ==
  ASSUME Inv, NEW s \in Slots, UNCHANGED deliveryVars,
         Start(s) \/ \E c \in Challenges, right \in BOOLEAN : Answer(s, c, right)
  PROVE  Inv'
  <1>1. ShapesHold /\ UNCHANGED << rest, run, journal, cleaned, row, job, mishaps >> /\ consumed' = consumed
    BY DEF Inv, Start, Answer, deliveryVars, captchaVars
  <1>2. PICK i : Becomes(s, i) /\ DOMAIN i = InterFields /\ i.result = "NONE" /\ ~ i.screened
    <2>1. CASE Start(s)
      <3> DEFINE i == [ NoInter EXCEPT !.at = "admit", !.join = member.join ]
      <3>1. Becomes(s, i)
        BY <2>1 DEF Start
      <3>2. DOMAIN i = InterFields /\ i.result = "NONE" /\ ~ i.screened
        BY DEF NoInter, InterFields
      <3>3. QED
        BY <3>1, <3>2
    <2>2. ASSUME NEW c \in Challenges, NEW right \in BOOLEAN, Answer(s, c, right)
          PROVE  \E i : Becomes(s, i) /\ DOMAIN i = InterFields /\ i.result = "NONE" /\ ~ i.screened
      <3> DEFINE i == [ NoInter EXCEPT !.at = "read", !.join = member.join, !.challenge = c,
                                       !.next = << right >> ]
      <3>1. Becomes(s, i)
        BY <2>2 DEF Answer
      <3>2. DOMAIN i = InterFields /\ i.result = "NONE" /\ ~ i.screened
        BY DEF NoInter, InterFields
      <3>3. QED
        BY <3>1, <3>2
    <2>3. QED
      BY <2>1, <2>2
  <1>3. IntersGo
    BY <1>1, <1>2, BecomesTo
  <1>4. QED
    BY <1>1, <1>3, CaptchaKeeps

LEMMA AdmitKeeps ==
  ASSUME Inv, NEW s \in Slots, UNCHANGED deliveryVars, Admit(s)
  PROVE  Inv'
  <1>1. ShapesHold /\ UNCHANGED << rest, run, journal, cleaned, row, job, mishaps >> /\ consumed' = consumed
    BY DEF Inv, Admit, AdmissionLocked, AdmissionLimited, Admitted, deliveryVars
  <1> DEFINE c == CHOOSE c \in Unused : TRUE
             i == [ inter[s] EXCEPT !.at = "previous", !.seen = failures, !.challenge = c ]
  <1>2. Becomes(s, NoInter) \/ Becomes(s, i)
    BY DEF Admit
  <1> HIDE DEF c
  <1>3. DOMAIN inter[s] = InterFields
    BY <1>1 DEF ShapesHold
  <1>4. DOMAIN i = InterFields /\ i.result = inter[s].result /\ i.screened = inter[s].screened
    BY <1>3 DEF InterFields
  <1> HIDE DEF i
  <1>5. IntersGo
    BY <1>1, <1>2, <1>4, EndsInter, BecomesTo
  <1>6. QED
    BY <1>1, <1>5, CaptchaKeeps

LEMMA StoreKeeps ==
  ASSUME Inv, NEW s \in Slots, UNCHANGED deliveryVars, FindPrevious(s) \/ Store(s)
  PROVE  Inv'
  <1>1. ShapesHold /\ UNCHANGED << rest, run, journal, cleaned, row, job, mishaps >> /\ consumed' = consumed
    BY DEF Inv, FindPrevious, Store, StoreChallenge, deliveryVars, captchaVars
  <1> DEFINE i == [ inter[s] EXCEPT !.at = "store", !.previous = active ]
  <1>2. Becomes(s, i) \/ Goes(s, "created")
    BY DEF FindPrevious, Store
  <1>3. DOMAIN inter[s] = InterFields
    BY <1>1 DEF ShapesHold
  <1>4. DOMAIN i = InterFields /\ i.result = inter[s].result /\ i.screened = inter[s].screened
    BY <1>3 DEF InterFields
  <1> HIDE DEF i
  <1>5. IntersGo
    BY <1>1, <1>2, <1>4, GoesInter, BecomesTo
  <1>6. QED
    BY <1>1, <1>5, CaptchaKeeps

LEMMA ReadKeeps ==
  ASSUME Inv, NEW s \in Slots, UNCHANGED deliveryVars, Read(s)
  PROVE  Inv'
  <1>1. ShapesHold /\ UNCHANGED << rest, run, journal, cleaned, row, job, mishaps >> /\ consumed' = consumed
    BY DEF Inv, Read, deliveryVars, captchaVars
  <1> DEFINE next == Append(challenge[inter[s].challenge].progress, inter[s].next[Len(inter[s].next)])
             at == IF Len(next) < Length THEN "append" ELSE "verify"
             i == [ inter[s] EXCEPT !.next = next, !.at = at ]
  <1>2. Gets(s, "REFUSED") \/ (\E step : Goes(s, step)) \/ Becomes(s, i)
    BY DEF Read
  <1> HIDE DEF next, at
  <1>3. DOMAIN inter[s] = InterFields
    BY <1>1 DEF ShapesHold
  <1>4. DOMAIN i = InterFields /\ i.result = inter[s].result /\ i.screened = inter[s].screened
    BY <1>3 DEF InterFields
  <1> HIDE DEF i
  <1>5. IntersGo
    BY <1>1, <1>2, <1>4, GoesInter, GetsInter, BecomesTo
  <1>6. QED
    BY <1>1, <1>5, CaptchaKeeps

LEMMA VerifySequenceKeeps ==
  ASSUME Inv, NEW s \in Slots, UNCHANGED deliveryVars, VerifySequence(s)
  PROVE  Inv'
  <1>1. ShapesHold /\ UNCHANGED << rest, run, journal, cleaned, row, job, mishaps >> /\ consumed' = consumed
    BY DEF Inv, VerifySequence, deliveryVars, captchaVars
  <1>2. Gets(s, "REFUSED") \/ \E step : Goes(s, step)
    BY DEF VerifySequence
  <1>3. IntersGo
    BY <1>1, <1>2, GoesInter, GetsInter
  <1>4. QED
    BY <1>1, <1>3, CaptchaKeeps

LEMMA AppendChoiceKeeps ==
  ASSUME Inv, NEW s \in Slots, UNCHANGED deliveryVars, AppendChoice(s)
  PROVE  Inv'
  <1>1. ShapesHold /\ UNCHANGED << rest, run, journal, cleaned, row, job, mishaps >> /\ consumed' = consumed
    BY DEF Inv, AppendChoice, Appends, deliveryVars, captchaVars
  <1> DEFINE i == [ inter[s] EXCEPT !.at = "read", !.seen = @ + 1 ]
  <1>2. Becomes(s, NoInter) \/ Becomes(s, i) \/ Gets(s, "REFUSED")
    BY DEF AppendChoice
  <1>3. DOMAIN inter[s] = InterFields
    BY <1>1 DEF ShapesHold
  <1>4. DOMAIN i = InterFields /\ i.result = inter[s].result /\ i.screened = inter[s].screened
    BY <1>3 DEF InterFields
  <1> HIDE DEF i
  <1>5. IntersGo
    BY <1>1, <1>2, <1>4, EndsInter, GetsInter, BecomesTo
  <1>6. QED
    BY <1>1, <1>5, CaptchaKeeps

\* Only a consumed challenge is a success.
LEMMA ConsumeKeeps ==
  ASSUME Inv, NEW s \in Slots, UNCHANGED deliveryVars, Consume(s)
  PROVE  Inv'
  <1>1. ShapesHold /\ UNCHANGED << rest, run, journal, cleaned, row, job, mishaps >>
        /\ consumed \subseteq consumed'
    BY DEF Inv, Consume, ConsumeSuccess, deliveryVars, captchaVars
  <1>2. (Gets(s, "SUCCESS") /\ consumed' # {}) \/ Gets(s, "REFUSED")
    BY DEF Consume, ConsumeSuccess
  <1>3. IntersGo
    BY <1>1, <1>2, GetsInter
  <1>4. QED
    BY <1>1, <1>3, CaptchaKeeps

LEMMA FailKeeps ==
  ASSUME Inv, NEW s \in Slots, UNCHANGED deliveryVars, Fail(s)
  PROVE  Inv'
  <1>1. ShapesHold /\ UNCHANGED << rest, run, journal, cleaned, row, job, mishaps >> /\ consumed' = consumed
    BY DEF Inv, Fail, CountFailure, LockOut, deliveryVars, captchaVars
  <1>2. IntersGo
    BY <1>1, GetsInter DEF Fail
  <1>3. QED
    BY <1>1, <1>2, CaptchaKeeps

LEMMA ReadRowKeeps ==
  ASSUME Inv, NEW s \in Slots, UNCHANGED deliveryVars, ReadRow(s)
  PROVE  Inv'
  <1>1. ShapesHold /\ UNCHANGED << rest, run, journal, cleaned, row, job, mishaps >>
        /\ consumed' = consumed
    BY DEF Inv, ReadRow, deliveryVars, captchaVars
  <1> DEFINE screened == row.screening \/ inter[s].join \in member.screened
             i == [ inter[s] EXCEPT !.at = "write", !.screened = screened ]
  <1>2. Becomes(s, i)
    BY DEF ReadRow
  <1>3. screened => Earned.screening
    BY EarnedIs DEF Inv, RowHolds
  <1>4. DOMAIN inter[s] = InterFields
    BY <1>1 DEF ShapesHold
  <1> HIDE DEF screened
  <1>5. DOMAIN i = InterFields /\ i.result = inter[s].result /\ i.screened = screened
    BY <1>4 DEF InterFields
  <1> HIDE DEF i
  <1>6. IntersGo
    BY <1>1, <1>2, <1>3, <1>5, BecomesTo
  <1>7. QED
    BY <1>1, <1>6, CaptchaKeeps

LEMMA RecordKeeps ==
  ASSUME Inv, NEW s \in Slots, UNCHANGED deliveryVars, RecordCreated(s) \/ Record(s)
  PROVE  Inv'
  <1>1. ShapesHold /\ UNCHANGED << rest, run, journal, cleaned, job, mishaps >> /\ consumed' = consumed
        /\ DOMAIN row = RowFields
    BY DEF Inv, ShapesHold, RecordCreated, Record, deliveryVars, captchaVars
  <1>2. Becomes(s, NoInter) \/ \E step : Goes(s, step)
    BY DEF RecordCreated, Record
  <1>3. IntersGo
    BY <1>1, <1>2, EndsInter, GoesInter
  <1>4. /\ DOMAIN row' = RowFields
        /\ row'.captcha => row.captcha \/ inter[s].result = "SUCCESS"
        /\ row'.screening => member.screened # {} \/ inter[s].screened
    <2> DEFINE screened == inter[s].join \in member.screened
               succeeded == inter[s].result = "SUCCESS"
    <2>1. screened => member.screened # {}
      OBVIOUS
    <2>2. CASE RecordCreated(s)
      <3>1. row' = [ row EXCEPT !.exists = TRUE, !.screening = screened ]
        BY <2>2 DEF RecordCreated
      <3> HIDE DEF screened
      <3>2. DOMAIN row' = RowFields
        BY <1>1, <3>1
      <3>3. row'.captcha = row.captcha /\ row'.screening = screened
        BY <1>1, <3>1 DEF RowFields
      <3>4. QED
        BY <2>1, <3>2, <3>3
    <2>3. CASE Record(s)
      <3> DEFINE captcha == row.captcha \/ succeeded
                 screening == inter[s].screened
      <3>1. row' = [ row EXCEPT !.exists = TRUE, !.captcha = captcha, !.screening = screening ]
        BY <2>3 DEF Record
      <3>2. captcha => row.captcha \/ succeeded
        OBVIOUS
      <3> HIDE DEF screened, succeeded, captcha, screening
      <3>3. DOMAIN row' = RowFields
        BY <1>1, <3>1
      <3>4. row'.captcha = captcha /\ row'.screening = screening
        BY <1>1, <3>1 DEF RowFields
      <3>5. QED
        BY <3>2, <3>3, <3>4 DEF succeeded, screening
    <2>4. QED
      BY <2>2, <2>3
  <1>5. /\ inter[s].result = "SUCCESS" => consumed' # {}
        /\ inter[s].screened => member.screened # {}
    BY <1>1, EarnedIs DEF Inv, RowHolds
  <1>6. JobsGo
    BY <1>1, JobsStay
  <1>7. QED
    BY <1>1, <1>3, <1>4, <1>5, <1>6, InteractionKeeps

LEMMA QueueEvaluationKeeps ==
  ASSUME Inv, NEW s \in Slots, UNCHANGED deliveryVars, QueueEvaluation(s)
  PROVE  Inv'
  <1> DEFINE key == << "evaluate", "CAPTCHA", inter[s].challenge >>
  <1>1. ShapesHold /\ UNCHANGED << rest, run, journal, cleaned, row, mishaps >> /\ consumed' = consumed
        /\ DOMAIN row = RowFields
    BY DEF Inv, ShapesHold, QueueEvaluation, deliveryVars, captchaVars
  <1>2. ~ Welcome(key)
    BY DEF Welcome
  <1>3. job' = WithJob(job, key, inter[s].join)
    BY DEF QueueEvaluation
  <1> HIDE DEF key
  <1>4. JobsGo
    BY <1>1, <1>2, <1>3, WithJobGoes
  <1>5. IntersGo
    BY <1>1, EndsInter DEF QueueEvaluation
  <1>6. QED
    BY <1>1, <1>4, <1>5, InteractionKeeps

LEMMA InteractionFailsKeeps ==
  ASSUME Inv, NEW s \in Slots, UNCHANGED deliveryVars, InteractionFails(s)
  PROVE  Inv'
  <1>1. ShapesHold /\ UNCHANGED << rest, run, journal, cleaned, row, job >> /\ consumed' = consumed
        /\ DOMAIN row = RowFields /\ mishaps' = mishaps + 1
    BY DEF Inv, ShapesHold, InteractionFails, deliveryVars, captchaVars
  <1>2. IntersGo
    BY <1>1, EndsInter DEF InteractionFails
  <1>3. QED
    BY <1>1, <1>2, JobsStay, InteractionKeeps

LEMMA KeysExpireKeeps ==
  ASSUME Inv, UNCHANGED deliveryVars, KeysExpire
  PROVE  Inv'
  <1>1. ShapesHold /\ UNCHANGED << rest, run, journal, cleaned, row, job, mishaps, inter >> /\ consumed' = consumed
    BY DEF Inv, KeysExpire, ChallengeExpires, LockExpires, FailuresExpire, CooldownExpires,
           deliveryVars, interactionVars
  <1>2. IntersGo
    BY <1>1 DEF ShapesHold, IntersGo, IntersShaped
  <1>3. QED
    BY <1>1, <1>2, CaptchaKeeps

LEMMA InteractionNextKeeps ==
  ASSUME Inv, InteractionNext \/ (\E s \in Slots : InteractionFails(s)), UNCHANGED deliveryVars
  PROVE  Inv'
  BY StartsKeeps, AdmitKeeps, StoreKeeps, ReadKeeps, VerifySequenceKeeps, AppendChoiceKeeps,
     ConsumeKeeps, FailKeeps, ReadRowKeeps, RecordKeeps, QueueEvaluationKeeps, InteractionFailsKeeps, KeysExpireKeeps
     DEF InteractionNext, InteractionStep

-------------------------------------------------------------------------------
(***************************************************************************)
(* The bot is restarted: runs, interactions and handlers end.              *)
(***************************************************************************)
LEMMA CrashKeeps ==
  ASSUME Inv, Crash
  PROVE  Inv'
  <1>1. ShapesHold /\ RunsHold /\ RowHolds /\ VerifiedHolds /\ WelcomesHold
    BY DEF Inv
  <1>2. /\ UNCHANGED << settings, row, member, sent, changes, journal, cleaned >>
        /\ consumed' = consumed /\ mishaps' = mishaps + 1
    BY DEF Crash, captchaVars
  <1>3. mishaps \in Nat /\ changes' \in Nat /\ mishaps' \in Nat
    BY <1>1, <1>2 DEF ShapesHold
  <1>4. /\ run' = [ k \in Keys |-> run'[k] ]
        /\ \A k \in Keys : run'[k] = NoRun
    BY DEF Crash
  <1>5. DOMAIN NoRun = RunFields /\ NoRun.at = "none" /\ NoRun.todo = {} /\ ~ NoRun.satisfied
    BY DEF NoRun, RunFields
  <1>6. /\ job' = [ k \in Keys |-> job'[k] ]
        /\ \A k \in Keys : /\ DOMAIN job'[k] = JobFields
                           /\ job'[k].state # "active"
                           /\ job'[k].state = "none" <=> job[k].state = "none"
    <2>1. job' = [ k \in Keys |-> job'[k] ]
      BY DEF Crash
    <2>2. ASSUME NEW k \in Keys
          PROVE  /\ DOMAIN job'[k] = JobFields /\ job'[k].state # "active"
                 /\ job'[k].state = "none" <=> job[k].state = "none"
      <3> DEFINE over == [ job[k] EXCEPT !.state = "over" ]
                 again == [ job[k] EXCEPT !.state = "queued", !.stalled = TRUE ]
      <3>1. job'[k] = IF job[k].state # "active" THEN job[k] ELSE IF job[k].stalled THEN over ELSE again
        BY DEF Crash
      <3>2. DOMAIN job[k] = JobFields
        BY <1>1 DEF ShapesHold
      <3>3. DOMAIN over = JobFields /\ over.state = "over" /\ DOMAIN again = JobFields /\ again.state = "queued"
        BY <3>2 DEF JobFields
      <3> HIDE DEF over, again
      <3>4. QED
        BY <3>1, <3>2, <3>3
    <2>3. QED
      BY <2>1, <2>2
  <1>7. /\ HandlersShaped'
        /\ \A h \in Handlers : handler'[h].at = "idle" <=> handler[h].at = "idle"
    <2>1. handler' = [ h \in Handlers |-> handler'[h] ]
      BY DEF Crash
    <2>2. ASSUME NEW h \in Handlers
          PROVE  /\ DOMAIN handler'[h] = HandlerFields
                 /\ handler'[h].todo \in Seq(HandlerKeys)
                 /\ handler'[h].at = "jobs" => handler'[h].todo # << >>
                 /\ handler'[h].at = "idle" <=> handler[h].at = "idle"
      <3> DEFINE done == [ Idle EXCEPT !.at = "done", !.join = handler[h].join ]
      <3>1. handler'[h] = IF handler[h].at = "idle" THEN Idle ELSE done
        BY DEF Crash
      <3>2. DOMAIN done = HandlerFields /\ done.at = "done" /\ done.todo = << >>
        BY DEF Idle, HandlerFields
      <3>3. DOMAIN Idle = HandlerFields /\ Idle.at = "idle" /\ Idle.todo = << >>
        BY DEF Idle, HandlerFields
      <3>4. << >> \in Seq(HandlerKeys)
        OBVIOUS
      <3> HIDE DEF done
      <3>5. QED
        BY <3>1, <3>2, <3>3, <3>4
    <2>3. QED
      BY <2>1, <2>2 DEF HandlersShaped
  <1>8. IntersShaped' /\ \A s \in Slots : inter'[s].result # "SUCCESS" /\ ~ inter'[s].screened
    <2>1. DOMAIN NoInter = InterFields /\ NoInter.result = "NONE" /\ ~ NoInter.screened
      BY DEF NoInter, InterFields
    <2>2. inter' = [ s \in Slots |-> inter'[s] ] /\ \A s \in Slots : inter'[s] = NoInter
      BY DEF Crash
    <2>3. QED
      BY <2>1, <2>2 DEF IntersShaped
  <1>9. Grows
    BY <1>2, <1>7 DEF Grows
  <1>10. changes' = 0 => changes = 0 /\ (IsVerified => IsVerified')
    BY <1>2, <1>9, EarnedGrows
  <1>11. ShapesHold'
    <2>1. DOMAIN row' = RowFields /\ DOMAIN member' = { "join", "screened", "roles" }
      BY <1>1, <1>2 DEF ShapesHold
    <2>2. sent' \in [ Keys -> Nat ] /\ journal' = [ q \in Keys |-> journal'[q] ]
          /\ cleaned' \in [ Keys -> Nat ]
      BY <1>1, <1>2 DEF ShapesHold
    <2>3. \A k \in Keys : DOMAIN run'[k] = RunFields
      BY <1>4, <1>5
    <2>4. QED
      BY <1>3, <1>4, <1>6, <1>7, <1>8, <2>1, <2>2, <2>3 DEF ShapesHold, HandlersShaped, IntersShaped
  <1>12. RowHolds'
    <2>1. (row'.captcha => Earned'.captcha) /\ (row'.screening => Earned'.screening)
      BY <1>1, <1>2, <1>9, EarnedGrows DEF RowHolds
    <2>2. \A j \in Joins : << "update", j >> \in Handlers
      BY DEF Handlers
    <2>3. \A j \in Joins : handler'[<< "update", j >>].at # "idle" => member'.screened # {}
      BY <1>1, <1>2, <1>7, <2>2 DEF RowHolds
    <2>4. QED
      BY <1>8, <2>1, <2>3 DEF RowHolds
  <1>13. RunsHold'
    BY <1>2, <1>4, <1>5, <1>6 DEF RunsHold, RunHolds
  <1>14. VerifiedHolds'
    <2>1. WasMigrated' = WasMigrated
      BY <1>2 DEF WasMigrated, WasClaimed
    <2>2. QED
      BY <1>1, <1>2, <1>4, <1>5, <1>10, <2>1 DEF VerifiedHolds
  <1>15. WelcomesHold'
    BY <1>1, <1>2, <1>6, <1>10 DEF WelcomesHold
  <1>16. DeliveredHolds'
    <2> SUFFICES ASSUME NEW k \in Keys PROVE SentHolds(k)'
      BY DEF DeliveredHolds
    <2>1. SentHolds(k)
      BY DEF Inv, DeliveredHolds
    <2>2. run'[k].at = "none"
      BY <1>4, <1>5
    <2>3. QED
      BY <1>1, <1>2, <2>1, <2>2, Counts DEF SentHolds, Pending, Delivered
  <1>17. QED
    BY <1>11, <1>12, <1>13, <1>14, <1>15, <1>16 DEF Inv

-------------------------------------------------------------------------------
(***************************************************************************)
(* The theorems.                                                           *)
(***************************************************************************)
LEMMA InvStarts ==
  ASSUME Init
  PROVE  Inv
  <1>1. /\ DOMAIN NoRun = RunFields /\ NoRun.at = "none" /\ NoRun.todo = {} /\ ~ NoRun.satisfied
        /\ run = [ k \in Keys |-> NoRun ]
    BY DEF NoRun, RunFields, Init, DeliveriesInit
  <1>2. DOMAIN NoJob = JobFields /\ NoJob.state = "none" /\ job = [ k \in Keys |-> NoJob ]
    BY DEF NoJob, JobFields, Init, MemberInit
  <1>3. DOMAIN Idle = HandlerFields /\ Idle.at = "idle" /\ Idle.todo = << >>
        /\ handler = [ h \in Handlers |-> Idle ] /\ << >> \in Seq(HandlerKeys)
    BY DEF Idle, HandlerFields, Init, MemberInit
  <1>4. DOMAIN NoInter = InterFields /\ NoInter.result = "NONE" /\ ~ NoInter.screened /\ inter = [ s \in Slots |-> NoInter ]
    BY DEF NoInter, InterFields, Init, InteractionsInit
  <1>5. DOMAIN row = RowFields /\ ~ row.captcha /\ ~ row.screening
    BY DEF Init, MemberInit, NoRow, RowFields
  <1>6. /\ DOMAIN member = { "join", "screened", "roles" } /\ member.roles = {}
        /\ sent = [ k \in Keys |-> 0 ] /\ mishaps = 0 /\ changes = 0
    BY DEF Init, MemberInit
  <1>7. journal = [ k \in Keys |-> "NONE" ] /\ cleaned = [ k \in Keys |-> 0 ]
    BY DEF Init, DeliveriesInit, JournalInit
  <1>8. ShapesHold
    <2>1. run = [ k \in Keys |-> run[k] ] /\ \A k \in Keys : DOMAIN run[k] = RunFields
      BY <1>1
    <2>2. job = [ k \in Keys |-> job[k] ] /\ \A k \in Keys : DOMAIN job[k] = JobFields
      BY <1>2
    <2>3. HandlersShaped
      BY <1>3 DEF HandlersShaped
    <2>4. IntersShaped
      BY <1>4 DEF IntersShaped
    <2>5. sent \in [ Keys -> Nat ] /\ journal = [ k \in Keys |-> journal[k] ]
          /\ cleaned \in [ Keys -> Nat ]
      BY <1>6, <1>7
    <2>6. QED
      BY <1>5, <1>6, <2>1, <2>2, <2>3, <2>4, <2>5 DEF ShapesHold, HandlersShaped, IntersShaped
  <1>9. RowHolds
    <2>1. \A j \in Joins : << "update", j >> \in Handlers
      BY DEF Handlers
    <2>2. \A j \in Joins : handler[<< "update", j >>].at = "idle"
      BY <1>3, <2>1
    <2>3. QED
      BY <1>4, <1>5, <2>2 DEF RowHolds
  <1>10. RunsHold
    BY <1>1, <1>2 DEF RunsHold, RunHolds
  <1>11. VerifiedHolds
    BY <1>1, <1>6 DEF VerifiedHolds
  <1>12. WelcomesHold
    BY <1>2, <1>6 DEF WelcomesHold
  <1>13. DeliveredHolds
    BY <1>1, <1>6, <1>7 DEF DeliveredHolds, SentHolds, Pending, Delivered
  <1>14. QED
    BY <1>8, <1>9, <1>10, <1>11, <1>12, <1>13 DEF Inv

LEMMA InvKept ==
  ASSUME Inv, [Next]_vars
  PROVE  Inv'
  <1>1. CASE HandlerNext /\ UNCHANGED << deliveryVars, interactionVars >>
    BY <1>1, HandlerNextKeeps
  <1>2. CASE EnvironmentNext /\ UNCHANGED << deliveryVars, interactionVars >>
    BY <1>2, EnvironmentNextKeeps
  <1>3. CASE DeliveryNext /\ UNCHANGED interactionVars
    BY <1>3, DeliveryNextKeeps
  <1>4. CASE (InteractionNext \/ \E s \in Slots : InteractionFails(s)) /\ UNCHANGED deliveryVars
    BY <1>4, InteractionNextKeeps
  <1>5. CASE Crash
    BY <1>5, CrashKeeps
  <1>6. CASE UNCHANGED vars
    <2>1. UNCHANGED << captchaVars, settings, handler, changes, row, member, sent, job, mishaps, run,
                       journal, cleaned, inter >>
      BY <1>6 DEF vars, memberVars, deliveryVars, interactionVars
    <2>2. QED
      BY <2>1, StutterKeeps
  <1>7. QED
    BY <1>1, <1>2, <1>3, <1>4, <1>5, <1>6 DEF Next

LEMMA InvHolds == Spec => []Inv
  BY InvStarts, InvKept, PTL DEF Spec

\* (onboarding-service.ts:1037-1111, #evaluateMemberConditions) However answers,
\* row updates, evaluations, commands, failures and restarts interleave, a member
\* of a guild whose configuration stays has the verified role only if its
\* condition was met by what happened, or by a migration.
THEOREM VerifiedIsEarned == Spec => []VerifiedWasEarned
  <1>1. Inv => VerifiedWasEarned
    BY DEF Inv, VerifiedHolds, VerifiedWasEarned, IsVerified, WasMigrated
  <1>2. QED
    BY InvHolds, <1>1, PTL

\* (event-journal.ts:29-62, OnboardingEventJournal.claim; queue/index.ts:269;
\* worker/src/index.ts:539-581) However many jobs run at a time, whichever of them
\* BullMQ forgets and whatever fails when, every repetition of a message was paid
\* for by a failed call, a restart or the deletion of its row.
THEOREM MessagesAreSentOnce == Spec => []SentOnce
  <1>1. Inv => SentOnce
    <2> SUFFICES ASSUME Inv, NEW k \in Keys PROVE sent[k] <= 1 + mishaps + cleaned[k]
      BY DEF SentOnce
    <2>1. SentHolds(k) /\ ShapesHold
      BY DEF Inv, DeliveredHolds
    <2>2. QED
      BY <2>1, Counts DEF SentHolds
  <1>2. QED
    BY InvHolds, <1>1, PTL

\* (onboarding-service.ts:1223, #enqueueVerifiedWelcome) No member is welcomed
\* as verified whom the guild's condition leaves out.
THEOREM WelcomesAreEarned == Spec => []WelcomedWhenVerified
  <1>1. Inv => WelcomedWhenVerified
    BY DEF Inv, WelcomesHold, WelcomedWhenVerified, Welcome, IsVerified
  <1>2. QED
    BY InvHolds, <1>1, PTL
====
