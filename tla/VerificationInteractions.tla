------------------------ MODULE VerificationInteractions ------------------------
(***************************************************************************)
(* The member's interactions with the verification panel and its captchas  *)
(* (apps/bot/src/verification-interactions.ts): each runs in the bot with  *)
(* an await between any two of its calls to Redis and to the database.     *)
(***************************************************************************)
EXTENDS MemberOnboarding

CONSTANTS
  Slots,    \* interactions the member may have going at once
  Expiring  \* bound: the keys of the captcha store whose time may run out

ASSUME InteractionsAssumption == Expiring \subseteq { "challenge", "lock", "failures", "cooldown" }

VARIABLES
  inter,  \* what an interaction is doing
  shown   \* challenges the member has been shown

interactionVars == << inter, shown >>
rest == << settings, member, sent, posted, handler, joined, commands, changes >>

\* INVALID, LOCKED, EXPIRED and REPLAY differ in what the member is told.
Results == { "NONE", "SUCCESS", "REFUSED" }
InterSteps ==
  { "idle", "admit", "previous", "store", "created", "read", "append", "verify",
    "consume", "fail", "record", "write", "queue" }

\* `join' is the member it was read with; `seen' the failures the admission
\* found, or how often the choice was tried; `previous' the challenge to
\* replace; `next' what is answered; `screened' what the recording of the
\* result found.
Inter ==
  [ at : InterSteps, join : Joins \cup { Absent }, challenge : Challenges \cup { Nothing },
    seen : Nat, previous : Challenges \cup { Nothing }, next : Progress \cup [ 1 .. Length -> BOOLEAN ],
    result : Results, screened : BOOLEAN ]

NoInter ==
  [ at |-> "idle", join |-> Absent, challenge |-> Nothing, seen |-> 0, previous |-> Nothing,
    next |-> << >>, result |-> "NONE", screened |-> FALSE ]

InteractionsTypeOK ==
  /\ inter \in [ Slots -> Inter ]
  /\ shown \in SUBSET Challenges

InteractionsInit ==
  /\ inter = [ s \in Slots |-> NoInter ]
  /\ shown = {}

Becomes(s, i) == inter' = [ inter EXCEPT ![s] = i ]
Goes(s, step) == Becomes(s, [ inter[s] EXCEPT !.at = step ])
\* What was read and answered is no longer of use.
Gets(s, result) ==
  Becomes(s, [ inter[s] EXCEPT !.at = "record", !.result = result, !.seen = 0, !.next = << >> ])

\* #context: the configuration and the member are read.
HasContext == Present /\ settings.verification

-------------------------------------------------------------------------------
(***************************************************************************)
(* handleStart and CaptchaStore.create.                                    *)
(***************************************************************************)

\* A member whose captcha is recorded gets no other one.
Start(s) ==
  /\ inter[s].at = "idle"
  /\ settings.panel
  /\ HasContext
  /\ ~row.captcha
  /\ Becomes(s, [ NoInter EXCEPT !.at = "admit", !.join = member.join ])
  /\ UNCHANGED << rest, captchaVars, row, job, mishaps, shown >>

Admit(s) ==
  /\ inter[s].at = "admit"
  /\ \/ (AdmissionLocked \/ AdmissionLimited) /\ Becomes(s, NoInter)
     \/ /\ Unused # {}
        /\ Admitted
        /\ Becomes(s, [ inter[s] EXCEPT !.at = "previous", !.seen = failures,
                          !.challenge = CHOOSE c \in Unused : TRUE ])
  /\ UNCHANGED << rest, row, job, mishaps, shown >>

FindPrevious(s) ==
  /\ inter[s].at = "previous"
  /\ Becomes(s, [ inter[s] EXCEPT !.at = "store", !.previous = active ])
  /\ UNCHANGED << rest, captchaVars, row, job, mishaps, shown >>

Store(s) ==
  /\ inter[s].at = "store"
  /\ \E mode \in Modes :
       StoreChallenge(inter[s].challenge, inter[s].previous, Remaining(inter[s].seen), mode)
  /\ Goes(s, "created")
  /\ UNCHANGED << rest, row, job, mishaps, shown >>

\* #recordChallengeCreated; the challenge is shown then.
RecordCreated(s) ==
  /\ inter[s].at = "created"
  /\ row' = [ row EXCEPT !.exists = TRUE,
                         !.screening = inter[s].join \in member.screened ]
  /\ shown' = shown \cup { inter[s].challenge }
  /\ Becomes(s, NoInter)
  /\ UNCHANGED << rest, captchaVars, job, mishaps >>

-------------------------------------------------------------------------------
(***************************************************************************)
(* handleModal and handleSequence, CaptchaStore.verify and                 *)
(* appendSequenceChoice.                                                   *)
(***************************************************************************)

\* The member answers a challenge, or makes the next choice of a sequence.
Answer(s, c, right) ==
  /\ inter[s].at = "idle"
  /\ HasContext
  /\ c \in shown
  /\ Becomes(s, [ NoInter EXCEPT !.at = "read", !.join = member.join, !.challenge = c, !.next = << right >> ])
  /\ UNCHANGED << rest, captchaVars, row, job, mishaps, shown >>

\* #readState.  Choices are collected until the sequence is long enough.
Read(s) ==
  LET c == inter[s].challenge
      choice == inter[s].next[Len(inter[s].next)]
      next == Append(challenge[c].progress, choice)
  IN
  /\ inter[s].at = "read"
  /\ IF ~Live(c) THEN Gets(s, "REFUSED")
     ELSE IF challenge[c].mode = "TEXT" THEN Goes(s, IF choice THEN "consume" ELSE "fail")
     ELSE Becomes(s, [ inter[s] EXCEPT !.next = next,
                         !.at = IF Len(next) < Length THEN "append" ELSE "verify" ])
  /\ UNCHANGED << rest, captchaVars, row, job, mishaps, shown >>

\* The complete sequence is answered like a text.
VerifySequence(s) ==
  LET i == inter[s] IN
  /\ i.at = "verify"
  /\ IF Live(i.challenge)
       THEN Goes(s, IF \A n \in DOMAIN i.next : i.next[n] THEN "consume" ELSE "fail")
       ELSE Gets(s, "REFUSED")
  /\ UNCHANGED << rest, captchaVars, row, job, mishaps, shown >>

\* The script finds the progress that was read, or all is tried again, three
\* times altogether.
AppendChoice(s) ==
  LET i == inter[s]
      seen == SubSeq(i.next, 1, Len(i.next) - 1)
  IN
  /\ i.at = "append"
  /\ \/ Appends(i.challenge, seen, i.next) /\ Becomes(s, NoInter)
     \/ /\ ~(Live(i.challenge) /\ challenge[i.challenge].progress = seen)
        /\ IF i.seen < 2 THEN Becomes(s, [ i EXCEPT !.at = "read", !.seen = @ + 1 ])
                         ELSE Gets(s, "REFUSED")
        /\ UNCHANGED captchaVars
  /\ UNCHANGED << rest, row, job, mishaps, shown >>

Consume(s) ==
  LET c == inter[s].challenge IN
  /\ inter[s].at = "consume"
  /\ \/ ConsumeSuccess(c) /\ Gets(s, "SUCCESS")
     \/ ~Live(c) /\ Gets(s, "REFUSED") /\ UNCHANGED captchaVars
  /\ UNCHANGED << rest, row, job, mishaps, shown >>

Fail(s) ==
  LET c == inter[s].challenge IN
  /\ inter[s].at = "fail"
  /\ CountFailure(c) \/ LockOut(c) \/ (~Live(c) /\ UNCHANGED captchaVars)
  /\ Gets(s, "REFUSED")
  /\ UNCHANGED << rest, row, job, mishaps, shown >>

-------------------------------------------------------------------------------
(***************************************************************************)
(* #finish: the result is recorded, and a success queues an evaluation.    *)
(***************************************************************************)

\* #recordResult reads the row, at READ COMMITTED ...
ReadRow(s) ==
  LET i == inter[s] IN
  /\ i.at = "record"
  /\ Becomes(s, [ i EXCEPT !.at = "write", !.screened = row.screening \/ i.join \in member.screened ])
  /\ UNCHANGED << rest, captchaVars, row, job, mishaps, shown >>

\* (mutant) an answer is recorded as the captcha, right or wrong
RecordAnyAnswer(s) ==
  LET i == inter[s] IN
  /\ i.at = "write"
  /\ row' = [ row EXCEPT !.exists = TRUE, !.captcha = TRUE, !.screening = i.screened ]
  /\ IF i.result = "SUCCESS" THEN Goes(s, "queue") ELSE Becomes(s, NoInter)
  /\ UNCHANGED << rest, captchaVars, job, mishaps, shown >>

\* ... and writes what it found of the screening over what is there now.
Record(s) ==
  LET i == inter[s] IN
  /\ i.at = "write"
  /\ row' = [ row EXCEPT !.exists = TRUE, !.captcha = @ \/ i.result = "SUCCESS",
                         !.screening = i.screened ]
  /\ IF i.result = "SUCCESS" THEN Goes(s, "queue") ELSE Becomes(s, NoInter)
  /\ UNCHANGED << rest, captchaVars, job, mishaps, shown >>

\* (mutant) the job does not say for which join of the member it is
QueueEvaluationUnbound(s) ==
  LET i == inter[s] IN
  /\ i.at = "queue"
  /\ job' = WithJob(job, << "evaluate", "CAPTCHA", i.challenge >>, Absent)
  /\ Becomes(s, NoInter)
  /\ UNCHANGED << rest, captchaVars, row, mishaps, shown >>

\* The key names the interaction; a challenge is solved by one.
QueueEvaluation(s) ==
  LET i == inter[s] IN
  /\ i.at = "queue"
  /\ job' = WithJob(job, << "evaluate", "CAPTCHA", i.challenge >>, i.join)
  /\ Becomes(s, NoInter)
  /\ UNCHANGED << rest, captchaVars, row, mishaps, shown >>

\* A call to Redis, the database or the queue fails, and the interaction ends.
InteractionFails(s) ==
  /\ inter[s].at # "idle"
  /\ mishaps < settings.mishaps
  /\ mishaps' = mishaps + 1
  /\ Becomes(s, NoInter)
  /\ UNCHANGED << rest, captchaVars, row, job, shown >>

\* Keys of the captcha store expire.  The cooldown of a start outlasts the two
\* commands that follow it, each of which times out sooner.
KeysExpire ==
  /\ \/ "challenge" \in Expiring /\ \E c \in Challenges : ChallengeExpires(c)
     \/ "lock" \in Expiring /\ LockExpires
     \/ "failures" \in Expiring /\ FailuresExpire
     \/ "cooldown" \in Expiring /\ CooldownExpires /\ \A s \in Slots : inter[s].at \notin { "previous", "store" }
  /\ UNCHANGED << rest, row, job, mishaps, interactionVars >>

InteractionStep(s) ==
  \/ Admit(s) \/ FindPrevious(s) \/ Store(s) \/ RecordCreated(s)
  \/ Read(s) \/ VerifySequence(s) \/ AppendChoice(s) \/ Consume(s) \/ Fail(s)
  \/ ReadRow(s) \/ Record(s) \/ QueueEvaluation(s)

InteractionNext ==
  \/ \E s \in Slots : InteractionStep(s) \/ Start(s)
  \/ \E s \in Slots, c \in Challenges, right \in BOOLEAN : Answer(s, c, right)
  \/ KeysExpire
===============================================================================
