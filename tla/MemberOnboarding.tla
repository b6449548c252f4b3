--------------------------- MODULE MemberOnboarding ---------------------------
(***************************************************************************)
(* One member of one guild with onboarding: the member's verification row, *)
(* what Discord knows of the member, the queue of onboarding jobs, and     *)
(* those who put jobs there: the handlers of gateway events and the        *)
(* moderators' commands.                                                   *)
(*                                                                         *)
(* Source: apps/bot/src/onboarding-service.ts.                             *)
(***************************************************************************)
EXTENDS Captcha, FiniteSets

CONSTANTS
  SettingsSet,  \* the configurations the guild may have
  Kinds,        \* bound: the kinds of job that these lead to
  Forgotten,    \* bound: the kinds of job that BullMQ removes within the run
  MaxJoins,     \* bound: joins of the member
  MaxCommands   \* bound: commands of moderators and administrators

Joins == 1 .. MaxJoins
Commands == 1 .. MaxCommands
Absent == 0

\* Roles of the guild in the order in which a job assigns them: the unverified
\* role, the automatic one of newcomers, the automatic one of members who
\* completed the screening, the verified role, the automatic one of verified.
RoleOrder == << "unverified", "newcomer", "screened", "verified", "regular" >>
Roles == { RoleOrder[n] : n \in 1 .. Len(RoleOrder) }

Triggers == { "JOIN", "VERIFICATION" }
Conditions == { "CAPTCHA_ONLY", "SCREENING_ONLY", "EITHER", "BOTH" }

\* GuildOnboardingConfig, as far as it decides anything here.  `assignable' are
\* the roles the bot may give, `allowed' the automatic ones the plan covers.  The
\* last two lines bound what happens in the guild: whether Discord's screening is
\* on and the member uses the panel, and how often what else occurs.
Settings ==
  [ verification : BOOLEAN, dedicated : BOOLEAN, condition : Conditions,
    welcome : SUBSET Triggers, dm : SUBSET Triggers, goodbye : BOOLEAN,
    deletes : BOOLEAN, autoRole : BOOLEAN, allowed : SUBSET Roles,
    assignable : SUBSET Roles, retry : BOOLEAN, continueOnError : BOOLEAN,
    screening : BOOLEAN, panel : BOOLEAN,
    joins : Nat, commands : Nat, changes : Nat, mishaps : Nat ]

ASSUME MemberAssumption ==
  /\ SettingsSet \subseteq Settings
  /\ MaxJoins \in Nat \ { 0 }
  /\ MaxCommands \in Nat
  /\ \A set \in SettingsSet : set.joins <= MaxJoins /\ set.commands <= MaxCommands

\* A job is known by its idempotency key: what it does, why, and for which join
\* of the member or by which command.
Keys ==
  { k \in
      ({ "channel", "dm" } \X Triggers \X Joins)
      \cup ({ "roles" } \X { "JOIN" } \X Joins)
      \cup ({ "evaluate" } \X { "SCREENING" } \X Joins)
      \cup ({ "evaluate" } \X { "CAPTCHA" } \X Challenges)
      \cup ({ "evaluate", "migrate" } \X { "COMMAND" } \X Commands)
      \cup ({ "goodbye" } \X { "LEAVE" } \X Joins)
      \cup ({ "delete" } \X { "JOIN", "VERIFICATION", "LEAVE" } \X Joins)
      \cup ({ "test" } \X { "channel", "dm", "goodbye" } \X Commands)
    : k[1] \in Kinds }

Handlers ==
  ({ "add", "update", "remove" } \X Joins) \cup ({ "verify", "unverify" } \X Commands)

VARIABLES
  settings,
  row,       \* MemberVerification
  member,    \* Discord's: the current join, the joins screened, and the roles
  sent,      \* messages delivered, by key
  posted,    \* messages that will be deleted again, and still stand
  job,       \* the BullMQ job of a key
  handler,   \* the handlers of gateway events and of commands
  joined,    \* joins so far
  commands,  \* commands so far
  changes,   \* changes of the configuration so far
  mishaps    \* failures so far

memberVars == << settings, row, member, sent, posted, job, handler, joined, commands, changes, mishaps >>

\* The row's status and times are shown to administrators; nothing decides on
\* them.
Row ==
  [ exists : BOOLEAN, captcha : BOOLEAN, screening : BOOLEAN, granted : BOOLEAN, closed : BOOLEAN ]
JobStates == { "none", "queued", "active", "over", "dead" }
Job == [ state : JobStates, join : Joins \cup { Absent }, attempts : Nat, stalled : BOOLEAN ]
HandlerSteps ==
  { "idle", "row", "take", "give", "find", "drop", "close", "reset", "jobs", "done" }

MemberTypeOK ==
  /\ settings \in Settings
  /\ row \in Row
  /\ member \in [ join : Joins \cup { Absent }, screened : SUBSET Joins, roles : SUBSET Roles ]
  /\ sent \in [ Keys -> Nat ]
  /\ posted \in SUBSET Keys
  /\ job \in [ Keys -> Job ]
  /\ handler \in [ Handlers ->
       [ at : HandlerSteps, join : Joins \cup { Absent }, seen : Challenges \cup { Nothing },
         todo : Seq(Keys) ] ]
  /\ { joined, commands, changes, mishaps } \subseteq Nat

NoRow ==
  [ exists |-> FALSE, captcha |-> FALSE, screening |-> FALSE, granted |-> FALSE, closed |-> FALSE ]
NoJob == [ state |-> "none", join |-> Absent, attempts |-> 0, stalled |-> FALSE ]
Idle == [ at |-> "idle", join |-> Absent, seen |-> Nothing, todo |-> << >> ]

MemberInit ==
  /\ settings \in SettingsSet
  /\ row = NoRow
  /\ member = [ join |-> Absent, screened |-> {}, roles |-> {} ]
  /\ sent = [ k \in Keys |-> 0 ]
  /\ posted = {}
  /\ job = [ k \in Keys |-> NoJob ]
  /\ handler = [ h \in Handlers |-> Idle ]
  /\ joined = 0
  /\ commands = 0
  /\ changes = 0
  /\ mishaps = 0

Present == member.join # Absent

-------------------------------------------------------------------------------
(***************************************************************************)
(* Configuration and conditions.                                           *)
(***************************************************************************)

\* isPostVerificationConditionSatisfied
Satisfied(condition, state) ==
  \/ condition \in { "CAPTCHA_ONLY", "EITHER" } /\ state.captcha
  \/ condition \in { "SCREENING_ONLY", "EITHER" } /\ state.screening
  \/ condition = "BOTH" /\ state.captcha /\ state.screening

\* deliveryMatchesTrigger, with the switches of the two kinds of welcome.
Delivers(kind, trigger) ==
  IF kind = "channel" THEN trigger \in settings.welcome ELSE trigger \in settings.dm

Automatic(role) == settings.autoRole /\ role \in settings.allowed

UsesUnverifiedRole == settings.verification /\ settings.dedicated

SameGuild(set) ==
  << set.screening, set.panel, set.joins, set.commands, set.changes, set.mishaps >>
    = << settings.screening, settings.panel, settings.joins, settings.commands, settings.changes,
         settings.mishaps >>

\* The administrators change the configuration.
ChangeSettings ==
  /\ changes < settings.changes
  /\ changes' = changes + 1
  /\ settings' \in { set \in SettingsSet : SameGuild(set) }
  /\ UNCHANGED << captchaVars, row, member, sent, posted, job, handler, joined, commands, mishaps >>

-------------------------------------------------------------------------------
(***************************************************************************)
(* The queue.  The key is the job's id: a job that is there is not added   *)
(* again.                                                                  *)
(***************************************************************************)

WithJob(jobs, key, join) ==
  IF jobs[key].state = "none"
    THEN [ jobs EXCEPT ![key] = [ state |-> "queued", join |-> join, attempts |-> 0, stalled |-> FALSE ] ]
    ELSE jobs

\* BullMQ removes a job that has been over for long.
JobForgotten(k) ==
  /\ k[1] \in Forgotten
  /\ job[k].state \in { "over", "dead" }
  /\ job' = [ job EXCEPT ![k] = NoJob ]
  /\ UNCHANGED << captchaVars, settings, row, member, sent, posted, handler, joined, commands, changes, mishaps >>

\* Welcome messages for a trigger, those of the channel first.
Welcomes(trigger, join) ==
  LET wanted(kind) ==
        IF Delivers(kind, trigger) THEN << << kind, trigger, join >> >> ELSE << >>
  IN wanted("channel") \o wanted("dm")

-------------------------------------------------------------------------------
(***************************************************************************)
(* Discord: the member joins, completes the membership screening, leaves.  *)
(* The event of each starts a handler; handlers do not wait for another.   *)
(***************************************************************************)

Starts(h, at, join) ==
  handler' = [ handler EXCEPT ![h] = [ at |-> at, join |-> join, seen |-> Nothing, todo |-> << >> ] ]

Join ==
  /\ ~Present
  /\ joined < settings.joins
  /\ joined' = joined + 1
  /\ member' = [ join |-> joined', roles |-> {},
                 screened |-> IF settings.screening THEN member.screened
                              ELSE member.screened \cup { joined' } ]
  /\ Starts(<< "add", joined' >>, "row", joined')
  /\ UNCHANGED << captchaVars, settings, row, sent, posted, job, commands, changes, mishaps >>

Screen ==
  /\ Present
  /\ member.join \notin member.screened
  /\ member' = [ member EXCEPT !.screened = @ \cup { member.join } ]
  /\ Starts(<< "update", member.join >>, "row", member.join)
  /\ UNCHANGED << captchaVars, settings, row, sent, posted, job, joined, commands, changes, mishaps >>

Leave ==
  /\ Present
  /\ member' = [ member EXCEPT !.join = Absent, !.roles = {} ]
  /\ Starts(<< "remove", member.join >>, "find", member.join)
  /\ UNCHANGED << captchaVars, settings, row, sent, posted, job, joined, commands, changes, mishaps >>

-------------------------------------------------------------------------------
(***************************************************************************)
(* The handlers of gateway events.                                         *)
(***************************************************************************)

GoesTo(h, at) == handler' = [ handler EXCEPT ![h].at = at ]

\* The jobs a handler has yet to queue; without any it is done.
Queues(h, keys) ==
  handler' = [ handler EXCEPT ![h] =
    [ at |-> IF keys = << >> THEN "done" ELSE "jobs", join |-> @.join, seen |-> Nothing, todo |-> keys ] ]

JoinJobs(j) ==
  Welcomes("JOIN", j)
  \o (IF settings.autoRole \/ UsesUnverifiedRole THEN << << "roles", "JOIN", j >> >> ELSE << >>)

\* handleMemberAdd: the row starts over.
AddRow(j) ==
  LET h == << "add", j >> IN
  /\ handler[h].at = "row"
  /\ row' = IF settings.verification
              THEN [ NoRow EXCEPT !.exists = TRUE, !.screening = j \in member.screened ]
              ELSE row
  /\ Queues(h, JoinJobs(j))
  /\ UNCHANGED << captchaVars, settings, member, sent, posted, job, joined, commands, changes, mishaps >>

\* handleMemberUpdate: the screening is completed.
UpdateRow(j) ==
  LET h == << "update", j >> IN
  /\ handler[h].at = "row"
  /\ IF settings.verification \/ settings.autoRole
       THEN /\ row' = [ row EXCEPT !.exists = TRUE, !.screening = TRUE ]
            /\ Queues(h, << << "evaluate", "SCREENING", j >> >>)
       ELSE Queues(h, << >>) /\ UNCHANGED row
  /\ UNCHANGED << captchaVars, settings, member, sent, posted, job, joined, commands, changes, mishaps >>

\* invalidateMember reads the member's challenge, then deletes it.
FindChallenge(h) ==
  /\ handler[h].at = "find"
  /\ handler' = [ handler EXCEPT ![h] =
       [ at |-> "drop", join |-> @.join, seen |-> active, todo |-> << >> ] ]
  /\ UNCHANGED << captchaVars, settings, row, member, sent, posted, job, joined, commands, changes, mishaps >>

DropChallenge(h) ==
  /\ handler[h].at = "drop"
  /\ Invalidated(handler[h].seen)
  /\ GoesTo(h, IF h[1] = "remove" THEN "close" ELSE "reset")
  /\ UNCHANGED << settings, row, member, sent, posted, job, joined, commands, changes, mishaps >>

\* handleMemberRemove: the row there is now is closed.
CloseRow(j) ==
  LET h == << "remove", j >> IN
  /\ handler[h].at = "close"
  /\ row' = [ row EXCEPT !.closed = row.exists ]
  /\ Queues(h, IF settings.goodbye THEN << << "goodbye", "LEAVE", j >> >> ELSE << >>)
  /\ UNCHANGED << captchaVars, settings, member, sent, posted, job, joined, commands, changes, mishaps >>

QueueJob(h) ==
  /\ handler[h].at = "jobs"
  /\ job' = WithJob(job, Head(handler[h].todo), handler[h].join)
  /\ Queues(h, Tail(handler[h].todo))
  /\ UNCHANGED << captchaVars, settings, row, member, sent, posted, joined, commands, changes, mishaps >>

\* A call of a handler fails, and the handler with it; only the removal goes on
\* when the challenge could not be deleted.
HandlerFails(h) ==
  /\ mishaps < settings.mishaps
  /\ handler[h].at \notin { "idle", "done" }
  /\ mishaps' = mishaps + 1
  /\ GoesTo(h, IF h[1] = "remove" /\ handler[h].at \in { "find", "drop" } THEN "close" ELSE "done")
  /\ UNCHANGED << captchaVars, settings, row, member, sent, posted, job, joined, commands, changes >>

-------------------------------------------------------------------------------
(***************************************************************************)
(* Moderators and administrators: setManualVerification, test messages,    *)
(* and the migration of members that a guided setup asks for.              *)
(***************************************************************************)

Verify(n) ==
  /\ commands < settings.commands
  /\ n = commands + 1
  /\ Present
  /\ settings.verification
  /\ commands' = n
  /\ \E kind \in { "verify", "unverify" } :
       Starts(<< kind, n >>, IF kind = "verify" THEN "row" ELSE "take", member.join)
  /\ UNCHANGED << captchaVars, settings, row, member, sent, posted, job, joined, changes, mishaps >>

VerifyRow(n) ==
  LET h == << "verify", n >> IN
  /\ handler[h].at = "row"
  /\ row' = [ row EXCEPT !.exists = TRUE, !.captcha = TRUE,
                         !.screening = handler[h].join \in member.screened ]
  /\ Queues(h, << << "evaluate", "COMMAND", n >> >>)
  /\ UNCHANGED << captchaVars, settings, member, sent, posted, job, joined, commands, changes, mishaps >>

\* The roles of verification are taken away.  Of a member who has left meanwhile
\* none can be, and the command fails, unless there was none to take ...
TakeRoles(n) ==
  LET h == << "unverify", n >> IN
  /\ handler[h].at = "take"
  /\ member' = [ member EXCEPT !.roles = @ \ ({ "screened", "verified", "regular" } \cap settings.assignable) ]
  /\ \/ GoesTo(h, IF settings.dedicated THEN "give" ELSE "find")
     \/ ~Present /\ GoesTo(h, "done")
  /\ UNCHANGED << captchaVars, settings, row, sent, posted, job, joined, commands, changes, mishaps >>

\* ... and the unverified role is given, in the same way.
GiveUnverified(n) ==
  LET h == << "unverify", n >> IN
  /\ handler[h].at = "give"
  /\ member' = IF Present /\ "unverified" \in settings.assignable
                 THEN [ member EXCEPT !.roles = @ \cup { "unverified" } ] ELSE member
  /\ \/ GoesTo(h, "find")
     \/ ~Present /\ settings.retry /\ GoesTo(h, "done")
  /\ UNCHANGED << captchaVars, settings, row, sent, posted, job, joined, commands, changes, mishaps >>

ResetRow(n) ==
  LET h == << "unverify", n >> IN
  /\ handler[h].at = "reset"
  /\ row' = IF row.exists
              THEN [ row EXCEPT !.captcha = FALSE, !.granted = FALSE ]
              ELSE [ NoRow EXCEPT !.exists = TRUE, !.screening = handler[h].join \in member.screened ]
  /\ Queues(h, << >>)
  /\ UNCHANGED << captchaVars, settings, member, sent, posted, job, joined, commands, changes, mishaps >>

\* A test message, or the migration that a setup has queued.
Request(n) ==
  /\ commands < settings.commands
  /\ n = commands + 1
  /\ commands' = n
  /\ \E key \in Keys : key[1] \in { "migrate", "test" } /\ key[3] = n /\ job' = WithJob(job, key, Absent)
  /\ UNCHANGED << captchaVars, settings, row, member, sent, posted, handler, joined, changes, mishaps >>

HandlerNext ==
  \/ \E j \in Joins : AddRow(j) \/ UpdateRow(j) \/ CloseRow(j)
  \/ \E n \in Commands : VerifyRow(n) \/ TakeRoles(n) \/ GiveUnverified(n) \/ ResetRow(n)
  \/ \E h \in Handlers : FindChallenge(h) \/ DropChallenge(h) \/ QueueJob(h)

EnvironmentNext ==
  \/ ChangeSettings \/ Join \/ Screen \/ Leave
  \/ \E n \in Commands : Verify(n) \/ Request(n)
  \/ \E k \in Keys : JobForgotten(k)
  \/ \E h \in Handlers : HandlerFails(h)
===============================================================================
