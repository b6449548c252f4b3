---------------------------- MODULE GuildInstallation ----------------------------
(***************************************************************************)
(* The presence of the bot in one guild: what the bot process writes about  *)
(* it into the database and, with a time to live, into Redis, and what the  *)
(* dashboard and the API make of it.                                        *)
(*                                                                         *)
(* The bot is in the guild without ("restricted") or with the permission    *)
(* "administrator", or "out" of it.  Time is counted in periods of the      *)
(* heartbeat's timer (15 s).                                                *)
(***************************************************************************)
EXTENDS Naturals

CONSTANTS
  Runs,          \* slots for the runs of refreshGuild that overlap
  StatusTtl,     \* periods the runtime status lives (45 s)
  BeatTtl,       \* periods the heartbeat of the process lives (30 s)
  RunTime,       \* periods a refresh takes at most
  Limits         \* the bounds of the scenarios that are looked at

ASSUME InstallationAssumption ==
  /\ { BeatTtl, RunTime } \subseteq Nat /\ StatusTtl \in Nat \ { 0 }
  /\ \A set \in Limits : { set.moves, set.mishaps } \subseteq Nat /\ set.bot \in BOOLEAN

VARIABLES
  limits,        \* the scenario: changes of the membership, refresh requests and
                 \* failures, and whether the bot is started at all
  member,        \* the truth at Discord
  known,         \* client.guilds.cache, as the gateway told
  bot,           \* the phase of the bot process
  commands,      \* commandRegistrationStatus
  listed,        \* the guild is in #knownGuildIds
  due,           \* the timer wants a periodic refresh
  run,           \* the refreshes under way
  removing,      \* the step of removeGuild under way
  row,           \* Guild: botInstalled, leftAt and the stored permission
  runtime,       \* the runtime status 'bot:guild' in Redis
  beat,          \* periods until the heartbeat expires
  asked,         \* a published 'bot:guild-status:refresh' on its way
  silent,        \* history: periods since the bot saw the guild, up to Limit
  moves, mishaps

installationVars ==
  << limits, member, known, bot, commands, listed, due, run, removing, row, runtime,
     beat, asked, silent, moves, mishaps >>

Limit == StatusTtl + RunTime

Permissions == { "restricted", "administrator" }
Memberships == Permissions \cup { "out" }

\* "starting": the service listens and refreshes for the first time.  "closing":
\* the gateway is gone.  "closed": timer and subscription are gone.
Phases == { "down", "ready", "starting", "up", "closing", "closed", "leaving" }
Registrations == { "unknown", "success", "failure", "disabled" }

\* "listed" by a sync of access grants, "left", or installed with a permission.
Rows == { "none", "listed", "left" } \cup Permissions
NoStatus == [ of |-> "none", commands |-> "unknown", ttl |-> 0 ]
NoRefresh == [ at |-> "idle", seen |-> "out", age |-> 0 ]

InstallationTypeOK ==
  /\ limits \in Limits
  /\ { member, known } \subseteq Memberships
  /\ bot \in Phases
  /\ commands \in Registrations
  /\ listed \in BOOLEAN /\ due \in BOOLEAN /\ asked \in BOOLEAN
  /\ run \in [ Runs -> [ at : { "idle", "store", "write" }, seen : Memberships, age : 0 .. RunTime ] ]
  /\ removing \in { "idle", "store", "delete" }
  /\ row \in Rows
  /\ runtime \in [ of : Permissions \cup { "none" }, commands : Registrations, ttl : 0 .. StatusTtl ]
  /\ runtime = NoStatus <=> runtime.ttl = 0
  /\ beat \in 0 .. BeatTtl
  /\ silent \in 0 .. Limit
  /\ { moves, mishaps } \subseteq Nat

InstallationInit ==
  /\ limits \in Limits
  /\ member \in IF limits.bot THEN Memberships ELSE { "administrator" }
  /\ known = "out" /\ bot = "down" /\ commands = "unknown"
  /\ listed = FALSE /\ due = FALSE /\ asked = FALSE
  /\ run = [ r \in Runs |-> NoRefresh ]
  /\ removing = "idle"
  /\ row \in IF limits.bot THEN { "none" } ELSE { "listed", "administrator" }
  /\ runtime = NoStatus /\ beat = 0
  /\ silent = Limit /\ moves = 0 /\ mishaps = 0

process == << bot, commands, listed, due, run, removing >>
stores == << row, runtime, beat >>
world == << limits, member, moves, mishaps >>

-------------------------------------------------------------------------------
\* Discord: somebody invites, removes or restricts the bot.  The gateway delivers
\* one change before the next is made while the bot is connected.
Connected == bot \in { "ready", "starting", "up" }
Serving == bot \in { "starting", "up", "closing" }

Move ==
  /\ moves < limits.moves
  /\ Connected => known = member
  /\ \E m \in Memberships \ { member } : member' = m
  /\ moves' = moves + 1
  /\ UNCHANGED << known, process, stores, asked, limits, mishaps >>

\* refreshGuild reads the member and the channels, then awaits the database.
BeginRefresh(seen) ==
  \E r \in Runs :
    /\ run[r] = NoRefresh
    /\ run' = [ run EXCEPT ![r] = [ at |-> "store", seen |-> seen, age |-> 0 ] ]

BeginRemoval == removing = "idle" /\ removing' = "store"

\* The gateway tells the client; the listeners of guildCreate and guildDelete
\* throw while the service is not there, and a change of permissions is only
\* noticed by a later refresh.
Deliver ==
  /\ Connected /\ known # member
  /\ known' = member
  /\ IF bot = "ready" \/ (known # "out" /\ member # "out") THEN UNCHANGED << run, removing >>
     ELSE IF known = "out" THEN BeginRefresh(member) /\ UNCHANGED removing
     ELSE BeginRemoval /\ UNCHANGED run
  /\ UNCHANGED << bot, commands, listed, due, stores, asked, world >>

\* loginWithRetry: the client is ready and its cache is filled.
Login ==
  /\ bot = "down" /\ limits.bot
  /\ bot' = "ready" /\ known' = member
  /\ UNCHANGED << commands, listed, due, run, removing, stores, asked, world >>

\* The commands Discord has are compared with those of the program, or deployed;
\* then the service is published and listens to refresh requests.
StartService ==
  /\ bot = "ready"
  /\ bot' = "starting"
  /\ commands' \in Registrations \ { "unknown" }
  /\ IF known = "out" THEN UNCHANGED run ELSE BeginRefresh(known)
  /\ UNCHANGED << known, listed, due, removing, stores, asked, world >>

\* start() waits for the startup refresh, whether it fails or not, and sets the
\* timer; the heartbeat is started last.
Started ==
  /\ bot = "starting"
  /\ \A r \in Runs : run[r] = NoRefresh
  /\ bot' = "up" /\ beat' = BeatTtl
  /\ UNCHANGED << known, commands, listed, due, run, removing, row, runtime, asked, world >>

-------------------------------------------------------------------------------
\* refreshAll visits the guilds of the client's cache.
PeriodicRefresh ==
  /\ bot \in { "up", "closing" } /\ due
  /\ due' = FALSE
  /\ IF known = "out" THEN UNCHANGED run ELSE BeginRefresh(known)
  /\ UNCHANGED << known, bot, commands, listed, removing, stores, asked, world >>

\* Another administrator's dashboard asks for a refresh.
AskRefresh ==
  /\ ~asked /\ asked' = TRUE
  /\ moves < limits.moves /\ moves' = moves + 1
  /\ UNCHANGED << limits, member, known, process, stores, mishaps >>

\* Pub/Sub reaches only who listens.
AnswerRefresh ==
  /\ asked /\ asked' = FALSE
  /\ IF ~Serving THEN UNCHANGED << run, removing >>
     ELSE IF known # "out" THEN BeginRefresh(known) /\ UNCHANGED removing
     ELSE BeginRemoval /\ UNCHANGED run
  /\ UNCHANGED << known, bot, commands, listed, due, stores, world >>

At(r, step) == run[r].at = step
GoOn(r, step) == run' = [ run EXCEPT ![r].at = step ]

\* The transaction: the guild is installed, whatever the row said, and stays so.
StoreInstalled(r) ==
  /\ At(r, "store")
  /\ row' = run[r].seen
  /\ GoOn(r, "write")
  /\ UNCHANGED << known, bot, commands, listed, due, removing, runtime, beat, asked, world >>

\* The runtime status is written with its time to live.
WriteStatus(r) ==
  /\ At(r, "write")
  /\ runtime' = [ of |-> run[r].seen, commands |-> commands, ttl |-> StatusTtl ]
  /\ listed' = TRUE
  /\ run' = [ run EXCEPT ![r] = NoRefresh ]
  /\ UNCHANGED << known, bot, commands, due, removing, row, beat, asked, world >>

\* removeGuild marks the row, if there is one, and deletes the runtime status.
StoreRemoved ==
  /\ removing = "store" /\ removing' = "delete"
  /\ row' = IF row = "none" THEN "none" ELSE "left"
  /\ UNCHANGED << known, bot, commands, listed, due, run, runtime, beat, asked, world >>

DeleteStatus ==
  /\ removing = "delete" /\ removing' = "idle"
  /\ runtime' = NoStatus /\ listed' = FALSE
  /\ UNCHANGED << known, bot, commands, due, run, row, beat, asked, world >>

\* A call of a refresh or a removal fails, which ends it.
CallFails ==
  /\ mishaps < limits.mishaps /\ mishaps' = mishaps + 1
  /\ \/ \E r \in Runs :
          /\ run[r] # NoRefresh
          /\ run' = [ run EXCEPT ![r] = NoRefresh ]
          /\ UNCHANGED removing
     \/ removing # "idle" /\ removing' = "idle" /\ UNCHANGED run
  /\ UNCHANGED << limits, member, known, bot, commands, listed, due, stores, asked, moves >>

-------------------------------------------------------------------------------
\* shutdown: the gateway is left first, then the service is closed, which deletes
\* what it has written, then the heartbeat.
Signal ==
  /\ bot \in { "ready", "starting", "up" }
  /\ mishaps < limits.mishaps /\ mishaps' = mishaps + 1
  /\ bot' = "closing"
  /\ UNCHANGED << limits, member, known, commands, listed, due, run, removing, stores, asked, moves >>

CloseService ==
  /\ bot = "closing" /\ bot' = "closed"
  /\ due' = FALSE /\ listed' = FALSE
  /\ runtime' = IF listed THEN NoStatus ELSE runtime
  /\ UNCHANGED << known, commands, run, removing, row, beat, asked, world >>

CloseHeartbeat ==
  /\ bot = "closed" /\ bot' = "leaving"
  /\ beat' = 0
  /\ UNCHANGED << known, commands, listed, due, run, removing, row, runtime, asked, world >>

\* The process is gone, and everything it was doing with it.
Gone ==
  /\ bot' = "down" /\ known' = "out" /\ commands' = "unknown"
  /\ listed' = FALSE /\ due' = FALSE
  /\ run' = [ r \in Runs |-> NoRefresh ] /\ removing' = "idle"
  /\ UNCHANGED << limits, member, stores, asked, moves >>

Exit == bot = "leaving" /\ Gone /\ UNCHANGED mishaps
Crash == bot # "down" /\ mishaps < limits.mishaps /\ mishaps' = mishaps + 1 /\ Gone

\* (mutant) Redis is given no time to live.
Everlasting(status) == status

\* (mutant) An expired status is still read, for one period.
Overdue(status) == IF status.ttl = 0 THEN NoStatus ELSE [ status EXCEPT !.ttl = @ - 1 ]

\* What is left of the runtime status a period later.
Older(status) == IF status.ttl <= 1 THEN NoStatus ELSE [ status EXCEPT !.ttl = @ - 1 ]

\* A period of the timers passes.  They are on time, and so are the calls of a
\* refresh, which all have timeouts.
Tick ==
  /\ ~due
  /\ \A r \in Runs : run[r] # NoRefresh => run[r].age < RunTime
  /\ run' = [ r \in Runs |-> IF run[r] = NoRefresh THEN NoRefresh ELSE [ run[r] EXCEPT !.age = @ + 1 ] ]
  /\ runtime' = Older(runtime)
  /\ beat' = IF bot \in { "up", "closing", "closed" } THEN BeatTtl
             ELSE IF beat = 0 THEN 0 ELSE beat - 1
  /\ due' = (bot \in { "up", "closing" })
  /\ UNCHANGED << known, bot, commands, listed, removing, row, asked, world >>

-------------------------------------------------------------------------------
\* resolveGuildInstallation: a live status wins, then the absence of one while
\* the bot lives, and only then what is stored.
Shown(installed, online, state) == [ installed |-> installed, online |-> online, state |-> state ]
\* (mutant) What is stored is believed although the bot lives.
StoredFirst ==
  IF runtime # NoStatus THEN Shown(TRUE, TRUE, "configured")
  ELSE IF row \in Permissions THEN Shown(TRUE, FALSE, "installed-offline")
  ELSE Shown(FALSE, FALSE, "not-installed")
Resolved ==
  IF runtime # NoStatus THEN
    Shown(TRUE, TRUE, IF runtime.of # "administrator" THEN "missing-permissions"
                      ELSE IF runtime.commands = "success" THEN "configured"
                      ELSE "installed-online")
  ELSE IF beat > 0 \/ row = "left" THEN Shown(FALSE, FALSE, "not-installed")
  ELSE IF row \in Permissions THEN Shown(TRUE, FALSE, "installed-offline")
  ELSE Shown(FALSE, FALSE, "status-unavailable")

\* A sync of access grants creates the row of a guild it has not seen.
ListGuild == row' = IF row = "none" THEN "listed" ELSE row

Seen == bot # "down" /\ known # "out"

InstallationStep ==
  /\ \/ Move \/ AskRefresh \/ Signal \/ Crash \/ CallFails
     \/ Login \/ StartService \/ Started \/ Deliver \/ PeriodicRefresh \/ AnswerRefresh
     \/ \E r \in Runs : StoreInstalled(r) \/ WriteStatus(r)
     \/ StoreRemoved \/ DeleteStatus
     \/ CloseService \/ CloseHeartbeat \/ Exit
  /\ silent' = IF Seen' THEN 0 ELSE silent

TimePasses ==
  /\ Tick
  /\ silent' = IF Seen \/ silent = Limit THEN silent ELSE silent + 1

-------------------------------------------------------------------------------
\* (guild-status.ts:286-294) A guild is shown as online only if the bot saw it
\* within the time a status lives after the refresh that wrote it: crashes,
\* removals and refreshes that end after a removal do not leave it online.
OnlineIsRecent == Resolved.online => silent < Limit

Truth ==
  IF member = "out" THEN Shown(FALSE, FALSE, "not-installed")
  ELSE Shown(TRUE, TRUE, IF member # "administrator" THEN "missing-permissions"
                         ELSE IF commands = "success" THEN "configured"
                         ELSE "installed-online")

\* (guild-status.ts:51-55, discord/index.ts:141-203) Whatever was missed or went
\* wrong, once the bot stays up the dashboard shows the truth, and the row of a
\* guild the bot is in says so; once the bot stays away, nothing shows it online.
PresenceSettles ==
  /\ <>[](bot = "up") => <>[](Resolved = Truth /\ (member # "out" => row = member))
  /\ <>[](bot = "down") => <>[](~Resolved.online)
===============================================================================
