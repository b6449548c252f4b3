------------------------------ MODULE GuildRequests ------------------------------
(***************************************************************************)
(* Requests of one user about one guild: the forms of the dashboard, which *)
(* ask Discord anew for the user's guilds, the HTTP API, which relies on   *)
(* the access grant that such a request has left, the billing staff, and   *)
(* the commands of the bot, with which Discord sends the user's rights.    *)
(*                                                                         *)
(* A request is the list of the steps it has still to take (RequestRoutes *)
(* has those of every handler); a step that refuses it ends it.  The bot   *)
(* and its row of the guild are those of GuildInstallation.                *)
(***************************************************************************)
EXTENDS GuildInstallation, RequestRoutes

CONSTANTS
  Slots,         \* requests that overlap
  Keys,          \* idempotency keys: one for each rendering of a form
  Freshness,     \* periods an access grant lives (guildPermissionFreshnessSeconds)
  FetchTime,     \* periods after which a request to Discord is aborted (10 s)
  KeyTime        \* periods an idempotency key stays claimed (600 s)

ASSUME RequestsAssumption ==
  /\ { Freshness, FetchTime } \subseteq Nat
  /\ KeyTime \in Nat \ {0}
  /\ Keys # {}
  /\ \A set \in Limits :
       /\ set.rotation \in { "rotates", "adds", "keeps" }
       /\ { set.staff, set.admin, set.good } \subseteq BOOLEAN
       /\ set.kinds \subseteq Kinds /\ set.vias \subseteq Vias
       /\ set.scopes \subseteq Scopes \cup { "*" }
       /\ { set.requests, set.changes } \subseteq Nat

VARIABLES
  manages,       \* the truth at Discord: owner, administrator or Manage Guild
  lost,          \* history: periods since the user managed the guild, up to Longest
  grant,         \* GuildAccessGrant: periods until it expires, 0 without one
  session,       \* the cookie carries the user's sessionVersion
  credential,    \* OAuthCredential: its refresh token (0 without one), and whether
                 \* its access token is good for another minute
  issued,        \* refresh tokens Discord has issued so far
  usable,        \* those of them it accepts
  claimed,       \* periods for which each idempotency key stays claimed in Redis
  turn,          \* history: how often each key has become free again
  recently,      \* 'guild-status-refresh' is claimed, for 10 s
  cooldowns,     \* commands of the bot its process lets wait, for 3 s or 5 s
  version,       \* versions of the settings and of a module
  trail,         \* audit log of the settings: << version before, version after >>
  stored,        \* history: the turns of each key whose change was stored, in order
  request,
  submitted,     \* requests so far
  changes        \* changes of the user's rights, sessions and tokens so far

rights      == << manages, lost >>
tokens      == << credential, issued, usable >>
claims      == << claimed, turn, recently, cooldowns >>
rows        == << version, trail, stored >>
requestVars ==
  << rights, grant, session, tokens, claims, rows, request, submitted, changes >>

Longest   == Freshness + FetchTime
\* "expected" is the version the user saw, "read" the one the transaction reads,
\* "token" the refresh token at hand, "answer" whether Discord says that the user
\* manages the guild, "age" for how long it has been under way, "left" how long the
\* grant has, and "turn" (history) the turn of the key in which it was claimed.
Request ==
  [ kind : Kinds, via : Vias, key : Keys, todo : Seq(StepNames),
    expected : Nat, read : Nat, token : Nat, answer : BOOLEAN, age : 0 .. FetchTime,
    left : 0 .. Freshness, turn : Nat ]

NoRequest(key) ==
  [ kind |-> "settings", via |-> "api", key |-> key, todo |-> << >>,
    expected |-> 0, read |-> 0, token |-> 0, answer |-> FALSE, age |-> 0, left |-> 0,
    turn |-> 0 ]

FirstKey == CHOOSE key \in Keys : TRUE
Idle(q)  == request[q] = NoRequest(FirstKey)

RequestsTypeOK ==
  /\ { manages, session, recently } \subseteq BOOLEAN
  /\ lost \in 0 .. Longest
  /\ grant \in 0 .. Freshness
  /\ credential \in [ token : 0 .. issued, good : BOOLEAN ]
  /\ issued \in Nat
  /\ usable \subseteq 1 .. issued
  /\ claimed \in [ Keys -> 0 .. KeyTime ]
  /\ turn \in [ Keys -> Nat ]
  /\ cooldowns \subseteq Commands
  /\ version \in [ Versioned -> Nat ]
  /\ trail \in Seq(Nat \X Nat)
  /\ stored \in [ Keys -> Seq(Nat) ]
  /\ request \in [ Slots -> Request ]
  /\ { submitted, changes } \subseteq Nat

\* The user manages the guild and is signed in; the scenario says what Discord does
\* with refresh tokens, and whether the access token is good for some time.
RequestsInit ==
  /\ manages = TRUE /\ lost = 0
  /\ grant = IF row = "none" THEN 0 ELSE Freshness
  /\ session = TRUE
  /\ credential = [ token |-> 1, good |-> limits.good ]
  /\ issued = 1 /\ usable = { 1 }
  /\ claimed = [ key \in Keys |-> 0 ] /\ turn = [ key \in Keys |-> 0 ]
  /\ recently = FALSE /\ cooldowns = {}
  /\ version = [ kind \in Versioned |-> 1 ]
  /\ trail = << >>
  /\ stored = [ key \in Keys |-> << >> ]
  /\ request = [ q \in Slots |-> NoRequest(FirstKey) ]
  /\ submitted = 0 /\ changes = 0

-------------------------------------------------------------------------------
Does(q, step) == request[q].todo # << >> /\ Head(request[q].todo) = step
Becomes(q, r) == request' = [ request EXCEPT ![q] = r ]
Ends(q)       == Becomes(q, NoRequest(FirstKey))

\* The request goes on, as r, with its next step.
Proceeds(q, r) ==
  IF Len(r.todo) = 1 THEN Ends(q) ELSE Becomes(q, [ r EXCEPT !.todo = Tail(r.todo) ])

\* It goes on if the condition holds, and is refused otherwise.
Demands(q, condition) == IF condition THEN Proceeds(q, request[q]) ELSE Ends(q)

\* A form is submitted as it was rendered, perhaps twice; a client calls the API;
\* Discord sends the interactions of a guild the bot is in to who is connected.
NamesVersion(r) == r.kind \in Versioned /\ r.via # "bot"
Arrives(route) == route.via = "bot" => Connected /\ known # "out"

Submit(q) ==
  /\ Idle(q)
  /\ submitted < limits.requests /\ submitted' = submitted + 1
  /\ \E route \in Routes, key \in Keys :
       /\ route.kind \in limits.kinds /\ route.via \in limits.vias
       /\ Arrives(route)
       /\ (\A i \in DOMAIN route.todo : route.todo[i] # "claim") => key = FirstKey
       /\ \E expected \in IF NamesVersion(route) THEN 1 .. version[route.kind] ELSE { 0 } :
            Becomes(q, [ NoRequest(key) EXCEPT !.kind = route.kind, !.via = route.via,
                                               !.expected = expected, !.todo = route.todo,
                                               !.answer = manages /\ route.via = "bot" ])
  /\ UNCHANGED << grant, tokens, claims, rows, row, asked >>

\* (mutant) SET without NX
ClaimedAgain(key) == TRUE

\* claimOnce: the key is set if it is not there, for a time.  (For ten minutes by
\* forms; by reconciliations for five and by the staff for a day, which store no row
\* of this module.)
ClaimSucceeds(key) == claimed[key] = 0

Claim(q) ==
  /\ Does(q, "claim")
  /\ LET key == request[q].key
     IN  IF ClaimSucceeds(key)
           THEN /\ Proceeds(q, [ request[q] EXCEPT !.turn = turn[key] ])
                /\ claimed' = [ claimed EXCEPT ![key] = KeyTime ]
           ELSE Ends(q) /\ UNCHANGED claimed
  /\ UNCHANGED << submitted, grant, tokens, turn, recently, cooldowns, rows, row, asked >>

\* requireDashboardSession compares the cookie's sessionVersion with the user's.
RequireSession(q) ==
  /\ Does(q, "session")
  /\ Demands(q, session)
  /\ UNCHANGED << submitted, grant, tokens, claims, rows, row, asked >>

\* An API key that is active has the scope, or all of them.
Authenticate(q) ==
  /\ \E scope \in Scopes :
       Does(q, scope) /\ Demands(q, limits.scopes \cap { scope, "*" } # {})
  /\ UNCHANGED << submitted, grant, tokens, claims, rows, row, asked >>

\* requireBillingAdmin: an operator of the platform who may administer billing.
RequireBillingAdmin(q) ==
  /\ Does(q, "staff")
  /\ Demands(q, session /\ limits.admin)
  /\ UNCHANGED << submitted, grant, tokens, claims, rows, row, asked >>

\* These commands all require the guild, Manage Guild and the module "general",
\* which is always enabled; nothing else.
CanExecuteCommand(r) == r.answer

\* authorize: a command may be used again after some seconds.
Authorize(q) ==
  \E name \in Commands :
    /\ Does(q, name)
    /\ Demands(q, CanExecuteCommand(request[q]) /\ name \notin cooldowns)
    /\ cooldowns' = IF CanExecuteCommand(request[q]) THEN cooldowns \cup { name } ELSE cooldowns
    /\ UNCHANGED << submitted, grant, tokens, claimed, turn, recently, rows, row, asked >>

RequireManageGuild(q) ==
  /\ Does(q, "rights")
  /\ Demands(q, request[q].answer)
  /\ UNCHANGED << submitted, grant, tokens, claims, rows, row, asked >>

-------------------------------------------------------------------------------
(***************************************************************************)
(* requireLiveGuildAccess: a valid access token, the user's guilds, their  *)
(* grants, and the check of the grant that requests to the API begin with. *)
(***************************************************************************)
LoadCredential(q) ==
  /\ Does(q, "token")
  /\ IF credential.token = 0 THEN Ends(q)
     ELSE IF credential.good THEN Proceeds(q, request[q])
     ELSE Becomes(q, [ request[q] EXCEPT !.token = credential.token,
                                         !.todo = << "renew", "keep" >> \o Tail(request[q].todo) ])
  /\ UNCHANGED << submitted, grant, tokens, claims, rows, row, asked >>

\* Discord refuses the refresh token, or gives a new one, or the same again.
Renew(q) ==
  /\ Does(q, "renew")
  /\ IF request[q].token \notin usable THEN Ends(q) /\ UNCHANGED << issued, usable >>
     ELSE IF limits.rotation = "keeps" THEN Proceeds(q, request[q]) /\ UNCHANGED << issued, usable >>
     ELSE /\ issued' = issued + 1
          /\ usable' = (IF limits.rotation = "rotates" THEN usable \ { request[q].token } ELSE usable)
                         \cup { issued' }
          /\ Proceeds(q, [ request[q] EXCEPT !.token = issued' ])
  /\ UNCHANGED << submitted, grant, credential, claims, rows, row, asked >>

\* (mutant) The refresh token is stored only when there is none yet.
OldToken(r) == IF credential.token = 0 THEN r.token ELSE credential.token

NewToken(r) == r.token

\* storeDiscordCredential, whatever is stored by now.
KeepCredential(q) ==
  /\ Does(q, "keep")
  /\ credential' = [ token |-> NewToken(request[q]), good |-> TRUE ]
  /\ Proceeds(q, [ request[q] EXCEPT !.token = 0 ])
  /\ UNCHANGED << submitted, grant, issued, usable, claims, rows, row, asked >>

\* Discord makes the list of the user's guilds ...
Fetch(q) ==
  /\ Does(q, "fetch")
  /\ Proceeds(q, [ request[q] EXCEPT !.answer = manages ])
  /\ UNCHANGED << submitted, grant, tokens, claims, rows, row, asked >>

\* ... it arrives, and from now on the grant has its time ...
Receive(q) ==
  /\ Does(q, "receive")
  /\ Proceeds(q, [ request[q] EXCEPT !.age = 0, !.left = Freshness ])
  /\ UNCHANGED << submitted, grant, tokens, claims, rows, row, asked >>

\* ... or the fetch is aborted.
Abort(q) ==
  /\ Does(q, "receive") /\ request[q].age = FetchTime
  /\ Ends(q)
  /\ UNCHANGED << submitted, grant, tokens, claims, rows, row, asked >>

\* syncGuildAccessGrants: the list that is committed last decides.
Sync(q) ==
  /\ Does(q, "sync")
  /\ IF request[q].answer THEN grant' = request[q].left /\ ListGuild
     ELSE grant' = 0 /\ UNCHANGED row
  /\ Proceeds(q, [ request[q] EXCEPT !.answer = FALSE, !.left = 0 ])
  /\ UNCHANGED << submitted, tokens, claims, rows, asked >>

\* requireGuildAccess lets the platform's staff pass.
Allowed == row # "none" /\ (limits.staff \/ grant > 0)

Check(q) ==
  /\ Does(q, "check")
  /\ Demands(q, Allowed)
  /\ UNCHANGED << submitted, grant, tokens, claims, rows, row, asked >>

-------------------------------------------------------------------------------
(***************************************************************************)
(* What the requests are made for.                                         *)
(***************************************************************************)
LimitRefresh(q) ==
  /\ Does(q, "recent")
  /\ Demands(q, ~ recently)
  /\ recently' = TRUE
  /\ UNCHANGED << submitted, grant, tokens, claimed, turn, cooldowns, rows, row, asked >>

\* The event for the bot is published, and the request audited.
RequestRefresh(q) ==
  /\ Does(q, "ask")
  /\ asked' = TRUE
  /\ Ends(q)
  /\ UNCHANGED << submitted, grant, tokens, claims, rows, row >>

\* The resources the bot has written with its status: there are none, or they are
\* not what the configuration needs, or they are.
RequireValidResources(q) ==
  /\ Does(q, "resources")
  /\ \/ runtime # NoStatus /\ Proceeds(q, request[q])
     \/ Ends(q)
  /\ UNCHANGED << submitted, grant, tokens, claims, rows, row, asked >>

\* The job is queued; what becomes of it, or of a setup whose job is not, is the
\* matter of OnboardingDeliveries and VerificationSetup.
Enqueue(q) ==
  /\ Does(q, "enqueue")
  /\ Proceeds(q, request[q])
  /\ UNCHANGED << submitted, grant, tokens, claims, rows, row, asked >>

\* The transaction reads the row of a guild there is, and refuses a version the
\* user has not seen, if the request names one.
Refused(r) ==
  \/ row = "none"
  \/ NamesVersion(r) /\ r.expected # version[r.kind]

Load(q) ==
  /\ Does(q, "load")
  /\ IF Refused(request[q]) THEN Ends(q)
     ELSE IF request[q].kind \notin Versioned THEN Proceeds(q, request[q])
     ELSE Proceeds(q, [ request[q] EXCEPT !.read = version[request[q].kind] ])
  /\ UNCHANGED << submitted, grant, tokens, claims, rows, row, asked >>

\* (mutant) The settings are updated like a module is.
AnyVersion(r) == TRUE

\* Only the settings are updated on the condition that they are as they were
\* read; a module and an override are upserted.
AsRead(r) == r.kind = "settings" => version["settings"] = r.read

Committed(r) ==
  /\ version' = IF r.kind \notin Versioned THEN version
                ELSE [ version EXCEPT ![r.kind] = version[r.kind] + 1 ]
  /\ trail' = IF r.kind # "settings" THEN trail
              ELSE Append(trail, << r.read, version'["settings"] >>)
  /\ stored' = IF r.via \in { "api", "bot" } THEN stored
               ELSE [ stored EXCEPT ![r.key] = Append(stored[r.key], r.turn) ]

\* A section of the onboarding configuration has a version of its own, which
\* OnboardingRepository models: it is stored, or it is in conflict.
Commit(q) ==
  /\ Does(q, "commit")
  /\ \/ AsRead(request[q]) /\ Committed(request[q]) /\ Proceeds(q, request[q])
     \/ (~ AsRead(request[q]) \/ request[q].kind = "section") /\ UNCHANGED rows /\ Ends(q)
  /\ UNCHANGED << submitted, grant, tokens, claims, row, asked >>

RequestStep ==
  /\ \E q \in Slots :
       \/ Submit(q) \/ Claim(q) \/ RequireSession(q) \/ Authenticate(q) \/ RequireBillingAdmin(q)
       \/ Authorize(q) \/ RequireManageGuild(q)
       \/ LoadCredential(q) \/ Renew(q) \/ KeepCredential(q)
       \/ Fetch(q) \/ Receive(q) \/ Abort(q) \/ Sync(q) \/ Check(q)
       \/ LimitRefresh(q) \/ RequestRefresh(q) \/ RequireValidResources(q) \/ Enqueue(q)
       \/ Load(q) \/ Commit(q)
  /\ UNCHANGED << rights, session, changes >>

\* A call of a request fails, or its process dies.
RequestFails(q) ==
  /\ ~ Idle(q)
  /\ Ends(q)
  /\ UNCHANGED << rights, grant, session, tokens, claims, rows, submitted, changes >>

\* What the bot was doing ends with its process, and what it remembers is lost.
EndWithBot ==
  /\ request' = [ q \in Slots |-> IF request[q].via = "bot" THEN NoRequest(FirstKey) ELSE request[q] ]
  /\ cooldowns' = {}
  /\ UNCHANGED << rights, grant, session, tokens, claimed, turn, recently, rows, submitted,
                  changes >>

-------------------------------------------------------------------------------
(***************************************************************************)
(* The user, and Discord.                                                  *)
(***************************************************************************)
ChangeRights ==
  /\ manages' = ~ manages
  /\ lost' = IF manages' THEN 0 ELSE lost
  /\ UNCHANGED << session, tokens >>

\* revokeAllSessionsAction: other cookies are void, and the credential is gone.
RevokeAll ==
  /\ session
  /\ session' = FALSE
  /\ credential' = [ token |-> 0, good |-> FALSE ]
  /\ UNCHANGED << rights, issued, usable >>

\* The callback of the sign-in stores what Discord gave.
SignIn ==
  /\ session' = TRUE
  /\ issued' = issued + 1 /\ usable' = usable \cup { issued' }
  /\ credential' = [ token |-> issued', good |-> TRUE ]
  /\ UNCHANGED rights

AccessExpires ==
  /\ credential.good
  /\ credential' = [ token |-> credential.token, good |-> FALSE ]
  /\ UNCHANGED << rights, session, issued, usable >>

UserStep ==
  /\ changes < limits.changes /\ changes' = changes + 1
  /\ ChangeRights \/ RevokeAll \/ SignIn \/ AccessExpires
  /\ UNCHANGED << grant, claims, rows, request, submitted >>

\* (mutant) expiresAt is not compared with the time.
Timeless(left) == left

Less(left) == IF left = 0 THEN 0 ELSE left - 1

\* A period passes; no fetch takes longer than it may.
RequestsAge ==
  /\ \A q \in Slots : Does(q, "receive") => request[q].age < FetchTime
  /\ request' = [ q \in Slots |->
       [ request[q] EXCEPT !.age = IF Does(q, "receive") THEN @ + 1 ELSE @, !.left = Less(@) ] ]
  /\ grant' = Less(grant)
  /\ lost' = IF manages \/ lost = Longest THEN lost ELSE lost + 1
  /\ claimed' = [ key \in Keys |-> Less(claimed[key]) ]
  /\ turn' = [ key \in Keys |-> IF claimed[key] = 1 THEN turn[key] + 1 ELSE turn[key] ]
  /\ recently' = FALSE /\ cooldowns' = {}
  /\ UNCHANGED << manages, session, tokens, rows, submitted, changes >>

-------------------------------------------------------------------------------
(***************************************************************************)
(* Properties.                                                             *)
(***************************************************************************)

\* A request passes the check of a user's rights only if the user has managed
\* the guild within the lifetime of a grant and the time a fetch may take,
\* though lists of the user's guilds arrive late and are stored in any order
\* (guild-access.ts:13-51, discord-oauth.ts:184-238; docs/threat-model.md).
AccessIsRecent ==
  \A q \in Slots : Does(q, "check") /\ Allowed /\ ~ limits.staff => lost < Longest

\* However often and however closely a form is submitted, it is stored once for
\* every time its key was free: two changes stored for it were claimed in different
\* turns of the key, with at least ten minutes between them.  A form that names no
\* version is stored again after that time (actions/guild.ts:29-36,
\* cache/index.ts:484-492).
SubmittedOnce ==
  \A key \in Keys : \A i, j \in DOMAIN stored[key] :
    i # j => stored[key][i] # stored[key][j]

\* However updates of the settings overlap, the audit log is their history: each
\* entry begins with what the last one left (guild-repository.ts:32-73).
SettingsTrailIsHistory ==
  /\ version["settings"] = Len(trail) + 1
  /\ \A i \in DOMAIN trail : trail[i] = << i, i + 1 >>

\* While no call fails, requests that renew the access token at the same time
\* leave a refresh token that Discord accepts, so that the user stays signed in
\* (discord-oauth.ts:99-141).
CredentialSurvives ==
  mishaps = 0 /\ credential.token # 0 /\ (\A q \in Slots : ~ Does(q, "keep")) =>
    credential.token \in usable
===============================================================================
