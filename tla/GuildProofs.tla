------------------------------- MODULE GuildProofs -------------------------------
(***************************************************************************)
(* What the proofs about GuildDashboard rest on: the invariants of the     *)
(* bot's presence, which stand alone; the invariants of the requests, to   *)
(* be proved in GuildTheorems; and, for every step, how it moves a request *)
(* along its route (Moves, Kin) and that what is known of all requests     *)
(* (Known) goes on to hold.                                                *)
(***************************************************************************)
EXTENDS GuildDashboard, RequestRouteProofs

LEMMA Bounds ==
  /\ StatusTtl \in Nat \ { 0 } /\ BeatTtl \in Nat /\ RunTime \in Nat
  /\ Freshness \in Nat /\ FetchTime \in Nat
  /\ Busy \in Nat /\ Cooldown \in Nat /\ KeyTime \in Nat \ { 0 }
  BY InstallationAssumption, RequestsAssumption, PurchasesAssumption

-------------------------------------------------------------------------------
\* A refresh under way has seen the bot in the guild since it began.
Refreshes == [ at : { "idle", "store", "write" }, seen : Memberships, age : 0 .. RunTime ]

RefreshHolds(r) ==
  run[r] # NoRefresh => run[r].seen \in Permissions /\ silent <= run[r].age

StatusHolds == runtime.ttl > 0 => silent + runtime.ttl <= Limit

Flags == listed \in BOOLEAN /\ due \in BOOLEAN /\ asked \in BOOLEAN

PresenceTypes ==
  /\ limits \in Limits
  /\ { member, known } \subseteq Memberships
  /\ bot \in Phases
  /\ commands \in Registrations
  /\ run \in [ Runs -> Refreshes ]
  /\ removing \in { "idle", "store", "delete" }
  /\ row \in Rows
  /\ runtime \in [ of : Permissions \cup { "none" }, commands : Registrations, ttl : 0 .. StatusTtl ]
  /\ runtime = NoStatus <=> runtime.ttl = 0
  /\ beat \in 0 .. BeatTtl
  /\ silent \in 0 .. Limit
  /\ { moves, mishaps } \subseteq Nat

Presences == PresenceTypes /\ (\A r \in Runs : RefreshHolds(r)) /\ StatusHolds

LEMMA NothingTypes ==
  /\ NoRefresh \in Refreshes /\ NoRefresh.at = "idle"
  /\ NoStatus \in [ of : Permissions \cup { "none" }, commands : Registrations, ttl : 0 .. StatusTtl ]
  /\ NoStatus.ttl = 0 /\ NoStatus.of = "none"
  BY Bounds DEF NoRefresh, Refreshes, NoStatus, Memberships, Permissions, Registrations

LEMMA PresenceInit == InstallationInit => Presences
  BY Bounds, NothingTypes
  DEF InstallationInit, Presences, PresenceTypes, RefreshHolds, StatusHolds, Refreshes,
      Memberships, Permissions, Phases, Registrations, Rows, Limit

LEMMA RecentFollows == Presences => OnlineIsRecent
  <1> SUFFICES ASSUME Presences, Resolved.online PROVE silent < Limit
    BY DEF OnlineIsRecent
  <1>1. runtime # NoStatus
    BY DEF Resolved, Shown
  <1>2. runtime.ttl > 0
    BY <1>1 DEF Presences, PresenceTypes
  <1>3. QED
    BY Bounds, <1>2 DEF Presences, PresenceTypes, StatusHolds, Limit

LEMMA WrittenInTime ==
  ASSUME NEW age \in Nat, age <= RunTime PROVE age + StatusTtl <= Limit
  BY Bounds DEF Limit

LEMMA PresenceStep == Presences /\ InstallationStep => Presences'
  <1> SUFFICES ASSUME Presences, InstallationStep PROVE Presences'
    OBVIOUS
  <1> USE DEF Presences, PresenceTypes, RefreshHolds, StatusHolds, Refreshes,
        Memberships, Permissions, Phases, Registrations, Rows, Limit, process, stores, world
  <1>0. silent' \in 0 .. Limit /\ silent' <= silent /\ (Seen' => silent' = 0)
    BY Bounds DEF InstallationStep
  <1> USE DEF Seen, Connected, Serving, BeginRefresh, BeginRemoval
  <1>1. CASE Move BY Bounds, NothingTypes, <1>0, <1>1 DEF Move
  <1>2. CASE AskRefresh BY Bounds, NothingTypes, <1>0, <1>2 DEF AskRefresh
  <1>3. CASE Signal BY Bounds, NothingTypes, <1>0, <1>3 DEF Signal
  <1>4. CASE Crash BY Bounds, NothingTypes, <1>0, <1>4 DEF Crash, Gone
  <1>5. CASE CallFails BY Bounds, NothingTypes, <1>0, <1>5 DEF CallFails
  <1>6. CASE Login BY Bounds, NothingTypes, <1>0, <1>6 DEF Login
  <1>7. CASE StartService BY Bounds, NothingTypes, <1>0, <1>7 DEF StartService
  <1>8. CASE Started BY Bounds, NothingTypes, <1>0, <1>8 DEF Started
  <1>9. CASE Deliver BY Bounds, NothingTypes, <1>0, <1>9 DEF Deliver
  <1>10. CASE PeriodicRefresh BY Bounds, NothingTypes, <1>0, <1>10 DEF PeriodicRefresh
  <1>11. CASE AnswerRefresh BY Bounds, NothingTypes, <1>0, <1>11 DEF AnswerRefresh
  <1>12. ASSUME NEW r \in Runs, StoreInstalled(r) PROVE Presences'
    BY Bounds, NothingTypes, <1>0, <1>12 DEF StoreInstalled, At, GoOn
  <1>13. ASSUME NEW r \in Runs, WriteStatus(r) PROVE Presences'
    <2>1. run[r] # NoRefresh /\ run[r].seen \in Permissions /\ silent <= run[r].age
      BY <1>13, NothingTypes DEF WriteStatus, At
    <2>2. run[r].age \in 0 .. RunTime
      BY Bounds
    <2>3. /\ runtime' \in [ of : Permissions \cup { "none" }, commands : Registrations, ttl : 0 .. StatusTtl ]
          /\ runtime' = NoStatus <=> runtime'.ttl = 0
          /\ runtime'.ttl = StatusTtl
      BY <1>13, <2>1, Bounds, NothingTypes DEF WriteStatus
    <2>4. StatusHolds'
      <3>1. silent' \in Nat /\ silent' <= RunTime
        BY <1>0, <2>1, <2>2, Bounds
      <3>2. silent' + StatusTtl <= Limit
        BY <3>1, WrittenInTime
      <3>3. QED
        BY <2>3, <3>2
    <2>5. run' \in [ Runs -> Refreshes ] /\ \A p \in Runs : RefreshHolds(p)'
      BY <1>0, <1>13, Bounds, NothingTypes DEF WriteStatus
    <2>6. QED
      BY <1>0, <1>13, <2>3, <2>4, <2>5 DEF WriteStatus
  <1>14. CASE StoreRemoved BY Bounds, NothingTypes, <1>0, <1>14 DEF StoreRemoved
  <1>15. CASE DeleteStatus BY Bounds, NothingTypes, <1>0, <1>15 DEF DeleteStatus
  <1>16. CASE CloseService BY Bounds, NothingTypes, <1>0, <1>16 DEF CloseService
  <1>17. CASE CloseHeartbeat BY Bounds, NothingTypes, <1>0, <1>17 DEF CloseHeartbeat
  <1>18. CASE Exit BY Bounds, NothingTypes, <1>0, <1>18 DEF Exit, Gone
  <1>19. QED
    BY <1>1, <1>2, <1>3, <1>4, <1>5, <1>6, <1>7, <1>8, <1>9, <1>10, <1>11, <1>12, <1>13,
       <1>14, <1>15, <1>16, <1>17, <1>18 DEF InstallationStep

LEMMA PresenceAges == Presences /\ TimePasses => Presences'
  <1> SUFFICES ASSUME Presences, TimePasses PROVE Presences'
    OBVIOUS
  <1> USE DEF Presences, PresenceTypes, Limit
  <1>1. /\ UNCHANGED << known, bot, commands, removing, row, limits, member, moves, mishaps >>
        /\ \A r \in Runs : run[r] # NoRefresh => run[r].age < RunTime
        /\ run' = [ r \in Runs |->
             IF run[r] = NoRefresh THEN NoRefresh ELSE [ run[r] EXCEPT !.age = @ + 1 ] ]
        /\ runtime' = Older(runtime)
    BY DEF TimePasses, Tick, world
  <1>2. silent' \in 0 .. Limit /\ (silent' = silent \/ silent' = silent + 1)
    BY Bounds DEF TimePasses
  <1>3. beat' \in 0 .. BeatTtl
    BY Bounds DEF TimePasses, Tick
  <1>4. /\ run' \in [ Runs -> Refreshes ]
        /\ \A r \in Runs : RefreshHolds(r)'
    BY Bounds, NothingTypes, <1>1, <1>2 DEF Refreshes, RefreshHolds
  <1>5. /\ runtime' \in [ of : Permissions \cup { "none" }, commands : Registrations, ttl : 0 .. StatusTtl ]
        /\ runtime' = NoStatus <=> runtime'.ttl = 0
        /\ runtime'.ttl = 0 \/ runtime'.ttl = runtime.ttl - 1
    BY Bounds, NothingTypes, <1>1 DEF Older
  <1>6. StatusHolds'
    BY Bounds, <1>2, <1>5 DEF StatusHolds
  <1>7. QED
    BY <1>1, <1>2, <1>3, <1>4, <1>5, <1>6

LEMMA FlagsStep == Flags /\ InstallationStep => Flags'
  <1> SUFFICES ASSUME Flags, InstallationStep PROVE Flags'
    OBVIOUS
  <1> USE DEF Flags, process, stores, world
  <1>1. QED
    BY Zenon DEF InstallationStep, Move, AskRefresh, Signal, Crash, CallFails, Gone, Login, StartService,
    Started, Deliver, PeriodicRefresh, AnswerRefresh, StoreInstalled, WriteStatus, StoreRemoved, DeleteStatus,
    CloseService, CloseHeartbeat, Exit

LEMMA FlagsAge == Flags /\ TimePasses => Flags'
  <1>1. Flags /\ TimePasses => listed' \in BOOLEAN /\ asked' \in BOOLEAN
    BY Zenon DEF TimePasses, Tick, Flags
  <1>2. TimePasses => due' \in BOOLEAN
    BY DEF TimePasses, Tick
  <1>3. QED
    BY <1>1, <1>2 DEF Flags

LEMMA PresenceStays ==
  ASSUME Presences, UNCHANGED botVars, row' \in Rows, mishaps' \in Nat
  PROVE  Presences'
  BY DEF Presences, PresenceTypes, RefreshHolds, StatusHolds, botVars, process

-------------------------------------------------------------------------------
\* What the steps still to take say of a request.
ByBot(r) == r.via = "bot" => \A step \in Discordant \cup { "renew", "keep" } : ~ Has(r.todo, step)

RequestHolds(q) ==
  /\ request[q] \in Request
  /\ Ordered(request[q].todo) /\ ByBot(request[q])
  /\ request[q].token <= issued

\* A list of guilds is from the time the request was sent at, a grant from the time
\* its list arrived at; the rights of a command are Discord's, and leave no grant.
RightsHold ==
  /\ manages => lost = 0
  /\ grant > 0 => lost + grant <= Longest
  /\ \A q \in Slots :
       request[q].via # "bot" /\ request[q].answer =>
         /\ Does(q, "receive") => lost <= request[q].age
         /\ request[q].left > 0 => lost + request[q].left <= Longest

\* A form that has claimed its key and has still to commit.
Stores(q) ==
  /\ request[q].via \notin { "api", "bot" }
  /\ Has(request[q].todo, "commit") /\ ~ Has(request[q].todo, "claim")

\* A turn of the key is over, or it is the one in which it is claimed.
Taken(key, n) == n < turn[key] \/ (n = turn[key] /\ claimed[key] > 0)

KeysHold ==
  /\ SubmittedOnce
  /\ \A key \in Keys : \A i \in DOMAIN stored[key] : Taken(key, stored[key][i])
  /\ \A q \in Slots : Stores(q) =>
       /\ Taken(request[q].key, request[q].turn)
       /\ \A i \in DOMAIN stored[request[q].key] : stored[request[q].key][i] # request[q].turn
  /\ \A p, q \in Slots :
       Stores(p) /\ Stores(q) /\ request[p].key = request[q].key /\ request[p].turn = request[q].turn =>
         p = q

\* A token that is about to be kept is usable; where tokens rotate, nobody else
\* knows it, so that nobody else uses it up.
TokensHold ==
  /\ \A q \in Slots : Does(q, "keep") =>
       /\ request[q].token \in usable
       /\ limits.rotation = "rotates" =>
            /\ credential.token # request[q].token
            /\ \A p \in Slots \ { q } : request[p].token # request[q].token
  /\ CredentialSurvives

\* Whoever has created a sale and has not handed it over is alone, and it is PENDING.
Sells(q) == Does(q, "sell") \/ Does(q, "record") \/ Does(q, "undo")

SalesHold ==
  /\ \A i, j \in DOMAIN sales : Effective(sales[i]) /\ Effective(sales[j]) => i = j
  /\ \A q \in Slots : Sells(q) =>
       /\ request[q].read \in DOMAIN sales
       /\ sales[request[q].read].status = "PENDING"
  /\ \A p, q \in Slots : Sells(p) /\ Sells(q) => p = q

-------------------------------------------------------------------------------
\* How a request goes on.
Slotted == \A q \in Slots : RequestHolds(q)
Typed   == request \in [ Slots -> Request ] /\ issued \in Nat

LEMMA NoRequestTypes ==
  /\ FirstKey \in Keys
  /\ \A key \in Keys :
       /\ NoRequest(key) \in Request
       /\ NoRequest(key).todo = << >> /\ NoRequest(key).token = 0 /\ NoRequest(key).left = 0
       /\ NoRequest(key).via = "api" /\ NoRequest(key).answer = FALSE /\ NoRequest(key).turn = 0
  <1>1. FirstKey \in Keys
    BY RequestsAssumption DEF FirstKey
  <1>2. /\ << >> \in Seq(StepNames) /\ "settings" \in Kinds /\ "api" \in Vias
    BY DEF Kinds, Vias, Versioned
  <1>3. QED
    BY <1>1, <1>2, Bounds DEF NoRequest, Request

\* Only q goes on, as r would, or ends.
Moves(q, r) ==
  /\ request' = [ request EXCEPT ![q] = request'[q] ]
  /\ \/ request'[q] = NoRequest(FirstKey)
     \/ Tail(r.todo) # << >> /\ request'[q] = [ r EXCEPT !.todo = Tail(r.todo) ]

LEMMA EndsMoves ==
  ASSUME Typed, NEW q \in Slots, Ends(q), NEW r
  PROVE  Moves(q, r)
  BY DEF Typed, Moves, Ends, Becomes

LEMMA ProceedsMoves ==
  ASSUME Typed, NEW q \in Slots, NEW r, r.todo \in Seq(StepNames), r.todo # << >>, Proceeds(q, r)
  PROVE  Moves(q, r)
  <1>1. CASE Len(r.todo) = 1
    BY <1>1, EndsMoves DEF Proceeds
  <1>2. CASE Len(r.todo) # 1
    <2>1. Tail(r.todo) # << >>
      BY <1>2, TailEnds
    <2>2. QED
      BY <1>2, <2>1 DEF Proceeds, Becomes, Moves, Typed
  <1>3. QED
    BY <1>1, <1>2

LEMMA DemandsMoves ==
  ASSUME Typed, NEW q \in Slots, NEW condition, NEW step, Does(q, step), Demands(q, condition)
  PROVE  Moves(q, request[q])
  <1>1. request[q].todo \in Seq(StepNames) /\ request[q].todo # << >>
    BY DEF Typed, Request, Does
  <1>2. QED
    BY <1>1, EndsMoves, ProceedsMoves DEF Demands

LEMMA MovesHolds ==
  ASSUME Typed, Slotted, NEW q \in Slots, NEW r \in Request, Moves(q, r),
         Ordered(r.todo), r.todo # << >>, ByBot(r), r.token <= issued', issued' \in Nat,
         issued <= issued'
  PROVE  Typed' /\ Slotted'
  <1> DEFINE s == [ r EXCEPT !.todo = Tail(r.todo) ]
  <1>1. s \in Request /\ s.todo = Tail(r.todo) /\ s.via = r.via /\ s.token = r.token
    BY TailSteps DEF Request
  <1>2. Ordered(s.todo) /\ ByBot(s)
    BY <1>1, TailOrdered, TailHas DEF ByBot, Request
  <1>3. Ordered(NoRequest(FirstKey).todo) /\ ByBot(NoRequest(FirstKey))
    BY NoRequestTypes, LastStepsOrdered DEF ByBot
  <1> DEFINE Good(t) ==
        t \in Request /\ Ordered(t.todo) /\ ByBot(t) /\ t.token <= issued'
  <1>4. Good(s) /\ Good(NoRequest(FirstKey))
    BY <1>1, <1>2, <1>3, NoRequestTypes
  <1>5. \A p \in Slots : Good(request[p])
    <2> SUFFICES ASSUME NEW p \in Slots PROVE Good(request[p])
      OBVIOUS
    <2>1. RequestHolds(p) /\ request[p].token \in Nat
      BY DEF Slotted, Typed, Request
    <2>2. QED
      BY <2>1 DEF RequestHolds, Typed
  <1> HIDE DEF Good
  <1>6. request'[q] \in { s, NoRequest(FirstKey) }
    BY DEF Moves
  <1>7. \A p \in Slots : Good(request'[p])
    BY <1>4, <1>5, <1>6 DEF Moves, Typed
  <1>8. request' \in [ Slots -> Request ]
    BY <1>7 DEF Moves, Typed, Good
  <1>9. QED
    BY <1>7, <1>8 DEF Good, Typed, Slotted, RequestHolds

\* Which step a request is at now.
LEMMA MovesOn ==
  ASSUME Typed, Slotted, NEW q \in Slots, NEW r, Moves(q, r),
         Ordered(r.todo), r.todo # << >>
  PROVE  /\ \A p \in Slots : p # q => request'[p] = request[p]
         /\ \A p \in Slots : \A step : p # q => (Does(p, step)' <=> Does(p, step))
         /\ Does(q, "receive")' => Head(r.todo) = "fetch"
         /\ Does(q, "sell")' => Head(r.todo) = "create"
         /\ Does(q, "keep")' => Head(r.todo) = "renew"
         /\ ~ Does(q, "record")' /\ ~ Does(q, "undo")'
  <1>1. \A p \in Slots : p # q => request'[p] = request[p]
    BY DEF Moves, Typed
  <1>2. CASE request'[q] = NoRequest(FirstKey)
    BY <1>1, <1>2, NoRequestTypes DEF Does
  <1>3. CASE Tail(r.todo) # << >> /\ request'[q] = [ r EXCEPT !.todo = Tail(r.todo) ]
    <2>1. request'[q].todo = Tail(r.todo)
      BY <1>3
    <2>2. /\ Head(Tail(r.todo)) = "receive" => Head(r.todo) = "fetch"
          /\ Head(Tail(r.todo)) = "sell" => Head(r.todo) = "create"
          /\ Head(Tail(r.todo)) = "keep" => Head(r.todo) = "renew"
          /\ Head(Tail(r.todo)) \notin { "record", "undo" }
      BY <1>3, NextFollows
    <2>3. QED
      BY <1>1, <2>1, <2>2 DEF Does
  <1>4. QED
    BY <1>2, <1>3 DEF Moves

-------------------------------------------------------------------------------
\* The steps that concern what the invariants are about; the others pass or end.
Telling ==
  { "claim", "token", "renew", "keep", "fetch", "receive", "sync", "load", "commit",
    "create", "sell", "record", "undo" }

coreVars == << rights, grant, credential, issued, usable, claimed, turn, rows, sales, limits >>

Quiet(q) ==
  /\ UNCHANGED << coreVars, mishaps >>
  /\ \/ Ends(q) /\ ~ Does(q, "keep")
     \/ /\ Moves(q, request[q])
        /\ \E step \in StepNames \ Telling : Does(q, step)

LEMMA QuietRequests ==
  ASSUME Typed, NEW q \in Slots, UNCHANGED << rights, sales, limits, mishaps >>,
         \/ RequireSession(q) \/ Authenticate(q) \/ RequireBillingAdmin(q)
         \/ Authorize(q) \/ RequireManageGuild(q) \/ Check(q) \/ Abort(q)
         \/ LimitRefresh(q) \/ RequestRefresh(q) \/ RequireValidResources(q) \/ Enqueue(q)
  PROVE  Quiet(q)
  <1> USE DEF coreVars, rights, tokens, claims, rows
  <1>1. { "session", "staff", "rights", "check", "recent", "ask", "resources", "enqueue" }
          \cup Scopes \cup Commands \subseteq StepNames \ Telling
    BY DEF StepNames, Telling, Scopes, Commands
  <1>2. \A step : Does(q, step) => request[q].todo \in Seq(StepNames) /\ request[q].todo # << >>
    BY DEF Typed, Request, Does
  <1>3. CASE RequireSession(q)
    BY <1>1, <1>3, DemandsMoves DEF RequireSession, Quiet
  <1>4. CASE Authenticate(q)
    BY <1>1, <1>4, DemandsMoves DEF Authenticate, Quiet
  <1>5. CASE RequireBillingAdmin(q)
    BY <1>1, <1>5, DemandsMoves DEF RequireBillingAdmin, Quiet
  <1>6. CASE Authorize(q)
    BY <1>1, <1>6, DemandsMoves DEF Authorize, Quiet
  <1>7. CASE RequireManageGuild(q)
    BY <1>1, <1>7, DemandsMoves DEF RequireManageGuild, Quiet
  <1>8. CASE Check(q)
    BY <1>1, <1>8, DemandsMoves DEF Check, Quiet
  <1>9. CASE Abort(q)
    BY <1>1, <1>9 DEF Abort, Quiet, Does
  <1>10. CASE LimitRefresh(q)
    BY <1>1, <1>10, DemandsMoves DEF LimitRefresh, Quiet
  <1>11. CASE RequestRefresh(q)
    BY <1>1, <1>11 DEF RequestRefresh, Quiet, Does
  <1>12. CASE RequireValidResources(q)
    BY <1>1, <1>2, <1>12, ProceedsMoves, EndsMoves DEF RequireValidResources, Quiet
  <1>13. CASE Enqueue(q)
    BY <1>1, <1>2, <1>13, ProceedsMoves DEF Enqueue, Quiet
  <1>14. QED
    BY <1>3, <1>4, <1>5, <1>6, <1>7, <1>8, <1>9, <1>10, <1>11, <1>12, <1>13

LEMMA QuietPurchases ==
  ASSUME Typed, NEW q \in Slots,
         UNCHANGED << rights, grant, tokens, claims, rows, limits, mishaps >>,
         \/ RequireBotInGuild(q) \/ ClaimCooldown(q) \/ AssertCheckoutAllowed(q)
         \/ CheckCapabilities(q) \/ EnsureConfiguredPlan(q) \/ LookUp(q)
         \/ Manage(q) \/ AddBlock(q) \/ RevokeBlock(q)
  PROVE  Quiet(q)
  <1> USE DEF coreVars, rights, tokens, claims, rows, purchaseVars
  <1>1. { "installed", "cooldown", "risk", "ready", "plan", "look", "manage", "block", "unblock" }
          \subseteq StepNames \ Telling
    BY DEF StepNames, Telling
  <1>2. CASE RequireBotInGuild(q)
    BY <1>1, <1>2, DemandsMoves DEF RequireBotInGuild, Quiet
  <1>3. CASE ClaimCooldown(q)
    BY <1>1, <1>3, DemandsMoves DEF ClaimCooldown, Quiet
  <1>4. CASE AssertCheckoutAllowed(q)
    BY <1>1, <1>4, DemandsMoves DEF AssertCheckoutAllowed, Quiet
  <1>5. CASE CheckCapabilities(q)
    BY <1>1, <1>5, DemandsMoves DEF CheckCapabilities, Quiet
  <1>6. CASE EnsureConfiguredPlan(q)
    BY <1>1, <1>6, DemandsMoves DEF EnsureConfiguredPlan, Quiet
  <1>7. CASE LookUp(q)
    BY <1>1, <1>7, DemandsMoves DEF LookUp, Quiet
  <1>8. CASE Manage(q) \/ AddBlock(q) \/ RevokeBlock(q)
    BY <1>8 DEF Manage, AddBlock, RevokeBlock, Quiet, Does
  <1>9. QED
    BY <1>2, <1>3, <1>4, <1>5, <1>6, <1>7, <1>8

-------------------------------------------------------------------------------
\* A request that goes on is still the same request.
Kin(q, r) ==
  /\ r \in Request
  /\ r.todo = request[q].todo /\ r.via = request[q].via /\ r.key = request[q].key
  /\ Does(q, "claim") \/ r.turn = request[q].turn

Known ==
  /\ Typed /\ Slotted
  /\ lost \in 0 .. Longest /\ grant \in 0 .. Freshness
  /\ credential \in [ token : 0 .. issued, good : BOOLEAN ]
  /\ usable \subseteq 1 .. issued
  /\ claimed \in [ Keys -> 0 .. KeyTime ]
  /\ turn \in [ Keys -> Nat ]
  /\ version \in [ Versioned -> Nat ]
  /\ trail \in Seq(Nat \X Nat)
  /\ stored \in [ Keys -> Seq(Nat) ]

LEMMA StepsKnown ==
  ASSUME Typed, NEW q \in Slots, NEW step, Does(q, step)
  PROVE  /\ request[q] \in Request /\ Kin(q, request[q])
         /\ request[q].todo \in Seq(StepNames) /\ request[q].todo # << >>
         /\ Head(request[q].todo) = step
         /\ request[q].token \in Nat
  BY DEF Typed, Request, Does, Kin

LEMMA RequestFields ==
  ASSUME NEW t \in Request
  PROVE  /\ [ t EXCEPT !.left = 0 ] \in Request /\ [ t EXCEPT !.left = Freshness ] \in Request
         /\ [ t EXCEPT !.age = 0 ] \in Request
  <1>1. Freshness \in Nat /\ FetchTime \in Nat
    BY Bounds
  <1>2. [ t EXCEPT !.left = 0 ] \in Request
    BY <1>1 DEF Request
  <1>3. [ t EXCEPT !.left = Freshness ] \in Request
    BY <1>1 DEF Request
  <1>4. [ t EXCEPT !.age = 0 ] \in Request
    BY <1>1 DEF Request
  <1>5. QED
    BY <1>2, <1>3, <1>4

LEMMA ChangesAreKin ==
  ASSUME Typed, NEW q \in Slots, NEW step, Does(q, step)
  PROVE  /\ \A n \in Nat : Kin(q, [ request[q] EXCEPT !.token = n ])
         /\ \A n \in Nat : Kin(q, [ request[q] EXCEPT !.read = n ])
         /\ \A b \in BOOLEAN : Kin(q, [ request[q] EXCEPT !.answer = b ])
         /\ \A b \in BOOLEAN : Kin(q, [ request[q] EXCEPT !.answer = b, !.left = 0 ])
         /\ Kin(q, [ request[q] EXCEPT !.age = 0, !.left = Freshness ])
  <1>1. request[q] \in Request
    BY DEF Typed
  <1>2. \A n \in Nat : Kin(q, [ request[q] EXCEPT !.token = n ])
    BY <1>1 DEF Kin, Request
  <1>3. \A n \in Nat : Kin(q, [ request[q] EXCEPT !.read = n ])
    BY <1>1 DEF Kin, Request
  <1>4. ASSUME NEW b, b \in BOOLEAN PROVE Kin(q, [ request[q] EXCEPT !.answer = b ])
    BY <1>1, <1>4 DEF Kin, Request
  <1>5. ASSUME NEW b, b \in BOOLEAN PROVE Kin(q, [ request[q] EXCEPT !.answer = b, !.left = 0 ])
    <2> DEFINE t == [ request[q] EXCEPT !.answer = b ]
    <2>1. t \in Request /\ Kin(q, t)
      BY <1>4, <1>5 DEF Kin
    <2>2. [ t EXCEPT !.left = 0 ] \in Request
      BY <2>1, RequestFields
    <2>3. [ t EXCEPT !.left = 0 ] = [ request[q] EXCEPT !.answer = b, !.left = 0 ]
      OBVIOUS
    <2>4. QED
      BY <2>1, <2>2, <2>3 DEF Kin
  <1>6. Kin(q, [ request[q] EXCEPT !.age = 0, !.left = Freshness ])
    <2> DEFINE t == [ request[q] EXCEPT !.age = 0 ]
    <2>1. [ t EXCEPT !.left = Freshness ] \in Request
      BY <1>1, RequestFields
    <2>3. [ t EXCEPT !.left = Freshness ] = [ request[q] EXCEPT !.age = 0, !.left = Freshness ]
      OBVIOUS
    <2>4. QED
      BY <2>1, <2>3 DEF Kin
  <1>7. QED
    BY <1>2, <1>3, <1>4, <1>5, <1>6

LEMMA KinGoesOn ==
  ASSUME Typed, NEW q \in Slots, NEW step, Does(q, step), NEW r, Kin(q, r)
  PROVE  r.todo \in Seq(StepNames) /\ r.todo # << >>
  BY StepsKnown DEF Kin

LEMMA KinMoves ==
  ASSUME Typed, Slotted, NEW q \in Slots, NEW step, Does(q, step),
         NEW r, Kin(q, r), Moves(q, r), r.token <= issued', issued' \in Nat, issued <= issued'
  PROVE  Typed' /\ Slotted'
  <1>1. RequestHolds(q)
    BY DEF Slotted
  <1>2. Ordered(r.todo) /\ ByBot(r) /\ r.todo # << >> /\ r \in Request
    BY <1>1, StepsKnown DEF Kin, RequestHolds, ByBot
  <1>3. QED
    BY <1>2, MovesHolds

\* How the steps that tell move a request.
Claiming(q) == [ request[q] EXCEPT !.turn = turn[request[q].key] ]

LEMMA ClaimMoves ==
  ASSUME Known, NEW q \in Slots, Claim(q)
  PROVE  /\ Kin(q, Claiming(q)) /\ Moves(q, Claiming(q))
         /\ Claiming(q).answer = request[q].answer /\ Claiming(q).left = request[q].left
         /\ Claiming(q).token = request[q].token /\ Claiming(q).turn = turn[request[q].key]
         /\ \/ Ends(q) /\ UNCHANGED claimed
            \/ /\ claimed[request[q].key] = 0
               /\ claimed' = [ claimed EXCEPT ![request[q].key] = KeyTime ]
  <1> DEFINE r == Claiming(q)
  <1>1. Typed /\ Does(q, "claim") /\ request[q] \in Request /\ request[q].key \in Keys
        /\ turn[request[q].key] \in Nat
    BY DEF Known, Typed, Claim, Request
  <1>2. /\ r \in Request /\ r.todo = request[q].todo /\ r.via = request[q].via
        /\ r.key = request[q].key /\ r.answer = request[q].answer /\ r.left = request[q].left
        /\ r.token = request[q].token /\ r.turn = turn[request[q].key]
    BY <1>1 DEF Claiming, Request
  <1>3. Kin(q, r)
    BY <1>1, <1>2 DEF Kin
  <1>4. \/ Ends(q) /\ UNCHANGED claimed
        \/ /\ Proceeds(q, r) /\ claimed[request[q].key] = 0
           /\ claimed' = [ claimed EXCEPT ![request[q].key] = KeyTime ]
    BY DEF Claim, ClaimSucceeds, Claiming
  <1> HIDE DEF r
  <1>5. Moves(q, r)
    BY <1>1, <1>3, <1>4, EndsMoves, ProceedsMoves, KinGoesOn
  <1>6. QED
    BY <1>2, <1>3, <1>4, <1>5 DEF r

LEMMA RenewMoves ==
  ASSUME Known, NEW q \in Slots, Renew(q)
  PROVE  \/ Ends(q) /\ UNCHANGED << issued, usable >>
         \/ /\ request[q].token \in usable /\ limits.rotation = "keeps"
            /\ Moves(q, request[q]) /\ UNCHANGED << issued, usable >>
         \/ /\ request[q].token \in usable
            /\ issued' = issued + 1
            /\ usable' = (IF limits.rotation = "rotates" THEN usable \ { request[q].token } ELSE usable)
                           \cup { issued' }
            /\ Kin(q, [ request[q] EXCEPT !.token = issued' ])
            /\ Moves(q, [ request[q] EXCEPT !.token = issued' ])
  <1> DEFINE r == [ request[q] EXCEPT !.token = issued + 1 ]
  <1>1. Kin(q, r) /\ r.todo \in Seq(StepNames) /\ r.todo # << >>
    <2>1. issued + 1 \in Nat /\ Typed /\ Does(q, "renew")
      BY DEF Known, Typed, Renew
    <2>2. Kin(q, r)
      BY <2>1, ChangesAreKin
    <2>3. QED
      BY <2>1, <2>2, KinGoesOn
  <1>2. QED
    BY <1>1, ProceedsMoves, StepsKnown DEF Renew, Known

LEMMA KeepMoves ==
  ASSUME Typed, NEW q \in Slots, KeepCredential(q)
  PROVE  LET r == [ request[q] EXCEPT !.token = 0 ]
         IN  Kin(q, r) /\ Moves(q, r)
  <1> DEFINE r == [ request[q] EXCEPT !.token = 0 ]
  <1>1. Kin(q, r) /\ r.todo \in Seq(StepNames) /\ r.todo # << >>
    BY ChangesAreKin, KinGoesOn DEF KeepCredential
  <1>2. QED
    BY <1>1, ProceedsMoves DEF KeepCredential

LEMMA FetchMoves ==
  ASSUME Typed, NEW q \in Slots, Fetch(q), manages \in BOOLEAN
  PROVE  LET r == [ request[q] EXCEPT !.answer = manages ]
         IN  Kin(q, r) /\ Moves(q, r)
  <1> DEFINE r == [ request[q] EXCEPT !.answer = manages ]
  <1>1. Kin(q, r) /\ r.todo \in Seq(StepNames) /\ r.todo # << >>
    BY ChangesAreKin, KinGoesOn DEF Fetch
  <1>2. QED
    BY <1>1, ProceedsMoves DEF Fetch

LEMMA ReceiveMoves ==
  ASSUME Typed, NEW q \in Slots, Receive(q)
  PROVE  LET r == [ request[q] EXCEPT !.age = 0, !.left = Freshness ]
         IN  Kin(q, r) /\ Moves(q, r)
  <1> DEFINE r == [ request[q] EXCEPT !.age = 0, !.left = Freshness ]
  <1>1. Kin(q, r) /\ r.todo \in Seq(StepNames) /\ r.todo # << >>
    BY ChangesAreKin, KinGoesOn DEF Receive
  <1>2. QED
    BY <1>1, ProceedsMoves DEF Receive

LEMMA SyncMoves ==
  ASSUME Typed, NEW q \in Slots, Sync(q)
  PROVE  LET r == [ request[q] EXCEPT !.answer = FALSE, !.left = 0 ]
         IN  Kin(q, r) /\ Moves(q, r)
  <1> DEFINE r == [ request[q] EXCEPT !.answer = FALSE, !.left = 0 ]
  <1>1. Kin(q, r) /\ r.todo \in Seq(StepNames) /\ r.todo # << >>
    BY ChangesAreKin, KinGoesOn DEF Sync
  <1>2. QED
    BY <1>1, ProceedsMoves DEF Sync

LEMMA LoadMoves ==
  ASSUME Known, NEW q \in Slots, Load(q)
  PROVE  \E read \in Nat :
           LET r == [ request[q] EXCEPT !.read = read ]
           IN  Kin(q, r) /\ Moves(q, r)
  <1> DEFINE r(read) == [ request[q] EXCEPT !.read = read ]
  <1>1. \A read \in Nat : Kin(q, r(read)) /\ r(read).todo \in Seq(StepNames) /\ r(read).todo # << >>
    BY ChangesAreKin, KinGoesOn DEF Known, Load
  <1>2. request[q] = r(request[q].read) /\ request[q].read \in Nat
    BY DEF Known, Typed, Request
  <1>3. CASE Ends(q)
    BY <1>1, <1>2, <1>3, EndsMoves DEF Known
  <1>4. CASE Proceeds(q, request[q])
    BY <1>1, <1>2, <1>4, ProceedsMoves DEF Known
  <1>5. CASE /\ request[q].kind \in Versioned
             /\ Proceeds(q, [ request[q] EXCEPT !.read = version[request[q].kind] ])
    BY <1>1, <1>5, ProceedsMoves DEF Known
  <1>6. QED
    BY <1>3, <1>4, <1>5 DEF Load

LEMMA CommitMoves ==
  ASSUME Typed, NEW q \in Slots, Commit(q) PROVE Moves(q, request[q])
  BY EndsMoves, ProceedsMoves, StepsKnown DEF Commit

LEMMA CreateMoves ==
  ASSUME Typed, sales \in Seq(Sale), NEW q \in Slots, Create(q)
  PROVE  \/ Ends(q) /\ UNCHANGED sales
         \/ /\ Unique /\ sales' = Append(sales, Created)
            /\ LET r == [ request[q] EXCEPT !.read = Len(sales) + 1 ]
               IN  Kin(q, r) /\ Moves(q, r)
  <1> DEFINE r == [ request[q] EXCEPT !.read = Len(sales) + 1 ]
  <1>1. Kin(q, r) /\ r.todo \in Seq(StepNames) /\ r.todo # << >>
    <2>1. Len(sales) + 1 \in Nat /\ Does(q, "create")
      BY DEF Create
    <2>2. Kin(q, r)
      BY <2>1, ChangesAreKin
    <2>3. QED
      BY <2>1, <2>2, KinGoesOn
  <1>2. Created \in Sale
    BY DEF Created, Sale
  <1>3. CASE Unique
    <2>1. Len(Append(sales, Created)) = Len(sales) + 1
      BY <1>2
    <2>2. QED
      BY <1>1, <1>3, <2>1, ProceedsMoves DEF Create
  <1>4. QED
    BY <1>3 DEF Create

-------------------------------------------------------------------------------
\* How a request begins.
Begins(q, s) ==
  /\ request' = [ request EXCEPT ![q] = s ]
  /\ s \in Request /\ Ordered(s.todo) /\ ByBot(s)
  /\ s.todo # << >>
  /\ Head(s.todo) \notin { "receive", "keep", "sell", "record", "undo" }
  /\ s.token = 0 /\ s.left = 0 /\ (s.answer => s.via = "bot")
  /\ s.via \notin { "api", "bot" } /\ Has(s.todo, "commit") => Has(s.todo, "claim")

LEMMA SubmitBegins ==
  ASSUME Known, manages \in BOOLEAN, NEW q \in Slots, Submit(q)
  PROVE  \E s : Begins(q, s)
  <1>1. PICK route \in Routes, key \in Keys, expected \in Nat :
          request' = [ request EXCEPT ![q] =
            [ NoRequest(key) EXCEPT !.kind = route.kind, !.via = route.via,
                                    !.expected = expected, !.todo = route.todo,
                                    !.answer = manages /\ route.via = "bot" ] ]
    <2>1. PICK route \in Routes, key \in Keys :
            \E expected \in IF NamesVersion(route) THEN 1 .. version[route.kind] ELSE { 0 } :
               Becomes(q, [ NoRequest(key) EXCEPT !.kind = route.kind, !.via = route.via,
                                                  !.expected = expected, !.todo = route.todo,
                                                  !.answer = manages /\ route.via = "bot" ])
      BY DEF Submit
    <2>2. (IF NamesVersion(route) THEN 1 .. version[route.kind] ELSE { 0 }) \subseteq Nat
      BY DEF NamesVersion, Known
    <2>3. QED
      BY <2>1, <2>2 DEF Becomes
  <1> DEFINE s == [ NoRequest(key) EXCEPT !.kind = route.kind, !.via = route.via,
                                    !.expected = expected, !.todo = route.todo,
                                    !.answer = manages /\ route.via = "bot" ]
  <1>2. Sound(route)
    BY RoutesSound
  <1> DEFINE answer == manages /\ route.via = "bot"
  <1>3. answer \in BOOLEAN /\ (answer => route.via = "bot")
    BY Zenon
  <1>4. /\ route.kind \in Kinds /\ route.via \in Vias /\ route.todo \in Seq(StepNames)
    BY <1>2 DEF Sound
  <1>5. s = [ NoRequest(key) EXCEPT !.kind = route.kind, !.via = route.via, !.expected = expected,
                                    !.todo = route.todo, !.answer = answer ]
    OBVIOUS
  <1> HIDE DEF s, answer
  <1>6. /\ s \in Request
        /\ s.todo = route.todo /\ s.via = route.via /\ s.answer = answer
        /\ s.token = 0 /\ s.left = 0
    <2>1. s.todo = route.todo /\ s.via = route.via /\ s.answer = answer /\ s.token = 0 /\ s.left = 0
      BY <1>5 DEF NoRequest
    <2>2. NoRequest(key) \in Request
      BY NoRequestTypes
    <2>3. s \in Request
      BY <1>3, <1>4, <1>5, <2>2, Bounds DEF Request
    <2>4. QED
      BY <2>1, <2>3
  <1>7. Ordered(s.todo) /\ ByBot(s)
    BY <1>2, <1>6, SoundIsOrdered DEF ByBot, Sound, Inserted, Discordant
  <1>8. /\ s.todo # << >> /\ Head(s.todo) \notin { "receive", "keep", "sell", "record", "undo" }
    BY <1>2, <1>4, <1>6, TailSteps DEF Sound, Inserted, Has
  <1>9. s.via \notin { "api", "bot" } /\ Has(s.todo, "commit") => Has(s.todo, "claim")
    BY <1>2, <1>6 DEF Sound
  <1>10. QED
    BY <1>1, <1>3, <1>6, <1>7, <1>8, <1>9 DEF Begins, s, answer

-------------------------------------------------------------------------------
\* What a request is, and what there is to know, through every step.
LEMMA KnownStays ==
  ASSUME Known, Typed', Slotted',
         UNCHANGED << lost, grant, credential, issued, usable, claimed, turn, rows >>
  PROVE  Known'
  BY DEF Known, rows

LEMMA EndsKnown ==
  ASSUME Typed, Slotted, NEW q \in Slots, Ends(q), issued' \in Nat, issued <= issued'
  PROVE  Typed' /\ Slotted'
  <1>1. NoRequest(FirstKey) \in Request /\ Ordered(NoRequest(FirstKey).todo)
        /\ ByBot(NoRequest(FirstKey)) /\ NoRequest(FirstKey).token <= issued'
    BY NoRequestTypes, LastStepsOrdered DEF ByBot
  <1>2. \A p \in Slots : request[p].token \in Nat /\ request[p].token <= issued
    BY DEF Typed, Slotted, RequestHolds, Request
  <1>3. Typed'
    BY <1>1 DEF Typed, Ends, Becomes
  <1>4. QED
    BY <1>1, <1>2, <1>3 DEF Typed, Slotted, RequestHolds, Ends, Becomes

\* The renewal of the access token comes between.
LEMMA RenewalBegins ==
  ASSUME Known, NEW q \in Slots, Does(q, "token"),
         Becomes(q, [ request[q] EXCEPT !.token = credential.token,
                                        !.todo = << "renew", "keep" >> \o Tail(request[q].todo) ]),
         UNCHANGED issued
  PROVE  Typed' /\ Slotted'
  <1> DEFINE todo == << "renew", "keep" >> \o Tail(request[q].todo)
             r == [ request[q] EXCEPT !.token = credential.token, !.todo = todo ]
  <1>1. request[q] \in Request /\ request[q].todo \in Seq(StepNames) /\ request[q].todo # << >>
        /\ Head(request[q].todo) = "token" /\ Ordered(request[q].todo) /\ ByBot(request[q])
    BY StepsKnown DEF Known, Slotted, RequestHolds
  <1>2. Ordered(todo) /\ todo \in Seq(StepNames)
    BY <1>1, RenewOrdered DEF Ordered
  <1>3. credential.token \in 0 .. issued /\ issued \in Nat
    BY DEF Known, Typed
  <1> HIDE DEF todo
  <1>4. r \in Request /\ r.todo = todo /\ r.via = request[q].via /\ r.token = credential.token
    <2>1. credential.token \in Nat
      BY <1>3
    <2>2. r.todo = todo /\ r.via = request[q].via /\ r.token = credential.token
      BY <1>1 DEF Request
    <2>3. r \in Request
      BY <1>1, <1>2, <2>1, Bounds DEF Request
    <2>4. QED
      BY <2>2, <2>3
  <1>5. r.via # "bot"
    <2>1. Has(request[q].todo, "token")
      BY <1>1, TailSteps DEF Has
    <2>2. QED
      BY <1>1, <1>4, <2>1 DEF ByBot, Discordant
  <1> HIDE DEF r
  <1>6. request' = [ request EXCEPT ![q] = r ]
    BY DEF Becomes, r, todo
  <1>7. QED
    BY <1>2, <1>3, <1>4, <1>5, <1>6 DEF Known, Typed, Slotted, RequestHolds, ByBot

LEMMA QuietKnown ==
  ASSUME Known, NEW q \in Slots, Quiet(q)
  PROVE  Known'
  <1>1. Typed /\ Slotted /\ issued \in Nat /\ UNCHANGED coreVars
    BY DEF Known, Typed, Quiet
  <1>2. CASE Ends(q)
    BY <1>1, <1>2, EndsKnown, KnownStays DEF coreVars, rights
  <1>3. CASE Moves(q, request[q]) /\ \E step \in StepNames \ Telling : Does(q, step)
    <2>1. request[q].token <= issued
      BY <1>1 DEF Slotted, RequestHolds
    <2>2. QED
      BY <1>1, <1>3, <2>1, KinMoves, StepsKnown, KnownStays DEF coreVars, rights
  <1>4. QED
    BY <1>2, <1>3 DEF Quiet

LEMMA BeginsKnown ==
  ASSUME Known, NEW q \in Slots, NEW s, Begins(q, s),
         UNCHANGED << lost, grant, credential, issued, usable, claimed, turn, rows >>
  PROVE  Known'
  <1>1. Typed /\ Slotted /\ issued \in Nat
    BY DEF Known, Typed
  <1>2. Typed'
    BY <1>1 DEF Begins, Typed
  <1>3. Slotted'
    BY <1>1 DEF Begins, Slotted, RequestHolds, Typed
  <1>4. QED
    BY <1>2, <1>3, KnownStays

LEMMA RequestsKnown ==
  ASSUME Known, manages \in BOOLEAN, NEW q \in Slots,
         UNCHANGED << rights, sales, limits, mishaps >>,
         \/ Submit(q) \/ Claim(q) \/ RequireSession(q) \/ Authenticate(q) \/ RequireBillingAdmin(q)
         \/ Authorize(q) \/ RequireManageGuild(q)
         \/ LoadCredential(q) \/ Renew(q) \/ KeepCredential(q)
         \/ Fetch(q) \/ Receive(q) \/ Abort(q) \/ Sync(q) \/ Check(q)
         \/ LimitRefresh(q) \/ RequestRefresh(q) \/ RequireValidResources(q) \/ Enqueue(q)
         \/ Load(q) \/ Commit(q)
  PROVE  Known'
  <1>1. /\ Typed /\ Slotted /\ issued \in Nat /\ lost \in 0 .. Longest
        /\ request[q] \in Request /\ request[q].token <= issued
    BY DEF Known, Typed, Slotted, RequestHolds
  <1> USE DEF rights, tokens, claims, rows
  <1>2. CASE Submit(q)
    BY <1>2, SubmitBegins, BeginsKnown DEF Submit
  <1>3. CASE \/ RequireSession(q) \/ Authenticate(q) \/ RequireBillingAdmin(q)
             \/ Authorize(q) \/ RequireManageGuild(q) \/ Check(q) \/ Abort(q)
             \/ LimitRefresh(q) \/ RequestRefresh(q) \/ RequireValidResources(q) \/ Enqueue(q)
    BY <1>1, <1>3, QuietRequests, QuietKnown
  <1>4. CASE Claim(q)
    <2>1. Typed' /\ Slotted'
      <3>1. Kin(q, Claiming(q)) /\ Moves(q, Claiming(q)) /\ Claiming(q).token <= issued
        BY <1>1, <1>4, ClaimMoves
      <3>2. QED
        BY <1>1, <1>4, <3>1, KinMoves DEF Claim
    <2>2. claimed' \in [ Keys -> 0 .. KeyTime ]
      <3>1. claimed \in [ Keys -> 0 .. KeyTime ] /\ KeyTime \in 0 .. KeyTime
        BY Bounds DEF Known
      <3>2. QED
        BY <1>4, <3>1, ClaimMoves
    <2>3. QED
      BY <1>4, <2>1, <2>2 DEF Claim, Known
  <1>5. CASE LoadCredential(q)
    <2>1. Typed' /\ Slotted'
      <3>1. CASE Ends(q) \/ Proceeds(q, request[q])
        BY <1>1, <1>5, <3>1, EndsMoves, ProceedsMoves, StepsKnown, KinMoves DEF LoadCredential
      <3>2. CASE Becomes(q, [ request[q] EXCEPT !.token = credential.token,
                                   !.todo = << "renew", "keep" >> \o Tail(request[q].todo) ])
        BY <1>1, <1>5, <3>2, RenewalBegins DEF LoadCredential
      <3>3. QED
        BY <1>5, <3>1, <3>2 DEF LoadCredential
    <2>2. QED
      BY <1>5, <2>1, KnownStays DEF LoadCredential
  <1>6. CASE Renew(q)
    <2>1. Does(q, "renew") /\ UNCHANGED << lost, grant, credential, claimed, turn, rows >>
      BY <1>6 DEF Renew
    <2>2. CASE Ends(q) /\ UNCHANGED << issued, usable >>
      BY <1>1, <2>1, <2>2, EndsKnown, KnownStays
    <2>3. CASE Moves(q, request[q]) /\ UNCHANGED << issued, usable >>
      BY <1>1, <2>1, <2>3, StepsKnown, KinMoves, KnownStays
    <2>4. CASE /\ issued' = issued + 1
               /\ usable' = (IF limits.rotation = "rotates" THEN usable \ { request[q].token } ELSE usable)
                              \cup { issued' }
               /\ Kin(q, [ request[q] EXCEPT !.token = issued' ])
               /\ Moves(q, [ request[q] EXCEPT !.token = issued' ])
      <3> DEFINE r == [ request[q] EXCEPT !.token = issued' ]
      <3>1. r.token = issued' /\ issued' \in Nat /\ issued <= issued'
        BY <1>1, <2>4 DEF Request
      <3>2. Typed' /\ Slotted'
        <4>1. Kin(q, r) /\ Moves(q, r)
          BY <2>4
        <4> HIDE DEF r
        <4>2. QED
          BY <1>1, <2>1, <3>1, <4>1, KinMoves
      <3>3. usable' \subseteq 1 .. issued' /\ 0 .. issued \subseteq 0 .. issued'
        BY <1>1, <2>4 DEF Known
      <3>4. QED
        BY <2>1, <3>2, <3>3 DEF Known
    <2>5. QED
      BY <1>6, <2>2, <2>3, <2>4, RenewMoves
  <1>7. CASE KeepCredential(q)
    <2> DEFINE r == [ request[q] EXCEPT !.token = 0 ]
    <2>1. Kin(q, r) /\ Moves(q, r) /\ r.token = 0
      BY <1>1, <1>7, KeepMoves DEF Request
    <2>2. Typed' /\ Slotted'
      <3>1. Does(q, "keep") /\ UNCHANGED issued
        BY <1>7 DEF KeepCredential
      <3> HIDE DEF r
      <3>2. QED
        BY <1>1, <2>1, <3>1, KinMoves
    <2>3. credential' \in [ token : 0 .. issued, good : BOOLEAN ]
      <3>1. request[q].token \in 0 .. issued
        BY <1>1 DEF Request
      <3>2. credential' = [ token |-> request[q].token, good |-> TRUE ]
        BY <1>7 DEF KeepCredential, NewToken
      <3>3. QED
        BY <3>1, <3>2
    <2>4. QED
      BY <1>7, <2>2, <2>3 DEF KeepCredential, Known
  <1>8. CASE Fetch(q)
    <2> DEFINE r == [ request[q] EXCEPT !.answer = manages ]
    <2>1. Kin(q, r) /\ Moves(q, r)
      BY <1>1, <1>8, FetchMoves
    <2>2. r.token = request[q].token /\ Does(q, "fetch") /\ UNCHANGED issued
      BY <1>1, <1>8 DEF Request, Fetch
    <2> HIDE DEF r
    <2>3. Typed' /\ Slotted'
      BY <1>1, <2>1, <2>2, KinMoves
    <2>4. QED
      BY <1>8, <2>3, KnownStays DEF Fetch
  <1>9. CASE Receive(q)
    <2> DEFINE r == [ request[q] EXCEPT !.age = 0, !.left = Freshness ]
    <2>1. Kin(q, r) /\ Moves(q, r)
      BY <1>1, <1>9, ReceiveMoves
    <2>2. r.token = request[q].token /\ Does(q, "receive") /\ UNCHANGED issued
      BY <1>1, <1>9 DEF Request, Receive
    <2> HIDE DEF r
    <2>3. Typed' /\ Slotted'
      BY <1>1, <2>1, <2>2, KinMoves
    <2>4. QED
      BY <1>9, <2>3, KnownStays DEF Receive
  <1>10. CASE Sync(q)
    <2> DEFINE r == [ request[q] EXCEPT !.answer = FALSE, !.left = 0 ]
    <2>1. Kin(q, r) /\ Moves(q, r)
      BY <1>1, <1>10, SyncMoves
    <2>2. r.token = request[q].token /\ Does(q, "sync") /\ UNCHANGED issued
      BY <1>1, <1>10 DEF Request, Sync
    <2> HIDE DEF r
    <2>3. Typed' /\ Slotted'
      BY <1>1, <2>1, <2>2, KinMoves
    <2>4. grant' \in 0 .. Freshness
      <3>1. request[q].left \in 0 .. Freshness /\ 0 \in 0 .. Freshness
        BY <1>1, Bounds DEF Request
      <3>2. grant' = request[q].left \/ grant' = 0
        BY <1>10 DEF Sync
      <3>3. QED
        BY <3>1, <3>2
    <2>5. QED
      BY <1>10, <2>3, <2>4 DEF Sync, Known
  <1>11. CASE Load(q)
    <2>1. PICK read \in Nat : LET r == [ request[q] EXCEPT !.read = read ]
                              IN  Kin(q, r) /\ Moves(q, r)
      BY <1>11, LoadMoves
    <2> DEFINE r == [ request[q] EXCEPT !.read = read ]
    <2>2. Kin(q, r) /\ Moves(q, r)
      BY <2>1
    <2>3. r.token = request[q].token /\ Does(q, "load") /\ UNCHANGED issued
      BY <1>1, <1>11 DEF Request, Load
    <2> HIDE DEF r
    <2>4. Typed' /\ Slotted'
      BY <1>1, <2>2, <2>3, KinMoves
    <2>5. QED
      BY <1>11, <2>4, KnownStays DEF Load
  <1>12. CASE Commit(q)
    <2>1. Typed' /\ Slotted'
      BY <1>1, <1>12, CommitMoves, StepsKnown, KinMoves DEF Commit
    <2>2. /\ version' \in [ Versioned -> Nat ]
          /\ trail' \in Seq(Nat \X Nat)
          /\ stored' \in [ Keys -> Seq(Nat) ]
      <3>1. CASE UNCHANGED rows
        BY <3>1 DEF Known
      <3>2. CASE Committed(request[q])
        <4>1. version' \in [ Versioned -> Nat ] /\ "settings" \in Versioned
          BY <3>2 DEF Known, Committed, Versioned
        <4>2. << request[q].read, version'["settings"] >> \in Nat \X Nat
          BY <1>1, <4>1 DEF Request
        <4>3. trail' \in Seq(Nat \X Nat)
          BY <3>2, <4>2 DEF Known, Committed
        <4>4. stored' \in [ Keys -> Seq(Nat) ]
          <5>1. stored \in [ Keys -> Seq(Nat) ] /\ request[q].key \in Keys /\ request[q].turn \in Nat
            BY <1>1 DEF Known, Request
          <5>2. stored' = stored \/ stored' = [ stored EXCEPT ![request[q].key] = Append(stored[request[q].key], request[q].turn) ]
            BY <3>2 DEF Committed
          <5>3. Append(stored[request[q].key], request[q].turn) \in Seq(Nat)
            BY <5>1
          <5>4. QED
            BY <5>1, <5>2, <5>3
        <4>5. QED
          BY <4>1, <4>3, <4>4
      <3>3. QED
        BY <1>12, <3>1, <3>2 DEF Commit
    <2>3. QED
      BY <1>12, <2>1, <2>2 DEF Commit, Known
  <1>13. QED
    BY <1>2, <1>3, <1>4, <1>5, <1>6, <1>7, <1>8, <1>9, <1>10, <1>11, <1>12

\* What is left of a sale is its last step.
LastStep(q, step) ==
  request' = [ request EXCEPT ![q] = [ request[q] EXCEPT !.todo = << step >> ] ]

LEMMA LastStepKnown ==
  ASSUME Known, NEW q \in Slots, NEW step \in { "record", "undo" }, LastStep(q, step),
         UNCHANGED issued
  PROVE  Typed' /\ Slotted'
  <1> DEFINE r == [ request[q] EXCEPT !.todo = << step >> ]
  <1>1. Ordered(<< step >>) /\ << step >> \in Seq(StepNames)
        /\ \A other \in Discordant \cup { "renew", "keep" } : ~ Has(<< step >>, other)
    BY LastStepsOrdered DEF Ordered, Discordant
  <1>2. request[q] \in Request /\ request[q].token <= issued
    BY DEF Known, Typed, Slotted, RequestHolds
  <1>3. r \in Request /\ r.todo = << step >> /\ r.token = request[q].token
    BY <1>1, <1>2 DEF Request
  <1> HIDE DEF r
  <1>4. request' = [ request EXCEPT ![q] = r ]
    BY DEF LastStep, r
  <1>5. QED
    BY <1>1, <1>2, <1>3, <1>4 DEF Known, Typed, Slotted, RequestHolds, ByBot

LEMMA PurchasesKnown ==
  ASSUME Known, sales \in Seq(Sale), NEW q \in Slots,
         UNCHANGED << rights, grant, tokens, claims, rows, limits, mishaps >>,
         \/ RequireBotInGuild(q) \/ ClaimCooldown(q) \/ AssertCheckoutAllowed(q)
         \/ CheckCapabilities(q) \/ EnsureConfiguredPlan(q) \/ LookUp(q)
         \/ Create(q) \/ Sell(q) \/ Record(q) \/ Undo(q)
         \/ Manage(q) \/ AddBlock(q) \/ RevokeBlock(q)
  PROVE  Known'
  <1>1. /\ Typed /\ Slotted /\ issued \in Nat
        /\ request[q] \in Request /\ request[q].token <= issued
    BY DEF Known, Typed, Slotted, RequestHolds
  <1>2. UNCHANGED << lost, grant, credential, issued, usable, claimed, turn, rows >>
    BY DEF rights, tokens, claims
  <1>3. CASE \/ RequireBotInGuild(q) \/ ClaimCooldown(q) \/ AssertCheckoutAllowed(q)
             \/ CheckCapabilities(q) \/ EnsureConfiguredPlan(q) \/ LookUp(q)
             \/ Manage(q) \/ AddBlock(q) \/ RevokeBlock(q)
    BY <1>1, <1>3, QuietPurchases, QuietKnown
  <1>4. CASE Create(q)
    <2> DEFINE r == [ request[q] EXCEPT !.read = Len(sales) + 1 ]
    <2>1. CASE Ends(q)
      BY <1>1, <1>2, <2>1, EndsKnown, KnownStays
    <2>2. CASE Kin(q, r) /\ Moves(q, r)
      <3>1. r.token = request[q].token /\ Does(q, "create")
        BY <1>1, <1>4 DEF Request, Create
      <3> HIDE DEF r
      <3>2. QED
        BY <1>1, <1>2, <2>2, <3>1, KinMoves, KnownStays
    <2>3. QED
      BY <1>1, <1>4, <2>1, <2>2, CreateMoves
  <1>5. CASE Sell(q)
    <2>1. LastStep(q, "record") \/ LastStep(q, "undo")
      BY <1>5 DEF Sell, Becomes, LastStep
    <2>2. QED
      BY <1>2, <2>1, LastStepKnown, KnownStays
  <1>6. CASE Record(q)
    <2>1. Ends(q) \/ LastStep(q, "undo")
      BY <1>6 DEF Record, Becomes, LastStep
    <2>2. QED
      BY <1>1, <1>2, <2>1, EndsKnown, LastStepKnown, KnownStays
  <1>7. CASE Undo(q)
    BY <1>1, <1>2, <1>7, EndsKnown, KnownStays DEF Undo
  <1>8. QED
    BY <1>3, <1>4, <1>5, <1>6, <1>7

\* The end of the bot, the user and the time.
LEMMA BotEndKnown ==
  ASSUME Known, EndWithBot PROVE Known'
  <1>1. NoRequest(FirstKey) \in Request /\ Ordered(NoRequest(FirstKey).todo)
        /\ ByBot(NoRequest(FirstKey)) /\ NoRequest(FirstKey).token <= issued
    BY NoRequestTypes, LastStepsOrdered DEF ByBot, Known, Typed
  <1>2. Typed'
    BY <1>1 DEF EndWithBot, Known, Typed, tokens
  <1>3. Slotted'
    BY <1>1 DEF EndWithBot, Known, Slotted, RequestHolds, tokens
  <1>4. QED
    BY <1>2, <1>3, KnownStays DEF EndWithBot, rights, tokens

LEMMA UserKnown ==
  ASSUME Known, UserStep PROVE Known'
  <1>1. issued \in Nat /\ issued' \in Nat /\ issued <= issued'
    BY DEF Known, Typed, UserStep, ChangeRights, RevokeAll, SignIn, AccessExpires, tokens
  <1>2. UNCHANGED << request, grant, claimed, turn, rows >>
    BY DEF UserStep, claims
  <1>3. lost' \in 0 .. Longest
    BY Bounds DEF Known, UserStep, ChangeRights, RevokeAll, SignIn, AccessExpires, rights, Longest
  <1>4. usable' \subseteq 1 .. issued'
    <2>1. usable \subseteq 1 .. issued /\ issued \in Nat
      BY DEF Known, Typed
    <2>2. \/ usable' = usable /\ issued' = issued
          \/ usable' = usable \cup { issued' } /\ issued' = issued + 1
      BY DEF UserStep, ChangeRights, RevokeAll, SignIn, AccessExpires, tokens
    <2>3. 1 .. issued \subseteq 1 .. issued' /\ (issued' = issued + 1 => issued' \in 1 .. issued')
      BY <2>1, <2>2
    <2>4. QED
      BY <2>1, <2>2, <2>3
  <1>5. credential' \in [ token : 0 .. issued', good : BOOLEAN ]
    <2>1. CASE ChangeRights
      BY <2>1 DEF Known, ChangeRights, tokens
    <2>2. CASE RevokeAll
      BY <1>1, <2>2 DEF RevokeAll
    <2>3. CASE SignIn
      BY <1>1, <2>3 DEF SignIn
    <2>4. CASE AccessExpires
      BY <1>1, <2>4 DEF Known, AccessExpires
    <2>5. QED
      BY <2>1, <2>2, <2>3, <2>4 DEF UserStep
  <1>6. Typed' /\ Slotted'
    <2>1. \A q \in Slots : request[q].token \in Nat
      BY DEF Known, Typed, Request
    <2>2. QED
      BY <1>1, <1>2, <2>1 DEF Known, Typed, Slotted, RequestHolds
  <1>7. QED
    BY <1>2, <1>3, <1>4, <1>5, <1>6 DEF Known, rows

\* A request, a period later.
Aged(r, waits) == [ r EXCEPT !.age = IF waits THEN @ + 1 ELSE @, !.left = Less(@) ]

LEMMA AgedTypes ==
  ASSUME NEW r \in Request, NEW waits \in BOOLEAN, waits => r.age < FetchTime
  PROVE  /\ Aged(r, waits) \in Request
         /\ Aged(r, waits).todo = r.todo /\ Aged(r, waits).via = r.via
         /\ Aged(r, waits).token = r.token /\ Aged(r, waits).key = r.key
         /\ Aged(r, waits).answer = r.answer /\ Aged(r, waits).read = r.read
         /\ Aged(r, waits).turn = r.turn
         /\ Aged(r, waits).age = (IF waits THEN r.age + 1 ELSE r.age)
         /\ Aged(r, waits).left = Less(r.left)
  <1> DEFINE age == IF waits THEN r.age + 1 ELSE r.age
             t == [ r EXCEPT !.age = age ]
  <1>1. age \in 0 .. FetchTime /\ Less(r.left) \in 0 .. Freshness
    BY Bounds DEF Request, Less
  <1> HIDE DEF age
  <1>2. t \in Request
    BY <1>1 DEF Request
  <1> DEFINE u == [ t EXCEPT !.left = Less(r.left) ]
  <1>3. u \in Request
    <2> HIDE DEF t
    <2>1. QED
      BY <1>1, <1>2 DEF Request
  <1>4. Aged(r, waits) = u
    BY DEF Aged, age
  <1>5. /\ u.todo = r.todo /\ u.via = r.via /\ u.token = r.token /\ u.key = r.key
        /\ u.answer = r.answer /\ u.read = r.read /\ u.age = age /\ u.left = Less(r.left)
        /\ u.turn = r.turn
    BY DEF Request
  <1>6. QED
    BY <1>3, <1>4, <1>5 DEF age

LEMMA RequestsAged ==
  ASSUME Typed, RequestsAge
  PROVE  /\ request' = [ q \in Slots |-> Aged(request[q], Does(q, "receive")) ]
         /\ \A q \in Slots :
              /\ Does(q, "receive") \in BOOLEAN /\ request[q] \in Request
              /\ Does(q, "receive") => request[q].age < FetchTime
  BY DEF Typed, RequestsAge, Aged, Does

LEMMA AgeKnown ==
  ASSUME Known, RequestsAge PROVE Known'
  <1>1. lost' \in 0 .. Longest /\ grant' \in 0 .. Freshness
    <2>1. lost \in 0 .. Longest /\ grant \in 0 .. Freshness /\ Longest \in Nat
      BY Bounds DEF Known, Longest
    <2>2. lost' = lost \/ (lost # Longest /\ lost' = lost + 1)
      BY DEF RequestsAge
    <2>3. grant' = Less(grant)
      BY DEF RequestsAge
    <2>4. lost' \in 0 .. Longest
      BY <2>1, <2>2
    <2>5. QED
      BY <2>1, <2>3, <2>4, Bounds DEF Less
  <1>2. Typed /\ Slotted /\ issued' = issued
    BY DEF Known, RequestsAge, tokens
  <1>3. \A q \in Slots : /\ request'[q] = Aged(request[q], Does(q, "receive"))
                         /\ request'[q] \in Request
                         /\ request'[q].todo = request[q].todo /\ request'[q].via = request[q].via
                         /\ request'[q].token = request[q].token
    BY <1>2, RequestsAged, AgedTypes
  <1>4. Typed' /\ Slotted'
    BY <1>2, <1>3, RequestsAged DEF Typed, Slotted, RequestHolds, ByBot
  <1>5. claimed' \in [ Keys -> 0 .. KeyTime ] /\ turn' \in [ Keys -> Nat ]
    <2>1. claimed \in [ Keys -> 0 .. KeyTime ] /\ turn \in [ Keys -> Nat ]
      BY DEF Known
    <2>2. /\ claimed' = [ key \in Keys |-> Less(claimed[key]) ]
          /\ turn' = [ key \in Keys |-> IF claimed[key] = 1 THEN turn[key] + 1 ELSE turn[key] ]
      BY DEF RequestsAge
    <2>3. \A n \in 0 .. KeyTime : Less(n) \in 0 .. KeyTime
      BY Bounds DEF Less
    <2>4. QED
      BY <2>1, <2>2, <2>3
  <1>6. QED
    BY <1>1, <1>4, <1>5 DEF Known, RequestsAge, tokens, rows

LEMMA KnownInit ==
  ASSUME InstallationInit, RequestsInit PROVE Known
  <1>1. limits \in Limits /\ limits.good \in BOOLEAN
    BY RequestsAssumption DEF InstallationInit
  <1>2. Typed /\ Slotted
    BY NoRequestTypes, LastStepsOrdered DEF RequestsInit, Typed, Slotted, RequestHolds, ByBot
  <1>3. credential \in [ token : 0 .. issued, good : BOOLEAN ]
    BY <1>1 DEF RequestsInit
  <1>4. QED
    BY <1>2, <1>3, Bounds DEF RequestsInit, Known, Longest, Versioned

===============================================================================
