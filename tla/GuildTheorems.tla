------------------------------ MODULE GuildTheorems ------------------------------
(***************************************************************************)
(* The invariants of GuildDashboard, proved for every number of requests,  *)
(* keys and refreshes, every lifetime and every scenario: what is shown as *)
(* online is recent, who is let in managed the guild recently, a form is   *)
(* stored once for every time its key was free, the audit log is a         *)
(* history, the refresh token survives, and there is one sale.             *)
(*                                                                         *)
(* GuildProofs has the invariants, and what a request is through every     *)
(* step.  Here is one part for each of them, the sales and the trail, with *)
(* a lemma for every kind of step, and at last the inductive invariant Inv. *)
(***************************************************************************)
EXTENDS GuildProofs

-------------------------------------------------------------------------------
(***************************************************************************)
(* SubmittedOnce: a key is claimed once in each of its turns, a turn that  *)
(* was claimed is over when the key is free again, and who has claimed it  *)
(* commits once.                                                           *)
(***************************************************************************)
LEMMA FewerStore ==
  ASSUME Known, KeysHold, UNCHANGED << claimed, turn, stored >>,
         \A p \in Slots : Stores(p)' => /\ Stores(p) /\ request'[p].key = request[p].key
                                        /\ request'[p].turn = request[p].turn
  PROVE  KeysHold'
  BY DEF KeysHold, Taken, SubmittedOnce

\* A key becomes free again only with another turn.
LEMMA KeysAge ==
  ASSUME Known, KeysHold, RequestsAge
  PROVE  KeysHold'
  <1>1. Typed /\ UNCHANGED stored
    BY DEF Known, RequestsAge, rows
  <1>2. \A q \in Slots : /\ request'[q].todo = request[q].todo /\ request'[q].via = request[q].via
                         /\ request'[q].key = request[q].key /\ request'[q].turn = request[q].turn
                         /\ request[q].key \in Keys /\ request[q].turn \in Nat
    BY <1>1, RequestsAged, AgedTypes DEF Request
  <1>3. \A q \in Slots : Stores(q)' <=> Stores(q)
    BY <1>2 DEF Stores
  <1>4. ASSUME NEW key \in Keys, NEW n \in Nat, Taken(key, n) PROVE Taken(key, n)'
    <2>1. claimed[key] \in 0 .. KeyTime /\ turn[key] \in Nat /\ KeyTime \in Nat
      BY Bounds DEF Known
    <2>2. /\ claimed'[key] = Less(claimed[key])
          /\ turn'[key] = IF claimed[key] = 1 THEN turn[key] + 1 ELSE turn[key]
      BY DEF RequestsAge
    <2>3. QED
      BY <1>4, <2>1, <2>2 DEF Taken, Less
  <1>5. \A key \in Keys : \A i \in DOMAIN stored[key] : stored[key][i] \in Nat
    BY DEF Known
  <1>6. QED
    BY <1>1, <1>2, <1>3, <1>4, <1>5 DEF KeysHold, SubmittedOnce

LEMMA MovesStore ==
  ASSUME Known, NEW q \in Slots, NEW step, Does(q, step), NEW r, Kin(q, r), Moves(q, r)
  PROVE  /\ \A p \in Slots : p # q => request'[p] = request[p]
         /\ Stores(q)' => /\ request'[q].key = request[q].key
                          /\ request'[q].via = request[q].via
                          /\ request[q].via \notin { "api", "bot" }
                          /\ Has(request[q].todo, "commit")
                          /\ Has(request[q].todo, "claim") => step = "claim"
                          /\ step # "commit"
                          /\ request'[q].turn = r.turn
                          /\ step # "claim" => r.turn = request[q].turn
  <1>1. /\ Typed /\ request[q].todo \in Seq(StepNames) /\ request[q].todo # << >>
        /\ request[q].todo[1] = step /\ r.todo = request[q].todo
        /\ r.via = request[q].via /\ r.key = request[q].key /\ r \in Request
        /\ (step # "claim" => r.turn = request[q].turn)
        /\ CommitsOnce(request[q].todo)
    BY StepsKnown, TailSteps DEF Known, Kin, Slotted, RequestHolds, Ordered, Does
  <1>2. \A p \in Slots : p # q => request'[p] = request[p]
    BY <1>1 DEF Moves, Typed
  <1>3. CASE request'[q] = NoRequest(FirstKey)
    BY <1>2, <1>3, NoRequestTypes DEF Stores
  <1>4. CASE request'[q] = [ r EXCEPT !.todo = Tail(r.todo) ]
    <2>1. /\ request'[q].todo = Tail(r.todo) /\ request'[q].via = r.via /\ request'[q].key = r.key
          /\ request'[q].turn = r.turn
      BY <1>1, <1>4 DEF Request
    <2>2. Has(Tail(r.todo), "commit") => Has(r.todo, "commit") /\ step # "commit"
      <3>1. ASSUME NEW i \in 1 .. Len(Tail(r.todo)), Tail(r.todo)[i] = "commit"
            PROVE  step # "commit"
        BY <1>1, <3>1, TailSteps DEF CommitsOnce
      <3>2. QED
        BY <1>1, <3>1, TailHas DEF Has
    <2>3. Has(r.todo, "claim") => step = "claim" \/ Has(Tail(r.todo), "claim")
      BY <1>1, TailHas
    <2>4. QED
      BY <1>1, <1>2, <2>1, <2>2, <2>3 DEF Stores
  <1>5. QED
    BY <1>3, <1>4 DEF Moves

LEMMA EndsStore ==
  ASSUME Known, NEW q \in Slots, Ends(q)
  PROVE  /\ \A p \in Slots : p # q => request'[p] = request[p]
         /\ ~ Stores(q)'
  BY NoRequestTypes DEF Known, Typed, Ends, Becomes, Stores

LEMMA KeysEnd ==
  ASSUME Known, KeysHold, UNCHANGED << claimed, turn, stored >>, NEW q \in Slots, Ends(q)
  PROVE  KeysHold'
  BY EndsStore, FewerStore DEF Stores

LEMMA KeysMove ==
  ASSUME Known, KeysHold, UNCHANGED << claimed, turn, stored >>, NEW q \in Slots, NEW step, step # "claim",
         Does(q, step), NEW r, Kin(q, r), Moves(q, r)
  PROVE  KeysHold'
  BY MovesStore, FewerStore DEF Stores

LEMMA KeysQuiet ==
  ASSUME Known, KeysHold, NEW q \in Slots, Quiet(q)
  PROVE  KeysHold'
  <1>1. UNCHANGED << claimed, turn, stored >> /\ Typed
    BY DEF Quiet, coreVars, rows, Known
  <1>2. CASE Ends(q)
    BY <1>1, <1>2, KeysEnd
  <1>3. CASE Moves(q, request[q]) /\ \E step \in StepNames \ Telling : Does(q, step)
    BY <1>1, <1>3, StepsKnown, KeysMove DEF Telling
  <1>4. QED
    BY <1>2, <1>3 DEF Quiet

LEMMA KeysClaim ==
  ASSUME Known, KeysHold, NEW q \in Slots, Claim(q)
  PROVE  KeysHold'
  <1> DEFINE r == Claiming(q)
  <1>0. PICK key \in Keys : key = request[q].key
    BY DEF Known, Typed, Request
  <1>1. /\ Typed /\ Does(q, "claim") /\ UNCHANGED << stored, turn >> /\ key \in Keys
        /\ turn[key] \in Nat
    BY <1>0 DEF Known, Typed, Request, Claim, rows
  <1>2. CASE Ends(q) /\ UNCHANGED claimed
    BY <1>1, <1>2, KeysEnd
  <1>3. CASE claimed[key] = 0 /\ claimed' = [ claimed EXCEPT ![key] = KeyTime ]
    <2>1. Kin(q, r) /\ Moves(q, r) /\ r.turn = turn[key]
      BY <1>0, ClaimMoves
    <2> HIDE DEF r
    <2>2. /\ \A p \in Slots : p # q => request'[p] = request[p]
          /\ Stores(q)' => request'[q].key = key /\ request'[q].turn = turn[key]
      BY <1>0, <1>1, <2>1, MovesStore
    <2>3. \A p \in Slots : p # q => (Stores(p)' <=> Stores(p))
      BY <2>2 DEF Stores
    <2>4. \A other \in Keys, n \in Nat : Taken(other, n) => Taken(other, n)'
      <3>1. claimed \in [ Keys -> 0 .. KeyTime ]
        BY DEF Known
      <3>2. \A other \in Keys : claimed[other] > 0 => claimed'[other] = claimed[other]
        BY <1>1, <1>3, <3>1
      <3>3. QED
        BY <1>1, <3>2 DEF Taken
    <2>5. \A n \in Nat : Taken(key, n) => n # turn[key]
      BY <1>1, <1>3 DEF Taken
    <2>6. Taken(key, turn[key])'
      <3>1. claimed \in [ Keys -> 0 .. KeyTime ]
        BY DEF Known
      <3>2. claimed'[key] > 0 /\ turn'[key] = turn[key]
        BY <1>1, <1>3, <3>1, Bounds
      <3>3. QED
        BY <3>2 DEF Taken
    <2>7. /\ \A other \in Keys : \A i \in DOMAIN stored[other] : stored[other][i] \in Nat
          /\ \A p \in Slots : request[p].turn \in Nat /\ request[p].key \in Keys
      <3>1. stored \in [ Keys -> Seq(Nat) ]
        BY DEF Known
      <3>2. \A other \in Keys : \A i \in DOMAIN stored[other] : stored[other][i] \in Nat
        BY <3>1
      <3>3. \A p \in Slots : request[p].turn \in Nat /\ request[p].key \in Keys
        BY <1>1 DEF Typed, Request
      <3>4. QED
        BY <3>2, <3>3
    <2>8. \A other \in Keys : \A i \in DOMAIN stored[other] : Taken(other, stored[other][i])
      BY DEF KeysHold
    <2>9. \A i \in DOMAIN stored[key] : stored[key][i] # turn[key]
      BY <1>1, <2>5, <2>7, <2>8
    <2>10. \A p \in Slots : Stores(p) /\ request[p].key = key => request[p].turn # turn[key]
      BY <2>5, <2>7 DEF KeysHold
    <2>11. (\A other \in Keys : \A i \in DOMAIN stored[other] : Taken(other, stored[other][i]))'
      BY <1>1, <2>4, <2>7, <2>8
    <2>12. ASSUME NEW p \in Slots, Stores(p)'
           PROVE  /\ Taken(request[p].key, request[p].turn)'
                  /\ \A i \in DOMAIN stored'[request'[p].key] :
                       stored'[request'[p].key][i] # request'[p].turn
      <3>1. CASE p = q
        <4>1. request'[q].key = key /\ request'[q].turn = turn[key]
          BY <2>2, <2>12, <3>1
        <4>2. \A i \in DOMAIN stored'[key] : stored'[key][i] # turn[key]
          BY <1>1, <2>9
        <4>3. Taken(request[p].key, request[p].turn)'
          BY <1>1, <2>6, <3>1, <4>1 DEF Taken
        <4>4. QED
          BY <3>1, <4>1, <4>2, <4>3
      <3>2. CASE p # q
        <4>1. Stores(p) /\ request'[p] = request[p]
          BY <2>2, <2>3, <2>12, <3>2
        <4>2. QED
          BY <1>1, <2>4, <2>7, <4>1 DEF KeysHold, Taken
      <3>3. QED
        BY <3>1, <3>2
    <2>13. ASSUME NEW p \in Slots, NEW o \in Slots, Stores(p)', Stores(o)',
                  request'[p].key = request'[o].key, request'[p].turn = request'[o].turn
           PROVE  p = o
      BY <2>2, <2>3, <2>10, <2>13 DEF KeysHold
    <2>14. SubmittedOnce'
      BY <1>1 DEF KeysHold, SubmittedOnce
    <2>15. QED
      BY <2>11, <2>12, <2>13, <2>14 DEF KeysHold
  <1>4. QED
    BY <1>0, <1>2, <1>3, ClaimMoves

LEMMA KeysCommit ==
  ASSUME Known, KeysHold, NEW q \in Slots, Commit(q)
  PROVE  KeysHold'
  <1>1. Typed /\ Slotted /\ Does(q, "commit") /\ UNCHANGED << claimed, turn >>
        /\ Kin(q, request[q]) /\ Moves(q, request[q])
    BY CommitMoves, StepsKnown DEF Known, Commit, claims
  <1>2. CASE UNCHANGED stored
    BY <1>1, <1>2, KeysMove
  <1>3. CASE /\ request[q].via \notin { "api", "bot" }
             /\ stored' = [ stored EXCEPT ![request[q].key] =
                                Append(stored[request[q].key], request[q].turn) ]
    <2>1. Stores(q)
      <3>1. CommitsOnce(request[q].todo) /\ request[q].todo \in Seq(StepNames)
            /\ request[q].todo # << >> /\ request[q].todo[1] = "commit"
        BY <1>1, StepsKnown, TailSteps DEF Slotted, RequestHolds, Ordered
      <3>2. Has(request[q].todo, "commit") /\ ~ Has(request[q].todo, "claim")
        BY <3>1, TailSteps DEF Has, CommitsOnce
      <3>3. QED
        BY <1>3, <3>2 DEF Stores
    <2>2. /\ \A p \in Slots : p # q => request'[p] = request[p]
          /\ ~ Stores(q)'
      BY <1>1, MovesStore
    <2>3. \A p \in Slots : p # q => (Stores(p)' <=> Stores(p))
      BY <2>2 DEF Stores
    <2> DEFINE key == request[q].key
               n == request[q].turn
    <2>4. /\ key \in Keys /\ n \in Nat /\ Taken(key, n) /\ stored[key] \in Seq(Nat)
          /\ \A i \in DOMAIN stored[key] : stored[key][i] # n
      BY <1>1, <2>1 DEF KeysHold, Known, Typed, Request
    <2>5. /\ stored'[key] = Append(stored[key], n)
          /\ \A other \in Keys : other # key => stored'[other] = stored[other]
      <3>1. stored \in [ Keys -> Seq(Nat) ]
        BY DEF Known
      <3>2. QED
        BY <1>3, <2>4, <3>1
    <2>6. \A p \in Slots : Stores(p)' => /\ Stores(p) /\ p # q /\ request'[p] = request[p]
                                         /\ request[p].key \in Keys
                                         /\ ~ (request[p].key = key /\ request[p].turn = n)
      BY <1>1, <2>1, <2>2, <2>3 DEF KeysHold, Typed, Request
    <2>7. \A i \in DOMAIN stored'[key] : stored'[key][i] = n \/ i \in DOMAIN stored[key]
      BY <2>4, <2>5
    <2>8. \A i \in DOMAIN stored[key] : stored'[key][i] = stored[key][i]
      BY <2>4, <2>5
    <2>9. \A i \in DOMAIN stored'[key] : i \notin DOMAIN stored[key] => i = Len(stored[key]) + 1
      BY <2>4, <2>5
    <2>10. UNCHANGED << claimed, turn >>
      BY DEF Commit, claims
    <2> HIDE DEF key, n
    <2>11. SubmittedOnce'
      <3>1. \A i, j \in DOMAIN stored'[key] : i # j => stored'[key][i] # stored'[key][j]
        BY <2>4, <2>7, <2>8, <2>9 DEF KeysHold, SubmittedOnce
      <3>2. QED
        BY <2>5, <3>1 DEF KeysHold, SubmittedOnce
    <2>12. ASSUME NEW other \in Keys, NEW i \in DOMAIN stored'[other]
           PROVE  Taken(other, stored'[other][i])
      BY <2>4, <2>5, <2>7, <2>8 DEF KeysHold
    <2>13. ASSUME NEW p \in Slots, Stores(p)'
           PROVE  /\ Taken(request'[p].key, request'[p].turn)
                  /\ \A i \in DOMAIN stored'[request'[p].key] :
                       stored'[request'[p].key][i] # request'[p].turn
      <3>1. /\ Stores(p) /\ request'[p] = request[p] /\ request[p].key \in Keys
            /\ ~ (request[p].key = key /\ request[p].turn = n)
        BY <2>6, <2>13
      <3>2. \A i \in DOMAIN stored[request[p].key] : stored[request[p].key][i] # request[p].turn
        BY <3>1 DEF KeysHold
      <3>3. Taken(request[p].key, request[p].turn)
        BY <3>1 DEF KeysHold
      <3>4. QED
        BY <2>5, <2>7, <2>8, <3>1, <3>2, <3>3
    <2>14. ASSUME NEW p \in Slots, NEW o \in Slots, Stores(p)', Stores(o)',
                  request'[p].key = request'[o].key, request'[p].turn = request'[o].turn
           PROVE  p = o
      BY <2>6, <2>14 DEF KeysHold
    <2>15. QED
      BY <2>10, <2>11, <2>12, <2>13, <2>14 DEF KeysHold, Taken
  <1>4. QED
    BY <1>2, <1>3 DEF Commit, Committed, rows

LEMMA KeysRequest ==
  ASSUME Known, KeysHold, manages \in BOOLEAN, NEW q \in Slots,
         UNCHANGED << rights, sales, limits, mishaps >>,
         \/ Submit(q) \/ Claim(q) \/ RequireSession(q) \/ Authenticate(q) \/ RequireBillingAdmin(q)
         \/ Authorize(q) \/ RequireManageGuild(q)
         \/ LoadCredential(q) \/ Renew(q) \/ KeepCredential(q)
         \/ Fetch(q) \/ Receive(q) \/ Abort(q) \/ Sync(q) \/ Check(q)
         \/ LimitRefresh(q) \/ RequestRefresh(q) \/ RequireValidResources(q) \/ Enqueue(q)
         \/ Load(q) \/ Commit(q)
  PROVE  KeysHold'
  <1>1. Typed
    BY DEF Known
  <1> USE DEF rights, claims, rows
  <1>2. CASE Submit(q)
    <2>1. PICK s : Begins(q, s)
      BY <1>2, SubmitBegins
    <2>2. \A p \in Slots : p # q => request'[p] = request[p]
      BY <1>1, <2>1 DEF Begins, Typed
    <2>3. ~ Stores(q)'
      BY <1>1, <2>1 DEF Begins, Stores, Typed
    <2>4. QED
      BY <1>2, <2>2, <2>3, FewerStore DEF Submit, Stores
  <1>3. CASE \/ RequireSession(q) \/ Authenticate(q) \/ RequireBillingAdmin(q)
             \/ Authorize(q) \/ RequireManageGuild(q) \/ Check(q) \/ Abort(q)
             \/ LimitRefresh(q) \/ RequestRefresh(q) \/ RequireValidResources(q) \/ Enqueue(q)
    BY <1>1, <1>3, QuietRequests, KeysQuiet
  <1>4. CASE Claim(q)
    BY <1>4, KeysClaim
  <1>5. CASE LoadCredential(q)
    <2>1. Does(q, "token") /\ UNCHANGED << claimed, turn, stored >>
      BY <1>5 DEF LoadCredential
    <2>2. CASE Ends(q) \/ Proceeds(q, request[q])
      BY <1>1, <2>1, <2>2, StepsKnown, ProceedsMoves, KeysMove, KeysEnd
    <2>3. CASE Becomes(q, [ request[q] EXCEPT !.token = credential.token,
                               !.todo = << "renew", "keep" >> \o Tail(request[q].todo) ])
      <3>1. /\ request[q].todo \in Seq(StepNames) /\ request[q].todo # << >>
            /\ Head(request[q].todo) = "token" /\ request[q] \in Request
        BY <1>1, <2>1, StepsKnown
      <3>2. \A p \in Slots : p # q => request'[p] = request[p]
        BY <1>1, <2>3 DEF Becomes, Typed
      <3>3. /\ request'[q].todo = << "renew", "keep" >> \o Tail(request[q].todo)
            /\ request'[q].via = request[q].via /\ request'[q].key = request[q].key
            /\ request'[q].turn = request[q].turn
        BY <1>1, <2>3, <3>1 DEF Becomes, Typed, Request
      <3>4. Stores(q)' => Stores(q)
        <4>1. \A step \in { "claim", "commit" } :
                Has(<< "renew", "keep" >> \o Tail(request[q].todo), step) <=> Has(request[q].todo, step)
          BY <3>1, RenewHas
        <4>2. QED
          BY <3>3, <4>1 DEF Stores
      <3>5. QED
        BY <2>1, <3>2, <3>3, <3>4, FewerStore DEF Stores
    <2>4. QED
      BY <1>5, <2>2, <2>3 DEF LoadCredential
  <1>6. CASE Renew(q)
    <2>1. Does(q, "renew") /\ UNCHANGED << claimed, turn, stored >>
      BY <1>6 DEF Renew
    <2>2. QED
      BY <1>1, <1>6, <2>1, StepsKnown, RenewMoves, KeysMove, KeysEnd
  <1>7. CASE KeepCredential(q)
    BY <1>1, <1>7, KeepMoves, KeysMove DEF KeepCredential
  <1>8. CASE Fetch(q)
    BY <1>1, <1>8, FetchMoves, KeysMove DEF Fetch
  <1>9. CASE Receive(q)
    BY <1>1, <1>9, ReceiveMoves, KeysMove DEF Receive
  <1>10. CASE Sync(q)
    BY <1>1, <1>10, SyncMoves, KeysMove DEF Sync
  <1>11. CASE Load(q)
    BY <1>1, <1>11, LoadMoves, KeysMove DEF Load
  <1>12. CASE Commit(q)
    BY <1>12, KeysCommit
  <1>13. QED
    BY <1>2, <1>3, <1>4, <1>5, <1>6, <1>7, <1>8, <1>9, <1>10, <1>11, <1>12

LEMMA KeysPurchase ==
  ASSUME Known, KeysHold, sales \in Seq(Sale), NEW q \in Slots,
         UNCHANGED << rights, grant, tokens, claims, rows, limits, mishaps >>,
         \/ RequireBotInGuild(q) \/ ClaimCooldown(q) \/ AssertCheckoutAllowed(q)
         \/ CheckCapabilities(q) \/ EnsureConfiguredPlan(q) \/ LookUp(q)
         \/ Create(q) \/ Sell(q) \/ Record(q) \/ Undo(q)
         \/ Manage(q) \/ AddBlock(q) \/ RevokeBlock(q)
  PROVE  KeysHold'
  <1>1. Typed /\ UNCHANGED << claimed, turn, stored >>
    BY DEF Known, claims, rows
  <1>2. CASE \/ RequireBotInGuild(q) \/ ClaimCooldown(q) \/ AssertCheckoutAllowed(q)
             \/ CheckCapabilities(q) \/ EnsureConfiguredPlan(q) \/ LookUp(q)
             \/ Manage(q) \/ AddBlock(q) \/ RevokeBlock(q)
    BY <1>1, <1>2, QuietPurchases, KeysQuiet
  <1>3. CASE Create(q)
    BY <1>1, <1>3, CreateMoves, KeysMove, KeysEnd DEF Create
  <1>4. ASSUME NEW step \in { "record", "undo" }, LastStep(q, step) PROVE KeysHold'
    <2>1. /\ \A p \in Slots : p # q => request'[p] = request[p]
          /\ request'[q].todo = << step >>
      BY <1>1, <1>4 DEF LastStep, Typed, Request
    <2>2. ~ Stores(q)'
      BY <2>1, LastStepsOrdered DEF Stores
    <2>3. QED
      BY <1>1, <2>1, <2>2, FewerStore DEF Stores
  <1>5. CASE Ends(q)
    BY <1>1, <1>5, KeysEnd
  <1>6. CASE Sell(q) \/ Record(q) \/ Undo(q)
    BY <1>4, <1>5, <1>6 DEF Sell, Record, Undo, Becomes, LastStep
  <1>7. QED
    BY <1>2, <1>3, <1>6

-------------------------------------------------------------------------------
(***************************************************************************)
(* AccessIsRecent: how long ago the user managed the guild, and how long a *)
(* grant that says so still lives, are together no more than Longest.      *)
(***************************************************************************)
RightsOf(q) ==
  request[q].via # "bot" /\ request[q].answer =>
    /\ Does(q, "receive") => lost <= request[q].age
    /\ request[q].left > 0 => lost + request[q].left <= Longest

LEMMA RightsMove ==
  ASSUME Known, RightsHold, UNCHANGED << manages, lost >>, NEW q \in Slots,
         grant' > 0 => lost + grant' <= Longest,
         \A p \in Slots : p # q => request'[p] = request[p],
         RightsOf(q)'
  PROVE  RightsHold'
  <1>1. \A p \in Slots : p # q => RightsOf(p)'
    BY DEF RightsHold, RightsOf, Does
  <1>2. QED
    BY <1>1 DEF RightsHold, RightsOf

LEMMA RightsEnd ==
  ASSUME Known, RightsHold, UNCHANGED << manages, lost, grant >>, NEW q \in Slots, Ends(q)
  PROVE  RightsHold'
  <1>1. /\ \A p \in Slots : p # q => request'[p] = request[p]
        /\ request'[q] = NoRequest(FirstKey)
    BY DEF Known, Typed, Ends, Becomes
  <1>2. RightsOf(q)'
    BY <1>1, NoRequestTypes DEF RightsOf
  <1>3. QED
    BY <1>1, <1>2, RightsMove DEF RightsHold

\* Any step but a fetch and what follows: the request keeps its answer.
LEMMA RightsPass ==
  ASSUME Known, RightsHold, UNCHANGED << manages, lost, grant >>, NEW q \in Slots, NEW step,
         step # "fetch", Does(q, step), NEW r, Kin(q, r), Moves(q, r),
         r.answer = request[q].answer, r.left = request[q].left
  PROVE  RightsHold'
  <1>1. /\ Typed /\ Slotted /\ request[q].todo # << >> /\ Head(request[q].todo) = step
        /\ r.todo = request[q].todo /\ r.via = request[q].via /\ r \in Request
        /\ Ordered(r.todo)
    BY StepsKnown DEF Known, Kin, Slotted, RequestHolds
  <1>2. /\ \A p \in Slots : p # q => request'[p] = request[p]
        /\ ~ Does(q, "receive")'
    BY <1>1, MovesOn
  <1>3. CASE request'[q] = NoRequest(FirstKey)
    BY <1>1, <1>3, RightsEnd DEF Moves, Ends, Becomes
  <1>4. CASE request'[q] = [ r EXCEPT !.todo = Tail(r.todo) ]
    <2>1. /\ request'[q].via = request[q].via /\ request'[q].answer = request[q].answer
          /\ request'[q].left = request[q].left
      BY <1>1, <1>4 DEF Request
    <2>2. RightsOf(q)'
      BY <1>2, <2>1 DEF RightsHold, RightsOf
    <2>3. QED
      BY <1>2, <2>2, RightsMove DEF RightsHold
  <1>5. QED
    BY <1>3, <1>4 DEF Moves

LEMMA RightsQuiet ==
  ASSUME Known, RightsHold, NEW q \in Slots, Quiet(q)
  PROVE  RightsHold'
  <1>1. UNCHANGED << manages, lost, grant >> /\ Typed
    BY DEF Quiet, coreVars, rights, Known
  <1>2. CASE Ends(q)
    BY <1>1, <1>2, RightsEnd
  <1>3. CASE Moves(q, request[q]) /\ \E step \in StepNames \ Telling : Does(q, step)
    BY <1>1, <1>3, StepsKnown, RightsPass DEF Telling
  <1>4. QED
    BY <1>2, <1>3 DEF Quiet

LEMMA NotOfBot ==
  ASSUME Known, NEW q \in Slots, Does(q, "receive") \/ Does(q, "sync")
  PROVE  request[q].via # "bot"
  <1>1. RequestHolds(q) /\ Typed
    BY DEF Known, Slotted
  <1>2. Has(request[q].todo, "receive") \/ Has(request[q].todo, "sync")
    BY <1>1, StepsKnown, TailSteps DEF Has
  <1>3. QED
    BY <1>1, <1>2 DEF RequestHolds, ByBot, Discordant

LEMMA RightsFetch ==
  ASSUME Known, RightsHold, manages \in BOOLEAN, UNCHANGED rights, NEW q \in Slots, Fetch(q)
  PROVE  RightsHold'
  <1> DEFINE r == [ request[q] EXCEPT !.answer = manages ]
  <1>1. Typed /\ Does(q, "fetch") /\ UNCHANGED << manages, lost, grant >> /\ request[q] \in Request
    BY StepsKnown DEF Known, Fetch, rights
  <1>2. Kin(q, r) /\ Moves(q, r)
    BY <1>1, FetchMoves
  <1>3. \A p \in Slots : p # q => request'[p] = request[p]
    BY <1>1, <1>2 DEF Moves, Typed
  <1>4. CASE request'[q] = NoRequest(FirstKey)
    BY <1>1, <1>2, <1>4, RightsEnd DEF Moves, Ends, Becomes
  <1>5. CASE request'[q] = [ r EXCEPT !.todo = Tail(r.todo) ]
    <2>1. /\ request'[q].answer = manages /\ request'[q].left \in 0 .. Freshness
          /\ request'[q].age \in 0 .. FetchTime
      BY <1>1, <1>5 DEF Request
    <2>2. manages => lost = 0
      BY DEF RightsHold
    <2>3. RightsOf(q)'
      BY <1>1, <2>1, <2>2, Bounds DEF RightsOf, Longest
    <2>4. QED
      BY <1>1, <1>3, <2>3, RightsMove DEF RightsHold
  <1>6. QED
    BY <1>2, <1>4, <1>5 DEF Moves

LEMMA RightsReceive ==
  ASSUME Known, RightsHold, UNCHANGED rights, NEW q \in Slots, Receive(q)
  PROVE  RightsHold'
  <1> DEFINE r == [ request[q] EXCEPT !.age = 0, !.left = Freshness ]
  <1>1. Typed /\ Slotted /\ Does(q, "receive") /\ UNCHANGED << manages, lost, grant >>
        /\ request[q] \in Request /\ request[q].todo # << >> /\ Head(request[q].todo) = "receive"
    BY StepsKnown DEF Known, Receive, rights
  <1>2. Kin(q, r) /\ Moves(q, r) /\ r.todo = request[q].todo /\ Ordered(r.todo)
    BY <1>1, ReceiveMoves DEF Slotted, RequestHolds, Kin
  <1>3. /\ \A p \in Slots : p # q => request'[p] = request[p]
        /\ ~ Does(q, "receive")'
    <2> HIDE DEF r
    <2>1. QED
      BY <1>1, <1>2, MovesOn
  <1>4. CASE request'[q] = NoRequest(FirstKey)
    BY <1>1, <1>2, <1>4, RightsEnd DEF Moves, Ends, Becomes
  <1>5. CASE request'[q] = [ r EXCEPT !.todo = Tail(r.todo) ]
    <2>1. /\ request'[q].answer = request[q].answer /\ request'[q].left = Freshness
      BY <1>1, <1>5 DEF Request
    <2>2. request[q].answer => lost <= request[q].age
      BY <1>1, NotOfBot DEF RightsHold
    <2>3. request[q].age \in 0 .. FetchTime /\ lost \in Nat
      BY <1>1, Bounds DEF Request, Known, Longest
    <2>4. RightsOf(q)'
      BY <1>1, <1>3, <2>1, <2>2, <2>3, Bounds DEF RightsOf, Longest
    <2>5. QED
      BY <1>1, <1>3, <2>4, RightsMove DEF RightsHold
  <1>6. QED
    BY <1>2, <1>4, <1>5 DEF Moves

LEMMA RightsSync ==
  ASSUME Known, RightsHold, UNCHANGED rights, NEW q \in Slots, Sync(q)
  PROVE  RightsHold'
  <1> DEFINE r == [ request[q] EXCEPT !.answer = FALSE, !.left = 0 ]
  <1>1. Typed /\ Slotted /\ Does(q, "sync") /\ UNCHANGED << manages, lost >>
        /\ request[q] \in Request
        /\ grant' = (IF request[q].answer THEN request[q].left ELSE 0)
    BY StepsKnown DEF Known, Sync, rights
  <1>2. Kin(q, r) /\ Moves(q, r)
    BY <1>1, SyncMoves
  <1>3. \A p \in Slots : p # q => request'[p] = request[p]
    BY <1>1, <1>2 DEF Moves, Typed
  <1>4. grant' > 0 => lost + grant' <= Longest
    BY <1>1, NotOfBot DEF RightsHold
  <1>5. request'[q].answer = FALSE
    <2>1. r.answer = FALSE
      BY <1>1 DEF Request
    <2>2. [ r EXCEPT !.todo = Tail(r.todo) ].answer = FALSE
      BY <1>1 DEF Request
    <2>3. QED
      BY <1>2, <2>2, NoRequestTypes DEF Moves
  <1>6. QED
    BY <1>1, <1>3, <1>4, <1>5, RightsMove DEF RightsOf

LEMMA RightsRequest ==
  ASSUME Known, RightsHold, manages \in BOOLEAN, NEW q \in Slots,
         UNCHANGED << rights, sales, limits, mishaps >>,
         \/ Submit(q) \/ Claim(q) \/ RequireSession(q) \/ Authenticate(q) \/ RequireBillingAdmin(q)
         \/ Authorize(q) \/ RequireManageGuild(q)
         \/ LoadCredential(q) \/ Renew(q) \/ KeepCredential(q)
         \/ Fetch(q) \/ Receive(q) \/ Abort(q) \/ Sync(q) \/ Check(q)
         \/ LimitRefresh(q) \/ RequestRefresh(q) \/ RequireValidResources(q) \/ Enqueue(q)
         \/ Load(q) \/ Commit(q)
  PROVE  RightsHold'
  <1>1. Typed /\ UNCHANGED << manages, lost >> /\ request[q] \in Request
    BY DEF Known, rights, Typed
  <1>2. CASE Submit(q)
    <2>1. PICK s : Begins(q, s)
      BY <1>2, SubmitBegins
    <2>2. \A p \in Slots : p # q => request'[p] = request[p]
      BY <1>1, <2>1 DEF Begins, Typed
    <2>3. RightsOf(q)'
      BY <1>1, <2>1 DEF Begins, RightsOf, Typed
    <2>4. QED
      BY <1>1, <1>2, <2>2, <2>3, RightsMove DEF Submit, RightsHold
  <1>3. CASE \/ RequireSession(q) \/ Authenticate(q) \/ RequireBillingAdmin(q)
             \/ Authorize(q) \/ RequireManageGuild(q) \/ Check(q) \/ Abort(q)
             \/ LimitRefresh(q) \/ RequestRefresh(q) \/ RequireValidResources(q) \/ Enqueue(q)
    BY <1>1, <1>3, QuietRequests, RightsQuiet
  <1>4. CASE Claim(q)
    BY <1>1, <1>4, ClaimMoves, RightsPass DEF Claim
  <1>5. CASE LoadCredential(q)
    <2>1. Does(q, "token") /\ UNCHANGED grant
      BY <1>5 DEF LoadCredential
    <2>2. CASE Ends(q)
      BY <1>1, <2>1, <2>2, RightsEnd
    <2>3. CASE Proceeds(q, request[q])
      BY <1>1, <2>1, <2>3, StepsKnown, ProceedsMoves, RightsPass
    <2>4. CASE Becomes(q, [ request[q] EXCEPT !.token = credential.token,
                               !.todo = << "renew", "keep" >> \o Tail(request[q].todo) ])
      <3>1. \A p \in Slots : p # q => request'[p] = request[p]
        BY <1>1, <2>4 DEF Becomes, Typed
      <3>2. /\ request'[q].todo = << "renew", "keep" >> \o Tail(request[q].todo)
            /\ request'[q].via = request[q].via /\ request'[q].answer = request[q].answer
            /\ request'[q].left = request[q].left
        BY <1>1, <2>4 DEF Becomes, Typed, Request
      <3>3. Head(request'[q].todo) = "renew"
        BY <1>1, <2>1, <3>2, StepsKnown, RenewOrdered DEF Known, Slotted, RequestHolds
      <3>4. RightsOf(q)'
        BY <1>1, <3>2, <3>3 DEF RightsOf, RightsHold, Does
      <3>5. QED
        BY <1>1, <2>1, <3>1, <3>4, RightsMove DEF RightsHold
    <2>5. QED
      BY <1>5, <2>2, <2>3, <2>4 DEF LoadCredential
  <1>6. CASE Renew(q)
    <2>1. Does(q, "renew") /\ UNCHANGED grant
      BY <1>6 DEF Renew
    <2> DEFINE r == [ request[q] EXCEPT !.token = issued' ]
    <2>2. r.answer = request[q].answer /\ r.left = request[q].left
      BY <1>1 DEF Request
    <2>3. Ends(q) \/ Moves(q, request[q]) \/ (Kin(q, r) /\ Moves(q, r))
      BY <1>6, RenewMoves
    <2> HIDE DEF r
    <2>4. QED
      BY <1>1, <2>1, <2>2, <2>3, StepsKnown, RightsPass, RightsEnd
  <1>7. CASE KeepCredential(q)
    <2> DEFINE r == [ request[q] EXCEPT !.token = 0 ]
    <2>1. Does(q, "keep") /\ UNCHANGED grant
      BY <1>7 DEF KeepCredential
    <2>2. r.answer = request[q].answer /\ r.left = request[q].left
      BY <1>1 DEF Request
    <2>3. Kin(q, r) /\ Moves(q, r)
      BY <1>1, <1>7, KeepMoves
    <2> HIDE DEF r
    <2>4. QED
      BY <1>1, <2>1, <2>2, <2>3, RightsPass
  <1>8. CASE Fetch(q)
    BY <1>8, RightsFetch
  <1>9. CASE Receive(q)
    BY <1>9, RightsReceive
  <1>10. CASE Sync(q)
    BY <1>10, RightsSync
  <1>11. CASE Load(q)
    <2>1. PICK read \in Nat : LET r == [ request[q] EXCEPT !.read = read ]
                              IN  Kin(q, r) /\ Moves(q, r)
      BY <1>11, LoadMoves
    <2> DEFINE r == [ request[q] EXCEPT !.read = read ]
    <2>2. Kin(q, r) /\ Moves(q, r) /\ r.answer = request[q].answer /\ r.left = request[q].left
      BY <1>1, <2>1 DEF Request
    <2> HIDE DEF r
    <2>3. QED
      BY <1>1, <1>11, <2>2, RightsPass DEF Load
  <1>12. CASE Commit(q)
    BY <1>1, <1>12, CommitMoves, StepsKnown, RightsPass DEF Commit
  <1>13. QED
    BY <1>2, <1>3, <1>4, <1>5, <1>6, <1>7, <1>8, <1>9, <1>10, <1>11, <1>12

LEMMA RightsPurchase ==
  ASSUME Known, RightsHold, sales \in Seq(Sale), NEW q \in Slots,
         UNCHANGED << rights, grant, tokens, claims, rows, limits, mishaps >>,
         \/ RequireBotInGuild(q) \/ ClaimCooldown(q) \/ AssertCheckoutAllowed(q)
         \/ CheckCapabilities(q) \/ EnsureConfiguredPlan(q) \/ LookUp(q)
         \/ Create(q) \/ Sell(q) \/ Record(q) \/ Undo(q)
         \/ Manage(q) \/ AddBlock(q) \/ RevokeBlock(q)
  PROVE  RightsHold'
  <1>1. Typed /\ UNCHANGED << manages, lost, grant >> /\ request[q] \in Request
    BY DEF Known, rights, Typed
  <1>2. CASE \/ RequireBotInGuild(q) \/ ClaimCooldown(q) \/ AssertCheckoutAllowed(q)
             \/ CheckCapabilities(q) \/ EnsureConfiguredPlan(q) \/ LookUp(q)
             \/ Manage(q) \/ AddBlock(q) \/ RevokeBlock(q)
    BY <1>1, <1>2, QuietPurchases, RightsQuiet
  <1>3. CASE Ends(q)
    BY <1>1, <1>3, RightsEnd
  <1>4. CASE Create(q) /\ ~ Ends(q)
    <2> DEFINE r == [ request[q] EXCEPT !.read = Len(sales) + 1 ]
    <2>1. Kin(q, r) /\ Moves(q, r) /\ r.answer = request[q].answer /\ r.left = request[q].left
      BY <1>1, <1>4, CreateMoves DEF Request
    <2> HIDE DEF r
    <2>2. QED
      BY <1>1, <1>4, <2>1, RightsPass DEF Create
  <1>5. ASSUME NEW step \in { "record", "undo" }, LastStep(q, step) PROVE RightsHold'
    <2>1. /\ \A p \in Slots : p # q => request'[p] = request[p]
          /\ request'[q].todo = << step >> /\ request'[q].via = request[q].via
          /\ request'[q].answer = request[q].answer /\ request'[q].left = request[q].left
      BY <1>1, <1>5 DEF LastStep, Typed, Request
    <2>2. ~ Does(q, "receive")'
      BY <2>1 DEF Does
    <2>3. RightsOf(q)'
      BY <1>1, <2>1, <2>2 DEF RightsHold, RightsOf
    <2>4. QED
      BY <1>1, <2>1, <2>3, RightsMove DEF RightsHold
  <1>6. CASE Sell(q) \/ Record(q) \/ Undo(q)
    BY <1>3, <1>5, <1>6 DEF Sell, Record, Undo, Becomes, LastStep
  <1>7. QED
    BY <1>2, <1>3, <1>4, <1>6

LEMMA RightsUser ==
  ASSUME Known, RightsHold, manages \in BOOLEAN, UserStep
  PROVE  RightsHold'
  <1>1. UNCHANGED << request, grant >>
    BY DEF UserStep
  <1>2. lost \in Nat /\ lost' \in { 0, lost } /\ (manages' => lost' = 0)
    <2>1. CASE ChangeRights
      BY <2>1, Bounds DEF ChangeRights, RightsHold, Known, Longest
    <2>2. CASE UNCHANGED rights
      BY <2>2, Bounds DEF rights, RightsHold, Known, Longest
    <2>3. QED
      BY <2>1, <2>2 DEF UserStep, RevokeAll, SignIn, AccessExpires
  <1>3. grant \in 0 .. Freshness /\ Longest \in Nat
    BY Bounds DEF Known, Longest
  <1>4. \A q \in Slots : request[q].age \in 0 .. FetchTime /\ request[q].left \in 0 .. Freshness
    BY DEF Known, Typed, Request
  <1>5. grant' > 0 => lost' + grant' <= Longest
    <2>1. grant > 0 => lost + grant <= Longest
      BY DEF RightsHold
    <2>2. /\ lost' = 0 \/ lost' = lost
          /\ grant' = grant
      BY <1>1, <1>2
    <2>3. lost \in Nat /\ grant \in Nat /\ Longest \in Nat
      BY <1>2, <1>3, Bounds
    <2>4. QED
      BY <2>1, <2>2, <2>3
  <1>6. \A q \in Slots : RightsOf(q)'
    BY <1>1, <1>2, <1>3, <1>4, Bounds DEF RightsHold, RightsOf, Does
  <1>7. QED
    BY <1>2, <1>5, <1>6 DEF RightsHold, RightsOf

LEMMA RightsAge ==
  ASSUME Known, RightsHold, manages \in BOOLEAN, RequestsAge
  PROVE  RightsHold'
  <1>1. Typed /\ lost \in Nat /\ grant \in 0 .. Freshness /\ Longest \in Nat /\ lost <= Longest
    BY Bounds DEF Known, Longest
  <1>2. /\ lost' \in { lost, lost + 1 } /\ (manages' => lost' = 0)
        /\ grant' = Less(grant)
    BY DEF RequestsAge, RightsHold
  <1>3. grant' > 0 => lost' + grant' <= Longest
    <2>1. grant > 0 => lost + grant <= Longest
      BY DEF RightsHold
    <2>2. CASE grant = 0
      BY <1>2, <2>2 DEF Less
    <2>3. CASE grant > 0
      <3>1. grant' = grant - 1
        BY <1>1, <1>2, <2>3 DEF Less
      <3>2. lost' = lost \/ lost' = lost + 1
        BY <1>2
      <3>3. lost \in Nat /\ grant \in Nat /\ Longest \in Nat
        BY <1>1, Bounds
      <3>4. QED
        BY <2>1, <2>3, <3>1, <3>2, <3>3
    <2>4. QED
      BY <1>1, <2>2, <2>3, Bounds
  <1>4. ASSUME NEW q \in Slots PROVE RightsOf(q)'
    <2> DEFINE waits == Does(q, "receive")
    <2>1. /\ request[q].age \in 0 .. FetchTime /\ request[q].left \in 0 .. Freshness
      BY <1>1 DEF Typed, Request
    <2>2. /\ request'[q] = Aged(request[q], waits) /\ waits \in BOOLEAN
          /\ request[q] \in Request /\ (waits => request[q].age < FetchTime)
      BY <1>1, RequestsAged
    <2> HIDE DEF waits
    <2>3. /\ request'[q].todo = request[q].todo /\ request'[q].via = request[q].via
          /\ request'[q].answer = request[q].answer
          /\ request'[q].age = (IF waits THEN request[q].age + 1 ELSE request[q].age)
          /\ request'[q].left = Less(request[q].left)
      BY <2>2, AgedTypes
    <2>4. Does(q, "receive")' <=> waits
      BY <2>3 DEF Does, waits
    <2>5. CASE request[q].via # "bot" /\ request[q].answer
      <3>1. /\ waits => lost <= request[q].age
            /\ request[q].left > 0 => lost + request[q].left <= Longest
        BY <2>5 DEF RightsHold, waits
      <3>2. Does(q, "receive")' => lost' <= request'[q].age
        BY <1>1, <1>2, <2>1, <2>3, <2>4, <3>1, Bounds
      <3>3. request'[q].left > 0 => lost' + request'[q].left <= Longest
        <4>1. CASE request[q].left = 0
          BY <2>3, <4>1 DEF Less
        <4>2. CASE request[q].left > 0
          <5>1. request'[q].left = request[q].left - 1
            BY <2>1, <2>3, <4>2 DEF Less
          <5>2. QED
            BY <1>1, <1>2, <2>1, <3>1, <4>2, <5>1, Bounds
        <4>3. QED
          BY <2>1, <4>1, <4>2, Bounds
      <3>4. QED
        BY <3>2, <3>3 DEF RightsOf
    <2>6. QED
      BY <2>3, <2>5 DEF RightsOf
  <1>5. QED
    BY <1>2, <1>3, <1>4 DEF RightsHold, RightsOf

LEMMA RightsBotEnd ==
  ASSUME Known, RightsHold, EndWithBot
  PROVE  RightsHold'
  BY NoRequestTypes DEF EndWithBot, RightsHold, rights, Does, Known, Typed

LEMMA RightsRecent == Known /\ RightsHold => AccessIsRecent
  BY Bounds DEF Known, RightsHold, AccessIsRecent, Allowed, Longest

-------------------------------------------------------------------------------
(***************************************************************************)
(* CredentialSurvives.                                                     *)
(***************************************************************************)
Keeps(q) == Does(q, "keep")

KeeperHolds(q) ==
  Keeps(q) =>
    /\ request[q].token \in usable
    /\ limits.rotation = "rotates" =>
         /\ credential.token # request[q].token
         /\ \A p \in Slots \ { q } : request[p].token # request[q].token

LEMMA TokensStay ==
  ASSUME Known, TokensHold, UNCHANGED << limits, usable >>,
         credential'.token \in { 0, credential.token }, mishaps \in Nat, mishaps' \in Nat, mishaps <= mishaps',
         \A q \in Slots : request'[q].token \in { 0, request[q].token },
         \A q \in Slots : Keeps(q)' => Keeps(q) /\ request'[q].token = request[q].token,
         \A q \in Slots : Keeps(q) => Keeps(q)' \/ mishaps' # 0
  PROVE  TokensHold'
  <1>1. usable \subseteq 1 .. issued /\ issued \in Nat
    BY DEF Known, Typed
  <1>2. \A q \in Slots : KeeperHolds(q)
    BY DEF TokensHold, KeeperHolds, Keeps
  <1>3. \A q \in Slots : KeeperHolds(q)'
    BY <1>1, <1>2 DEF KeeperHolds
  <1>4. CredentialSurvives'
    BY DEF TokensHold, CredentialSurvives, Keeps
  <1>5. QED
    BY <1>3, <1>4 DEF TokensHold, KeeperHolds, Keeps

LEMMA TokensEnd ==
  ASSUME Known, TokensHold, UNCHANGED << limits, credential, usable >>,
         mishaps \in Nat, mishaps' \in Nat, mishaps <= mishaps',
         NEW q \in Slots, Ends(q), ~ Keeps(q) \/ mishaps' # 0
  PROVE  TokensHold'
  <1>1. /\ \A p \in Slots : p # q => request'[p] = request[p]
        /\ request'[q].token = 0 /\ request'[q].todo = << >>
    BY NoRequestTypes DEF Known, Typed, Ends, Becomes
  <1>2. ~ Keeps(q)'
    BY <1>1 DEF Keeps, Does
  <1>3. \A p \in Slots : p # q => (Keeps(p)' <=> Keeps(p))
    BY <1>1 DEF Keeps, Does
  <1>4. QED
    BY <1>1, <1>2, <1>3, TokensStay

LEMMA TokensPass ==
  ASSUME Known, TokensHold, UNCHANGED << limits, credential, usable, mishaps >>, mishaps \in Nat,
         NEW q \in Slots, NEW step, step \notin { "renew", "keep" }, Does(q, step),
         NEW r, Kin(q, r), Moves(q, r), r.token = request[q].token
  PROVE  TokensHold'
  <1>1. /\ Typed /\ Slotted /\ request[q].todo # << >> /\ Head(request[q].todo) = step
        /\ r.todo = request[q].todo /\ r \in Request /\ Ordered(r.todo)
    BY StepsKnown DEF Known, Kin, Slotted, RequestHolds
  <1>2. /\ \A p \in Slots : p # q => request'[p] = request[p]
        /\ \A p \in Slots : p # q => (Keeps(p)' <=> Keeps(p))
        /\ ~ Keeps(q)'
    BY <1>1, MovesOn DEF Keeps
  <1>3. request'[q].token \in { 0, request[q].token }
    <2>1. [ r EXCEPT !.todo = Tail(r.todo) ].token = r.token
      BY <1>1 DEF Request
    <2>2. QED
      BY <2>1, NoRequestTypes DEF Moves
  <1>4. ~ Keeps(q)
    BY <1>1 DEF Keeps, Does
  <1>5. QED
    BY <1>2, <1>3, <1>4, TokensStay

LEMMA TokensQuiet ==
  ASSUME Known, TokensHold, mishaps \in Nat, NEW q \in Slots, Quiet(q)
  PROVE  TokensHold'
  <1>1. UNCHANGED << limits, credential, usable, mishaps >> /\ Typed
    BY DEF Quiet, coreVars, Known
  <1>2. CASE Ends(q) /\ ~ Keeps(q)
    BY <1>1, <1>2, TokensEnd
  <1>3. CASE Moves(q, request[q]) /\ \E step \in StepNames \ Telling : Does(q, step)
    BY <1>1, <1>3, StepsKnown, TokensPass DEF Telling
  <1>4. QED
    BY <1>2, <1>3 DEF Quiet, Keeps

LEMMA TokensLoaded ==
  ASSUME Known, TokensHold, UNCHANGED << limits, credential, usable, mishaps >>,
         NEW q \in Slots, Does(q, "token"),
         Becomes(q, [ request[q] EXCEPT !.token = credential.token,
                                        !.todo = << "renew", "keep" >> \o Tail(request[q].todo) ])
  PROVE  TokensHold'
  <1>1. Typed /\ request[q] \in Request
    BY DEF Known, Typed
  <1>2. /\ \A p \in Slots : p # q => request'[p] = request[p]
        /\ request'[q].todo = << "renew", "keep" >> \o Tail(request[q].todo)
        /\ request'[q].token = credential.token
    BY <1>1 DEF Becomes, Typed, Request
  <1>3. Head(request'[q].todo) = "renew"
    BY <1>1, <1>2, StepsKnown, RenewOrdered DEF Known, Slotted, RequestHolds
  <1>4. /\ ~ Keeps(q)' /\ ~ Keeps(q)
        /\ \A p \in Slots : p # q => (Keeps(p)' <=> Keeps(p))
    BY <1>2, <1>3 DEF Keeps, Does
  <1>5. ASSUME NEW p \in Slots PROVE KeeperHolds(p)'
    <2>1. KeeperHolds(p)
      BY DEF TokensHold, KeeperHolds, Keeps
    <2>2. QED
      BY <1>2, <1>4, <2>1 DEF KeeperHolds
  <1>6. CredentialSurvives'
    BY <1>4 DEF TokensHold, CredentialSurvives, Keeps
  <1>7. QED
    BY <1>5, <1>6 DEF TokensHold, KeeperHolds, Keeps

\* A renewed token is kept next.
LEMMA RenewGoesOn ==
  ASSUME Known, NEW q \in Slots, Renew(q), ~ UNCHANGED usable
  PROVE  ~ Ends(q)
  <1> SUFFICES ASSUME Ends(q) PROVE FALSE
    OBVIOUS
  <1>1. /\ Typed /\ request[q] \in Request /\ request[q].todo \in Seq(StepNames)
        /\ request[q].todo # << >> /\ Head(request[q].todo) = "renew" /\ Ordered(request[q].todo)
    BY StepsKnown DEF Known, Renew, Slotted, RequestHolds
  <1>2. Len(request[q].todo) # 1
    BY <1>1, TailSteps DEF Ordered
  <1>3. request'[q].todo = << >>
    BY <1>1, NoRequestTypes DEF Ends, Becomes, Typed
  <1>4. PICK token : Proceeds(q, [ request[q] EXCEPT !.token = token ])
    BY DEF Renew
  <1>5. [ request[q] EXCEPT !.token = token ].todo = request[q].todo
    BY <1>1 DEF Request
  <1>6. request'[q].todo = Tail(request[q].todo)
    BY <1>1, <1>2, <1>4, <1>5 DEF Proceeds, Becomes, Typed, Request
  <1>7. QED
    BY <1>1, <1>2, <1>3, <1>6, TailEnds

LEMMA TokensRenew ==
  ASSUME Known, TokensHold, UNCHANGED << limits, credential, mishaps >>, mishaps \in Nat,
         NEW q \in Slots, Renew(q)
  PROVE  TokensHold'
  <1>1. /\ Typed /\ Slotted /\ Does(q, "renew") /\ request[q] \in Request /\ issued \in Nat
        /\ request[q].todo # << >> /\ Head(request[q].todo) = "renew" /\ Ordered(request[q].todo)
    BY StepsKnown DEF Known, Typed, Renew, Slotted, RequestHolds
  <1>2. ~ Keeps(q)
    BY <1>1 DEF Keeps, Does
  <1>3. CASE Ends(q) /\ UNCHANGED usable
    BY <1>2, <1>3, TokensEnd
  <1>4. ASSUME NEW r, Moves(q, r), Kin(q, r), ~ Ends(q)
        PROVE  /\ \A p \in Slots : p # q => request'[p] = request[p] /\ (Keeps(p)' <=> Keeps(p))
               /\ Keeps(q)' /\ request'[q].token = r.token
    <2>1. /\ r.todo = request[q].todo /\ r \in Request /\ Tail(r.todo) # << >>
          /\ request'[q] = [ r EXCEPT !.todo = Tail(r.todo) ]
      BY <1>1, <1>4 DEF Moves, Kin, Ends, Becomes
    <2>2. request'[q].todo = Tail(r.todo) /\ request'[q].token = r.token
      BY <2>1 DEF Request
    <2>3. Head(Tail(r.todo)) = "keep"
      BY <1>1, <2>1, NextFollows
    <2>4. \A p \in Slots : p # q => request'[p] = request[p]
      BY <1>1, <1>4 DEF Moves, Typed
    <2>5. QED
      BY <2>1, <2>2, <2>3, <2>4 DEF Keeps, Does
  <1>5. CASE /\ request[q].token \in usable /\ limits.rotation = "keeps"
             /\ Moves(q, request[q]) /\ ~ Ends(q) /\ UNCHANGED << issued, usable >>
    <2>1. Kin(q, request[q])
      BY <1>1, StepsKnown
    <2>2. /\ \A p \in Slots : p # q => request'[p] = request[p] /\ (Keeps(p)' <=> Keeps(p))
          /\ Keeps(q)' /\ request'[q].token = request[q].token
      BY <1>4, <1>5, <2>1
    <2>3. ASSUME NEW p \in Slots PROVE KeeperHolds(p)'
      <3>1. KeeperHolds(p)
        BY DEF TokensHold, KeeperHolds, Keeps
      <3>2. limits'.rotation # "rotates"
        BY <1>5
      <3>3. QED
        BY <1>5, <2>2, <3>1, <3>2 DEF KeeperHolds
    <2>4. CredentialSurvives'
      BY <2>2 DEF CredentialSurvives, Keeps
    <2>5. QED
      BY <2>3, <2>4 DEF TokensHold, KeeperHolds, Keeps
  <1>6. CASE /\ request[q].token \in usable
             /\ issued' = issued + 1
             /\ usable' = (IF limits.rotation = "rotates" THEN usable \ { request[q].token } ELSE usable)
                            \cup { issued' }
             /\ Kin(q, [ request[q] EXCEPT !.token = issued' ])
             /\ Moves(q, [ request[q] EXCEPT !.token = issued' ])
             /\ ~ Ends(q)
    <2> DEFINE r == [ request[q] EXCEPT !.token = issued' ]
    <2>1. r.token = issued' /\ Kin(q, r) /\ Moves(q, r)
      BY <1>1, <1>6 DEF Request
    <2> HIDE DEF r
    <2>2. /\ \A p \in Slots : p # q => request'[p] = request[p] /\ (Keeps(p)' <=> Keeps(p))
          /\ Keeps(q)' /\ request'[q].token = issued'
      BY <1>4, <1>6, <2>1
    <2>3. /\ credential.token \in 0 .. issued
          /\ \A p \in Slots : request[p].token \in 0 .. issued
          /\ issued' \notin 0 .. issued
      <3>1. Typed /\ Slotted /\ credential.token \in 0 .. issued
        BY DEF Known
      <3>2. \A p \in Slots : request[p].token \in Nat /\ request[p].token <= issued
        BY <3>1 DEF Slotted, RequestHolds, Typed, Request
      <3>3. QED
        BY <1>1, <1>6, <3>1, <3>2 DEF Typed
    <2>4. ASSUME NEW p \in Slots PROVE KeeperHolds(p)'
      <3>1. KeeperHolds(p)
        BY DEF TokensHold, KeeperHolds, Keeps
      <3>2. CASE p = q
        BY <1>6, <2>2, <2>3, <3>2 DEF KeeperHolds
      <3>3. CASE p # q /\ Keeps(p)
        <4>1. request[p].token \in usable'
          BY <1>6, <3>1, <3>3 DEF KeeperHolds
        <4>2. QED
          BY <1>6, <2>2, <2>3, <3>1, <3>3, <4>1 DEF KeeperHolds
      <3>4. CASE p # q /\ ~ Keeps(p)
        BY <2>2, <3>4 DEF KeeperHolds
      <3>5. QED
        BY <3>2, <3>3, <3>4
    <2>5. CredentialSurvives'
      BY <2>2 DEF CredentialSurvives, Keeps
    <2>6. QED
      BY <2>4, <2>5 DEF TokensHold, KeeperHolds, Keeps
  <1>7. CASE Ends(q) /\ ~ UNCHANGED usable
    BY <1>7, RenewGoesOn
  <1>8. QED
    BY <1>3, <1>5, <1>6, <1>7, RenewMoves

LEMMA TokensKeep ==
  ASSUME Known, TokensHold, UNCHANGED << limits, mishaps >>, NEW q \in Slots, KeepCredential(q)
  PROVE  TokensHold'
  <1> DEFINE r == [ request[q] EXCEPT !.token = 0 ]
  <1>1. /\ Typed /\ Slotted /\ Keeps(q) /\ request[q] \in Request /\ issued \in Nat
        /\ request[q].todo # << >> /\ UNCHANGED usable /\ usable \subseteq 1 .. issued
        /\ credential'.token = request[q].token
    BY StepsKnown DEF Known, Typed, KeepCredential, Keeps, NewToken
  <1>2. Kin(q, r) /\ Moves(q, r) /\ r.todo = request[q].todo /\ Ordered(r.todo)
        /\ Head(r.todo) = "keep" /\ r.todo # << >> /\ r.token = 0
    BY <1>1, KeepMoves, StepsKnown DEF Slotted, RequestHolds, Kin, Keeps, Does, Request
  <1>3. request'[q].token = 0
    <2>1. [ r EXCEPT !.todo = Tail(r.todo) ].token = 0
      BY <1>1 DEF Request
    <2>2. QED
      BY <1>2, <2>1, NoRequestTypes DEF Moves
  <1> HIDE DEF r
  <1>4. /\ \A p \in Slots : p # q => request'[p] = request[p]
        /\ \A p \in Slots : p # q => (Keeps(p)' <=> Keeps(p))
        /\ ~ Keeps(q)'
    BY <1>1, <1>2, MovesOn DEF Keeps
  <1>5. \A p \in Slots : KeeperHolds(p)
    BY DEF TokensHold, KeeperHolds, Keeps
  <1>6. request[q].token \in usable
    BY <1>1, <1>5 DEF KeeperHolds
  <1>7. ASSUME NEW p \in Slots PROVE KeeperHolds(p)'
    <2>1. CASE p # q /\ Keeps(p)
      BY <1>1, <1>3, <1>4, <1>5, <2>1 DEF KeeperHolds
    <2>2. CASE p = q \/ ~ Keeps(p)
      BY <1>4, <2>2 DEF KeeperHolds
    <2>3. QED
      BY <2>1, <2>2
  <1>8. CredentialSurvives'
    BY <1>1, <1>6 DEF CredentialSurvives
  <1>9. QED
    BY <1>7, <1>8 DEF TokensHold, KeeperHolds, Keeps

LEMMA TokensRequest ==
  ASSUME Known, TokensHold, manages \in BOOLEAN, mishaps \in Nat, NEW q \in Slots,
         UNCHANGED << rights, sales, limits, mishaps >>,
         \/ Submit(q) \/ Claim(q) \/ RequireSession(q) \/ Authenticate(q) \/ RequireBillingAdmin(q)
         \/ Authorize(q) \/ RequireManageGuild(q)
         \/ LoadCredential(q) \/ Renew(q) \/ KeepCredential(q)
         \/ Fetch(q) \/ Receive(q) \/ Abort(q) \/ Sync(q) \/ Check(q)
         \/ LimitRefresh(q) \/ RequestRefresh(q) \/ RequireValidResources(q) \/ Enqueue(q)
         \/ Load(q) \/ Commit(q)
  PROVE  TokensHold'
  <1>1. Typed /\ request[q] \in Request
    BY DEF Known, Typed
  <1> USE DEF tokens
  <1>2. CASE Submit(q)
    <2>1. PICK s : Begins(q, s)
      BY <1>2, SubmitBegins
    <2>2. /\ \A p \in Slots : p # q => request'[p] = request[p]
          /\ request'[q].token = 0 /\ ~ Keeps(q)'
      BY <1>1, <2>1 DEF Begins, Typed, Keeps, Does
    <2>3. ~ Keeps(q)
      BY <1>2, NoRequestTypes DEF Submit, Idle, Keeps, Does
    <2>4. \A p \in Slots : p # q => (Keeps(p)' <=> Keeps(p))
      BY <2>2 DEF Keeps, Does
    <2>5. UNCHANGED << limits, usable, mishaps, credential >>
      BY <1>2 DEF Submit
    <2>6. /\ \A p \in Slots : request'[p].token \in { 0, request[p].token }
          /\ \A p \in Slots : Keeps(p)' => Keeps(p) /\ request'[p].token = request[p].token
          /\ \A p \in Slots : Keeps(p) => Keeps(p)'
      BY <2>2, <2>3, <2>4
    <2>7. QED
      BY <2>5, <2>6, TokensStay
  <1>3. CASE \/ RequireSession(q) \/ Authenticate(q) \/ RequireBillingAdmin(q)
             \/ Authorize(q) \/ RequireManageGuild(q) \/ Check(q) \/ Abort(q)
             \/ LimitRefresh(q) \/ RequestRefresh(q) \/ RequireValidResources(q) \/ Enqueue(q)
    BY <1>1, <1>3, QuietRequests, TokensQuiet
  <1>4. CASE Claim(q)
    BY <1>1, <1>4, ClaimMoves, TokensPass DEF Claim
  <1>5. CASE LoadCredential(q)
    <2>1. Does(q, "token") /\ UNCHANGED << credential, usable >>
      BY <1>5 DEF LoadCredential
    <2>2. CASE Ends(q)
      BY <1>1, <2>1, <2>2, TokensEnd DEF Keeps, Does
    <2>3. CASE Proceeds(q, request[q])
      BY <1>1, <2>1, <2>3, StepsKnown, ProceedsMoves, TokensPass
    <2>4. QED
      BY <1>5, <2>1, <2>2, <2>3, TokensLoaded DEF LoadCredential
  <1>6. CASE Renew(q)
    BY <1>6, TokensRenew DEF Renew
  <1>7. CASE KeepCredential(q)
    BY <1>7, TokensKeep
  <1>8. CASE Fetch(q)
    <2> DEFINE r == [ request[q] EXCEPT !.answer = manages ]
    <2>1. Kin(q, r) /\ Moves(q, r) /\ r.token = request[q].token
      BY <1>1, <1>8, FetchMoves DEF Request
    <2> HIDE DEF r
    <2>2. QED
      BY <1>1, <1>8, <2>1, TokensPass DEF Fetch
  <1>9. CASE Receive(q)
    <2> DEFINE r == [ request[q] EXCEPT !.age = 0, !.left = Freshness ]
    <2>1. Kin(q, r) /\ Moves(q, r) /\ r.token = request[q].token
      BY <1>1, <1>9, ReceiveMoves DEF Request
    <2> HIDE DEF r
    <2>2. QED
      BY <1>1, <1>9, <2>1, TokensPass DEF Receive
  <1>10. CASE Sync(q)
    <2> DEFINE r == [ request[q] EXCEPT !.answer = FALSE, !.left = 0 ]
    <2>1. Kin(q, r) /\ Moves(q, r) /\ r.token = request[q].token
      BY <1>1, <1>10, SyncMoves DEF Request
    <2> HIDE DEF r
    <2>2. QED
      BY <1>1, <1>10, <2>1, TokensPass DEF Sync
  <1>11. CASE Load(q)
    <2>1. PICK read \in Nat : LET r == [ request[q] EXCEPT !.read = read ]
                              IN  Kin(q, r) /\ Moves(q, r)
      BY <1>11, LoadMoves
    <2> DEFINE r == [ request[q] EXCEPT !.read = read ]
    <2>2. Kin(q, r) /\ Moves(q, r) /\ r.token = request[q].token
      BY <1>1, <2>1 DEF Request
    <2> HIDE DEF r
    <2>3. QED
      BY <1>1, <1>11, <2>2, TokensPass DEF Load
  <1>12. CASE Commit(q)
    BY <1>1, <1>12, CommitMoves, StepsKnown, TokensPass DEF Commit
  <1>13. QED
    BY <1>2, <1>3, <1>4, <1>5, <1>6, <1>7, <1>8, <1>9, <1>10, <1>11, <1>12

LEMMA TokensPurchase ==
  ASSUME Known, TokensHold, mishaps \in Nat, sales \in Seq(Sale), NEW q \in Slots,
         UNCHANGED << rights, grant, tokens, claims, rows, limits, mishaps >>,
         \/ RequireBotInGuild(q) \/ ClaimCooldown(q) \/ AssertCheckoutAllowed(q)
         \/ CheckCapabilities(q) \/ EnsureConfiguredPlan(q) \/ LookUp(q)
         \/ Create(q) \/ Sell(q) \/ Record(q) \/ Undo(q)
         \/ Manage(q) \/ AddBlock(q) \/ RevokeBlock(q)
  PROVE  TokensHold'
  <1>1. Typed /\ request[q] \in Request /\ UNCHANGED << credential, usable >>
    BY DEF Known, Typed, tokens
  <1>2. CASE \/ RequireBotInGuild(q) \/ ClaimCooldown(q) \/ AssertCheckoutAllowed(q)
             \/ CheckCapabilities(q) \/ EnsureConfiguredPlan(q) \/ LookUp(q)
             \/ Manage(q) \/ AddBlock(q) \/ RevokeBlock(q)
    BY <1>1, <1>2, QuietPurchases, TokensQuiet
  <1>3. ASSUME NEW step \in { "create", "sell", "record", "undo" }, Does(q, step) PROVE ~ Keeps(q)
    BY <1>3 DEF Keeps, Does
  <1>4. CASE Ends(q) /\ ~ Keeps(q)
    BY <1>1, <1>4, TokensEnd
  <1>5. CASE Create(q)
    <2>1. Does(q, "create")
      BY <1>5 DEF Create
    <2> DEFINE r == [ request[q] EXCEPT !.read = Len(sales) + 1 ]
    <2>2. Ends(q) \/ (Kin(q, r) /\ Moves(q, r) /\ r.token = request[q].token)
      BY <1>1, <1>5, CreateMoves DEF Request
    <2> HIDE DEF r
    <2>3. QED
      BY <1>1, <1>3, <1>4, <2>1, <2>2, TokensPass
  <1>6. ASSUME NEW step \in { "record", "undo" }, LastStep(q, step), ~ Keeps(q) PROVE TokensHold'
    <2>1. /\ \A p \in Slots : p # q => request'[p] = request[p]
          /\ request'[q].todo = << step >> /\ request'[q].token = request[q].token
      BY <1>1, <1>6 DEF LastStep, Typed, Request
    <2>2. ~ Keeps(q)' /\ \A p \in Slots : p # q => (Keeps(p)' <=> Keeps(p))
      BY <2>1 DEF Keeps, Does
    <2>3. QED
      BY <1>1, <1>6, <2>1, <2>2, TokensStay
  <1>7. CASE Sell(q) \/ Record(q) \/ Undo(q)
    <2>1. ~ Keeps(q)
      BY <1>3, <1>7 DEF Sell, Record, Undo
    <2>2. QED
      BY <1>4, <1>6, <1>7, <2>1 DEF Sell, Record, Undo, Becomes, LastStep
  <1>8. QED
    BY <1>2, <1>5, <1>7

LEMMA TokensUser ==
  ASSUME Known, TokensHold, mishaps \in Nat, UNCHANGED << limits, mishaps >>, UserStep
  PROVE  TokensHold'
  <1>1. UNCHANGED request /\ \A p \in Slots : Keeps(p)' <=> Keeps(p)
    BY DEF UserStep, Keeps, Does
  <1>2. CASE UNCHANGED usable /\ credential'.token \in { 0, credential.token }
    BY <1>1, <1>2, TokensStay
  <1>3. CASE SignIn
    <2>1. /\ issued \in Nat /\ issued' = issued + 1 /\ usable' = usable \cup { issued' }
          /\ credential'.token = issued'
      BY <1>3 DEF SignIn, Known, Typed
    <2>2. \A p \in Slots : request[p].token \in 0 .. issued
      BY DEF Known, Slotted, RequestHolds, Typed, Request
    <2>3. ASSUME NEW p \in Slots PROVE KeeperHolds(p)'
      <3>1. KeeperHolds(p)
        BY DEF TokensHold, KeeperHolds, Keeps
      <3>2. request[p].token # issued'
        BY <2>1, <2>2
      <3>3. QED
        BY <1>1, <2>1, <3>1, <3>2 DEF KeeperHolds
    <2>4. CredentialSurvives'
      BY <2>1 DEF CredentialSurvives
    <2>5. QED
      BY <2>3, <2>4 DEF TokensHold, KeeperHolds, Keeps
  <1>4. QED
    BY <1>2, <1>3 DEF UserStep, ChangeRights, RevokeAll, AccessExpires, tokens

LEMMA TokensAge ==
  ASSUME Known, TokensHold, mishaps \in Nat, UNCHANGED << limits, mishaps >>, RequestsAge
  PROVE  TokensHold'
  <1>1. Typed /\ UNCHANGED << credential, usable >>
    BY DEF Known, RequestsAge, tokens
  <1>2. \A q \in Slots : request'[q].todo = request[q].todo /\ request'[q].token = request[q].token
    BY <1>1, RequestsAged, AgedTypes
  <1>3. \A q \in Slots : Keeps(q)' <=> Keeps(q)
    BY <1>2 DEF Keeps, Does
  <1>4. QED
    BY <1>1, <1>2, <1>3, TokensStay

LEMMA TokensBotEnd ==
  ASSUME Known, TokensHold, mishaps \in Nat, mishaps' \in Nat, mishaps <= mishaps',
         UNCHANGED limits, EndWithBot
  PROVE  TokensHold'
  <1>1. UNCHANGED << credential, usable >>
    BY DEF EndWithBot, tokens
  <1>2. \A q \in Slots : Keeps(q) => request[q].via # "bot"
    <2> SUFFICES ASSUME NEW q \in Slots, Keeps(q) PROVE request[q].via # "bot"
      OBVIOUS
    <2>1. Has(request[q].todo, "keep") /\ RequestHolds(q)
      <3>1. Typed /\ Slotted
        BY DEF Known
      <3>2. QED
        BY <3>1, StepsKnown, TailSteps DEF Slotted, Keeps, Has
    <2>2. QED
      BY <2>1 DEF RequestHolds, ByBot
  <1>3. \A q \in Slots : \/ request'[q] = request[q]
                         \/ ~ Keeps(q) /\ request'[q] = NoRequest(FirstKey)
    BY <1>2 DEF EndWithBot
  <1>4. \A q \in Slots : /\ Keeps(q)' <=> Keeps(q)
                         /\ request'[q].token \in { 0, request[q].token }
                         /\ Keeps(q)' => request'[q].token = request[q].token
    BY <1>3, NoRequestTypes DEF Keeps, Does
  <1>5. QED
    BY <1>1, <1>4, TokensStay

-------------------------------------------------------------------------------
(***************************************************************************)
(* OneSale: whoever has created a sale is alone until the sale is handed   *)
(* over or cancelled, and there is no other that is effective.             *)
(***************************************************************************)
LEMMA SaleUpdated ==
  ASSUME sales \in Seq(Sale), NEW i \in DOMAIN sales,
         NEW status \in { "PENDING", "ACTIVE", "CANCELLED", "EXPIRED" },
         NEW checkout \in { "CREATED", "PROVIDER_PENDING", "COMPLETED", "FAILED", "EXPIRED" },
         NEW handed \in BOOLEAN, Updated(i, status, checkout, handed)
  PROVE  /\ sales' \in Seq(Sale) /\ DOMAIN sales' = DOMAIN sales
         /\ sales'[i].status = status
         /\ \A j \in DOMAIN sales : j # i => sales'[j] = sales[j]
  <1> DEFINE sale == [ status |-> status, checkout |-> checkout, handed |-> handed ]
  <1>1. sale \in Sale /\ sale.status = status
    BY DEF Sale
  <1>2. sales' = [ sales EXCEPT ![i] = sale ]
    BY DEF Updated
  <1> HIDE DEF sale
  <1>3. QED
    BY <1>1, <1>2

LEMMA FewerSell ==
  ASSUME SalesHold, UNCHANGED sales,
         \A p \in Slots : Sells(p)' => Sells(p) /\ request'[p].read = request[p].read
  PROVE  SalesHold'
  BY DEF SalesHold

LEMMA OthersSell ==
  ASSUME NEW q \in Slots, \A p \in Slots : p # q => request'[p] = request[p]
  PROVE  \A p \in Slots : p # q => (Sells(p)' <=> Sells(p))
  BY DEF Sells, Does

LEMMA EndsSell ==
  ASSUME Typed, NEW q \in Slots, Ends(q)
  PROVE  /\ \A p \in Slots : p # q => request'[p] = request[p]
         /\ \A p \in Slots : p # q => (Sells(p)' <=> Sells(p))
         /\ ~ Sells(q)'
  <1>1. /\ \A p \in Slots : p # q => request'[p] = request[p]
        /\ request'[q].todo = << >>
    BY NoRequestTypes DEF Typed, Ends, Becomes
  <1>2. QED
    BY <1>1, OthersSell DEF Sells, Does

LEMMA SalesEnd ==
  ASSUME Known, SalesHold, UNCHANGED sales, NEW q \in Slots, Ends(q)
  PROVE  SalesHold'
  <1>1. \A p \in Slots : Sells(p)' => Sells(p) /\ request'[p].read = request[p].read
    BY EndsSell DEF Known
  <1>2. QED
    BY <1>1, FewerSell

LEMMA SalesMove ==
  ASSUME Known, SalesHold, UNCHANGED sales, NEW q \in Slots, NEW step, step # "create",
         Does(q, step), NEW r, Kin(q, r), Moves(q, r)
  PROVE  SalesHold'
  <1>1. /\ Typed /\ Slotted /\ request[q].todo # << >> /\ Head(request[q].todo) = step
        /\ r.todo = request[q].todo /\ r \in Request /\ Ordered(r.todo)
    BY StepsKnown DEF Known, Kin, Slotted, RequestHolds
  <1>2. /\ \A p \in Slots : p # q => request'[p] = request[p]
        /\ ~ Sells(q)'
    BY <1>1, MovesOn DEF Sells
  <1>3. \A p \in Slots : Sells(p)' => Sells(p) /\ request'[p].read = request[p].read
    BY <1>2, OthersSell
  <1>4. QED
    BY <1>3, FewerSell

LEMMA SalesQuiet ==
  ASSUME Known, SalesHold, NEW q \in Slots, Quiet(q)
  PROVE  SalesHold'
  <1>1. UNCHANGED sales /\ Typed
    BY DEF Quiet, coreVars, Known
  <1>2. CASE Ends(q)
    BY <1>1, <1>2, SalesEnd
  <1>3. CASE Moves(q, request[q]) /\ \E step \in StepNames \ Telling : Does(q, step)
    BY <1>1, <1>3, StepsKnown, SalesMove DEF Telling
  <1>4. QED
    BY <1>2, <1>3 DEF Quiet

LEMMA SalesRequest ==
  ASSUME Known, SalesHold, manages \in BOOLEAN, NEW q \in Slots,
         UNCHANGED << rights, sales, limits, mishaps >>,
         \/ Submit(q) \/ Claim(q) \/ RequireSession(q) \/ Authenticate(q) \/ RequireBillingAdmin(q)
         \/ Authorize(q) \/ RequireManageGuild(q)
         \/ LoadCredential(q) \/ Renew(q) \/ KeepCredential(q)
         \/ Fetch(q) \/ Receive(q) \/ Abort(q) \/ Sync(q) \/ Check(q)
         \/ LimitRefresh(q) \/ RequestRefresh(q) \/ RequireValidResources(q) \/ Enqueue(q)
         \/ Load(q) \/ Commit(q)
  PROVE  SalesHold'
  <1>1. Typed /\ Slotted
    BY DEF Known
  <1>2. CASE Submit(q)
    <2>1. PICK s : Begins(q, s)
      BY <1>2, SubmitBegins
    <2>2. \A p \in Slots : p # q => request'[p] = request[p]
      BY <1>1, <2>1 DEF Begins, Typed
    <2>3. ~ Sells(q)'
      BY <1>1, <2>1 DEF Begins, Sells, Does, Typed
    <2>4. \A p \in Slots : Sells(p)' => Sells(p) /\ request'[p].read = request[p].read
      BY <2>2, <2>3, OthersSell
    <2>5. QED
      BY <2>4, FewerSell
  <1>3. CASE \/ RequireSession(q) \/ Authenticate(q) \/ RequireBillingAdmin(q)
             \/ Authorize(q) \/ RequireManageGuild(q) \/ Check(q) \/ Abort(q)
             \/ LimitRefresh(q) \/ RequestRefresh(q) \/ RequireValidResources(q) \/ Enqueue(q)
    BY <1>1, <1>3, QuietRequests, SalesQuiet
  <1>4. CASE Claim(q)
    BY <1>1, <1>4, ClaimMoves, SalesMove DEF Claim
  <1>5. CASE LoadCredential(q)
    <2>1. Does(q, "token")
      BY <1>5 DEF LoadCredential
    <2>2. CASE Ends(q) \/ Proceeds(q, request[q])
      BY <1>1, <2>1, <2>2, StepsKnown, ProceedsMoves, SalesMove, SalesEnd
    <2>3. CASE Becomes(q, [ request[q] EXCEPT !.token = credential.token,
                               !.todo = << "renew", "keep" >> \o Tail(request[q].todo) ])
      <3>1. /\ request[q].todo \in Seq(StepNames) /\ request[q].todo # << >>
            /\ Head(request[q].todo) = "token" /\ request[q] \in Request
        BY <1>1, <2>1, StepsKnown
      <3>2. /\ \A p \in Slots : p # q => request'[p] = request[p]
            /\ request'[q].todo = << "renew", "keep" >> \o Tail(request[q].todo)
        BY <1>1, <2>3, <3>1 DEF Becomes, Typed, Request
      <3>3. Head(request'[q].todo) = "renew"
        BY <1>1, <3>1, <3>2, RenewOrdered DEF Slotted, RequestHolds
      <3>4. \A p \in Slots : Sells(p)' => Sells(p) /\ request'[p].read = request[p].read
        BY <3>2, <3>3, OthersSell DEF Sells, Does
      <3>5. QED
        BY <3>4, FewerSell
    <2>4. QED
      BY <1>5, <2>2, <2>3 DEF LoadCredential
  <1>6. CASE Renew(q)
    BY <1>1, <1>6, StepsKnown, RenewMoves, SalesMove, SalesEnd DEF Renew
  <1>7. CASE KeepCredential(q)
    BY <1>1, <1>7, KeepMoves, SalesMove DEF KeepCredential
  <1>8. CASE Fetch(q)
    BY <1>1, <1>8, FetchMoves, SalesMove DEF Fetch
  <1>9. CASE Receive(q)
    BY <1>1, <1>9, ReceiveMoves, SalesMove DEF Receive
  <1>10. CASE Sync(q)
    BY <1>1, <1>10, SyncMoves, SalesMove DEF Sync
  <1>11. CASE Load(q)
    BY <1>1, <1>11, LoadMoves, SalesMove DEF Load
  <1>12. CASE Commit(q)
    BY <1>1, <1>12, CommitMoves, StepsKnown, SalesMove DEF Commit
  <1>13. QED
    BY <1>2, <1>3, <1>4, <1>5, <1>6, <1>7, <1>8, <1>9, <1>10, <1>11, <1>12

\* Nothing is effective when a sale is created, so that nobody sells.
LEMMA SalesCreate ==
  ASSUME Known, SalesHold, sales \in Seq(Sale), NEW q \in Slots, Create(q)
  PROVE  SalesHold' /\ sales' \in Seq(Sale)
  <1> DEFINE r == [ request[q] EXCEPT !.read = Len(sales) + 1 ]
  <1>1. Typed /\ Slotted /\ Does(q, "create") /\ request[q] \in Request
    BY DEF Known, Typed, Create
  <1>2. CASE Ends(q) /\ UNCHANGED sales
    BY <1>2, SalesEnd
  <1>3. CASE Unique /\ sales' = Append(sales, Created) /\ Kin(q, r) /\ Moves(q, r)
    <2>1. Created \in Sale /\ Effective(Created) /\ Created.status = "PENDING"
      BY DEF Created, Sale, Effective
    <2>2. /\ sales' \in Seq(Sale) /\ DOMAIN sales' = DOMAIN sales \cup { Len(sales) + 1 }
          /\ Len(sales) + 1 \notin DOMAIN sales
          /\ sales'[Len(sales) + 1] = Created
          /\ \A i \in DOMAIN sales : sales'[i] = sales[i]
      BY <1>3, <2>1
    <2>3. \A p \in Slots : ~ Sells(p)
      BY <1>3 DEF SalesHold, Unique, NothingEffective, Effective
    <2>4. \A p \in Slots : p # q => request'[p] = request[p]
      BY <1>1, <1>3 DEF Moves, Typed
    <2>5. Sells(q)' => request'[q].read = Len(sales) + 1
      <3>1. r.read = Len(sales) + 1 /\ [ r EXCEPT !.todo = Tail(r.todo) ].read = r.read
        BY <1>1 DEF Request
      <3>2. CASE request'[q] = NoRequest(FirstKey)
        BY <3>2, NoRequestTypes DEF Sells, Does
      <3> HIDE DEF r
      <3>3. QED
        BY <1>3, <3>1, <3>2 DEF Moves
    <2>6. \A p \in Slots : Sells(p)' => p = q
      BY <2>3, <2>4, OthersSell
    <2>7. \A i \in DOMAIN sales' : Effective(sales'[i]) => i = Len(sales) + 1
      BY <1>3, <2>2 DEF Unique, NothingEffective
    <2>8. QED
      BY <2>1, <2>2, <2>5, <2>6, <2>7 DEF SalesHold
  <1>4. QED
    BY <1>1, <1>2, <1>3, CreateMoves

LEMMA SalesLastStep ==
  ASSUME Known, SalesHold, UNCHANGED sales, NEW q \in Slots, NEW step \in { "record", "undo" },
         LastStep(q, step), Sells(q)
  PROVE  SalesHold'
  <1>1. /\ \A p \in Slots : p # q => request'[p] = request[p]
        /\ request'[q].read = request[q].read
    BY DEF Known, Typed, LastStep, Request
  <1>2. \A p \in Slots : Sells(p)' => Sells(p) /\ request'[p].read = request[p].read
    BY <1>1, OthersSell
  <1>3. QED
    BY <1>2, FewerSell

\* The sale of the only seller is handed over, or cancelled.
LEMMA SaleGoes ==
  ASSUME Known, SalesHold, sales \in Seq(Sale), NEW q \in Slots, Sells(q), Ends(q),
         NEW status \in { "PENDING", "CANCELLED" },
         NEW checkout \in { "CREATED", "PROVIDER_PENDING", "COMPLETED", "FAILED", "EXPIRED" },
         NEW handed \in BOOLEAN, Updated(request[q].read, status, checkout, handed)
  PROVE  SalesHold' /\ sales' \in Seq(Sale)
  <1> DEFINE i == request[q].read
  <1>1. i \in DOMAIN sales /\ sales[i].status = "PENDING"
    BY DEF SalesHold
  <1>2. /\ sales' \in Seq(Sale) /\ DOMAIN sales' = DOMAIN sales
        /\ sales'[i].status = status
        /\ \A j \in DOMAIN sales : j # i => sales'[j] = sales[j]
    BY <1>1, SaleUpdated
  <1>3. \A p \in Slots : ~ Sells(p)'
    BY EndsSell DEF Known, SalesHold
  <1>4. \A j \in DOMAIN sales' : Effective(sales'[j]) => Effective(sales[j])
    BY <1>1, <1>2 DEF Effective
  <1>5. QED
    BY <1>2, <1>3, <1>4 DEF SalesHold

LEMMA SalesPurchase ==
  ASSUME Known, SalesHold, sales \in Seq(Sale), NEW q \in Slots,
         UNCHANGED << rights, grant, tokens, claims, rows, limits, mishaps >>,
         \/ RequireBotInGuild(q) \/ ClaimCooldown(q) \/ AssertCheckoutAllowed(q)
         \/ CheckCapabilities(q) \/ EnsureConfiguredPlan(q) \/ LookUp(q)
         \/ Create(q) \/ Sell(q) \/ Record(q) \/ Undo(q)
         \/ Manage(q) \/ AddBlock(q) \/ RevokeBlock(q)
  PROVE  SalesHold' /\ sales' \in Seq(Sale)
  <1>1. Typed
    BY DEF Known
  <1>2. CASE \/ RequireBotInGuild(q) \/ ClaimCooldown(q) \/ AssertCheckoutAllowed(q)
             \/ CheckCapabilities(q) \/ EnsureConfiguredPlan(q) \/ LookUp(q)
             \/ Manage(q) \/ AddBlock(q) \/ RevokeBlock(q)
    BY <1>1, <1>2, QuietPurchases, SalesQuiet DEF Quiet, coreVars
  <1>3. CASE Create(q)
    BY <1>3, SalesCreate
  <1>4. CASE Sell(q)
    <2>1. Sells(q) /\ UNCHANGED sales /\ (LastStep(q, "record") \/ LastStep(q, "undo"))
      BY <1>4 DEF Sell, Sells, Becomes, LastStep, purchaseVars
    <2>2. QED
      BY <2>1, SalesLastStep
  <1>5. CASE Record(q)
    <2>1. Sells(q)
      BY <1>5 DEF Record, Sells
    <2>2. CASE LastStep(q, "undo") /\ UNCHANGED sales
      BY <2>1, <2>2, SalesLastStep
    <2>3. CASE /\ Updated(request[q].read, sales[request[q].read].status, "PROVIDER_PENDING", TRUE)
               /\ Ends(q)
      <3>1. sales[request[q].read].status = "PENDING"
        BY <2>1 DEF SalesHold
      <3>2. Updated(request[q].read, "PENDING", "PROVIDER_PENDING", TRUE)
        BY <2>3, <3>1
      <3>3. TRUE \in BOOLEAN
        OBVIOUS
      <3>4. QED
        BY <2>1, <2>3, <3>2, <3>3, SaleGoes
    <2>4. QED
      BY <1>5, <2>2, <2>3 DEF Record, Becomes, LastStep
  <1>6. CASE Undo(q)
    <2>1. Sells(q) /\ Ends(q) /\ Updated(request[q].read, "CANCELLED", "FAILED", FALSE)
      BY <1>6 DEF Undo, Sells
    <2>2. FALSE \in BOOLEAN
      OBVIOUS
    <2>3. QED
      BY <2>1, <2>2, SaleGoes
  <1>7. QED
    BY <1>2, <1>3, <1>4, <1>5, <1>6

\* A sale runs its course: it is effective only if it was.
LEMMA SalesSettle ==
  ASSUME SalesHold, sales \in Seq(Sale), Settle
  PROVE  SalesHold' /\ sales' \in Seq(Sale)
  <1>1. PICK i \in DOMAIN sales :
          \/ /\ sales[i].status = "PENDING" /\ sales[i].handed
             /\ Updated(i, "ACTIVE", "COMPLETED", TRUE)
          \/ /\ sales[i].status \in { "PENDING", "ACTIVE" }
             /\ Updated(i, "EXPIRED", IF sales[i].status = "ACTIVE" THEN "COMPLETED" ELSE "EXPIRED",
                        sales[i].handed)
    BY DEF Settle
  <1>2. Effective(sales[i]) /\ sales[i].handed \in BOOLEAN
    <2>1. sales[i] \in Sale
      OBVIOUS
    <2>2. sales[i].handed \in BOOLEAN
      BY <2>1 DEF Sale
    <2>3. Effective(sales[i])
      BY <1>1 DEF Effective
    <2>4. QED
      BY <2>2, <2>3
  <1>3. \E status \in { "ACTIVE", "EXPIRED" }, checkout \in { "COMPLETED", "EXPIRED" },
           handed \in BOOLEAN : Updated(i, status, checkout, handed)
    BY <1>1, <1>2
  <1>4. /\ sales' \in Seq(Sale) /\ DOMAIN sales' = DOMAIN sales
        /\ \A j \in DOMAIN sales : j # i => sales'[j] = sales[j]
    BY <1>3, SaleUpdated
  <1>5. \A j \in DOMAIN sales' : Effective(sales'[j]) => Effective(sales[j])
    BY <1>2, <1>4
  <1>6. \A p \in Slots : ~ Sells(p)'
    BY DEF Settle, Sells, Does, requestVars
  <1>7. QED
    BY <1>4, <1>5, <1>6 DEF SalesHold

LEMMA SalesAge ==
  ASSUME Known, SalesHold, UNCHANGED sales, RequestsAge
  PROVE  SalesHold'
  <1>1. \A q \in Slots : request'[q].todo = request[q].todo /\ request'[q].read = request[q].read
    <2>1. Typed
      BY DEF Known
    <2>2. QED
      BY <2>1, RequestsAged, AgedTypes
  <1>2. \A q \in Slots : Sells(q)' <=> Sells(q)
    BY <1>1 DEF Sells, Does
  <1>3. QED
    BY <1>1, <1>2, FewerSell

LEMMA SalesBotEnd ==
  ASSUME Known, SalesHold, UNCHANGED sales, EndWithBot
  PROVE  SalesHold'
  <1>1. \A q \in Slots : request'[q] = request[q] \/ request'[q] = NoRequest(FirstKey)
    BY DEF EndWithBot
  <1>2. \A q \in Slots : Sells(q)' => Sells(q) /\ request'[q].read = request[q].read
    BY <1>1, NoRequestTypes DEF Sells, Does
  <1>3. QED
    BY <1>2, FewerSell

LEMMA SalesOne == SalesHold => OneSale
  BY DEF SalesHold, OneSale, CanBePaid

-------------------------------------------------------------------------------
(***************************************************************************)
(* SettingsTrailIsHistory, and what is left of the types.                  *)
(***************************************************************************)
LEMMA TrailCommit ==
  ASSUME Known, SettingsTrailIsHistory, NEW q \in Slots, Commit(q)
  PROVE  SettingsTrailIsHistory'
  <1>1. /\ version \in [ Versioned -> Nat ] /\ "settings" \in Versioned
        /\ trail \in Seq(Nat \X Nat) /\ request[q].read \in Nat
    BY DEF Known, Typed, Request, Versioned
  <1>2. CASE UNCHANGED << version, trail >>
    BY <1>2 DEF SettingsTrailIsHistory
  <1>3. CASE AsRead(request[q]) /\ Committed(request[q]) /\ request[q].kind # "settings"
    <2>1. trail' = trail /\ version'["settings"] = version["settings"]
      BY <1>1, <1>3 DEF Committed
    <2>2. QED
      BY <2>1 DEF SettingsTrailIsHistory
  <1>4. CASE AsRead(request[q]) /\ Committed(request[q]) /\ request[q].kind = "settings"
    <2>1. /\ request[q].read = version["settings"] /\ version["settings"] = Len(trail) + 1
          /\ version'["settings"] = version["settings"] + 1
          /\ trail' = Append(trail, << request[q].read, version'["settings"] >>)
      BY <1>1, <1>4 DEF AsRead, Committed, SettingsTrailIsHistory
    <2> DEFINE entry == << Len(trail) + 1, Len(trail) + 2 >>
    <2>2. trail' = Append(trail, entry) /\ entry \in Nat \X Nat
      BY <1>1, <2>1
    <2> HIDE DEF entry
    <2>3. /\ Len(trail') = Len(trail) + 1 /\ DOMAIN trail' = DOMAIN trail \cup { Len(trail) + 1 }
          /\ trail'[Len(trail) + 1] = entry
          /\ \A i \in DOMAIN trail : trail'[i] = trail[i]
      BY <1>1, <2>2
    <2>4. \A i \in DOMAIN trail' : trail'[i] = << i, i + 1 >>
      <3>1. entry = << Len(trail) + 1, (Len(trail) + 1) + 1 >>
        BY <1>1 DEF entry
      <3>2. QED
        BY <2>3, <3>1 DEF SettingsTrailIsHistory
    <2>5. version'["settings"] = Len(trail') + 1
      BY <1>1, <2>1, <2>3
    <2>6. QED
      BY <2>4, <2>5 DEF SettingsTrailIsHistory
  <1>5. QED
    BY <1>2, <1>3, <1>4 DEF Commit, rows

LEMMA TrailRequest ==
  ASSUME Known, SettingsTrailIsHistory, NEW q \in Slots,
         \/ Submit(q) \/ Claim(q) \/ RequireSession(q) \/ Authenticate(q) \/ RequireBillingAdmin(q)
         \/ Authorize(q) \/ RequireManageGuild(q)
         \/ LoadCredential(q) \/ Renew(q) \/ KeepCredential(q)
         \/ Fetch(q) \/ Receive(q) \/ Abort(q) \/ Sync(q) \/ Check(q)
         \/ LimitRefresh(q) \/ RequestRefresh(q) \/ RequireValidResources(q) \/ Enqueue(q)
         \/ Load(q) \/ Commit(q)
  PROVE  SettingsTrailIsHistory'
  <1>1. CASE UNCHANGED rows
    BY <1>1 DEF rows, SettingsTrailIsHistory
  <1>2. ~ Commit(q) => UNCHANGED rows
    BY DEF Submit, Claim, RequireSession, Authenticate, RequireBillingAdmin, Authorize,
       RequireManageGuild, LoadCredential, Renew, KeepCredential, Fetch, Receive, Abort, Sync, Check,
       LimitRefresh, RequestRefresh, RequireValidResources, Enqueue, Load
  <1>3. QED
    BY <1>1, <1>2, TrailCommit

Marks ==
  /\ manages \in BOOLEAN /\ session \in BOOLEAN /\ recently \in BOOLEAN
  /\ cooldowns \subseteq Commands
  /\ submitted \in Nat /\ changes \in Nat

LEMMA MarksRequest ==
  ASSUME Marks, NEW q \in Slots, UNCHANGED << rights, session, changes >>,
         \/ Submit(q) \/ Claim(q) \/ RequireSession(q) \/ Authenticate(q) \/ RequireBillingAdmin(q)
         \/ Authorize(q) \/ RequireManageGuild(q)
         \/ LoadCredential(q) \/ Renew(q) \/ KeepCredential(q)
         \/ Fetch(q) \/ Receive(q) \/ Abort(q) \/ Sync(q) \/ Check(q)
         \/ LimitRefresh(q) \/ RequestRefresh(q) \/ RequireValidResources(q) \/ Enqueue(q)
         \/ Load(q) \/ Commit(q)
  PROVE  Marks'
  <1> USE DEF claims
  <1>1. manages' \in BOOLEAN /\ session' \in BOOLEAN
    BY Zenon DEF Marks, rights
  <1>2. changes' \in Nat
    BY DEF Marks
  <1>3. recently' \in { recently, TRUE }
    BY DEF Submit, Claim, RequireSession, Authenticate, RequireBillingAdmin, Authorize,
       RequireManageGuild, LoadCredential, Renew, KeepCredential, Fetch, Receive, Abort, Sync, Check,
       LimitRefresh, RequestRefresh, RequireValidResources, Enqueue, Load, Commit
  <1>4. recently' \in BOOLEAN
    BY Zenon, <1>3 DEF Marks
  <1>5. submitted' \in { submitted, submitted + 1 }
    BY DEF Submit, Claim, RequireSession, Authenticate, RequireBillingAdmin, Authorize,
       RequireManageGuild, LoadCredential, Renew, KeepCredential, Fetch, Receive, Abort, Sync, Check,
       LimitRefresh, RequestRefresh, RequireValidResources, Enqueue, Load, Commit
  <1>6. cooldowns' = cooldowns \/ \E name \in Commands : cooldowns' = cooldowns \cup { name }
    <2>1. Authorize(q) => cooldowns' = cooldowns \/ \E name \in Commands : cooldowns' = cooldowns \cup { name }
      BY DEF Authorize
    <2>2. ~ Authorize(q) => cooldowns' = cooldowns
      BY DEF Submit, Claim, RequireSession, Authenticate, RequireBillingAdmin,
         RequireManageGuild, LoadCredential, Renew, KeepCredential, Fetch, Receive, Abort, Sync, Check,
         LimitRefresh, RequestRefresh, RequireValidResources, Enqueue, Load, Commit
    <2>3. QED
      BY <2>1, <2>2
  <1>7. submitted' \in Nat /\ cooldowns' \subseteq Commands
    BY <1>5, <1>6 DEF Marks
  <1>8. QED
    BY <1>1, <1>2, <1>4, <1>7 DEF Marks

LEMMA MarksUser == ASSUME Marks, UserStep PROVE Marks'
  <1>1. UNCHANGED << recently, cooldowns, submitted >> /\ changes' = changes + 1
    BY DEF UserStep, claims
  <1>2. \/ manages' = ~ manages /\ session' = session
        \/ manages' = manages /\ session' \in BOOLEAN
    BY Zenon DEF UserStep, ChangeRights, RevokeAll, SignIn, AccessExpires, rights, Marks
  <1>3. manages' \in BOOLEAN /\ session' \in BOOLEAN
    BY Zenon, <1>2 DEF Marks
  <1>4. recently' \in BOOLEAN /\ cooldowns' \subseteq Commands
    BY Zenon, <1>1 DEF Marks
  <1>5. submitted' \in Nat /\ changes' \in Nat
    BY <1>1 DEF Marks
  <1>6. QED
    BY <1>3, <1>4, <1>5 DEF Marks

LEMMA MarksAge == ASSUME Marks, RequestsAge PROVE Marks'
  <1>1. manages' \in BOOLEAN /\ session' \in BOOLEAN /\ recently' \in BOOLEAN
    BY Zenon DEF Marks, RequestsAge
  <1>2. cooldowns' \subseteq Commands /\ submitted' \in Nat /\ changes' \in Nat
    BY DEF Marks, RequestsAge
  <1>3. QED
    BY <1>1, <1>2 DEF Marks

LEMMA MarksStay ==
  ASSUME Marks, UNCHANGED << manages, session, recently, submitted, changes >>,
         cooldowns' \in { cooldowns, {} }
  PROVE  Marks'
  BY DEF Marks

\* The plan, the blocks and the cooldown.
LEMMA PurchaseTypes ==
  ASSUME PurchasesTypeOK, Typed, NEW q \in Slots,
         \/ RequireBotInGuild(q) \/ ClaimCooldown(q) \/ AssertCheckoutAllowed(q)
         \/ CheckCapabilities(q) \/ EnsureConfiguredPlan(q) \/ LookUp(q)
         \/ Create(q) \/ Sell(q) \/ Record(q) \/ Undo(q)
         \/ Manage(q) \/ AddBlock(q) \/ RevokeBlock(q)
  PROVE  /\ plan' \in { "none", "configured", "drifted" }
         /\ blocks' \subseteq Keys
         /\ cooling' \in 0 .. Cooldown
  <1> USE DEF purchaseVars
  <1>1. plan' \in { plan, "configured" }
    BY DEF RequireBotInGuild, ClaimCooldown, AssertCheckoutAllowed, CheckCapabilities,
       EnsureConfiguredPlan, LookUp, Create, Sell, Record, Undo, Manage, AddBlock, RevokeBlock
  <1>2. blocks' \subseteq blocks \cup { request[q].key }
    BY DEF RequireBotInGuild, ClaimCooldown, AssertCheckoutAllowed, CheckCapabilities,
       EnsureConfiguredPlan, LookUp, Create, Sell, Record, Undo, Manage, AddBlock, RevokeBlock
  <1>3. cooling' \in { cooling, Cooldown }
    BY DEF RequireBotInGuild, ClaimCooldown, AssertCheckoutAllowed, CheckCapabilities,
       EnsureConfiguredPlan, LookUp, Create, Sell, Record, Undo, Manage, AddBlock, RevokeBlock
  <1>4. request[q].key \in Keys
    BY DEF Typed, Request
  <1>5. cooling' \in 0 .. Cooldown
    BY <1>3, Bounds DEF PurchasesTypeOK
  <1>6. QED
    BY <1>1, <1>2, <1>4, <1>5 DEF PurchasesTypeOK

-------------------------------------------------------------------------------
(***************************************************************************)
(* The inductive invariant.                                                *)
(***************************************************************************)
RequestsHold ==
  Known /\ Marks /\ RightsHold /\ KeysHold /\ TokensHold /\ SettingsTrailIsHistory

Inv ==
  /\ Presences /\ Flags
  /\ RequestsHold
  /\ PurchasesTypeOK /\ SalesHold

LEMMA InvInit == Init => Inv
  <1> SUFFICES ASSUME Init PROVE Inv
    OBVIOUS
  <1> USE DEF Init
  <1>1. Presences
    BY PresenceInit
  <1>2. Flags
    BY Zenon DEF InstallationInit, Flags
  <1>3. Known
    BY KnownInit
  <1>4. Marks
    <2>1. manages \in BOOLEAN /\ session \in BOOLEAN /\ recently \in BOOLEAN
      BY Zenon DEF RequestsInit
    <2>2. cooldowns \subseteq Commands /\ submitted \in Nat /\ changes \in Nat
      BY DEF RequestsInit
    <2>3. QED
      BY <2>1, <2>2 DEF Marks
  <1>5. \A q \in Slots : /\ request[q].todo = << >> /\ request[q].token = 0
                         /\ request[q].answer = FALSE /\ request[q].via = "api"
    BY NoRequestTypes DEF RequestsInit
  <1>6. RightsHold
    BY <1>5, Bounds DEF RightsHold, RequestsInit, Longest
  <1>7. KeysHold
    BY <1>5, NoRequestTypes DEF KeysHold, Stores, RequestsInit, SubmittedOnce
  <1>8. TokensHold
    BY <1>5 DEF TokensHold, CredentialSurvives, RequestsInit, Does
  <1>9. SettingsTrailIsHistory
    BY DEF SettingsTrailIsHistory, RequestsInit, Versioned
  <1>10. PurchasesTypeOK
    <2>1. limits \in Limits
      BY DEF InstallationInit
    <2>2. plan \in { "none", "configured", "drifted" }
      BY <2>1, PurchasesAssumption DEF PurchasesInit
    <2>3. blocks \subseteq Keys
      BY NoRequestTypes DEF PurchasesInit
    <2>4. QED
      BY <2>2, <2>3, Bounds DEF PurchasesInit, PurchasesTypeOK
  <1>11. SalesHold
    BY <1>5 DEF SalesHold, PurchasesInit, Sells, Does
  <1>12. QED
    BY <1>1, <1>2, <1>3, <1>4, <1>6, <1>7, <1>8, <1>9, <1>10, <1>11 DEF Inv, RequestsHold

\* Steps that leave the requests, or the sales, alone.
LEMMA RequestsStay ==
  ASSUME RequestsHold, UNCHANGED << requestVars, limits >>,
         mishaps \in Nat, mishaps' \in Nat, mishaps <= mishaps'
  PROVE  RequestsHold'
  <1> USE DEF RequestsHold, requestVars
  <1>1. Typed' /\ Slotted'
    BY DEF Known, Typed, Slotted, RequestHolds, tokens
  <1>2. Known'
    BY <1>1, KnownStays DEF rights, tokens, claims
  <1>3. Marks'
    BY MarksStay DEF rights, claims
  <1>4. RightsHold'
    BY DEF RightsHold, rights, Does
  <1>5. KeysHold'
    BY DEF KeysHold, Stores, Taken, SubmittedOnce, claims, rows
  <1>6. \A q \in Slots : Keeps(q)' <=> Keeps(q)
    BY DEF Keeps, Does
  <1>7. TokensHold'
    BY <1>6, TokensStay DEF tokens
  <1>8. SettingsTrailIsHistory'
    BY DEF SettingsTrailIsHistory, rows
  <1>9. QED
    BY <1>2, <1>3, <1>4, <1>5, <1>7, <1>8

LEMMA SalesStay ==
  ASSUME SalesHold, UNCHANGED << request, sales >> PROVE SalesHold'
  <1>1. \A q \in Slots : Sells(q)' => Sells(q) /\ request'[q].read = request[q].read
    BY DEF Sells, Does
  <1>2. QED
    BY <1>1, FewerSell

LEMMA InstallationStays ==
  ASSUME Presences, Flags, UNCHANGED installationVars
  PROVE  Presences' /\ Flags'
  <1>1. Presences'
    BY PresenceStays DEF Presences, PresenceTypes, installationVars, botVars, process
  <1>2. Flags'
    BY Zenon DEF Flags, installationVars
  <1>3. QED
    BY <1>1, <1>2

LEMMA ScenarioStays ==
  ASSUME InstallationStep PROVE UNCHANGED limits /\ mishaps' \in { mishaps, mishaps + 1 }
  BY DEF InstallationStep, Move, AskRefresh, Signal, Crash, CallFails, Gone, Login, StartService,
    Started, Deliver, PeriodicRefresh, AnswerRefresh, StoreInstalled, WriteStatus, StoreRemoved, DeleteStatus,
    CloseService, CloseHeartbeat, Exit, world

LEMMA PurchaseVarsStay ==
  ASSUME PurchasesTypeOK, UNCHANGED purchaseVars PROVE PurchasesTypeOK'
  BY DEF PurchasesTypeOK, purchaseVars

\* The steps of the bot, of requests and purchases, and of the user and the time.
LEMMA InvPresence == Inv /\ Presence => Inv'
  <1> SUFFICES ASSUME Inv, Presence PROVE Inv'
    OBVIOUS
  <1> USE DEF Inv, Presence
  <1>1. Presences' /\ Flags'
    BY PresenceStep, FlagsStep
  <1>2. /\ UNCHANGED limits /\ mishaps \in Nat /\ mishaps' \in Nat /\ mishaps <= mishaps'
        /\ UNCHANGED sales
    BY ScenarioStays DEF Presences, PresenceTypes, purchaseVars
  <1>3. CASE EndWithBot
    <2>1. Known' /\ RightsHold' /\ TokensHold'
      BY <1>2, <1>3, BotEndKnown, RightsBotEnd, TokensBotEnd DEF RequestsHold
    <2>2. Marks'
      BY <1>3, MarksStay DEF EndWithBot, RequestsHold, rights
    <2>3. KeysHold'
      <3>1. \A q \in Slots : request'[q] = request[q] \/ request'[q] = NoRequest(FirstKey)
        BY <1>3 DEF EndWithBot
      <3>2. \A q \in Slots : Stores(q)' => Stores(q) /\ request'[q] = request[q]
        BY <3>1, NoRequestTypes DEF Stores
      <3>3. UNCHANGED << stored, claimed, turn >>
        BY <1>3 DEF EndWithBot, rows
      <3>4. QED
        BY <3>2, <3>3, FewerStore DEF RequestsHold
    <2>4. SettingsTrailIsHistory'
      BY <1>3 DEF EndWithBot, rows, SettingsTrailIsHistory, RequestsHold
    <2>5. SalesHold'
      BY <1>2, <1>3, SalesBotEnd DEF RequestsHold
    <2>6. QED
      BY <1>1, <2>1, <2>2, <2>3, <2>4, <2>5, PurchaseVarsStay DEF RequestsHold
  <1>4. CASE UNCHANGED requestVars
    <2>1. RequestsHold'
      BY <1>2, <1>4, RequestsStay
    <2>2. SalesHold'
      BY <1>2, <1>4, SalesStay DEF requestVars
    <2>3. QED
      BY <1>1, <2>1, <2>2, PurchaseVarsStay
  <1>5. QED
    BY <1>3, <1>4

LEMMA RowOfRequest ==
  ASSUME row \in Rows, asked \in BOOLEAN, RequestStep
  PROVE  row' \in Rows /\ asked' \in BOOLEAN
  <1>1. row' \in { row, "listed" }
    BY DEF RequestStep, Submit, Claim, RequireSession, Authenticate, RequireBillingAdmin, Authorize,
       RequireManageGuild, LoadCredential, Renew, KeepCredential, Fetch, Receive, Abort, Sync, Check,
       LimitRefresh, RequestRefresh, RequireValidResources, Enqueue, Load, Commit, ListGuild
  <1>2. asked' \in { asked, TRUE }
    BY DEF RequestStep, Submit, Claim, RequireSession, Authenticate, RequireBillingAdmin, Authorize,
       RequireManageGuild, LoadCredential, Renew, KeepCredential, Fetch, Receive, Abort, Sync, Check,
       LimitRefresh, RequestRefresh, RequireValidResources, Enqueue, Load, Commit
  <1>3. asked' \in BOOLEAN
    BY Zenon, <1>2
  <1>4. QED
    BY <1>1, <1>3 DEF Rows

LEMMA InvRequests == Inv /\ Requests => Inv'
  <1> SUFFICES ASSUME Inv, Requests PROVE Inv'
    OBVIOUS
  <1>1. /\ RequestStep /\ UNCHANGED << rights, session, changes, limits, mishaps, purchaseVars, botVars, sales >>
        /\ mishaps \in Nat /\ manages \in BOOLEAN
    BY DEF Requests, RequestStep, botVars, purchaseVars, Inv, RequestsHold, Marks, Presences, PresenceTypes
  <1>2. Presences' /\ Flags'
    <2>1. row' \in Rows /\ asked' \in BOOLEAN
      BY <1>1, RowOfRequest DEF Inv, Presences, PresenceTypes, Flags
    <2>2. Presences'
      BY <1>1, <2>1, PresenceStays DEF Inv
    <2>3. Flags'
      BY Zenon, <1>1, <2>1 DEF Inv, Flags, botVars, process
    <2>4. QED
      BY <2>2, <2>3
  <1>3. PICK q \in Slots :
         \/ Submit(q) \/ Claim(q) \/ RequireSession(q) \/ Authenticate(q) \/ RequireBillingAdmin(q)
         \/ Authorize(q) \/ RequireManageGuild(q)
         \/ LoadCredential(q) \/ Renew(q) \/ KeepCredential(q)
         \/ Fetch(q) \/ Receive(q) \/ Abort(q) \/ Sync(q) \/ Check(q)
         \/ LimitRefresh(q) \/ RequestRefresh(q) \/ RequireValidResources(q) \/ Enqueue(q)
         \/ Load(q) \/ Commit(q)
    BY <1>1 DEF RequestStep
  <1>4. Known' /\ KeysHold' /\ RightsHold' /\ TokensHold' /\ SalesHold'
    BY <1>1, <1>3, RequestsKnown, KeysRequest, RightsRequest, TokensRequest, SalesRequest
    DEF Inv, RequestsHold
  <1>5. Marks' /\ SettingsTrailIsHistory'
    BY <1>1, <1>3, MarksRequest, TrailRequest DEF Inv, RequestsHold
  <1>6. QED
    BY <1>1, <1>2, <1>4, <1>5, PurchaseVarsStay DEF Inv, RequestsHold

LEMMA InvPurchases == Inv /\ Purchases => Inv'
  <1> SUFFICES ASSUME Inv, Purchases PROVE Inv'
    OBVIOUS
  <1>1. /\ UNCHANGED << rights, grant, session, tokens, claims, rows, submitted, changes,
                        limits, mishaps, installationVars >>
        /\ mishaps \in Nat
    BY DEF Purchases, PurchaseStep, installationVars, Inv, Presences, PresenceTypes
  <1>2. PICK q \in Slots :
         \/ RequireBotInGuild(q) \/ ClaimCooldown(q) \/ AssertCheckoutAllowed(q)
         \/ CheckCapabilities(q) \/ EnsureConfiguredPlan(q) \/ LookUp(q)
         \/ Create(q) \/ Sell(q) \/ Record(q) \/ Undo(q)
         \/ Manage(q) \/ AddBlock(q) \/ RevokeBlock(q)
    BY DEF Purchases, PurchaseStep
  <1>3. sales \in Seq(Sale) /\ Typed
    BY DEF Inv, PurchasesTypeOK, RequestsHold, Known
  <1>4. Known' /\ KeysHold' /\ RightsHold' /\ TokensHold' /\ SalesHold' /\ sales' \in Seq(Sale)
    BY <1>1, <1>2, <1>3, PurchasesKnown, KeysPurchase, RightsPurchase, TokensPurchase, SalesPurchase
    DEF Inv, RequestsHold
  <1>5. Marks' /\ SettingsTrailIsHistory'
    BY <1>1, MarksStay DEF Inv, RequestsHold, rights, claims, rows, SettingsTrailIsHistory
  <1>6. PurchasesTypeOK'
    BY <1>2, <1>3, <1>4, PurchaseTypes DEF Inv, PurchasesTypeOK
  <1>7. QED
    BY <1>1, <1>4, <1>5, <1>6, InstallationStays DEF Inv, RequestsHold

LEMMA InvCourse == Inv /\ Course => Inv'
  <1> SUFFICES ASSUME Inv, Course PROVE Inv'
    OBVIOUS
  <1>1. Settle /\ UNCHANGED << installationVars, requestVars, limits, mishaps >> /\ mishaps \in Nat
    BY DEF Course, Settle, installationVars, Inv, Presences, PresenceTypes
  <1>2. SalesHold' /\ sales' \in Seq(Sale)
    BY <1>1, SalesSettle DEF Inv, PurchasesTypeOK
  <1>3. PurchasesTypeOK'
    BY <1>1, <1>2 DEF Settle, Inv, PurchasesTypeOK
  <1>4. QED
    BY <1>1, <1>2, <1>3, RequestsStay, InstallationStays DEF Inv

LEMMA InvUser == Inv /\ User => Inv'
  <1> SUFFICES ASSUME Inv, User PROVE Inv'
    OBVIOUS
  <1>1. /\ UserStep /\ UNCHANGED << installationVars, purchaseVars, limits, mishaps >>
        /\ mishaps \in Nat /\ manages \in BOOLEAN
    BY DEF User, installationVars, Inv, Presences, PresenceTypes, RequestsHold, Marks
  <1>2. UNCHANGED << request, sales, stored, claimed, turn, version, trail >>
    BY <1>1 DEF UserStep, purchaseVars, claims, rows
  <1>3. Known' /\ Marks' /\ RightsHold' /\ TokensHold'
    BY <1>1, UserKnown, MarksUser, RightsUser, TokensUser DEF Inv, RequestsHold
  <1>4. KeysHold' /\ SettingsTrailIsHistory'
    BY <1>2 DEF Inv, RequestsHold, KeysHold, Stores, Taken, SubmittedOnce, SettingsTrailIsHistory
  <1>5. SalesHold'
    BY <1>2, SalesStay DEF Inv
  <1>6. QED
    BY <1>1, <1>3, <1>4, <1>5, PurchaseVarsStay, InstallationStays DEF Inv, RequestsHold

LEMMA InvMishap == Inv /\ Mishap => Inv'
  <1> SUFFICES ASSUME Inv, Mishap PROVE Inv'
    OBVIOUS
  <1>1. /\ mishaps \in Nat /\ mishaps' = mishaps + 1
        /\ UNCHANGED << botVars, row, asked, purchaseVars, limits, sales >>
    BY DEF Mishap, Inv, Presences, PresenceTypes, botVars, purchaseVars
  <1>2. PICK q \in Slots : RequestFails(q)
    BY DEF Mishap
  <1>3. /\ Ends(q) /\ UNCHANGED << manages, lost, grant, session, credential, issued, usable >>
        /\ UNCHANGED << claimed, turn, recently, cooldowns, version, trail, stored, submitted, changes >>
    BY <1>2 DEF RequestFails, rights, tokens, claims, rows
  <1>4. Known'
    <2>1. issued \in Nat /\ Typed /\ Slotted
      BY DEF Inv, RequestsHold, Known, Typed
    <2>2. Typed' /\ Slotted'
      BY <1>3, <2>1, EndsKnown
    <2>3. QED
      BY <1>3, <2>2, KnownStays DEF Inv, RequestsHold, rows
  <1>5. Marks' /\ SettingsTrailIsHistory'
    BY <1>3, MarksStay DEF Inv, RequestsHold, SettingsTrailIsHistory
  <1>6. RightsHold' /\ KeysHold' /\ SalesHold'
    BY <1>1, <1>3, RightsEnd, KeysEnd, SalesEnd DEF Inv, RequestsHold
  <1>7. TokensHold'
    <2>1. mishaps' \in Nat /\ mishaps <= mishaps' /\ mishaps' # 0
      BY <1>1
    <2>2. QED
      BY <1>1, <1>3, <2>1, TokensEnd DEF Inv, RequestsHold
  <1>8. Presences'
    BY <1>1, PresenceStays DEF Inv, Presences, PresenceTypes
  <1>9. Flags'
    BY Zenon, <1>1 DEF Inv, Flags, botVars, process
  <1>10. QED
    BY <1>1, <1>4, <1>5, <1>6, <1>7, <1>8, <1>9, PurchaseVarsStay DEF Inv, RequestsHold

LEMMA InvClock == Inv /\ Clock => Inv'
  <1> SUFFICES ASSUME Inv, Clock PROVE Inv'
    OBVIOUS
  <1>1. Presences' /\ Flags'
    BY PresenceAges, FlagsAge DEF Inv, Clock
  <1>2. /\ RequestsAge /\ UNCHANGED << limits, mishaps, sales, plan, blocks >>
        /\ cooling' = Less(cooling) /\ mishaps \in Nat /\ manages \in BOOLEAN
    BY DEF Clock, TimePasses, Tick, world, PurchasesAge, Inv, Presences, PresenceTypes, RequestsHold, Marks
  <1>3. Known' /\ Marks' /\ RightsHold' /\ TokensHold' /\ SalesHold'
    BY <1>2, AgeKnown, MarksAge, RightsAge, TokensAge, SalesAge DEF Inv, RequestsHold
  <1>4. KeysHold'
    BY <1>2, KeysAge DEF Inv, RequestsHold
  <1>5. SettingsTrailIsHistory'
    BY <1>2 DEF Inv, RequestsHold, SettingsTrailIsHistory, RequestsAge, rows
  <1>6. PurchasesTypeOK'
    BY <1>2, Bounds DEF Inv, PurchasesTypeOK, Less
  <1>7. QED
    BY <1>1, <1>3, <1>4, <1>5, <1>6 DEF Inv, RequestsHold

LEMMA InvStep == Inv /\ [Next]_vars => Inv'
  <1> SUFFICES ASSUME Inv, [Next]_vars PROVE Inv'
    OBVIOUS
  <1>1. CASE UNCHANGED vars
    <2>1. /\ UNCHANGED << installationVars, requestVars, purchaseVars, limits, mishaps, request, sales >>
          /\ mishaps \in Nat
      BY <1>1 DEF vars, installationVars, requestVars, purchaseVars, Inv, Presences, PresenceTypes
    <2>2. QED
      BY <2>1, InstallationStays, RequestsStay, SalesStay, PurchaseVarsStay DEF Inv
  <1>2. QED
    BY <1>1, InvPresence, InvRequests, InvPurchases, InvCourse, InvUser, InvMishap, InvClock DEF Next

\* The invariant that all of the theorems below follow from, for every step of the
\* bot, a request, a purchase, the user and the time.
THEOREM InvHolds == Spec => []Inv
  BY InvInit, InvStep, PTL DEF Spec

-------------------------------------------------------------------------------
(***************************************************************************)
(* What follows.                                                           *)
(***************************************************************************)
LEMMA InvTypes == Inv => TypeOK
  <1> SUFFICES ASSUME Inv PROVE TypeOK
    OBVIOUS
  <1>1. InstallationTypeOK
    BY DEF Inv, Presences, PresenceTypes, Flags, Refreshes, InstallationTypeOK
  <1>2. RequestsTypeOK
    BY DEF Inv, RequestsHold, Known, Typed, Marks, RequestsTypeOK
  <1>3. QED
    BY <1>1, <1>2 DEF Inv, TypeOK

\* Every variable of the bot's presence, of the requests and of the sales has its
\* type, so that the times stay within their bounds and a request takes only the
\* steps of a handler.
THEOREM TypeCorrect == Spec => []TypeOK
  BY InvHolds, InvTypes, PTL

\* A guild is shown as online only if the bot saw it within the time a status
\* lives and a refresh takes, whatever crashes, removals and overlapping refreshes
\* come between (guild-status.ts:286-294).
THEOREM OnlineIsRecentAlways == Spec => []OnlineIsRecent
  <1>1. Inv => OnlineIsRecent
    BY RecentFollows DEF Inv
  <1>2. QED
    BY InvHolds, <1>1, PTL

\* A request passes the check of a user's rights only if the user managed the guild
\* within the lifetime of a grant and the time of a fetch, in whatever order lists
\* of guilds arrive and are stored (guild-access.ts:13-51).
THEOREM AccessIsRecentAlways == Spec => []AccessIsRecent
  <1>1. Inv => AccessIsRecent
    BY RightsRecent DEF Inv, RequestsHold
  <1>2. QED
    BY InvHolds, <1>1, PTL

\* However often and whenever a form is submitted, and whatever fails, its change is
\* stored at most once for every time that its key was free (actions/guild.ts:29-36).
THEOREM SubmittedOnceAlways == Spec => []SubmittedOnce
  <1>1. Inv => SubmittedOnce
    BY DEF Inv, RequestsHold, KeysHold
  <1>2. QED
    BY InvHolds, <1>1, PTL

\* The audit log of the settings is their history: no update is lost or comes
\* twice, by whatever way it is made (guild-repository.ts:32-73).
THEOREM SettingsTrailAlways == Spec => []SettingsTrailIsHistory
  <1>1. Inv => SettingsTrailIsHistory
    BY DEF Inv, RequestsHold
  <1>2. QED
    BY InvHolds, <1>1, PTL

\* While nothing fails, requests that renew the access token at the same time never
\* leave a refresh token that Discord refuses, whether it rotates the tokens, adds
\* to them or keeps them (discord-oauth.ts:99-141).
THEOREM CredentialSurvivesAlways == Spec => []CredentialSurvives
  <1>1. Inv => CredentialSurvives
    BY DEF Inv, RequestsHold, TokensHold
  <1>2. QED
    BY InvHolds, <1>1, PTL

\* There are never two sales of a guild that the customer has paid for or can still
\* pay for, however many checkouts overlap and fail (checkout.ts:93-195).
THEOREM OneSaleAlways == Spec => []OneSale
  <1>1. Inv => OneSale
    BY SalesOne DEF Inv
  <1>2. QED
    BY InvHolds, <1>1, PTL
===============================================================================
