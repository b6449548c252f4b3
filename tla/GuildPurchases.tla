------------------------------ MODULE GuildPurchases ------------------------------
(***************************************************************************)
(* Requests that buy a subscription for the guild, manage it, or block     *)
(* purchases: BillingCheckoutService.createCheckout, one step for every    *)
(* await, among all that may happen between two of them.                   *)
(*                                                                         *)
(* What becomes of a sale once the customer has paid is the matter of      *)
(* Billing; here the sale has run its course (Settle) at some time.        *)
(***************************************************************************)
EXTENDS GuildRequests

CONSTANTS
  Busy,      \* checkouts of a guild that are too many in one hour (5)
  Cooldown   \* periods between checkouts of a user and a guild through the API (30 s)

ASSUME PurchasesAssumption ==
  /\ { Busy, Cooldown } \subseteq Nat
  /\ \A set \in Limits :
       /\ set.shop \in { "closed", "STRIPE", "PAYTR" }
       /\ set.plan \in { "none", "configured", "drifted" }
       /\ set.blocked \in BOOLEAN

VARIABLES
  sales,     \* subscriptions and their checkout sessions, in the order of creation
  plan,      \* the BillingPlan of the configured code
  blocks,    \* ACTIVE BillingRiskBlocks of the user and the guild
  cooling    \* periods for which 'billing-checkout-cooldown' stays claimed

purchaseVars == << sales, plan, blocks, cooling >>

\* "handed" is whether the customer has got what a payment needs: the URL of the
\* provider's page, or the token of its frame.
Sale ==
  [ status : { "PENDING", "ACTIVE", "CANCELLED", "EXPIRED" },
    checkout : { "CREATED", "PROVIDER_PENDING", "COMPLETED", "FAILED", "EXPIRED" },
    handed : BOOLEAN ]

Created == [ status |-> "PENDING", checkout |-> "CREATED", handed |-> FALSE ]

PurchasesTypeOK ==
  /\ sales \in Seq(Sale)
  /\ plan \in { "none", "configured", "drifted" }
  /\ blocks \subseteq Keys
  /\ cooling \in 0 .. Cooldown

PurchasesInit ==
  /\ sales = << >>
  /\ plan = limits.plan
  /\ blocks = IF limits.blocked THEN { FirstKey } ELSE {}
  /\ cooling = 0

Effective(sale) == sale.status \in { "PENDING", "ACTIVE", "CANCELLED" }

-------------------------------------------------------------------------------
(***************************************************************************)
(* The guards of a checkout.                                               *)
(***************************************************************************)
Installed == row \in Permissions

RequireBotInGuild(q) ==
  /\ Does(q, "installed")
  /\ Demands(q, Installed)
  /\ UNCHANGED purchaseVars

ClaimCooldown(q) ==
  /\ Does(q, "cooldown")
  /\ Demands(q, cooling = 0)
  /\ cooling' = IF cooling = 0 THEN Cooldown ELSE cooling
  /\ UNCHANGED << sales, plan, blocks >>

\* Billing and the provider are enabled; there is no block, and the checkouts of
\* the last hour are not too many.  All checkouts here are of that hour.
AssertCheckoutAllowed(q) ==
  /\ Does(q, "risk")
  /\ Demands(q, limits.shop # "closed" /\ blocks = {} /\ Len(sales) < Busy)
  /\ UNCHANGED purchaseVars

\* Stripe is asked for the price, which is the plan's, or is not; PayTR's
\* capabilities are configured.
StripeIsReady(price) == price = "plan"
PaytrIsReady         == TRUE

CheckCapabilities(q) ==
  /\ Does(q, "ready")
  /\ \E price \in { "plan", "other" } :
       Demands(q, IF limits.shop = "STRIPE" THEN StripeIsReady(price) ELSE PaytrIsReady)
  /\ UNCHANGED purchaseVars

\* The plan is created unless there is one, which must then be as configured.
EnsureConfiguredPlan(q) ==
  /\ Does(q, "plan")
  /\ plan' = IF plan = "none" THEN "configured" ELSE plan
  /\ Demands(q, plan' = "configured")
  /\ UNCHANGED << sales, blocks, cooling >>

NothingEffective == \A i \in DOMAIN sales : ~ Effective(sales[i])

LookUp(q) ==
  /\ Does(q, "look")
  /\ Demands(q, Installed /\ NothingEffective)
  /\ UNCHANGED purchaseVars

-------------------------------------------------------------------------------
(***************************************************************************)
(* The sale.                                                               *)
(***************************************************************************)
\* (mutant) The database has no such index.
Unindexed == TRUE

\* The index GuildSubscription_one_effective_per_guild.
Unique == NothingEffective

\* The subscription and its checkout are created, unless there has come another.
Create(q) ==
  /\ Does(q, "create")
  /\ IF Unique
     THEN /\ sales' = Append(sales, Created)
          /\ Proceeds(q, [ request[q] EXCEPT !.read = Len(sales') ])
     ELSE Ends(q) /\ UNCHANGED sales
  /\ UNCHANGED << plan, blocks, cooling >>

\* What a provider's createCheckout may answer: a session, or it throws.  PayTR
\* wants to know the customer.
StripeAnswers         == { "session", "error" }
PaytrAnswers(contact) == IF contact THEN { "session", "error" } ELSE { "error" }

Sell(q) ==
  /\ Does(q, "sell")
  /\ \E contact \in BOOLEAN :
       \E answer \in IF limits.shop = "STRIPE" THEN StripeAnswers ELSE PaytrAnswers(contact) :
         Becomes(q, [ request[q] EXCEPT !.todo = IF answer = "session" THEN << "record" >>
                                                  ELSE << "undo" >> ])
  /\ UNCHANGED purchaseVars

Updated(i, status, checkout, handed) ==
  sales' = [ sales EXCEPT ![i] = [ status |-> status, checkout |-> checkout, handed |-> handed ] ]

\* The session is recorded and handed to the customer, or that fails.
Record(q) ==
  /\ Does(q, "record")
  /\ LET i == request[q].read
     IN  \/ Updated(i, sales[i].status, "PROVIDER_PENDING", TRUE) /\ Ends(q)
         \/ Becomes(q, [ request[q] EXCEPT !.todo = << "undo" >> ]) /\ UNCHANGED sales
  /\ UNCHANGED << plan, blocks, cooling >>

\* The subscription is cancelled, which leaves it effective.
Undo(q) ==
  /\ Does(q, "undo")
  /\ Updated(request[q].read, "CANCELLED", "FAILED", FALSE)
  /\ Ends(q)
  /\ UNCHANGED << plan, blocks, cooling >>

\* The customer pays and the provider says so, or the checkout and the subscription
\* run out, all in a time that is long compared with a request.  A payment that is
\* under way while its sale runs out is not modelled: the sale stays EXPIRED.
Settle ==
  /\ \A q \in Slots : ~ Does(q, "sell") /\ ~ Does(q, "record") /\ ~ Does(q, "undo")
  /\ \E i \in DOMAIN sales :
       \/ /\ sales[i].status = "PENDING" /\ sales[i].handed
          /\ Updated(i, "ACTIVE", "COMPLETED", TRUE)
       \/ /\ sales[i].status \in { "PENDING", "ACTIVE" }
          /\ Updated(i, "EXPIRED", IF sales[i].status = "ACTIVE" THEN "COMPLETED" ELSE "EXPIRED",
                     sales[i].handed)
  /\ UNCHANGED << plan, blocks, cooling, requestVars >>

-------------------------------------------------------------------------------
(***************************************************************************)
(* Management and staff.                                                   *)
(***************************************************************************)

\* cancelAtPeriodEnd and resume ask for an idempotency key that is refused, so they
\* throw before they reach the provider; a portal changes nothing; and what a
\* reconciliation changes is the matter of ProviderReconciliation.
Manage(q) ==
  /\ Does(q, "manage")
  /\ Ends(q)
  /\ UNCHANGED purchaseVars

\* A block is named for the form that has asked for it.
AddBlock(q) ==
  /\ Does(q, "block")
  /\ blocks' = blocks \cup { request[q].key }
  /\ Ends(q)
  /\ UNCHANGED << sales, plan, cooling >>

\* Whoever has read that a block is ACTIVE revokes it, perhaps once more.
RevokeBlock(q) ==
  /\ Does(q, "unblock")
  /\ \E block \in Keys : blocks' = blocks \ { block }
  /\ Ends(q)
  /\ UNCHANGED << sales, plan, cooling >>

PurchaseStep ==
  /\ \E q \in Slots :
       \/ RequireBotInGuild(q) \/ ClaimCooldown(q) \/ AssertCheckoutAllowed(q)
       \/ CheckCapabilities(q) \/ EnsureConfiguredPlan(q) \/ LookUp(q)
       \/ Create(q) \/ Sell(q) \/ Record(q) \/ Undo(q)
       \/ Manage(q) \/ AddBlock(q) \/ RevokeBlock(q)
  /\ UNCHANGED << rights, grant, session, tokens, claims, rows, submitted, changes >>

PurchasesAge == cooling' = Less(cooling) /\ UNCHANGED << sales, plan, blocks >>

-------------------------------------------------------------------------------
(***************************************************************************)
(* Properties.                                                             *)
(***************************************************************************)
CanBePaid(sale) == sale.handed /\ Effective(sale)

\* However checkouts of a guild overlap and fail, on the dashboard and through the
\* API, there are never two that are in force or still open to a customer who has
\* got the page to pay on (checkout.ts:93-195, migration 20260728000100:283-294).
\* A sale that has run out is not counted, though its page may still be open.
OneSale ==
  \A i, j \in DOMAIN sales : CanBePaid(sales[i]) /\ CanBePaid(sales[j]) => i = j
===============================================================================
