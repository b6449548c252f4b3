------------------------- MODULE SubscriptionLifecycle -------------------------
(***************************************************************************)
(* What the billing subsystem promises about one subscription, whoever     *)
(* writes it and in whatever order: the status moves along the reviewed    *)
(* transition table only, so that EXPIRED and REFUNDED are final; a        *)
(* confirmed payment stays confirmed; and premium is on only for a         *)
(* purchase whose payment was confirmed, in a status that may grant it     *)
(* (docs/billing-architecture.md, "State and entitlement rules").          *)
(***************************************************************************)
EXTENDS SubscriptionStates

VARIABLES
  status,   \* the subscription's status
  paid,     \* a payment of it was confirmed at some time
  premium   \* its entitlements are active

lifecycleVars == << status, paid, premium >>

MayGrant == { "ACTIVE", "CANCELLED", "GRACE_PERIOD" }

LifecycleInit ==
  /\ status = "PENDING"
  /\ paid = FALSE
  /\ premium = FALSE

Move(next) ==
  /\ CanTransition(status, next)
  /\ status' = next
  /\ paid' \in { paid, TRUE }
  /\ premium' \in { FALSE, paid' /\ next \in MayGrant }

LifecycleNext == \E next \in Statuses : Move(next)

LifecycleSpec == LifecycleInit /\ [][LifecycleNext]_lifecycleVars
===============================================================================
