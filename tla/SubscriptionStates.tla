-------------------------- MODULE SubscriptionStates --------------------------
(***************************************************************************)
(* The pure part of @sufbot/billing: the statuses a guild subscription     *)
(* moves through, the transition table, and the rule that decides whether  *)
(* a subscription row grants premium at a given instant                    *)
(* (packages/billing/src/state-machine.ts).                                *)
(*                                                                         *)
(* Instants are naturals.  A date column that may be NULL holds Never when *)
(* it is NULL; every real instant is later than Never, which makes the     *)
(* code's "not null and greater than `at'" the single comparison "> at".   *)
(***************************************************************************)
EXTENDS Naturals

Never == 0

Statuses == { "PENDING", "INCOMPLETE", "ACTIVE", "PAST_DUE", "GRACE_PERIOD",
              "SUSPENDED", "CANCELLED", "EXPIRED", "DISPUTED", "REFUNDED" }

PaymentStatuses == { "PENDING", "SUCCEEDED", "FAILED", "REFUNDED",
                     "PARTIALLY_REFUNDED", "DISPUTED", "REVERSED", "UNKNOWN" }

\* A subscription for which no money has been confirmed yet.
Unpaid == { "PENDING", "INCOMPLETE" }

allowedTransitions ==
  [ PENDING      |-> { "INCOMPLETE", "ACTIVE", "CANCELLED", "EXPIRED" },
    INCOMPLETE   |-> { "ACTIVE", "EXPIRED", "CANCELLED" },
    ACTIVE       |-> { "PAST_DUE", "GRACE_PERIOD", "SUSPENDED", "CANCELLED",
                       "DISPUTED", "REFUNDED", "EXPIRED" },
    PAST_DUE     |-> { "ACTIVE", "GRACE_PERIOD", "SUSPENDED", "CANCELLED", "DISPUTED" },
    GRACE_PERIOD |-> { "ACTIVE", "SUSPENDED", "CANCELLED", "EXPIRED", "DISPUTED" },
    SUSPENDED    |-> { "ACTIVE", "CANCELLED", "EXPIRED", "DISPUTED", "REFUNDED" },
    CANCELLED    |-> { "ACTIVE", "EXPIRED", "REFUNDED" },
    EXPIRED      |-> {},
    DISPUTED     |-> { "ACTIVE", "SUSPENDED", "CANCELLED", "REFUNDED" },
    REFUNDED     |-> {} ]

CanTransition(current, next) ==
  \/ current = next
  \/ next \in allowedTransitions[current]

PaidPeriodRuns(row, at) ==
  /\ row.status \in { "ACTIVE", "CANCELLED" }
  /\ row.payment = "SUCCEEDED"
  /\ row.periodEnd > at

GraceRuns(row, at) ==
  /\ row.status = "GRACE_PERIOD"
  /\ row.graceEnd > at

\* subscriptionGrantsPremium(...).grants and .endsAt
GrantsPremium(row, at) == PaidPeriodRuns(row, at) \/ GraceRuns(row, at)

GrantEnd(row, at) ==
  IF PaidPeriodRuns(row, at) THEN row.periodEnd ELSE row.graceEnd
===============================================================================
