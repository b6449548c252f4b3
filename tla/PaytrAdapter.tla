------------------------------ MODULE PaytrAdapter ------------------------------
(***************************************************************************)
(* PaytrBillingProvider (packages/billing/src/providers/paytr.ts): the     *)
(* event a callback becomes.                                               *)
(*                                                                         *)
(* PayTR sells single periods.  A callback names the order, which is the   *)
(* checkout; the event id is made of the order alone, its time is that of  *)
(* the receipt, and the period it pays starts there.  The set of events is *)
(* empty when the adapter throws.                                          *)
(***************************************************************************)
EXTENDS ProviderEvents

CONSTANT Paytr  \* how the deployment configured the adapter

ASSUME PaytrAssumption == Paytr \in [ production : BOOLEAN, credentials : BOOLEAN ]

\* `hashValid' says whether `hash' is the HMAC of the order, the status and the
\* total; `fieldsOnce' whether no field occurs twice and all have their form;
\* `amount' how payment_amount and the currency compare with the plan snapshot
\* of the purchase, `total' whether total_amount is that amount.
Callback ==
  [ order : EventIds, body : Nat, status : { "success", "failed" },
    hashValid : BOOLEAN, fieldsOnce : BOOLEAN, test : BOOLEAN,
    amount : { "match", "mismatch", "absent" }, total : BOOLEAN ]

\* The callback is PayTR's own, and of this deployment's environment.
Authentic(c) ==
  /\ Paytr.credentials
  /\ c.fieldsOnce
  /\ c.hashValid
  /\ c.test = ~Paytr.production

\* addCalendarMonth: the billing month is the unit of time.
Month == 1

CallbackEvent(c, receivedAt, type) ==
  [ id |-> c.order, hash |-> c.body, type |-> type, at |-> receivedAt, checkout |-> TRUE,
    end |-> Undefined, amount |-> "absent", fullRefund |-> FALSE,
    retrievedStatus |-> "ACTIVE", retrievedPayment |-> "SUCCEEDED" ]

OrderPaid(c, receivedAt) ==
  [ CallbackEvent(c, receivedAt, "activated") EXCEPT
      !.end = receivedAt + Month, !.amount = c.amount ]

\* verifyAndParseWebhook of a callback received at the given time.
PaytrEvents(c, receivedAt) ==
  IF ~Authentic(c) THEN {}
  ELSE IF c.status = "failed" THEN { CallbackEvent(c, receivedAt, "payment_failed") }
  ELSE IF c.amount # "absent" /\ c.total THEN { OrderPaid(c, receivedAt) }
  ELSE {}
===============================================================================
