--------------------------- MODULE OnboardingJournal ---------------------------
(***************************************************************************)
(* OnboardingEventJournal (packages/onboarding/src/event-journal.ts): one  *)
(* OnboardingEvent row per idempotency key, claimed by a run of the job    *)
(* before it does anything, and settled by it; the worker deletes old rows *)
(* every day (cleanupOnboardingEvents of apps/worker/src/index.ts).        *)
(***************************************************************************)
EXTENDS Naturals

CONSTANT Keys  \* idempotency keys

VARIABLES
  journal,  \* OnboardingEvent.status, by key; "NONE" while there is no row
  recent,   \* whether a claim is younger than staleAfterMs
  cleaned   \* how often a key's row was deleted

journalVars == << journal, recent, cleaned >>

EventStatuses == { "NONE", "PROCESSING", "SUCCEEDED", "SKIPPED", "FAILED" }

JournalTypeOK ==
  /\ journal \in [ Keys -> EventStatuses ]
  /\ recent \in [ Keys -> BOOLEAN ]
  /\ cleaned \in [ Keys -> Nat ]

JournalInit ==
  /\ journal = [ k \in Keys |-> "NONE" ]
  /\ recent = [ k \in Keys |-> FALSE ]
  /\ cleaned = [ k \in Keys |-> 0 ]

WasClaimed(k) == journal[k] # "NONE" \/ cleaned[k] > 0

\* (mutant) the row is claimed whatever it says
ClaimableAgain(k) == journal[k] # "PROCESSING" \/ ~recent[k]

\* The row is created PENDING if need be; the conditional update then decides.
Claimable(k) ==
  \/ journal[k] \in { "NONE", "FAILED" }
  \/ journal[k] = "PROCESSING" /\ ~recent[k]

Claim(k) ==
  /\ Claimable(k)
  /\ journal' = [ journal EXCEPT ![k] = "PROCESSING" ]
  /\ recent' = [ recent EXCEPT ![k] = TRUE ]
  /\ UNCHANGED cleaned

\* complete and fail do not look at the row, but throw if it is not there.
Settle(k, status) ==
  /\ journal[k] # "NONE"
  /\ journal' = [ journal EXCEPT ![k] = status ]
  /\ UNCHANGED << recent, cleaned >>

\* The claim passes the age at which another run may take it over.
ClaimAges(k) ==
  /\ journal[k] = "PROCESSING"
  /\ recent[k]
  /\ recent' = [ recent EXCEPT ![k] = FALSE ]
  /\ UNCHANGED << journal, cleaned >>

\* A row that occurred before the history the plan keeps, which may be none, is
\* deleted, whatever it says.
Cleanup(k) ==
  /\ journal[k] # "NONE"
  /\ journal' = [ journal EXCEPT ![k] = "NONE" ]
  /\ recent' = [ recent EXCEPT ![k] = FALSE ]
  /\ cleaned' = [ cleaned EXCEPT ![k] = @ + 1 ]
===============================================================================
