------------------------- MODULE OnboardingRepository -------------------------
(***************************************************************************)
(* OnboardingRepository (packages/onboarding/src/repository.ts): the       *)
(* GuildOnboardingConfig row of one guild and the transactions that write  *)
(* it.                                                                     *)
(*                                                                         *)
(* Each of them reads the row, checks it and writes it, at the isolation   *)
(* level READ COMMITTED: another transaction may commit between the read   *)
(* and the write.  So the check and the write are operators of their own,  *)
(* and a transaction is two steps of its actor.  The updateMany of #update *)
(* and of beginVerificationSetup repeats the version check; the other      *)
(* writes are unconditional.                                               *)
(***************************************************************************)
EXTENDS Naturals, FiniteSets

CONSTANT Resources  \* Discord channels, roles and messages

VARIABLE config

Healths == { "NOT_CONFIGURED", "PENDING", "HEALTHY", "PARTIAL", "BROKEN" }

\* `edited' is the version that the last edit of a section produced: it stands
\* for the contents of the sections.
ConfigRow ==
  [ version : Nat, health : Healths, edited : Nat, resources : SUBSET Resources ]

RepositoryTypeOK == config \in ConfigRow

RepositoryInit ==
  config = [ version |-> 1, health |-> "NOT_CONFIGURED", edited |-> 1, resources |-> {} ]

\* (mutant) a write that forgets to increment the version
NextRowSameVersion(health, edited, resources) ==
  [ version |-> config.version, health |-> health, edited |-> edited,
    resources |-> resources ]

NextRow(health, edited, resources) ==
  [ version |-> config.version + 1, health |-> health, edited |-> edited,
    resources |-> resources ]

-------------------------------------------------------------------------------
\* What the transactions check on the row they read.

\* (mutant) a configuration may be edited while its setup is in progress
NotOutdated(expected) == config.version = expected

MayChange(expected) ==
  /\ config.health # "PENDING"
  /\ config.version = expected

\* (mutant) any transaction may end the setup
AnyoneOwns(pending) == TRUE

Owns(pending) ==
  /\ config.version = pending
  /\ config.health = "PENDING"

Names(x) == x \in config.resources

-------------------------------------------------------------------------------
\* What they write.

\* (mutant) the update does not repeat the version check
AnyRow(expected) == TRUE

\* updateMany's condition; without a match the transaction is rolled back.
SameRow(expected) == config.version = expected

EditSections ==
  config' = NextRow(config.health, config.version + 1, config.resources)

BeginSetup == config' = NextRow("PENDING", config.edited, config.resources)

CompleteSetup(resources) == config' = NextRow("HEALTHY", config.edited, resources)

\* (mutant) the status of an event instead of a health
FailSetupAsEvent(partial) ==
  config' = NextRow(IF partial THEN "PARTIAL" ELSE "FAILED", config.edited,
                    config.resources)

FailSetup(partial) ==
  config' = NextRow(IF partial THEN "PARTIAL" ELSE "BROKEN", config.edited,
                    config.resources)

MarkDeleted == config' = NextRow("BROKEN", config.edited, config.resources)
===============================================================================
