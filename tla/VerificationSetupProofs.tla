------------------------ MODULE VerificationSetupProofs ------------------------
(***************************************************************************)
(* Theorems of VerificationSetup, for any number of requests, attempts,    *)
(* restarts and resources.  All but SetupsOfOthersSurvive hold whatever    *)
(* fails.                                                                  *)
(*                                                                         *)
(* They come from the way versions are used: a write makes a               *)
(* version that nobody has seen, so a version that a request has seen, and *)
(* that is still the row's, names the contents and the health it saw.      *)
(***************************************************************************)
EXTENDS VerificationSetup, TLAPS

LEMMA RowWritten ==
  ASSUME RepositoryTypeOK, NEW h \in Healths, NEW e \in Nat, NEW r \in SUBSET Resources,
         config' = NextRow(h, e, r)
  PROVE  /\ RepositoryTypeOK'
         /\ config'.version = config.version + 1
         /\ config'.health = h
         /\ config'.edited = e
         /\ config'.resources = r
  BY DEF RepositoryTypeOK, ConfigRow, NextRow

-------------------------------------------------------------------------------
LEMMA InitTypeOK == Init => TypeOK
  BY SetupAssumption
     DEF Init, TypeOK, RepositoryInit, RepositoryTypeOK, ConfigRow, Healths, JournalInit,
         JournalTypeOK, EventStatuses, ApiStates, JobStates, RunStates, Held, NothingHeld

\* The worker's part of the type.
WorkerTypeOK ==
  /\ job \in [ Requests -> JobStates ]
  /\ attempts \in [ Requests -> Nat ]
  /\ stalled \in [ Requests -> BOOLEAN ]
  /\ run \in [ Requests -> RunStates ]
  /\ held \in [ Requests -> Held ]
  /\ JournalTypeOK

LEMMA TypeParts == TypeOK => WorkerTypeOK
  BY DEF TypeOK, WorkerTypeOK

LEMMA RequestsKeepType ==
  ASSUME TypeOK, NEW q \in Requests, Open(q) \/ Submit(q) \/ RequestStep(q)
  PROVE  TypeOK'
<1>1. config.version \in Nat /\ config.edited \in Nat /\ config.health \in Healths
      /\ config.resources \in SUBSET Resources
  BY DEF TypeOK, RepositoryTypeOK, ConfigRow
<1>2. CASE Open(q)
  BY <1>1, <1>2 DEF Open, Moves, TypeOK, RepositoryTypeOK, JournalTypeOK, ApiStates,
                    jobVars, discordVars
<1>3. CASE Submit(q)
  BY <1>3 DEF Submit, Moves, TypeOK, RepositoryTypeOK, JournalTypeOK, ApiStates,
              jobVars, discordVars
<1>4. CASE CommitEdit(q)
  <2>1. RepositoryTypeOK'
    BY <1>1, <1>4, RowWritten DEF CommitEdit, EditSections, TypeOK
  <2>2. QED
    BY <1>4, <2>1 DEF CommitEdit, Moves, TypeOK, JournalTypeOK, ApiStates, jobVars,
                      discordVars
<1>5. CASE CommitBegin(q)
  <2>1. RepositoryTypeOK' /\ config'.version \in Nat
    BY <1>1, <1>5, RowWritten DEF CommitBegin, BeginSetup, Healths, TypeOK
  <2>2. QED
    BY <1>5, <2>1 DEF CommitBegin, Moves, TypeOK, JournalTypeOK, ApiStates, jobVars,
                      discordVars
<1>6. CASE Conflict(q)
  BY <1>6 DEF Conflict, Moves, TypeOK, RepositoryTypeOK, JournalTypeOK, ApiStates,
              jobVars, discordVars
<1>7. CASE Enqueue(q)
  BY <1>7 DEF Enqueue, Moves, TypeOK, RepositoryTypeOK, JournalTypeOK, ApiStates,
              JobStates, discordVars
<1>8. CASE EnqueueFails(q)
  BY <1>8 DEF EnqueueFails, Moves, TypeOK, RepositoryTypeOK, JournalTypeOK, ApiStates,
              JobStates, discordVars
<1>9. CASE Undo(q)
  BY <1>9 DEF Undo, Moves, TypeOK, RepositoryTypeOK, JournalTypeOK, ApiStates,
              jobVars, discordVars
<1>10. CASE CommitUndo(q)
  <2>1. RepositoryTypeOK'
    BY <1>1, <1>10, RowWritten DEF CommitUndo, FailSetup, Healths, TypeOK
  <2>2. QED
    BY <1>10, <2>1 DEF CommitUndo, Moves, TypeOK, JournalTypeOK, ApiStates, jobVars,
                       discordVars
<1>11. CASE RequestDies(q)
  BY <1>11 DEF RequestDies, Moves, TypeOK, RepositoryTypeOK, JournalTypeOK, ApiStates,
               jobVars, discordVars
<1>12. QED
  BY <1>2, <1>3, <1>4, <1>5, <1>6, <1>7, <1>8, <1>9, <1>10, <1>11 DEF RequestStep

\* How a run goes on, and how its job ends.
LEMMA GivesKeepsType ==
  ASSUME TypeOK, NEW q \in Requests, NEW h \in Held, NEW state \in RunStates,
         Gives(q, h, state)
  PROVE  TypeOK'
  BY DEF Gives, Holds, Reaches, TypeOK, RepositoryTypeOK, JournalTypeOK, requestVars,
         discordVars

LEMMA JobEndsKeepsType ==
  ASSUME WorkerTypeOK, NEW q \in Requests, JobCompletes(q) \/ JobThrows(q), JournalTypeOK'
  PROVE  WorkerTypeOK'
<1>1. NothingHeld \in Held
  BY DEF NothingHeld, Held
<1>2. MaxAttempts \in Nat
  BY SetupAssumption
<1>3. CASE JobCompletes(q)
  BY <1>1, <1>3 DEF JobCompletes, Reaches, Holds, WorkerTypeOK, JobStates, RunStates
<1>4. CASE JobThrows(q)
  BY <1>1, <1>2, <1>4 DEF JobThrows, Reaches, Holds, WorkerTypeOK, JobStates, RunStates
<1>5. QED
  BY <1>3, <1>4

LEMMA SettleKeepsType ==
  ASSUME JournalTypeOK, NEW q \in Requests, NEW s \in EventStatuses, Settle(q, s)
  PROVE  JournalTypeOK'
  BY DEF Settle, JournalTypeOK

LEMMA HeldWith ==
  ASSUME NEW h \in Held, NEW x \in Resources, NEW creates \in BOOLEAN
  PROVE  WithResource(h, x, creates) \in Held
  BY DEF WithResource, Held

LEMMA TakesKeepsType ==
  ASSUME TypeOK, NEW q \in Requests, NEW x \in Resources, NEW creates \in BOOLEAN,
         NEW state \in RunStates, Takes(q, x, creates, state)
  PROVE  TypeOK'
<1>1. WithResource(held[q], x, creates) \in Held
  BY HeldWith DEF TypeOK
<1>2. QED
  BY <1>1 DEF Takes, Holds, Reaches, TypeOK, RepositoryTypeOK, JournalTypeOK, requestVars

LEMMA WorkerKeepsType ==
  ASSUME TypeOK, NEW q \in Requests, BotStep(q)
  PROVE  TypeOK'
<1>1. config.version \in Nat /\ config.edited \in Nat /\ config.health \in Healths
      /\ config.resources \in SUBSET Resources
  BY DEF TypeOK, RepositoryTypeOK, ConfigRow
<1>2. held[q] \in Held /\ held[q].resources \in SUBSET Resources
      /\ held[q].ends \in { "SKIPPED", "FAILED" }
  BY DEF TypeOK, Held
<1>3. \A ends \in { "SKIPPED", "FAILED" } : [ held[q] EXCEPT !.ends = ends ] \in Held
  BY <1>2 DEF Held
<1>4. CASE Take(q)
  BY <1>4 DEF Take, Reaches, TypeOK, RepositoryTypeOK, JournalTypeOK, JobStates, RunStates,
              requestVars, discordVars
<1>5. CASE ClaimRun(q)
  <2>1. JournalTypeOK'
    BY <1>5 DEF ClaimRun, Claim, TypeOK, JournalTypeOK, EventStatuses
  <2>2. QED
    BY <1>5, <2>1 DEF ClaimRun, Reaches, TypeOK, RepositoryTypeOK, RunStates, requestVars,
                      discordVars
<1>6. CASE ClaimRefused(q) \/ ClaimFails(q)
  <2>1. WorkerTypeOK'
    BY <1>6, JobEndsKeepsType, TypeParts DEF ClaimRefused, ClaimFails, WorkerTypeOK,
                                             JournalTypeOK
  <2>2. QED
    BY <1>6, <2>1 DEF ClaimRefused, ClaimFails, TypeOK, WorkerTypeOK, RepositoryTypeOK,
                      requestVars, discordVars
<1>7. CASE Refuse(q) \/ Check(q)
  BY <1>2, <1>3, <1>7, GivesKeepsType DEF Refuse, Check, RunStates
<1>8. CASE Resolve(q)
  <2>1. PICK x \in Resources, creates \in BOOLEAN : Takes(q, x, creates, "panel")
    BY <1>8 DEF Resolve, New, TypeOK
  <2>2. QED
    BY <2>1, TakesKeepsType DEF RunStates
<1>9. CASE SendPanel(q)
  <2>1. PICK x \in Resources : Takes(q, x, FALSE, "complete")
    BY <1>9 DEF SendPanel, New
  <2>2. QED
    BY <2>1, TakesKeepsType DEF RunStates
<1>10. CASE SetupFails(q) \/ Complete(q) \/ Fail(q) \/ FailThrows(q)
  BY <1>2, <1>3, <1>10, GivesKeepsType DEF SetupFails, Complete, Fail, FailThrows, RunStates
<1>11. CASE Commit(q)
  <2>1. RepositoryTypeOK'
    BY <1>1, <1>2, <1>11, RowWritten DEF Commit, CompleteSetup, Healths, TypeOK
  <2>2. QED
    BY <1>11, <2>1 DEF Commit, Reaches, TypeOK, JournalTypeOK, RunStates, requestVars,
                       discordVars
<1>12. CASE Record(q) \/ Leave(q)
  <2>1. JournalTypeOK'
    BY <1>2, <1>12, SettleKeepsType DEF Record, Leave, TypeOK, EventStatuses
  <2>2. WorkerTypeOK'
    BY <1>12, <2>1, JobEndsKeepsType, TypeParts DEF Record, Leave
  <2>3. QED
    BY <1>12, <2>2 DEF Record, Leave, TypeOK, WorkerTypeOK, RepositoryTypeOK, requestVars,
                       discordVars
<1>13. CASE RecordFails(q)
  <2>1. JournalTypeOK'
    BY <1>13 DEF RecordFails, TypeOK, JournalTypeOK, EventStatuses
  <2>2. QED
    BY <1>13, <2>1 DEF RecordFails, Reaches, TypeOK, RepositoryTypeOK, RunStates,
                       requestVars, discordVars
<1>14. CASE FailWrite(q)
  <2>1. RepositoryTypeOK'
    BY <1>1, <1>14, RowWritten DEF FailWrite, FailSetup, Healths, TypeOK
  <2>2. QED
    BY <1>14, <2>1 DEF FailWrite, Reaches, TypeOK, JournalTypeOK, RunStates, requestVars,
                       discordVars
<1>15. CASE LeaveFails(q)
  <2>1. WorkerTypeOK'
    BY <1>15, JobEndsKeepsType, TypeParts DEF LeaveFails, WorkerTypeOK, JournalTypeOK
  <2>2. QED
    BY <1>15, <2>1 DEF LeaveFails, TypeOK, WorkerTypeOK, RepositoryTypeOK, requestVars,
                       discordVars
<1>16. CASE ClaimExpires(q)
  <2>1. JournalTypeOK'
    BY <1>16 DEF ClaimExpires, ClaimAges, TypeOK, JournalTypeOK
  <2>2. QED
    BY <1>16, <2>1 DEF ClaimExpires, TypeOK, RepositoryTypeOK, requestVars, discordVars
<1>17. QED
  BY <1>4, <1>5, <1>6, <1>7, <1>8, <1>9, <1>10, <1>11, <1>12, <1>13, <1>14, <1>15, <1>16
     DEF BotStep, RunStep

LEMMA DiscordKeepsType ==
  ASSUME TypeOK, NEW x \in Resources, Delete(x) \/ Notice(x) \/ NoticeWrite(x)
  PROVE  TypeOK'
<1>1. CASE Delete(x) \/ Notice(x)
  BY <1>1 DEF Delete, Notice, TypeOK, RepositoryTypeOK, JournalTypeOK, requestVars, jobVars
<1>2. CASE NoticeWrite(x)
  <2>1. RepositoryTypeOK'
    BY <1>2, RowWritten DEF NoticeWrite, MarkDeleted, Healths, TypeOK, RepositoryTypeOK,
                            ConfigRow
  <2>2. QED
    BY <1>2, <2>1 DEF NoticeWrite, TypeOK, JournalTypeOK, requestVars, jobVars
<1>3. QED
  BY <1>1, <1>2

LEMMA CrashKeepsType ==
  ASSUME TypeOK, Crash
  PROVE  TypeOK'
<1>1. NothingHeld \in Held /\ "none" \in RunStates /\ "over" \in JobStates
      /\ "queued" \in JobStates
  BY DEF NothingHeld, Held, RunStates, JobStates
<1>2. stalled' \in [ Requests -> BOOLEAN ]
  BY DEF Crash, TypeOK
<1>3. job' \in [ Requests -> JobStates ]
  BY <1>1 DEF Crash, TypeOK
<1>4. QED
  BY <1>1, <1>2, <1>3 DEF Crash, TypeOK, RepositoryTypeOK, JournalTypeOK, requestVars

LEMMA NextKeepsType ==
  ASSUME TypeOK, [Next]_vars
  PROVE  TypeOK'
<1>1. CASE UNCHANGED vars
  BY <1>1 DEF vars, requestVars, jobVars, discordVars, TypeOK, RepositoryTypeOK,
              JournalTypeOK
<1>2. CASE Next
  BY <1>2, RequestsKeepType, WorkerKeepsType, DiscordKeepsType, CrashKeepsType DEF Next
<1>3. QED
  BY <1>1, <1>2

\* Every variable has its type, whatever fails.
THEOREM TypeCorrect == Spec => []TypeOK
<1>1. TypeOK /\ [Next]_vars => TypeOK'
  BY NextKeepsType
<1>2. QED
  BY InitTypeOK, <1>1, PTL DEF Spec

-------------------------------------------------------------------------------
(***************************************************************************)
(* What the versions are good for.                                         *)
(***************************************************************************)

VersionsAreSeen ==
  /\ config.version > 0
  /\ \A q \in Requests : expected[q] <= config.version /\ pending[q] <= config.version

ContentsWereSeen ==
  \A q \in Requests : expected[q] = config.version => shown[q] = config.edited

HealthWasChecked ==
  \A q \in Requests :
    api[q] \in { "edit", "begin" } /\ expected[q] = config.version =>
      config.health # "PENDING"

PendingIsOwn ==
  \A q1, q2 \in Requests : pending[q1] # 0 /\ pending[q1] = pending[q2] => q1 = q2

\* A transaction of #update or beginVerificationSetup that will find its row
\* still has the contents that were seen and the health that was checked.
VersionInvariant ==
  /\ VersionsAreSeen
  /\ ContentsWereSeen
  /\ HealthWasChecked
  /\ PendingIsOwn

LEMMA InitVersions == Init => VersionInvariant
  BY DEF Init, RepositoryInit, VersionInvariant, VersionsAreSeen, ContentsWereSeen,
         HealthWasChecked, PendingIsOwn

\* A write makes a version that no request has seen.
RowIsWritten ==
  /\ config'.version = config.version + 1
  /\ UNCHANGED << expected, shown >>
  /\ \/ UNCHANGED pending
     \/ \E q \in Requests : pending' = [ pending EXCEPT ![q] = config'.version ]

LEMMA WriteKeepsVersions ==
  ASSUME TypeOK, VersionInvariant, RowIsWritten
  PROVE  VersionInvariant'
<1>1. config.version \in Nat /\ \A q \in Requests : expected[q] \in Nat /\ pending[q] \in Nat
  BY DEF TypeOK, RepositoryTypeOK, ConfigRow
<1>2. \A q \in Requests : pending'[q] \in { pending[q], config'.version }
  BY DEF RowIsWritten, TypeOK
<1>3. VersionsAreSeen'
  BY <1>1, <1>2 DEF RowIsWritten, VersionInvariant, VersionsAreSeen
<1>4. \A q \in Requests : expected'[q] # config'.version
  BY <1>1 DEF RowIsWritten, VersionInvariant, VersionsAreSeen
<1>5. PendingIsOwn'
  BY <1>1, <1>2 DEF RowIsWritten, VersionInvariant, VersionsAreSeen, PendingIsOwn, TypeOK
<1>6. QED
  BY <1>3, <1>4, <1>5 DEF VersionInvariant, ContentsWereSeen, HealthWasChecked

\* A transaction that starts has checked the row.
RowIsRead ==
  /\ UNCHANGED << config, expected, shown, pending >>
  /\ \A q \in Requests :
       api'[q] \in { "edit", "begin" } /\ api'[q] # api[q] => MayChange(expected[q])

LEMMA ReadKeepsVersions ==
  ASSUME VersionInvariant, RowIsRead
  PROVE  VersionInvariant'
  BY DEF RowIsRead, MayChange, VersionInvariant, VersionsAreSeen, ContentsWereSeen,
         HealthWasChecked, PendingIsOwn

LEMMA OpenKeepsVersions ==
  ASSUME TypeOK, VersionInvariant, NEW q \in Requests, Open(q)
  PROVE  VersionInvariant'
<1>1. /\ expected' = [ expected EXCEPT ![q] = config.version ]
      /\ shown' = [ shown EXCEPT ![q] = config.edited ]
      /\ api' = [ api EXCEPT ![q] = "open" ]
      /\ UNCHANGED << config, pending >>
  BY DEF Open, Moves
<1>2. /\ expected'[q] = config.version
      /\ shown'[q] = config.edited
      /\ api'[q] = "open"
  BY <1>1 DEF TypeOK
<1>3. \A r \in Requests \ { q } :
        expected'[r] = expected[r] /\ shown'[r] = shown[r] /\ api'[r] = api[r]
  BY <1>1 DEF TypeOK
<1>4. config.version \in Nat
  BY DEF TypeOK, RepositoryTypeOK, ConfigRow
<1>5. QED
  BY <1>1, <1>2, <1>3, <1>4 DEF VersionInvariant, VersionsAreSeen, ContentsWereSeen,
                                HealthWasChecked, PendingIsOwn

\* The steps that write the row.
Writes(q) ==
  CommitEdit(q) \/ CommitBegin(q) \/ CommitUndo(q) \/ Commit(q) \/ FailWrite(q)

LEMMA WritesWrite ==
  ASSUME TypeOK, \/ \E q \in Requests : Writes(q)
                 \/ \E x \in Resources : NoticeWrite(x)
  PROVE  /\ RowIsWritten
         /\ config'.edited # config.edited => \E q \in Requests : CommitEdit(q)
<1>1. CASE \E x \in Resources : NoticeWrite(x)
  BY <1>1 DEF NoticeWrite, MarkDeleted, NextRow, RowIsWritten, requestVars
<1>2. ASSUME NEW q \in Requests, Writes(q)
      PROVE  /\ RowIsWritten
             /\ config'.edited # config.edited => CommitEdit(q)
  <2>1. CASE CommitEdit(q)
    BY <2>1 DEF CommitEdit, EditSections, NextRow, RowIsWritten
  <2>2. CASE CommitBegin(q)
    BY <2>2 DEF CommitBegin, BeginSetup, NextRow, RowIsWritten
  <2>3. CASE CommitUndo(q)
    BY <2>3 DEF CommitUndo, FailSetup, NextRow, RowIsWritten
  <2>4. CASE Commit(q)
    BY <2>4 DEF Commit, CompleteSetup, NextRow, RowIsWritten, requestVars
  <2>5. CASE FailWrite(q)
    BY <2>5 DEF FailWrite, FailSetup, NextRow, RowIsWritten, requestVars
  <2>6. QED
    BY <1>2, <2>1, <2>2, <2>3, <2>4, <2>5 DEF Writes
<1>3. QED
  BY <1>1, <1>2

\* Every other step reads it, or leaves it alone.
LEMMA StepKinds ==
  ASSUME TypeOK, [Next]_vars
  PROVE  \/ \E q \in Requests : Writes(q) \/ Open(q)
         \/ \E x \in Resources : NoticeWrite(x)
         \/ RowIsRead
<1>1. CASE UNCHANGED vars
  BY <1>1 DEF vars, requestVars, RowIsRead
<1>2. ASSUME NEW q \in Requests, Submit(q)
      PROVE  RowIsRead
  BY <1>2 DEF Submit, Moves, RowIsRead, TypeOK
<1>3. ASSUME NEW q \in Requests, RequestStep(q), ~Writes(q)
      PROVE  RowIsRead
  BY <1>3 DEF RequestStep, Writes, Conflict, Enqueue, EnqueueFails, Undo, RequestDies, Moves,
              RowIsRead, TypeOK
<1>4. ASSUME NEW q \in Requests, BotStep(q), ~Writes(q)
      PROVE  RowIsRead
  BY <1>4 DEF BotStep, RunStep, Writes, Take, ClaimRun, ClaimRefused, ClaimFails, Refuse,
              Check, Gives, Resolve, SendPanel, Takes, SetupFails, Complete, Record,
              RecordFails, Fail, FailThrows, Leave, LeaveFails, ClaimExpires, requestVars,
              RowIsRead
<1>5. ASSUME NEW x \in Resources, Delete(x) \/ Notice(x)
      PROVE  RowIsRead
  BY <1>5 DEF Delete, Notice, requestVars, RowIsRead
<1>6. CASE Crash
  BY <1>6 DEF Crash, requestVars, RowIsRead
<1>7. QED
  BY <1>1, <1>2, <1>3, <1>4, <1>5, <1>6 DEF Next

LEMMA NextKeepsVersions ==
  ASSUME TypeOK, VersionInvariant, [Next]_vars
  PROVE  VersionInvariant'
  BY StepKinds, WritesWrite, WriteKeepsVersions, ReadKeepsVersions, OpenKeepsVersions

THEOREM VersionsHold == Spec => []VersionInvariant
<1>1. TypeOK /\ VersionInvariant /\ [Next]_vars => VersionInvariant'
  BY NextKeepsVersions
<1>2. QED
  BY InitVersions, TypeCorrect, <1>1, PTL DEF Spec

\* A PENDING configuration belongs to at most one setup.
THEOREM SetupIsExclusive == Spec => []ExclusiveSetup
<1>1. ASSUME TypeOK, VersionInvariant, NEW q1 \in Requests, NEW q2 \in Requests,
             OwnedBy(q1), OwnedBy(q2)
      PROVE  q1 = q2
  <2>1. pending[q1] = config.version /\ pending[q2] = config.version
    BY <1>1 DEF OwnedBy
  <2>2. config.version # 0
    BY <1>1 DEF TypeOK, RepositoryTypeOK, ConfigRow, VersionInvariant, VersionsAreSeen
  <2>3. QED
    BY <1>1, <2>1, <2>2 DEF VersionInvariant, PendingIsOwn
<1>2. QED
  <2>1. TypeOK /\ VersionInvariant => ExclusiveSetup
    BY <1>1 DEF ExclusiveSetup
  <2>2. QED
    BY <2>1, TypeCorrect, VersionsHold, PTL

\* Sections are not edited while a setup is in progress.
THEOREM PendingIsNotEdited == Spec => EditsRefusedWhilePending
<1>1. ASSUME TypeOK, VersionInvariant, [Next]_vars
      PROVE  config'.edited # config.edited => config.health # "PENDING"
  <2>1. ASSUME NEW q \in Requests, CommitEdit(q)
        PROVE  config.health # "PENDING"
    BY <1>1, <2>1 DEF CommitEdit, SameRow, VersionInvariant, HealthWasChecked
  <2>2. config'.edited # config.edited => \E q \in Requests : CommitEdit(q)
    BY <1>1, StepKinds, WritesWrite DEF Open, RowIsRead
  <2>3. QED
    BY <2>1, <2>2
<1>2. QED
  BY <1>1, TypeCorrect, VersionsHold, PTL DEF Spec, EditsRefusedWhilePending

\* Nobody overwrites contents that they have not seen.
THEOREM NoUpdateIsLost == Spec => EditsOnWhatWasSeen
<1>1. ASSUME VersionInvariant, NEW q \in Requests, CommitEdit(q)
      PROVE  shown[q] = config.edited
  BY <1>1 DEF CommitEdit, SameRow, VersionInvariant, ContentsWereSeen
<1>2. VersionInvariant /\ [Next]_vars =>
        \A q \in Requests : CommitEdit(q) => shown[q] = config.edited
  BY <1>1
<1>3. QED
  BY <1>2, VersionsHold, PTL DEF Spec, EditsOnWhatWasSeen
-------------------------------------------------------------------------------
(***************************************************************************)
(* Setups that do not fail.  completeVerificationSetup and                 *)
(* failVerificationSetup write without repeating their check; nobody comes *)
(* between it and the write but the handler of a deletion.                 *)
(***************************************************************************)

NobodyUndoes == \A q \in Requests : api[q] \notin { "undo", "undoWrite" }

NoticesAreOfDeletions == deleted = {} => \A x \in Resources : notice[x] = "none"

WritersOwn == deleted = {} => \A q \in Requests : run[q] \in { "commit", "failWrite" } => OwnedBy(q)

SurvivalInv == NobodyUndoes /\ NoticesAreOfDeletions /\ WritersOwn

LEMMA InitSurvival == Init => SurvivalInv
  BY DEF Init, SurvivalInv, NobodyUndoes, NoticesAreOfDeletions, WritersOwn

LEMMA Exclusive ==
  ASSUME TypeOK, VersionInvariant, NEW q1 \in Requests, NEW q2 \in Requests,
         OwnedBy(q1), OwnedBy(q2)
  PROVE  q1 = q2
<1>1. pending[q1] = config.version /\ pending[q2] = config.version
  BY DEF OwnedBy
<1>2. config.version # 0
  BY DEF TypeOK, RepositoryTypeOK, ConfigRow, VersionInvariant, VersionsAreSeen
<1>3. QED
  BY <1>1, <1>2 DEF VersionInvariant, PendingIsOwn

\* A transaction that will find its row has found it without a setup.
LEMMA NobodyOwnsThen ==
  ASSUME VersionInvariant, NEW q \in Requests, CommitEdit(q) \/ CommitBegin(q)
  PROVE  config.health # "PENDING"
  BY DEF CommitEdit, CommitBegin, SameRow, VersionInvariant, HealthWasChecked

LEMMA RequestSurvival ==
  ASSUME ~Faults, TypeOK, VersionInvariant, SurvivalInv,
         NEW q \in Requests, Open(q) \/ Submit(q) \/ RequestStep(q)
  PROVE  SurvivalInv'
<1> USE DEF SurvivalInv
<1>1. ~CommitUndo(q) /\ ~Undo(q) /\ ~EnqueueFails(q) /\ ~RequestDies(q)
  BY DEF NobodyUndoes, CommitUndo, Undo, EnqueueFails, RequestDies
<1>2. UNCHANGED << run, notice, deleted >>
  BY <1>1 DEF Open, Submit, RequestStep, CommitEdit, CommitBegin, Conflict, Enqueue, jobVars,
              discordVars
<1>3. NobodyUndoes'
  BY <1>1 DEF NobodyUndoes, Open, Submit, RequestStep, CommitEdit, CommitBegin, Conflict, Enqueue,
              Moves, TypeOK
<1>4. NoticesAreOfDeletions'
  BY <1>2 DEF NoticesAreOfDeletions
<1>5. WritersOwn'
  <2>1. CASE CommitEdit(q) \/ CommitBegin(q)
    BY <1>2, <2>1, NobodyOwnsThen DEF WritersOwn, OwnedBy
  <2>2. CASE ~CommitEdit(q) /\ ~CommitBegin(q)
    <3>1. UNCHANGED << config, pending >>
      BY <1>1, <2>2 DEF Open, Submit, RequestStep, Conflict, Enqueue
    <3>2. QED
      BY <1>2, <3>1 DEF WritersOwn, OwnedBy
  <2>3. QED
    BY <2>1, <2>2
<1>6. QED
  BY <1>3, <1>4, <1>5

LEMMA BotSurvival ==
  ASSUME ~Faults, TypeOK, VersionInvariant, SurvivalInv, NEW q \in Requests, BotStep(q)
  PROVE  SurvivalInv'
<1> USE DEF SurvivalInv
<1>1. UNCHANGED << api, pending, notice, deleted >>
  BY DEF BotStep, RunStep, Take, ClaimRun, ClaimRefused, ClaimFails, Refuse, Check, Gives, Resolve,
         SendPanel, Takes, SetupFails, Complete, Commit, Record, RecordFails, Fail, FailWrite,
         FailThrows, Leave, LeaveFails, ClaimExpires, requestVars, discordVars
<1>2. NobodyUndoes' /\ NoticesAreOfDeletions'
  BY <1>1 DEF NobodyUndoes, NoticesAreOfDeletions
<1>3. WritersOwn'
  <2> SUFFICES ASSUME deleted = {}, NEW r \in Requests, run'[r] \in { "commit", "failWrite" }
               PROVE  OwnedBy(r)'
    BY <1>1 DEF WritersOwn
  <2>1. CASE Commit(q) \/ FailWrite(q)
    <3>1. run[q] \in { "commit", "failWrite" } /\ run'[q] \notin { "commit", "failWrite" }
      BY <2>1 DEF Commit, FailWrite, Reaches, TypeOK
    <3>2. r # q /\ run'[r] = run[r]
      BY <2>1, <3>1 DEF Commit, FailWrite, Reaches, TypeOK
    <3>3. OwnedBy(q) /\ OwnedBy(r)
      BY <3>1, <3>2 DEF WritersOwn
    <3>4. QED
      BY <3>2, <3>3, Exclusive
  <2>2. CASE Complete(q) \/ Fail(q)
    <3>1. UNCHANGED config
      BY <2>2 DEF Complete, Fail, Gives
    <3>2. r # q => run'[r] = run[r]
      BY <2>2 DEF Complete, Fail, Gives, Reaches, TypeOK
    <3>3. run'[q] \in { "commit", "failWrite" } => OwnedBy(q)
      BY <2>2 DEF Complete, Fail, Gives, Reaches, TypeOK, Owns, OwnedBy
    <3>4. QED
      BY <1>1, <3>1, <3>2, <3>3 DEF WritersOwn, OwnedBy
  <2>3. CASE ~Commit(q) /\ ~FailWrite(q) /\ ~Complete(q) /\ ~Fail(q)
    <3>1. UNCHANGED config
      BY <2>3 DEF BotStep, RunStep, Take, ClaimRun, ClaimRefused, ClaimFails, Refuse, Check, Gives,
         Resolve, SendPanel, Takes, SetupFails, Record, RecordFails, FailThrows, Leave, LeaveFails,
         ClaimExpires
    <3>2. run'[r] = run[r]
      BY <2>3 DEF BotStep, RunStep, Take, ClaimRun, ClaimRefused, ClaimFails, Refuse, Check, Gives,
         Resolve, SendPanel, Takes, SetupFails, Record, RecordFails, FailThrows, Leave, LeaveFails,
         ClaimExpires, Reaches, JobCompletes, JobThrows, TypeOK
    <3>3. QED
      BY <1>1, <3>1, <3>2 DEF WritersOwn, OwnedBy
  <2>4. QED
    BY <2>1, <2>2, <2>3
<1>4. QED
  BY <1>2, <1>3

LEMMA DiscordSurvival ==
  ASSUME TypeOK, SurvivalInv,
         (\E x \in Resources : Delete(x) \/ Notice(x) \/ NoticeWrite(x)) \/ Crash
  PROVE  SurvivalInv'
<1> USE DEF SurvivalInv
<1>1. CASE Crash
  BY <1>1 DEF Crash, requestVars, NobodyUndoes, NoticesAreOfDeletions, WritersOwn
<1>2. ASSUME NEW x \in Resources, Delete(x)
      PROVE  SurvivalInv'
  <2>1. deleted' # {} /\ UNCHANGED api
    BY <1>2 DEF Delete, requestVars
  <2>2. QED
    BY <2>1 DEF NobodyUndoes, NoticesAreOfDeletions, WritersOwn
<1>3. ASSUME NEW x \in Resources, Notice(x) \/ NoticeWrite(x)
      PROVE  SurvivalInv'
  <2>1. UNCHANGED << api, deleted >> /\ notice[x] # "none"
    BY <1>3 DEF Notice, NoticeWrite, requestVars
  <2>2. deleted # {}
    BY <2>1 DEF NoticesAreOfDeletions
  <2>3. QED
    BY <2>1, <2>2 DEF NobodyUndoes, NoticesAreOfDeletions, WritersOwn
<1>4. QED
  BY <1>1, <1>2, <1>3

\* As long as no call fails, a run never ends a setup that is not its own, nor one
\* that has ended, however the bot restarts and whatever stale cache it reads
\* (repository.ts:252, repository.ts:301).
THEOREM SetupsOfOthersSurvive ==
  ASSUME ~Faults
  PROVE  Spec => OthersSetupSurvives
<1>1. TypeOK /\ VersionInvariant /\ SurvivalInv /\ [Next]_vars => SurvivalInv'
  <2> SUFFICES ASSUME TypeOK, VersionInvariant, SurvivalInv, [Next]_vars PROVE SurvivalInv'
    OBVIOUS
  <2>1. CASE UNCHANGED vars
    BY <2>1 DEF vars, requestVars, jobVars, discordVars, SurvivalInv, NobodyUndoes,
                NoticesAreOfDeletions, WritersOwn, OwnedBy
  <2>2. QED
    BY <2>1, RequestSurvival, BotSurvival, DiscordSurvival DEF Next
<1>2. ASSUME TypeOK, SurvivalInv, [Next]_vars, NEW q \in Requests,
             deleted = {}, config' # config, run'[q] # run[q]
      PROVE  OwnedBy(q)
  <2>1. \E r \in Requests : Commit(r) \/ FailWrite(r)
    <3>1. ASSUME NEW r \in Requests, CommitEdit(r) \/ CommitBegin(r) \/ CommitUndo(r)
          PROVE  FALSE
      BY <1>2, <3>1 DEF CommitEdit, CommitBegin, CommitUndo, jobVars
    <3>2. ASSUME NEW x \in Resources, NoticeWrite(x)
          PROVE  FALSE
      BY <1>2, <3>2 DEF NoticeWrite, jobVars
    <3>3. ASSUME NEW r \in Requests, Open(r) PROVE FALSE
      BY <1>2, <3>3 DEF Open
    <3>4. QED
      BY <1>2, <3>1, <3>2, <3>3, StepKinds DEF Writes, RowIsRead
  <2>2. PICK r \in Requests : Commit(r) \/ FailWrite(r)
    BY <2>1
  <2>3. r = q
    BY <1>2, <2>2 DEF Commit, FailWrite, Reaches, TypeOK
  <2>4. QED
    BY <1>2, <2>2, <2>3 DEF Commit, FailWrite, SurvivalInv, WritersOwn
<1>3. TypeOK /\ SurvivalInv /\ [Next]_vars =>
        [ \A q \in Requests :
            deleted = {} /\ config' # config /\ run'[q] # run[q] => OwnedBy(q) ]_vars
  BY <1>2
<1>4. QED
  BY <1>1, <1>3, InitSurvival, TypeCorrect, VersionsHold, PTL DEF Spec, OthersSetupSurvives

-------------------------------------------------------------------------------
(***************************************************************************)
(* What the journal says of a setup.  It calls one done, or skipped, only  *)
(* after the run that says so has ended the PENDING configuration, or has  *)
(* found that it is no longer its own; and what was ended is never PENDING *)
(* for the same request again, since its version is gone.                  *)
(***************************************************************************)

\* A request gets its version before it has a job.
JobsComeLater ==
  /\ \A q \in Requests : api[q] \in { "idle", "open", "edit", "begin", "enqueue" } => job[q] = "none"
  /\ \A q \in Requests : job[q] = "none" => journal[q] = "NONE"
  /\ \A q \in Requests : job[q] \in { "none", "queued" } => run[q] = "none"

\* A run has no reason to skip its job before it gives up.
SkipsAreLate ==
  \A q \in Requests :
    run[q] \notin { "fail", "failWrite", "leave" } => held[q].ends = "FAILED"

\* Where a run is that no longer has anything to end.
Past(q) == run[q] = "record" \/ (run[q] = "leave" /\ held[q].ends = "SKIPPED")

FinishedInv ==
  /\ JobsComeLater
  /\ SkipsAreLate
  /\ \A q \in Requests : OwnedBy(q) => ~Past(q)
  /\ PendingIsUnfinished

LEMMA InitFinished == Init => FinishedInv
  BY DEF Init, RepositoryInit, JournalInit, NothingHeld, FinishedInv, JobsComeLater,
         SkipsAreLate, OwnedBy, PendingIsUnfinished

\* After a write only the request that began a setup owns it.
LEMMA OwnersAfterWrite ==
  ASSUME TypeOK, VersionInvariant, RowIsWritten, NEW q \in Requests, OwnedBy(q)'
  PROVE  pending'[q] # pending[q]
  BY DEF TypeOK, RepositoryTypeOK, ConfigRow, VersionInvariant, VersionsAreSeen, RowIsWritten,
         OwnedBy

\* A step of one request's actors, described by what it does to that request.
LEMMA OwnStepKeepsFinished ==
  ASSUME FinishedInv, NEW q \in Requests,
         \A r \in Requests : r # q =>
           /\ UNCHANGED << api[r], job[r], run[r], held[r], journal[r] >>
           /\ OwnedBy(r)' => OwnedBy(r),
         api'[q] \in { "idle", "open", "edit", "begin", "enqueue" } => job'[q] = "none",
         job'[q] = "none" => journal'[q] = "NONE",
         job'[q] \in { "none", "queued" } => run'[q] = "none",
         run'[q] \notin { "fail", "failWrite", "leave" } => held'[q].ends = "FAILED",
         OwnedBy(q)' => ~Past(q)' /\ journal'[q] \notin { "SUCCEEDED", "SKIPPED" }
  PROVE  FinishedInv'
<1>1. JobsComeLater'
  BY DEF FinishedInv, JobsComeLater
<1>2. SkipsAreLate'
  BY DEF FinishedInv, SkipsAreLate
<1>3. \A r \in Requests : OwnedBy(r)' => ~Past(r)'
  BY DEF FinishedInv, Past
<1>4. PendingIsUnfinished'
  BY DEF FinishedInv, PendingIsUnfinished
<1>5. QED
  BY <1>1, <1>2, <1>3, <1>4 DEF FinishedInv

\* What the invariant says of one request.
LEMMA FinishedOf ==
  ASSUME FinishedInv, NEW q \in Requests
  PROVE  /\ api[q] \in { "idle", "open", "edit", "begin", "enqueue" } => job[q] = "none"
         /\ job[q] = "none" => journal[q] = "NONE"
         /\ job[q] \in { "none", "queued" } => run[q] = "none"
         /\ run[q] \notin { "fail", "failWrite", "leave" } => held[q].ends = "FAILED"
         /\ OwnedBy(q) => ~Past(q) /\ journal[q] \notin { "SUCCEEDED", "SKIPPED" }
  BY DEF FinishedInv, JobsComeLater, SkipsAreLate, PendingIsUnfinished

LEMMA RequestsKeepFinished ==
  ASSUME TypeOK, VersionInvariant, FinishedInv, NEW q \in Requests,
         Open(q) \/ Submit(q) \/ RequestStep(q)
  PROVE  FinishedInv'
<1>1. CASE CommitBegin(q)
  <2>1. /\ UNCHANGED << job, run, held, journal >> /\ api[q] = "begin"
        /\ api' = [ api EXCEPT ![q] = "enqueue" ]
        /\ \A r \in Requests : r # q => pending'[r] = pending[r]
    BY <1>1 DEF CommitBegin, Moves, jobVars, TypeOK
  <2>2. RowIsWritten
    BY <1>1, WritesWrite DEF Writes
  <2>3. \A r \in Requests : r # q => ~OwnedBy(r)'
    BY <2>1, <2>2, OwnersAfterWrite
  <2>4. run[q] = "none" /\ journal[q] = "NONE"
    BY <2>1, FinishedOf
  <2>5. QED
    BY <2>1, <2>3, <2>4, FinishedOf, OwnStepKeepsFinished DEF TypeOK, Past
<1>2. CASE CommitEdit(q) \/ CommitUndo(q)
  <2>1. /\ UNCHANGED << job, run, held, journal, pending >>
        /\ api' = [ api EXCEPT ![q] = "done" ]
    BY <1>2 DEF CommitEdit, CommitUndo, Moves, jobVars
  <2>2. \A r \in Requests : ~OwnedBy(r)'
    BY <1>2, <2>1, WritesWrite, OwnersAfterWrite DEF Writes
  <2>3. QED
    BY <2>1, <2>2, FinishedOf, OwnStepKeepsFinished DEF TypeOK
<1>3. CASE Enqueue(q) \/ EnqueueFails(q)
  <2>1. /\ UNCHANGED << config, pending, run, held, journal >>
        /\ api' \in { [ api EXCEPT ![q] = "done" ], [ api EXCEPT ![q] = "undo" ] }
        /\ job' \in { job, [ job EXCEPT ![q] = "queued" ] }
    BY <1>3 DEF Enqueue, EnqueueFails, Moves
  <2>2. \A r \in Requests : OwnedBy(r)' <=> OwnedBy(r)
    BY <2>1 DEF OwnedBy
  <2>3. \A r \in Requests : r # q => UNCHANGED << api[r], job[r] >>
    BY <2>1 DEF TypeOK
  <2>4. api'[q] \in { "done", "undo" } /\ job'[q] \in { job[q], "queued" }
    BY <2>1 DEF TypeOK
  <2>5. run[q] = "none" /\ ~Past(q)'
    BY <1>3, <2>1, FinishedOf DEF Enqueue, EnqueueFails, Past
  <2>6. QED
    BY <2>1, <2>2, <2>3, <2>4, <2>5, FinishedOf, OwnStepKeepsFinished
<1>4. CASE Open(q) \/ Submit(q) \/ Conflict(q) \/ Undo(q) \/ RequestDies(q)
  <2>1. /\ UNCHANGED << config, pending, job, run, held, journal >>
        /\ \E state \in ApiStates :
             /\ api' = [ api EXCEPT ![q] = state ]
             /\ state \in { "idle", "open", "edit", "begin", "enqueue" } =>
                  api[q] \in { "idle", "open", "edit", "begin", "enqueue" }
    BY <1>4 DEF Open, Submit, Conflict, Undo, RequestDies, Moves, jobVars, ApiStates
  <2>2. \A r \in Requests : OwnedBy(r)' <=> OwnedBy(r)
    BY <2>1 DEF OwnedBy
  <2>3. /\ \A r \in Requests : r # q => UNCHANGED api[r]
        /\ api'[q] \in { "idle", "open", "edit", "begin", "enqueue" } =>
             api[q] \in { "idle", "open", "edit", "begin", "enqueue" }
    BY <2>1 DEF TypeOK
  <2>4. QED
    BY <2>1, <2>2, <2>3, FinishedOf, OwnStepKeepsFinished DEF Past
<1>5. QED
  BY <1>1, <1>2, <1>3, <1>4 DEF RequestStep

LEMMA BotKeepsFinished ==
  ASSUME TypeOK, VersionInvariant, FinishedInv, NEW q \in Requests, BotStep(q)
  PROVE  FinishedInv'
<1>0. /\ api[q] \in { "idle", "open", "edit", "begin", "enqueue" } => job[q] = "none"
      /\ job[q] = "none" => journal[q] = "NONE"
      /\ job[q] \in { "none", "queued" } => run[q] = "none"
      /\ run[q] \notin { "fail", "failWrite", "leave" } => held[q].ends = "FAILED"
      /\ OwnedBy(q) => ~Past(q) /\ journal[q] \notin { "SUCCEEDED", "SKIPPED" }
  BY FinishedOf
<1>1. CASE Commit(q) \/ FailWrite(q)
  <2>1. /\ UNCHANGED << api, job, journal, held, pending >>
        /\ \/ run[q] = "commit" /\ run' = [ run EXCEPT ![q] = "record" ]
           \/ run[q] = "failWrite" /\ run' = [ run EXCEPT ![q] = "leave" ]
    BY <1>1 DEF Commit, FailWrite, Reaches, requestVars
  <2>2. \A r \in Requests : ~OwnedBy(r)'
    BY <1>1, <2>1, WritesWrite, OwnersAfterWrite DEF Writes
  <2>3. QED
    BY <1>0, <2>1, <2>2, OwnStepKeepsFinished DEF TypeOK
<1>2. ASSUME ~Commit(q), ~FailWrite(q)
      PROVE  FinishedInv'
  <2>1. UNCHANGED << config, api, pending >>
    BY <1>2 DEF BotStep, RunStep, Take, ClaimRun, ClaimRefused, ClaimFails, Refuse, Check, Gives,
                Resolve, SendPanel, Takes, SetupFails, Complete, Record, RecordFails, Fail,
                FailThrows, Leave, LeaveFails, ClaimExpires, requestVars
  <2>2. \A r \in Requests : OwnedBy(r)' <=> OwnedBy(r)
    BY <2>1 DEF OwnedBy
  <2>3. \A r \in Requests : r # q => UNCHANGED << job[r], run[r], held[r], journal[r] >>
    BY <1>2 DEF BotStep, RunStep, Take, ClaimRun, ClaimRefused, ClaimFails, Refuse, Check, Gives,
                Resolve, SendPanel, Takes, SetupFails, Complete, Record, RecordFails, Fail,
                FailThrows, Leave, LeaveFails, ClaimExpires, Reaches, Holds, JobCompletes,
                JobThrows, Claim, Settle, ClaimAges, TypeOK, JournalTypeOK
  <2>4. ASSUME job[q] # "none", job'[q] # "none",
               job'[q] = "queued" => run'[q] = "none",
               run'[q] \notin { "fail", "failWrite", "leave" } => held'[q].ends = "FAILED",
               OwnedBy(q) => ~Past(q)' /\ journal'[q] \notin { "SUCCEEDED", "SKIPPED" }
        PROVE  FinishedInv'
    BY <1>0, <2>1, <2>2, <2>3, <2>4, OwnStepKeepsFinished
  <2>5. CASE Take(q)
    BY <1>0, <2>4, <2>5 DEF Take, Reaches, TypeOK, Past
  <2>6. CASE ClaimRun(q)
    BY <1>0, <2>4, <2>6 DEF ClaimRun, Claim, Reaches, TypeOK, JournalTypeOK, Past
  <2>7. CASE ClaimRefused(q) \/ ClaimFails(q) \/ Record(q) \/ Leave(q) \/ LeaveFails(q)
    <3>1. /\ run[q] \in { "claim", "record", "leave" } /\ run'[q] = "none"
          /\ held'[q].ends = "FAILED" /\ job'[q] \in { "queued", "over" }
      BY <2>7 DEF ClaimRefused, ClaimFails, Record, Leave, LeaveFails, JobCompletes, JobThrows,
                  Reaches, Holds, NothingHeld, TypeOK
    <3>2. OwnedBy(q) => journal'[q] \notin { "SUCCEEDED", "SKIPPED" }
      BY <1>0, <2>7 DEF ClaimRefused, ClaimFails, Record, Leave, LeaveFails, Settle, Past, TypeOK,
                        JournalTypeOK, Held
    <3>3. QED
      BY <1>0, <2>4, <3>1, <3>2 DEF Past
  <2>8. CASE RecordFails(q)
    BY <1>0, <2>4, <2>8 DEF RecordFails, Reaches, TypeOK, JournalTypeOK, Past
  <2>9. CASE ClaimExpires(q)
    <3>1. UNCHANGED << job, run, held, journal >> /\ journal[q] = "PROCESSING"
      BY <2>9 DEF ClaimExpires, ClaimAges
    <3>2. job[q] # "none"
      BY <1>0, <3>1
    <3>3. QED
      BY <1>0, <2>4, <3>1, <3>2 DEF Past
  <2>10. CASE Resolve(q) \/ SendPanel(q)
    <3>1. /\ run[q] \in { "setup", "panel" } /\ run'[q] \in { "panel", "complete" }
          /\ held'[q].ends = held[q].ends /\ UNCHANGED << job, journal >>
      BY <2>10 DEF Resolve, SendPanel, Takes, WithResource, Reaches, Holds, TypeOK
    <3>2. QED
      BY <1>0, <2>4, <3>1 DEF Past
  <2>11. CASE Refuse(q) \/ Check(q) \/ SetupFails(q) \/ Complete(q) \/ Fail(q) \/ FailThrows(q)
    <3>1. UNCHANGED << job, journal >> /\ run[q] # "none"
      BY <2>11 DEF Refuse, Check, SetupFails, Complete, Fail, FailThrows, Gives
    <3>2. /\ run'[q] \notin { "fail", "failWrite", "leave" } => held'[q].ends = "FAILED"
          /\ run'[q] # "record"
      BY <1>0, <2>11 DEF Refuse, Check, SetupFails, Complete, Fail, FailThrows, Gives, Reaches,
                         Holds, TypeOK
    <3>3. OwnedBy(q) /\ run'[q] = "leave" => held'[q].ends = "FAILED"
      BY <1>0, <2>11 DEF Refuse, Check, SetupFails, Complete, Fail, FailThrows, Gives, Reaches,
                         Holds, Owns, OwnedBy, TypeOK, Held
    <3>4. QED
      BY <1>0, <2>4, <3>1, <3>2, <3>3 DEF Past
  <2>12. QED
    BY <1>2, <2>5, <2>6, <2>7, <2>8, <2>9, <2>10, <2>11 DEF BotStep, RunStep
<1>3. QED
  BY <1>1, <1>2

LEMMA OthersKeepFinished ==
  ASSUME TypeOK, VersionInvariant, FinishedInv,
         \/ \E x \in Resources : Delete(x) \/ Notice(x) \/ NoticeWrite(x)
         \/ Crash
         \/ UNCHANGED vars
  PROVE  FinishedInv'
<1>1. CASE \/ \E x \in Resources : Delete(x) \/ Notice(x)
           \/ UNCHANGED vars
  BY <1>1 DEF Delete, Notice, vars, requestVars, jobVars, FinishedInv, JobsComeLater, SkipsAreLate,
              OwnedBy, Past, PendingIsUnfinished
<1>2. ASSUME NEW x \in Resources, NoticeWrite(x)
      PROVE  FinishedInv'
  <2>1. UNCHANGED << api, pending, job, run, held, journal >>
    BY <1>2 DEF NoticeWrite, requestVars, jobVars
  <2>2. \A r \in Requests : ~OwnedBy(r)'
    BY <1>2, <2>1, WritesWrite, OwnersAfterWrite
  <2>3. QED
    BY <2>1, <2>2 DEF FinishedInv, JobsComeLater, SkipsAreLate, PendingIsUnfinished
<1>3. CASE Crash
  <2>1. /\ UNCHANGED << config, api, pending, journal >>
        /\ \A q \in Requests :
             /\ run'[q] = "none" /\ held'[q].ends = "FAILED"
             /\ job'[q] = "none" <=> job[q] = "none"
    BY <1>3 DEF Crash, requestVars, NothingHeld, TypeOK
  <2>2. \A q \in Requests : OwnedBy(q)' <=> OwnedBy(q)
    BY <2>1 DEF OwnedBy
  <2>3. QED
    BY <2>1, <2>2 DEF FinishedInv, JobsComeLater, SkipsAreLate, Past, PendingIsUnfinished
<1>4. QED
  BY <1>1, <1>2, <1>3

\* Whatever fails and restarts, and however stale the bot's configuration is, the
\* journal of a setup never says that it is done, or skipped, while the
\* configuration is PENDING for it (onboarding-service.ts:1264,
\* onboarding-service.ts:1453, onboarding-service.ts:858).
THEOREM PendingIsNeverFinished == Spec => []PendingIsUnfinished
<1>1. TypeOK /\ VersionInvariant /\ FinishedInv /\ [Next]_vars => FinishedInv'
  BY RequestsKeepFinished, BotKeepsFinished, OthersKeepFinished DEF Next
<1>2. FinishedInv => PendingIsUnfinished
  BY DEF FinishedInv
<1>3. QED
  BY <1>1, <1>2, InitFinished, TypeCorrect, VersionsHold, PTL DEF Spec
===============================================================================
