------------------------ MODULE VerificationPanelProofs ------------------------
(***************************************************************************)
(* Theorems of VerificationPanel, for any number of challenges, starts,    *)
(* answers, invalidations and members' returns.                            *)
(*                                                                         *)
(* They rest on two facts.  A start that is admitted is alone until it has *)
(* stored its challenge, so that it finds and replaces the current one.    *)
(* And an invalidation runs once: of the challenges that are still open,   *)
(* all but the current one can be charged to an invalidation each.         *)
(***************************************************************************)
EXTENDS VerificationPanel, FiniteSetTheorems, TLAPS

-------------------------------------------------------------------------------
(***************************************************************************)
(* The inductive invariant.                                                *)
(***************************************************************************)
LiveOnes == { c \in Challenges : Live(c) }

\* Whoever reads the member's challenge finds one that has been stored.
Issued(c) == c \in Challenges /\ challenge[c].mode # "unused"

ChallengeHolds(c) ==
  /\ challenge[c].mode \in Modes \cup { "unused", "gone" }
  /\ challenge[c].attempts \in 0 .. CaptchaTries
  /\ Live(c) => challenge[c].attempts # 0

CaptchaHolds ==
  /\ challenge = [ c \in Challenges |-> challenge[c] ]
  /\ \A c \in Challenges : ChallengeHolds(c)
  /\ IsFiniteSet(LiveOnes)
  /\ active = Nothing \/ Issued(active)
  /\ \A c \in consumed : Issued(c) /\ ~ Live(c)
  /\ failures \in Nat

\* A start that is admitted sets the cooldown, so that it is alone until it has
\* stored its challenge, and the challenge is still its own.
Creates(s) == inter[s].at \in { "previous", "store" }

InterFields == { "at", "join", "challenge", "seen", "previous", "next", "result", "screened" }

InterHolds(s) ==
  /\ DOMAIN inter[s] = InterFields
  /\ Creates(s) =>
       /\ cooldown
       /\ inter[s].challenge \in Unused
       /\ inter[s].seen \in 0 .. CaptchaTries - 1
  /\ inter[s].at = "store" =>
       /\ inter[s].previous = Nothing \/ Issued(inter[s].previous)
       /\ active \in { inter[s].previous, Nothing }

IntersHold ==
  /\ inter = [ s \in Slots |-> inter[s] ]
  /\ \A s \in Slots : InterHolds(s)
  /\ \A s, t \in Slots : Creates(s) /\ Creates(t) => s = t

\* An invalidation deletes one challenge, once.
Invalidates(h) == h[1] \in { "remove", "unverify" }
Early == { "idle", "take", "give", "find", "drop" }

HandlerFields == { "at", "join", "seen", "todo" }

HandlerHolds(h) ==
  /\ DOMAIN handler[h] = HandlerFields
  /\ handler[h].seen = Nothing \/ Issued(handler[h].seen)
  /\ handler[h].at \in { "find", "drop" } => Invalidates(h)

HandlersHold ==
  /\ handler = [ h \in Handlers |-> handler[h] ]
  /\ \A h \in Handlers : HandlerHolds(h)

\* The next invalidation is a new one.
CountsHold ==
  /\ DOMAIN member = { "join", "screened", "roles" }
  /\ joined \in Nat /\ commands \in Nat
  /\ member.join \in 0 .. joined
  /\ \A j \in Joins : handler[<< "remove", j >>].at # "idle" => j <= joined /\ j # member.join
  /\ \A n \in Commands : handler[<< "unverify", n >>].at # "idle" => n <= commands

\* Of the challenges that are still open, all but the current one were left so by
\* an invalidation that has deleted another.
Dropped == { h \in Handlers : Invalidates(h) /\ handler[h].at \notin Early }
Orphans == LiveOnes \ { active }

OrphansBounded == Cardinality(Orphans) <= Cardinality(Dropped)

\* The failures so far and those still to come are those that a start has found,
\* and one budget.
Budget(n) == \A c \in Challenges : failures + Left(c) <= n

BudgetsHold ==
  Invalidations = {} =>
    /\ Budget(2 * CaptchaTries)
    /\ \A s \in Slots : Creates(s) => Budget(inter[s].seen + CaptchaTries)

Inv ==
  CaptchaHolds /\ IntersHold /\ HandlersHold /\ CountsHold /\ OrphansBounded /\ BudgetsHold

LEMMA Tries == CaptchaTries \in Nat \ { 0 } /\ Nothing \notin Challenges
               /\ "unused" \notin Modes /\ "gone" \notin Modes
  BY CaptchaAssumption

LEMMA NothingLeft ==
  ASSUME NEW mode \in { "unused", "gone" }
  PROVE  NoHash(mode).mode = mode /\ NoHash(mode).attempts = 0
  BY DEF NoHash

-------------------------------------------------------------------------------
(***************************************************************************)
(* What the commands of the captcha store do to the challenges.            *)
(***************************************************************************)
Gone(c) == Live(c) /\ challenge' = [ challenge EXCEPT ![c] = NoHash("gone") ]

LEMMA GoneEffect ==
  ASSUME CaptchaHolds, NEW c \in Challenges, Gone(c)
  PROVE  /\ challenge' = [ d \in Challenges |-> challenge'[d] ]
         /\ \A d \in Challenges : ChallengeHolds(d)'
         /\ LiveOnes' = LiveOnes \ { c } /\ IsFiniteSet(LiveOnes')
         /\ \A d \in Challenges : d # c => challenge'[d] = challenge[d]
         /\ \A d : Issued(d)' <=> Issued(d)
         /\ Unused' = Unused
         /\ \A d \in Challenges : Left(d)' = IF d = c THEN 0 ELSE Left(d)
  <1>1. /\ challenge' = [ d \in Challenges |-> challenge'[d] ]
        /\ challenge'[c] = NoHash("gone")
        /\ \A d \in Challenges : d # c => challenge'[d] = challenge[d]
    BY DEF CaptchaHolds, Gone
  <1>2. /\ challenge'[c].mode = "gone" /\ challenge'[c].attempts = 0
        /\ ~ Live(c)' /\ Live(c) /\ challenge[c].mode # "unused"
    BY <1>1, NothingLeft, Tries DEF Gone, Live
  <1>3. \A d \in Challenges : d # c => (Live(d)' <=> Live(d))
    BY <1>1 DEF Live
  <1>4. \A d \in Challenges : ChallengeHolds(d)'
    BY <1>1, <1>2, <1>3, Tries DEF CaptchaHolds, ChallengeHolds
  <1>5. LiveOnes' = LiveOnes \ { c }
    BY <1>2, <1>3 DEF LiveOnes
  <1>6. IsFiniteSet(LiveOnes')
    BY <1>5, FS_Subset DEF CaptchaHolds
  <1>7. (\A d : Issued(d)' <=> Issued(d)) /\ Unused' = Unused
    BY <1>1, <1>2 DEF Issued, Unused
  <1>8. \A d \in Challenges : Left(d)' = IF d = c THEN 0 ELSE Left(d)
    BY <1>1, <1>2, <1>3 DEF Left
  <1>9. QED
    BY <1>1, <1>4, <1>5, <1>6, <1>7, <1>8

Rewritten(c, attempts) ==
  /\ Live(c)
  /\ \E progress :
       challenge' = [ challenge EXCEPT ![c] =
         [ mode |-> challenge[c].mode, attempts |-> attempts, progress |-> progress ] ]

LEMMA RewrittenEffect ==
  ASSUME CaptchaHolds, NEW c \in Challenges, NEW attempts \in 1 .. CaptchaTries,
         Rewritten(c, attempts)
  PROVE  /\ challenge' = [ d \in Challenges |-> challenge'[d] ]
         /\ \A d \in Challenges : ChallengeHolds(d)'
         /\ LiveOnes' = LiveOnes /\ IsFiniteSet(LiveOnes')
         /\ \A d \in Challenges : Live(d)' <=> Live(d)
         /\ \A d : Issued(d)' <=> Issued(d)
         /\ Unused' = Unused
         /\ \A d \in Challenges : Left(d)' = IF d = c THEN attempts ELSE Left(d)
  <1>1. /\ challenge' = [ d \in Challenges |-> challenge'[d] ]
        /\ challenge'[c].mode = challenge[c].mode /\ challenge'[c].attempts = attempts
        /\ \A d \in Challenges : d # c => challenge'[d] = challenge[d]
    BY DEF CaptchaHolds, Rewritten
  <1>2. Live(c)' /\ Live(c)
    BY <1>1 DEF Live, Rewritten
  <1>3. \A d \in Challenges : Live(d)' <=> Live(d)
    BY <1>1 DEF Live
  <1>4. \A d \in Challenges : ChallengeHolds(d)'
    <2> SUFFICES ASSUME NEW d \in Challenges PROVE ChallengeHolds(d)'
      OBVIOUS
    <2>1. CASE d = c
      BY <1>1, <2>1, Tries DEF CaptchaHolds, ChallengeHolds
    <2>2. CASE d # c
      BY <1>1, <1>3, <2>2 DEF CaptchaHolds, ChallengeHolds
    <2>3. QED
      BY <2>1, <2>2
  <1>5. LiveOnes' = LiveOnes
    BY <1>3 DEF LiveOnes
  <1>6. (\A d : Issued(d)' <=> Issued(d)) /\ Unused' = Unused
    BY <1>1 DEF Issued, Unused
  <1>7. \A d \in Challenges : Left(d)' = IF d = c THEN attempts ELSE Left(d)
    BY <1>1, <1>2, <1>3 DEF Left
  <1>8. QED
    BY <1>1, <1>3, <1>4, <1>5, <1>6, <1>7 DEF CaptchaHolds

LEMMA StoreEffect ==
  ASSUME CaptchaHolds, NEW c \in Unused, NEW previous, previous = Nothing \/ Issued(previous),
         NEW attempts \in 1 .. CaptchaTries, NEW mode \in Modes,
         StoreChallenge(c, previous, attempts, mode)
  PROVE  /\ challenge' = [ d \in Challenges |-> challenge'[d] ]
         /\ \A d \in Challenges : ChallengeHolds(d)'
         /\ LiveOnes' = (LiveOnes \ { previous }) \cup { c } /\ IsFiniteSet(LiveOnes')
         /\ c \notin LiveOnes /\ c # previous
         /\ \A d : Issued(d) => Issued(d)'
         /\ Issued(c)' /\ Live(c)'
         /\ \A d \in Challenges : Left(d)' = IF d = c THEN attempts
                                             ELSE IF d = previous THEN 0 ELSE Left(d)
  <1>1. c \in Challenges /\ c \notin LiveOnes /\ c # previous /\ ~ Live(c)
    BY Tries DEF Unused, LiveOnes, Live, Issued
  <1>2. /\ challenge' = [ d \in Challenges |-> challenge'[d] ]
        /\ challenge'[c].mode = mode /\ challenge'[c].attempts = attempts
        /\ previous \in Challenges => challenge'[previous] = NoHash("gone")
        /\ \A d \in Challenges : d # c /\ d # previous => challenge'[d] = challenge[d]
    BY <1>1 DEF StoreChallenge
  <1>3. Live(c)' /\ (previous \in Challenges => ~ Live(previous)' /\ challenge'[previous].mode = "gone"
                                                /\ challenge'[previous].attempts = 0)
    BY <1>1, <1>2, Tries, NothingLeft DEF Live
  <1>4. \A d \in Challenges : d # c /\ d # previous => (Live(d)' <=> Live(d))
    BY <1>2 DEF Live
  <1>5. \A d \in Challenges : ChallengeHolds(d)'
    <2> SUFFICES ASSUME NEW d \in Challenges PROVE ChallengeHolds(d)'
      OBVIOUS
    <2>1. CASE d = c
      BY <1>2, <2>1, Tries DEF ChallengeHolds
    <2>2. CASE d = previous
      BY <1>3, <2>2, Tries DEF ChallengeHolds
    <2>3. CASE d # c /\ d # previous
      BY <1>2, <1>4, <2>3 DEF CaptchaHolds, ChallengeHolds
    <2>4. QED
      BY <2>1, <2>2, <2>3
  <1>6. LiveOnes' = (LiveOnes \ { previous }) \cup { c }
    BY <1>1, <1>3, <1>4 DEF LiveOnes
  <1>7. IsFiniteSet(LiveOnes')
    BY <1>6, FS_Subset, FS_AddElement DEF CaptchaHolds
  <1>8. \A d : Issued(d) => Issued(d)'
    BY <1>1, <1>2, <1>3, Tries DEF Issued
  <1>9. Issued(c)'
    BY <1>1, <1>2, Tries DEF Issued
  <1>10. \A d \in Challenges : Left(d)' = IF d = c THEN attempts
                                          ELSE IF d = previous THEN 0 ELSE Left(d)
    BY <1>1, <1>2, <1>3, <1>4 DEF Left
  <1>11. QED
    BY <1>1, <1>2, <1>3, <1>5, <1>6, <1>7, <1>8, <1>9, <1>10

LEMMA InvalidatedEffect ==
  ASSUME CaptchaHolds, NEW seen, seen = Nothing \/ Issued(seen), Invalidated(seen)
  PROVE  /\ challenge' = [ d \in Challenges |-> challenge'[d] ]
         /\ \A d \in Challenges : ChallengeHolds(d)'
         /\ LiveOnes' = LiveOnes \ { seen } /\ IsFiniteSet(LiveOnes')
         /\ \A d \in Challenges : d # seen => challenge'[d] = challenge[d]
         /\ \A d : Issued(d)' <=> Issued(d)
         /\ Unused' = Unused
         /\ UNCHANGED << failures, consumed, cooldown >> /\ active' = Nothing
  <1>1. UNCHANGED << failures, consumed, cooldown >> /\ active' = Nothing
    BY DEF Invalidated
  <1>2. CASE seen \in Challenges /\ Live(seen)
    <2>1. Gone(seen)
      BY <1>2 DEF Invalidated, Gone, CaptchaHolds
    <2>2. QED
      BY <1>1, <1>2, <2>1, GoneEffect
  <1>3. CASE seen \in Challenges /\ ~ Live(seen)
    <2>1. challenge[seen].mode = "gone"
      BY <1>3, Tries DEF CaptchaHolds, ChallengeHolds, Issued, Live
    <2>2. /\ challenge' = [ d \in Challenges |-> challenge'[d] ]
          /\ challenge'[seen].mode = "gone" /\ challenge'[seen].attempts = 0
          /\ \A d \in Challenges : d # seen => challenge'[d] = challenge[d]
      BY <1>3, NothingLeft DEF Invalidated
    <2>3. \A d \in Challenges : Live(d)' <=> Live(d)
      BY <2>1, <2>2 DEF Live
    <2>4. LiveOnes' = LiveOnes /\ seen \notin LiveOnes
      BY <1>3, <2>3 DEF LiveOnes
    <2>5. \A d \in Challenges : ChallengeHolds(d)'
      BY <1>3, <2>2, <2>3, Tries DEF CaptchaHolds, ChallengeHolds
    <2>6. (\A d : Issued(d)' <=> Issued(d)) /\ Unused' = Unused
      BY <2>1, <2>2 DEF Issued, Unused
    <2>7. QED
      BY <1>1, <2>2, <2>4, <2>5, <2>6 DEF CaptchaHolds
  <1>4. CASE seen \notin Challenges
    <2>1. challenge' = challenge
      BY <1>4 DEF Invalidated, CaptchaHolds
    <2>2. LiveOnes' = LiveOnes /\ seen \notin LiveOnes /\ Unused' = Unused
      BY <1>4, <2>1 DEF LiveOnes, Live, Unused
    <2>3. \A d \in Challenges : ChallengeHolds(d)'
      BY <2>1 DEF CaptchaHolds, ChallengeHolds, Live
    <2>4. QED
      BY <1>1, <2>1, <2>2, <2>3 DEF CaptchaHolds, Issued
  <1>5. QED
    BY <1>2, <1>3, <1>4

-------------------------------------------------------------------------------
(***************************************************************************)
(* What a step does to the challenges.                                     *)
(***************************************************************************)
Kept == UNCHANGED << challenge, active, consumed >> /\ failures' \in { failures, 0 }

Answered(c) == ConsumeSuccess(c) \/ CountFailure(c) \/ LockOut(c)

LEMMA InteractionKinds ==
  ASSUME NEW s \in Slots, InteractionStep(s) \/ Start(s)
  PROVE  \/ Kept
         \/ \E c \in Challenges : Answered(c)
         \/ \E c \in Challenges : \E seen, next : Appends(c, seen, next)
         \/ Store(s)
  <1>1. CASE Admit(s)
    BY <1>1 DEF Admit, AdmissionLocked, AdmissionLimited, Admitted, Kept
  <1>2. CASE FindPrevious(s) \/ RecordCreated(s) \/ Read(s) \/ VerifySequence(s) \/ Start(s)
    BY <1>2 DEF FindPrevious, RecordCreated, Read, VerifySequence, Start, captchaVars, Kept
  <1>3. CASE AppendChoice(s)
    <2>1. CASE UNCHANGED captchaVars
      BY <2>1 DEF captchaVars, Kept
    <2>2. CASE ~ UNCHANGED captchaVars
      <3>1. \E seen, next : Appends(inter[s].challenge, seen, next)
        BY <1>3, <2>2 DEF AppendChoice
      <3>2. inter[s].challenge \in Challenges
        BY <3>1 DEF Appends, Live
      <3>3. QED
        BY <3>1, <3>2
    <2>3. QED
      BY <2>1, <2>2
  <1>4. CASE Consume(s)
    BY <1>4 DEF Consume, ConsumeSuccess, Live, Answered, captchaVars, Kept
  <1>5. CASE Fail(s)
    BY <1>5 DEF Fail, CountFailure, LockOut, Live, Answered, captchaVars, Kept
  <1>6. CASE ReadRow(s) \/ Record(s) \/ QueueEvaluation(s)
    BY <1>6 DEF ReadRow, Record, QueueEvaluation, captchaVars, Kept
  <1>7. QED
    BY <1>1, <1>2, <1>3, <1>4, <1>5, <1>6 DEF InteractionStep

LEMMA HandlerKinds ==
  ASSUME HandlerNext \/ EnvironmentNext
  PROVE  UNCHANGED captchaVars \/ \E h \in Handlers : DropChallenge(h)
  <1>1. CASE HandlerNext
    BY <1>1 DEF HandlerNext, AddRow, UpdateRow, CloseRow, VerifyRow, TakeRoles, GiveUnverified,
                ResetRow, FindChallenge, QueueJob
  <1>2. CASE EnvironmentNext
    BY <1>2 DEF EnvironmentNext, ChangeSettings, Join, Screen, Leave, Verify, Request,
                JobForgotten, HandlerFails
  <1>3. QED
    BY <1>1, <1>2

LEMMA StepKinds ==
  ASSUME [Next]_vars
  PROVE  \/ Kept
         \/ \E c \in Challenges : Answered(c) \/ ChallengeExpires(c)
         \/ \E c \in Challenges : \E seen, next : Appends(c, seen, next)
         \/ \E s \in Slots : Store(s)
         \/ \E h \in Handlers : DropChallenge(h)
  <1>1. CASE UNCHANGED vars
    BY <1>1 DEF vars, captchaVars, Kept
  <1>2. CASE HandlerNext \/ EnvironmentNext
    BY <1>2, HandlerKinds DEF captchaVars, Kept
  <1>3. CASE \E s \in Slots : InteractionStep(s) \/ Start(s)
    BY <1>3, InteractionKinds
  <1>4. CASE \E s \in Slots, c \in Challenges, right \in BOOLEAN : Answer(s, c, right)
    BY <1>4 DEF Answer, captchaVars, Kept
  <1>5. CASE KeysExpire
    BY <1>5 DEF KeysExpire, LockExpires, FailuresExpire, CooldownExpires, Kept
  <1>6. QED
    BY <1>1, <1>2, <1>3, <1>4, <1>5 DEF Next, InteractionNext

-------------------------------------------------------------------------------
(***************************************************************************)
(* The handlers: none goes back, and none invalidates twice.               *)
(***************************************************************************)
Advances(h, x) ==
  /\ h \in Handlers
  /\ handler' = [ handler EXCEPT ![h] = x ]
  /\ DOMAIN x = HandlerFields
  /\ x.seen = Nothing \/ Issued(x.seen)
  /\ x.at \in { "find", "drop" } => Invalidates(h)
  /\ x.at # "idle"
  /\ x.at \in Early => handler[h].at \in Early

HandlersMove == UNCHANGED handler \/ \E h, x : Advances(h, x)

\* A handler that is started anew.
LEMMA Started ==
  ASSUME HandlersHold, NEW h, NEW at, NEW join, Starts(h, at, join), at # "idle",
         at \in { "find", "drop" } => Invalidates(h),
         at \in Early /\ h \in Handlers => handler[h].at = "idle"
  PROVE  HandlersMove
  <1>1. CASE h \notin Handlers
    BY <1>1 DEF HandlersMove, HandlersHold, Starts
  <1>2. CASE h \in Handlers
    <2> DEFINE x == [ at |-> at, join |-> join, seen |-> Nothing, todo |-> << >> ]
    <2>1. Advances(h, x)
      BY <1>2 DEF Advances, Starts, HandlerFields, Early
    <2>2. QED
      BY <2>1 DEF HandlersMove
  <1>3. QED
    BY <1>1, <1>2

\* One that goes on to another step ...
LEMMA Moved ==
  ASSUME HandlersHold, NEW h \in Handlers, NEW at, GoesTo(h, at), at # "idle",
         at \in { "find", "drop" } => Invalidates(h),
         at \in Early => handler[h].at \in Early
  PROVE  HandlersMove
  <1> DEFINE x == [ handler[h] EXCEPT !.at = at ]
  <1>1. DOMAIN handler[h] = HandlerFields /\ (handler[h].seen = Nothing \/ Issued(handler[h].seen))
    BY DEF HandlersHold, HandlerHolds
  <1>2. DOMAIN x = HandlerFields /\ x.at = at /\ x.seen = handler[h].seen
    BY <1>1 DEF HandlerFields
  <1>3. handler' = [ handler EXCEPT ![h] = x ]
    BY DEF GoesTo
  <1>4. Advances(h, x)
    <2> HIDE DEF x
    <2> QED
      BY <1>1, <1>2, <1>3 DEF Advances
  <1>5. QED
    BY <1>4 DEF HandlersMove

\* ... and one that has only jobs left to queue.
LEMMA Queued ==
  ASSUME NEW h \in Handlers, NEW keys, Queues(h, keys)
  PROVE  HandlersMove
  <1> DEFINE x == [ at |-> IF keys = << >> THEN "done" ELSE "jobs", join |-> handler[h].join,
                    seen |-> Nothing, todo |-> keys ]
  <1>1. Advances(h, x)
    BY DEF Advances, Queues, HandlerFields, Early
  <1>2. QED
    BY <1>1 DEF HandlersMove

LEMMA HandlersMoved ==
  ASSUME CaptchaHolds, HandlersHold, CountsHold, [Next]_vars
  PROVE  HandlersMove
  <1>1. ASSUME NEW j \in Joins, AddRow(j) \/ UpdateRow(j) \/ CloseRow(j) PROVE HandlersMove
    <2>1. \A kind \in { "add", "update", "remove" } : << kind, j >> \in Handlers
      BY DEF Handlers
    <2>2. QED
      BY <1>1, <2>1, Queued DEF AddRow, UpdateRow, CloseRow
  <1>2. ASSUME NEW n \in Commands, VerifyRow(n) \/ ResetRow(n) PROVE HandlersMove
    <2>1. \A kind \in { "verify", "unverify" } : << kind, n >> \in Handlers
      BY DEF Handlers
    <2>2. QED
      BY <1>2, <2>1, Queued DEF VerifyRow, ResetRow
  <1>3. ASSUME NEW n \in Commands, TakeRoles(n) \/ GiveUnverified(n) PROVE HandlersMove
    <2>1. << "unverify", n >> \in Handlers /\ Invalidates(<< "unverify", n >>)
      BY DEF Handlers, Invalidates
    <2>2. handler[<< "unverify", n >>].at \in Early
      BY <1>3 DEF TakeRoles, GiveUnverified, Early
    <2>3. PICK at \in { "give", "find", "done" } : GoesTo(<< "unverify", n >>, at)
      BY <1>3 DEF TakeRoles, GiveUnverified
    <2>4. QED
      BY <2>1, <2>2, <2>3, Moved
  <1>4. ASSUME NEW h \in Handlers, FindChallenge(h) PROVE HandlersMove
    <2> DEFINE x == [ at |-> "drop", join |-> handler[h].join, seen |-> active, todo |-> << >> ]
    <2>1. Advances(h, x)
      BY <1>4 DEF FindChallenge, Advances, HandlerFields, Early, HandlersHold, HandlerHolds, CaptchaHolds
    <2>2. QED
      BY <2>1 DEF HandlersMove
  <1>5. ASSUME NEW h \in Handlers, DropChallenge(h) PROVE HandlersMove
    <2>1. PICK at \in { "close", "reset" } : GoesTo(h, at)
      BY <1>5 DEF DropChallenge
    <2>2. QED
      BY <2>1, Moved DEF Early
  <1>6. ASSUME NEW h \in Handlers, HandlerFails(h) PROVE HandlersMove
    <2>1. PICK at \in { "close", "done" } : GoesTo(h, at)
      BY <1>6 DEF HandlerFails
    <2>2. QED
      BY <2>1, Moved DEF Early
  <1>7. ASSUME NEW h \in Handlers, QueueJob(h) PROVE HandlersMove
    BY <1>7, Queued DEF QueueJob
  <1>8. CASE Join \/ Screen
    BY <1>8, Started DEF Join, Screen, Early
  <1>9. CASE Leave
    <2>1. member.join \in Joins => handler[<< "remove", member.join >>].at = "idle"
      BY DEF CountsHold
    <2>2. << "remove", member.join >> \in Handlers => member.join \in Joins
      BY DEF Handlers
    <2>3. Invalidates(<< "remove", member.join >>)
      BY DEF Invalidates
    <2>4. QED
      BY <1>9, <2>1, <2>2, <2>3, Started DEF Leave
  <1>10. ASSUME NEW n \in Commands, Verify(n) PROVE HandlersMove
    <2>1. PICK kind \in { "verify", "unverify" } :
            Starts(<< kind, n >>, IF kind = "verify" THEN "row" ELSE "take", member.join)
      BY <1>10 DEF Verify
    <2>2. CASE kind = "verify"
      BY <2>1, <2>2, Started DEF Early
    <2>3. CASE kind = "unverify"
      <3>1. handler[<< "unverify", n >>].at = "idle"
        BY <1>10 DEF Verify, CountsHold
      <3>2. QED
        BY <2>1, <2>3, <3>1, Started
    <2>4. QED
      BY <2>1, <2>2, <2>3
  <1>11. CASE \/ ChangeSettings \/ (\E n \in Commands : Request(n)) \/ (\E k \in Keys : JobForgotten(k))
    BY <1>11 DEF ChangeSettings, Request, JobForgotten, HandlersMove
  <1>12. CASE InteractionNext
    BY <1>12 DEF InteractionNext, InteractionStep, Admit, FindPrevious, Store, RecordCreated, Read,
       VerifySequence, AppendChoice, Consume, Fail, ReadRow, Record, QueueEvaluation,
       Start, Answer, KeysExpire, rest, HandlersMove
  <1>13. CASE UNCHANGED vars
    BY <1>13 DEF vars, memberVars, HandlersMove
  <1>14. QED
    BY <1>1, <1>2, <1>3, <1>4, <1>5, <1>6, <1>7, <1>8, <1>9, <1>10, <1>11, <1>12, <1>13
       DEF Next, HandlerNext, EnvironmentNext

LEMMA HandlersKept ==
  ASSUME CaptchaHolds, HandlersHold, HandlersMove,
         \A d : Issued(d) => Issued(d)'
  PROVE  HandlersHold' /\ Dropped \subseteq Dropped' /\ Invalidations \subseteq Invalidations'
  <1>1. CASE UNCHANGED handler
    BY <1>1 DEF HandlersHold, HandlerHolds, Dropped, Invalidations
  <1>2. ASSUME NEW h, NEW x, Advances(h, x)
        PROVE  HandlersHold' /\ Dropped \subseteq Dropped' /\ Invalidations \subseteq Invalidations'
    <2>1. /\ handler' = [ g \in Handlers |-> handler'[g] ]
          /\ handler'[h] = x
          /\ \A g \in Handlers : g # h => handler'[g] = handler[g]
      BY <1>2 DEF Advances, HandlersHold
    <2>2. HandlersHold'
      BY <1>2, <2>1 DEF Advances, HandlersHold, HandlerHolds
    <2>3. Dropped \subseteq Dropped'
      BY <1>2, <2>1 DEF Advances, Dropped, Early
    <2>4. Invalidations \subseteq Invalidations'
      BY <1>2, <2>1 DEF Advances, Invalidations
    <2>5. QED
      BY <2>2, <2>3, <2>4
  <1>3. QED
    BY <1>1, <1>2 DEF HandlersMove

-------------------------------------------------------------------------------
(***************************************************************************)
(* The numbers of joins and of commands: whoever is started is new.        *)
(***************************************************************************)
LEMMA CountsKept ==
  ASSUME CountsHold, DOMAIN member' = DOMAIN member,
         UNCHANGED << joined, commands >>, member'.join = member.join,
         \A h \in Handlers : handler'[h].at # "idle" => handler[h].at # "idle"
  PROVE  CountsHold'
  BY DEF CountsHold, Handlers

\* A handler that goes on was not idle.
LEMMA Going ==
  ASSUME HandlersHold, NEW h \in Handlers, handler[h].at # "idle",
         \E x : handler' = [ handler EXCEPT ![h] = x ]
  PROVE  \A g \in Handlers : handler'[g].at # "idle" => handler[g].at # "idle"
  BY DEF HandlersHold

LEMMA GoesOn ==
  ASSUME HandlersHold, NEW h \in Handlers, handler[h].at # "idle",
         \/ \E at : GoesTo(h, at)
         \/ \E keys : Queues(h, keys)
  PROVE  \A g \in Handlers : handler'[g].at # "idle" => handler[g].at # "idle"
  <1>1. CASE \E at : GoesTo(h, at)
    <2>1. PICK at : handler' = [ handler EXCEPT ![h] = [ handler[h] EXCEPT !.at = at ] ]
      BY <1>1 DEF GoesTo
    <2>2. QED
      BY <2>1, Going
  <1>2. CASE \E keys : Queues(h, keys)
    <2>1. PICK keys : handler' = [ handler EXCEPT ![h] =
            [ at |-> IF keys = << >> THEN "done" ELSE "jobs", join |-> handler[h].join,
              seen |-> Nothing, todo |-> keys ] ]
      BY <1>2 DEF Queues
    <2>2. QED
      BY <2>1, Going
  <1>3. QED
    BY <1>1, <1>2

LEMMA CountsStep ==
  ASSUME HandlersHold, CountsHold, [Next]_vars
  PROVE  CountsHold'
  <1>1. ASSUME NEW j \in Joins, AddRow(j) \/ UpdateRow(j) \/ CloseRow(j) PROVE CountsHold'
    <2>1. \A kind \in { "add", "update", "remove" } : << kind, j >> \in Handlers
      BY DEF Handlers
    <2>2. \A g \in Handlers : handler'[g].at # "idle" => handler[g].at # "idle"
      BY <1>1, <2>1, GoesOn DEF AddRow, UpdateRow, CloseRow
    <2>3. UNCHANGED << member, joined, commands >>
      BY <1>1 DEF AddRow, UpdateRow, CloseRow
    <2>4. QED
      BY <2>2, <2>3, CountsKept
  <1>2. ASSUME NEW n \in Commands, VerifyRow(n) \/ ResetRow(n) PROVE CountsHold'
    <2>1. \A kind \in { "verify", "unverify" } : << kind, n >> \in Handlers
      BY DEF Handlers
    <2>2. \A g \in Handlers : handler'[g].at # "idle" => handler[g].at # "idle"
      BY <1>2, <2>1, GoesOn DEF VerifyRow, ResetRow
    <2>3. UNCHANGED << member, joined, commands >>
      BY <1>2 DEF VerifyRow, ResetRow
    <2>4. QED
      BY <2>2, <2>3, CountsKept
  <1>3. ASSUME NEW n \in Commands, TakeRoles(n) \/ GiveUnverified(n) PROVE CountsHold'
    <2>1. << "unverify", n >> \in Handlers
      BY DEF Handlers
    <2>2. \A g \in Handlers : handler'[g].at # "idle" => handler[g].at # "idle"
      BY <1>3, <2>1, GoesOn DEF TakeRoles, GiveUnverified
    <2>3. DOMAIN member = { "join", "screened", "roles" }
      BY DEF CountsHold
    <2>4. DOMAIN member' = DOMAIN member /\ member'.join = member.join
      BY <1>3, <2>3 DEF TakeRoles, GiveUnverified
    <2>5. UNCHANGED << joined, commands >>
      BY <1>3 DEF TakeRoles, GiveUnverified
    <2>6. QED
      BY <2>2, <2>4, <2>5, CountsKept
  <1>4. ASSUME NEW h \in Handlers,
               FindChallenge(h) \/ DropChallenge(h) \/ QueueJob(h) \/ HandlerFails(h)
        PROVE  CountsHold'
    <2>1. handler[h].at # "idle"
      BY <1>4 DEF FindChallenge, DropChallenge, QueueJob, HandlerFails
    <2>2. CASE FindChallenge(h)
      <3>1. \E x : handler' = [ handler EXCEPT ![h] = x ]
        BY <2>2 DEF FindChallenge
      <3>2. \A g \in Handlers : handler'[g].at # "idle" => handler[g].at # "idle"
        BY <2>1, <3>1, Going
      <3>3. UNCHANGED << member, joined, commands >>
        BY <2>2 DEF FindChallenge
      <3>4. QED
        BY <3>2, <3>3, CountsKept
    <2>3. CASE DropChallenge(h) \/ QueueJob(h) \/ HandlerFails(h)
      <3>1. (\E at : GoesTo(h, at)) \/ \E keys : Queues(h, keys)
        BY <2>3 DEF DropChallenge, QueueJob, HandlerFails
      <3>2. \A g \in Handlers : handler'[g].at # "idle" => handler[g].at # "idle"
        BY <2>1, <3>1, GoesOn
      <3>3. UNCHANGED << member, joined, commands >>
        BY <2>3 DEF DropChallenge, QueueJob, HandlerFails
      <3>4. QED
        BY <3>2, <3>3, CountsKept
    <2>4. QED
      BY <1>4, <2>2, <2>3
  <1>5. ASSUME NEW h, NEW at, NEW join, Starts(h, at, join)
        PROVE  \A g \in Handlers : g # h => handler'[g] = handler[g]
    BY <1>5 DEF Starts, HandlersHold
  <1>6. CASE Join
    <2>1. \A g \in Handlers : g[1] # "add" => handler'[g] = handler[g]
      BY <1>5, <1>6 DEF Join
    <2>2. /\ DOMAIN member' = { "join", "screened", "roles" } /\ commands' = commands
          /\ joined' = joined + 1 /\ member'.join = joined + 1
      BY <1>6 DEF Join
    <2>3. /\ \A j \in Joins : handler'[<< "remove", j >>] = handler[<< "remove", j >>]
          /\ \A n \in Commands : handler'[<< "unverify", n >>] = handler[<< "unverify", n >>]
      BY <2>1 DEF Handlers
    <2>4. joined \in Nat /\ \A j \in Joins : j \in Nat
      BY MemberAssumption DEF CountsHold, Joins
    <2>5. QED
      BY <2>2, <2>3, <2>4 DEF CountsHold
  <1>7. CASE Screen
    <2>1. \A g \in Handlers : g[1] # "update" => handler'[g] = handler[g]
      BY <1>5, <1>7 DEF Screen
    <2>2. /\ DOMAIN member' = { "join", "screened", "roles" }
          /\ UNCHANGED << joined, commands >> /\ member'.join = member.join
      BY <1>7 DEF Screen, CountsHold
    <2>3. /\ \A j \in Joins : handler'[<< "remove", j >>] = handler[<< "remove", j >>]
          /\ \A n \in Commands : handler'[<< "unverify", n >>] = handler[<< "unverify", n >>]
      BY <2>1 DEF Handlers
    <2>4. QED
      BY <2>2, <2>3 DEF CountsHold
  <1>8. CASE Leave
    <2>1. \A g \in Handlers : g # << "remove", member.join >> => handler'[g] = handler[g]
      BY <1>5, <1>8 DEF Leave
    <2>2. /\ DOMAIN member' = { "join", "screened", "roles" }
          /\ UNCHANGED << joined, commands >> /\ member'.join = 0
      BY <1>8 DEF Leave, CountsHold, Absent
    <2>3. /\ \A j \in Joins : j # member.join =>
                handler'[<< "remove", j >>] = handler[<< "remove", j >>]
          /\ \A n \in Commands : handler'[<< "unverify", n >>] = handler[<< "unverify", n >>]
      BY <2>1 DEF Handlers
    <2>4. joined \in Nat /\ (\A j \in Joins : j \in Nat /\ j # 0) /\ member.join <= joined
      BY MemberAssumption DEF CountsHold, Joins
    <2>5. QED
      BY <2>2, <2>3, <2>4 DEF CountsHold
  <1>9. ASSUME NEW n \in Commands, Verify(n) PROVE CountsHold'
    <2>1. \A g \in Handlers : g[1] \notin { "verify", "unverify" } \/ g[2] # n => handler'[g] = handler[g]
      BY <1>5, <1>9 DEF Verify
    <2>2. UNCHANGED << member, joined >> /\ n = commands + 1 /\ commands' = n
      BY <1>9 DEF Verify
    <2>3. /\ \A j \in Joins : handler'[<< "remove", j >>] = handler[<< "remove", j >>]
          /\ \A m \in Commands : m # n => handler'[<< "unverify", m >>] = handler[<< "unverify", m >>]
      BY <2>1 DEF Handlers
    <2>4. commands \in Nat /\ \A m \in Commands : m \in Nat
      BY MemberAssumption DEF CountsHold, Commands
    <2>5. QED
      BY <2>2, <2>3, <2>4 DEF CountsHold
  <1>10. ASSUME NEW n \in Commands, Request(n) PROVE CountsHold'
    <2>1. commands \in Nat /\ (\A m \in Commands : m \in Nat) /\ commands' = commands + 1
      BY <1>10, MemberAssumption DEF CountsHold, Commands, Request
    <2>2. UNCHANGED << member, joined, handler >>
      BY <1>10 DEF Request
    <2>3. QED
      BY <2>1, <2>2 DEF CountsHold
  <1>11. CASE ChangeSettings \/ (\E k \in Keys : JobForgotten(k)) \/ InteractionNext \/ UNCHANGED vars
    <2>1. UNCHANGED << member, joined, commands, handler >>
      BY <1>11 DEF ChangeSettings, JobForgotten, InteractionNext, InteractionStep, Admit,
         FindPrevious, Store, RecordCreated, Read, VerifySequence, AppendChoice, Consume, Fail,
         ReadRow, Record, QueueEvaluation, Start, Answer, KeysExpire, rest, vars, memberVars
    <2>2. QED
      BY <2>1, CountsKept
  <1>12. QED
    BY <1>1, <1>2, <1>3, <1>4, <1>6, <1>7, <1>8, <1>9, <1>10, <1>11
       DEF Next, HandlerNext, EnvironmentNext

-------------------------------------------------------------------------------
(***************************************************************************)
(* The interactions.                                                       *)
(***************************************************************************)

\* While a start is under way, no one else stores a challenge.
Rests ==
  /\ (\E s \in Slots : Creates(s)) => cooldown'
  /\ Unused' = Unused
  /\ active' \in { active, Nothing }
  /\ \A d : Issued(d) => Issued(d)'

LEMMA CooldownLasts ==
  ASSUME IntersHold, [Next]_vars
  PROVE  (\E s \in Slots : Creates(s)) => cooldown'
  <1> SUFFICES ASSUME NEW t \in Slots, Creates(t) PROVE cooldown'
    OBVIOUS
  <1>1. cooldown
    BY DEF IntersHold, InterHolds
  <1>2. CASE UNCHANGED cooldown
    BY <1>1, <1>2
  <1>3. CASE HandlerNext \/ EnvironmentNext
    BY <1>1, <1>3, HandlerKinds DEF captchaVars, DropChallenge, Invalidated
  <1>4. CASE KeysExpire
    <2>1. ~ CooldownExpires \/ ~ \A s \in Slots : inter[s].at \notin { "previous", "store" }
      BY DEF Creates
    <2>2. QED
      BY <1>1, <1>4, <2>1 DEF KeysExpire, ChallengeExpires, LockExpires, FailuresExpire
  <1>5. ASSUME NEW s \in Slots, InteractionStep(s) \/ Start(s) PROVE cooldown'
    BY <1>1, <1>5 DEF InteractionStep, Admit, AdmissionLocked, AdmissionLimited, Admitted,
       FindPrevious, Store, StoreChallenge, RecordCreated, Read, VerifySequence, AppendChoice,
       Appends, Consume, ConsumeSuccess, Fail, CountFailure, LockOut, ReadRow, Record, QueueEvaluation,
       Start, captchaVars
  <1>6. CASE \E s \in Slots, c \in Challenges, right \in BOOLEAN : Answer(s, c, right)
    BY <1>1, <1>6 DEF Answer, captchaVars
  <1>7. QED
    BY <1>2, <1>3, <1>4, <1>5, <1>6 DEF Next, InteractionNext, vars, captchaVars

\* The others are as they were, and whoever moves is not about to store one.
LEMMA IntersKept ==
  ASSUME IntersHold, Rests, UNCHANGED inter
  PROVE  IntersHold'
  <1>1. ASSUME NEW s \in Slots PROVE InterHolds(s)'
    <2>1. InterHolds(s) /\ inter'[s] = inter[s] /\ (Creates(s)' <=> Creates(s))
      BY DEF IntersHold, Creates
    <2>2. QED
      BY <2>1 DEF InterHolds, Rests
  <1>2. QED
    BY <1>1 DEF IntersHold, Creates

LEMMA InterMoves ==
  ASSUME IntersHold, Rests, NEW s \in Slots, NEW i, Becomes(s, i),
         DOMAIN i = InterFields, i.at \notin { "previous", "store" }
  PROVE  IntersHold'
  <1>1. /\ inter' = [ t \in Slots |-> inter'[t] ] /\ inter'[s] = i
        /\ \A t \in Slots : t # s => inter'[t] = inter[t]
    BY DEF Becomes, IntersHold
  <1>2. \A t \in Slots : Creates(t)' => Creates(t) /\ t # s
    BY <1>1 DEF Creates
  <1>3. InterHolds(s)'
    BY <1>1 DEF InterHolds, Creates
  <1>4. ASSUME NEW t \in Slots, t # s PROVE InterHolds(t)'
    <2>1. InterHolds(t) /\ inter'[t] = inter[t] /\ (Creates(t)' <=> Creates(t))
      BY <1>1, <1>4 DEF IntersHold, Creates
    <2>2. QED
      BY <2>1 DEF InterHolds, Rests
  <1>5. QED
    BY <1>1, <1>2, <1>3, <1>4 DEF IntersHold

\* One that is alone.
LEMMA InterAlone ==
  ASSUME IntersHold, NEW s \in Slots, NEW i, Becomes(s, i), DOMAIN i = InterFields,
         \A t \in Slots : Creates(t) => t = s, InterHolds(s)'
  PROVE  IntersHold'
  <1>1. /\ inter' = [ t \in Slots |-> inter'[t] ]
        /\ \A t \in Slots : t # s => inter'[t] = inter[t]
    BY DEF Becomes, IntersHold
  <1>2. \A t \in Slots : t # s => ~ Creates(t)'
    BY <1>1 DEF Creates
  <1>3. \A t \in Slots : t # s => InterHolds(t)'
    BY <1>1, <1>2 DEF InterHolds, IntersHold, Creates
  <1>4. QED
    BY <1>1, <1>2, <1>3 DEF IntersHold

\* What an interaction is changed to keeps the fields it has.
LEMMA Fields ==
  ASSUME NEW i, DOMAIN i = InterFields, NEW at, NEW x
  PROVE  /\ LET j == [ i EXCEPT !.at = at ] IN DOMAIN j = InterFields /\ j.at = at
         /\ LET j == [ i EXCEPT !.at = at, !.result = x, !.seen = 0, !.next = << >> ] IN DOMAIN j = InterFields /\ j.at = at
         /\ LET j == [ i EXCEPT !.at = at, !.seen = x ] IN DOMAIN j = InterFields /\ j.at = at
         /\ LET j == [ i EXCEPT !.next = x, !.at = at ] IN DOMAIN j = InterFields /\ j.at = at
         /\ LET j == [ i EXCEPT !.at = at, !.screened = x ] IN DOMAIN j = InterFields /\ j.at = at
  BY DEF InterFields

LEMMA NoInterIsIdle == DOMAIN NoInter = InterFields /\ NoInter.at = "idle"
  BY DEF NoInter, InterFields

LEMMA InterEnds ==
  ASSUME IntersHold, Rests, NEW s \in Slots, Becomes(s, NoInter)
  PROVE  IntersHold'
  BY InterMoves, NoInterIsIdle

LEMMA InterGoes ==
  ASSUME IntersHold, Rests, NEW s \in Slots, NEW at, Goes(s, at), at \notin { "previous", "store" }
  PROVE  IntersHold'
  <1> DEFINE j == [ inter[s] EXCEPT !.at = at ]
  <1>1. DOMAIN inter[s] = InterFields
    BY DEF IntersHold, InterHolds
  <1>2. DOMAIN j = InterFields /\ j.at = at /\ Becomes(s, j)
    BY <1>1, Fields DEF Goes
  <1> HIDE DEF j
  <1>3. QED
    BY <1>2, InterMoves

LEMMA InterGets ==
  ASSUME IntersHold, Rests, NEW s \in Slots, NEW result, Gets(s, result)
  PROVE  IntersHold'
  <1> DEFINE j == [ inter[s] EXCEPT !.at = "record", !.result = result, !.seen = 0, !.next = << >> ]
  <1>1. DOMAIN inter[s] = InterFields
    BY DEF IntersHold, InterHolds
  <1>2. DOMAIN j = InterFields /\ j.at = "record" /\ Becomes(s, j)
    BY <1>1, Fields DEF Gets
  <1> HIDE DEF j
  <1>3. QED
    BY <1>2, InterMoves

LEMMA AdmitKeeps ==
  ASSUME IntersHold, CaptchaHolds, Rests, NEW s \in Slots, Admit(s)
  PROVE  IntersHold'
  <1>1. CASE Becomes(s, NoInter)
    BY <1>1, InterEnds
  <1>2. CASE ~ Becomes(s, NoInter)
    <2> DEFINE c == CHOOSE d \in Unused : TRUE
               i == [ inter[s] EXCEPT !.at = "previous", !.seen = failures, !.challenge = c ]
    <2>1. Unused # {} /\ Admitted /\ Becomes(s, i)
      BY <1>2 DEF Admit
    <2>2. c \in Unused /\ Unused' = Unused
      BY <2>1 DEF Rests
    <2>3. DOMAIN inter[s] = InterFields
      BY DEF IntersHold, InterHolds
    <2> HIDE DEF c
    <2>4. DOMAIN i = InterFields /\ i.at = "previous" /\ i.seen = failures /\ i.challenge = c
      BY <2>3 DEF InterFields
    <2> HIDE DEF i
    <2>5. ~ cooldown /\ cooldown' /\ failures < CaptchaTries
      BY <2>1 DEF Admitted, MayStart
    <2>6. failures \in 0 .. CaptchaTries - 1
      BY <2>5, Tries DEF CaptchaHolds
    <2>7. \A t \in Slots : ~ Creates(t)
      BY <2>5 DEF IntersHold, InterHolds
    <2>8. inter'[s] = i
      BY <2>1 DEF Becomes, IntersHold
    <2>9. InterHolds(s)'
      BY <2>2, <2>4, <2>5, <2>6, <2>8 DEF InterHolds
    <2>10. QED
      BY <2>1, <2>4, <2>7, <2>9, InterAlone
  <1>3. QED
    BY <1>1, <1>2

LEMMA FindPreviousKeeps ==
  ASSUME IntersHold, CaptchaHolds, Rests, NEW s \in Slots, FindPrevious(s)
  PROVE  IntersHold'
  <1> DEFINE i == [ inter[s] EXCEPT !.at = "store", !.previous = active ]
  <1>1. Creates(s) /\ Becomes(s, i) /\ UNCHANGED << active, cooldown >>
    BY DEF FindPrevious, Creates, captchaVars
  <1>2. DOMAIN inter[s] = InterFields
    BY DEF IntersHold, InterHolds
  <1>3. /\ DOMAIN i = InterFields /\ i.at = "store" /\ i.previous = active
        /\ i.challenge = inter[s].challenge /\ i.seen = inter[s].seen
    BY <1>2 DEF InterFields
  <1> HIDE DEF i
  <1>4. \A t \in Slots : Creates(t) => t = s
    BY <1>1 DEF IntersHold
  <1>5. inter'[s] = i
    BY <1>1 DEF Becomes, IntersHold
  <1>6. /\ cooldown /\ inter[s].challenge \in Unused
        /\ inter[s].seen \in 0 .. CaptchaTries - 1
    BY <1>1 DEF IntersHold, InterHolds
  <1>7. active = Nothing \/ (active \in Challenges /\ challenge'[active].mode # "unused")
    BY DEF CaptchaHolds, Rests, Issued
  <1>8. active' = active /\ cooldown' /\ Unused' = Unused
    BY <1>1, <1>6 DEF Rests
  <1>9. InterHolds(s)'
    <2>1. inter'[s].at = "store" /\ inter'[s].previous = active
      BY <1>3, <1>5
    <2>2. /\ inter'[s].challenge \in Unused' /\ inter'[s].seen \in 0 .. CaptchaTries - 1
          /\ DOMAIN inter'[s] = InterFields
      BY <1>3, <1>5, <1>6, <1>8
    <2>3. inter'[s].previous = Nothing \/ Issued(inter[s].previous)'
      BY <1>7, <2>1 DEF Issued
    <2>4. active' \in { inter'[s].previous, Nothing }
      BY <1>8, <2>1
    <2>5. QED
      BY <1>8, <2>1, <2>2, <2>3, <2>4 DEF InterHolds
  <1>10. QED
    BY <1>1, <1>3, <1>4, <1>9, InterAlone

LEMMA StoreKeeps ==
  ASSUME IntersHold, NEW s \in Slots, Store(s)
  PROVE  IntersHold'
  <1> DEFINE i == [ inter[s] EXCEPT !.at = "created" ]
  <1>1. Creates(s) /\ Becomes(s, i)
    BY DEF Store, Creates, Goes
  <1>2. DOMAIN inter[s] = InterFields
    BY DEF IntersHold, InterHolds
  <1>3. DOMAIN i = InterFields /\ i.at = "created"
    BY <1>2 DEF InterFields
  <1> HIDE DEF i
  <1>4. \A t \in Slots : Creates(t) => t = s
    BY <1>1 DEF IntersHold
  <1>5. inter'[s] = i
    BY <1>1 DEF Becomes, IntersHold
  <1>6. InterHolds(s)'
    BY <1>3, <1>5 DEF InterHolds, Creates
  <1>7. QED
    BY <1>1, <1>3, <1>4, <1>6, InterAlone

LEMMA AnswerKeeps ==
  ASSUME IntersHold, CaptchaHolds, Rests, NEW s \in Slots,
         \/ Start(s) \/ RecordCreated(s) \/ Read(s) \/ VerifySequence(s) \/ AppendChoice(s)
         \/ Consume(s) \/ Fail(s) \/ ReadRow(s) \/ Record(s) \/ QueueEvaluation(s)
         \/ \E c \in Challenges, right \in BOOLEAN : Answer(s, c, right)
  PROVE  IntersHold'
  <1>1. CASE RecordCreated(s) \/ QueueEvaluation(s)
    BY <1>1, InterEnds DEF RecordCreated, QueueEvaluation
  <1>2. CASE Consume(s) \/ Fail(s)
    BY <1>2, InterGets DEF Consume, Fail
  <1>3. CASE Record(s)
    BY <1>3, InterEnds, InterGoes DEF Record
  <1>4. CASE VerifySequence(s)
    <2>1. CASE Live(inter[s].challenge)
      <3>1. PICK at \in { "consume", "fail" } : Goes(s, at)
        BY <1>4, <2>1 DEF VerifySequence
      <3>2. QED
        BY <3>1, InterGoes
    <2>2. CASE ~ Live(inter[s].challenge)
      BY <1>4, <2>2, InterGets DEF VerifySequence
    <2>3. QED
      BY <2>1, <2>2
  <1>5. DOMAIN inter[s] = InterFields
    BY DEF IntersHold, InterHolds
  <1>6. CASE AppendChoice(s)
    <2>1. CASE Becomes(s, NoInter)
      BY <2>1, InterEnds
    <2>2. CASE \E result : Gets(s, result)
      BY <2>2, InterGets
    <2>3. CASE Becomes(s, [ inter[s] EXCEPT !.at = "read", !.seen = @ + 1 ])
      <3> DEFINE j == [ inter[s] EXCEPT !.at = "read", !.seen = inter[s].seen + 1 ]
      <3>1. Becomes(s, j) /\ DOMAIN j = InterFields /\ j.at = "read"
        BY <2>3, <1>5, Fields
      <3> HIDE DEF j
      <3>2. QED
        BY <3>1, InterMoves
    <2>4. QED
      BY <1>6, <2>1, <2>2, <2>3 DEF AppendChoice
  <1>7. CASE Read(s)
    <2> DEFINE c == inter[s].challenge
               choice == inter[s].next[Len(inter[s].next)]
               next == Append(challenge[c].progress, choice)
               step == IF Len(next) < Length THEN "append" ELSE "verify"
               j == [ inter[s] EXCEPT !.next = next, !.at = step ]
    <2>1. CASE ~ Live(c)
      BY <1>7, <2>1, InterGets DEF Read
    <2>2. CASE Live(c) /\ challenge[c].mode = "TEXT"
      <3>1. PICK at \in { "consume", "fail" } : Goes(s, at)
        BY <1>7, <2>2 DEF Read
      <3>2. QED
        BY <3>1, InterGoes
    <2>3. CASE Live(c) /\ challenge[c].mode # "TEXT"
      <3>1. Becomes(s, j)
        BY <1>7, <2>3 DEF Read
      <3>2. step \in { "append", "verify" }
        OBVIOUS
      <3> HIDE DEF step, next
      <3>3. DOMAIN j = InterFields /\ j.at = step
        BY <1>5, Fields
      <3> HIDE DEF j
      <3>4. QED
        BY <3>1, <3>2, <3>3, InterMoves
    <2>4. QED
      BY <2>1, <2>2, <2>3
  <1>8. CASE Start(s)
    <2> DEFINE j == [ NoInter EXCEPT !.at = "admit", !.join = member.join ]
    <2>1. Becomes(s, j) /\ DOMAIN j = InterFields /\ j.at = "admit"
      BY <1>8 DEF Start, NoInter, InterFields
    <2> HIDE DEF j
    <2>2. QED
      BY <2>1, InterMoves
  <1>9. ASSUME NEW c \in Challenges, NEW right \in BOOLEAN, Answer(s, c, right) PROVE IntersHold'
    <2> DEFINE j == [ NoInter EXCEPT !.at = "read", !.join = member.join, !.challenge = c,
                                     !.next = << right >> ]
    <2>1. Becomes(s, j) /\ DOMAIN j = InterFields /\ j.at = "read"
      BY <1>9 DEF Answer, NoInter, InterFields
    <2> HIDE DEF j
    <2>2. QED
      BY <2>1, InterMoves
  <1>10. CASE ReadRow(s)
    <2> DEFINE screened == row.screening \/ inter[s].join \in member.screened
               j == [ inter[s] EXCEPT !.at = "write", !.screened = screened ]
    <2>1. Becomes(s, j) /\ DOMAIN inter[s] = InterFields
      BY <1>10 DEF ReadRow, IntersHold, InterHolds
    <2> HIDE DEF screened
    <2>2. DOMAIN j = InterFields /\ j.at = "write"
      BY <2>1, Fields
    <2> HIDE DEF j
    <2>3. QED
      BY <2>1, <2>2, InterMoves
  <1>11. QED
    BY <1>1, <1>2, <1>3, <1>4, <1>6, <1>7, <1>8, <1>9, <1>10

LEMMA IntersStep ==
  ASSUME IntersHold, CaptchaHolds, [Next]_vars, (\E s \in Slots : Store(s)) \/ Rests
  PROVE  IntersHold'
  <1>1. CASE \E s \in Slots : Store(s)
    BY <1>1, StoreKeeps
  <1>2. CASE Rests
    <2>1. CASE UNCHANGED inter
      BY <1>2, <2>1, IntersKept
    <2>2. ASSUME NEW s \in Slots, InteractionStep(s) \/ Start(s) PROVE IntersHold'
      BY <1>2, <2>2, AdmitKeeps, FindPreviousKeeps, StoreKeeps, AnswerKeeps DEF InteractionStep
    <2>3. ASSUME NEW s \in Slots, NEW c \in Challenges, NEW right \in BOOLEAN, Answer(s, c, right)
          PROVE  IntersHold'
      BY <1>2, <2>3, AnswerKeeps
    <2>4. QED
      BY <2>1, <2>2, <2>3 DEF Next, InteractionNext, KeysExpire, interactionVars, vars
  <1>3. QED
    BY <1>1, <1>2

-------------------------------------------------------------------------------
(***************************************************************************)
(* The challenges after a step: which are still open, and what may still   *)
(* be answered wrongly.                                                    *)
(***************************************************************************)
LEMMA CaptchaKept ==
  ASSUME CaptchaHolds,
         challenge' = [ d \in Challenges |-> challenge'[d] ],
         \A d \in Challenges : ChallengeHolds(d)',
         LiveOnes' \subseteq LiveOnes, IsFiniteSet(LiveOnes'),
         \A d : Issued(d) => Issued(d)',
         active' \in { active, Nothing },
         \A d \in consumed' : d \in consumed \/ (Issued(d)' /\ d \notin LiveOnes'),
         failures' \in Nat
  PROVE  CaptchaHolds'
  <1>1. active' = Nothing \/ (active' \in Challenges /\ challenge'[active'].mode # "unused")
    BY DEF CaptchaHolds, Issued
  <1>2. \A d \in consumed' : Issued(d)' /\ d \notin LiveOnes'
    BY DEF CaptchaHolds, LiveOnes
  <1>3. \A d \in consumed' : Issued(d)' /\ ~ Live(d)'
    BY <1>2 DEF LiveOnes, Live, Issued
  <1>4. QED
    BY <1>1, <1>3 DEF CaptchaHolds, Issued

\* What every step but a start's keeps: the budgets only if no challenge is
\* open but the current one.
Shrinks ==
  /\ CaptchaHolds'
  /\ LiveOnes' \subseteq LiveOnes
  /\ Unused' = Unused
  /\ active' \in { active, Nothing }
  /\ \A d : Issued(d) => Issued(d)'

Spends ==
  Orphans = {} => \A n \in Nat : Budget(n) => \A d \in Challenges : failures' + Left(d)' <= n

LEMMA LeftInNat ==
  ASSUME CaptchaHolds
  PROVE  /\ \A d \in Challenges : Left(d) \in 0 .. CaptchaTries
         /\ \A d \in Challenges : Live(d) => Left(d) = challenge[d].attempts /\ Left(d) # 0
         /\ \A d \in Challenges : ~ Live(d) => Left(d) = 0
         /\ failures \in Nat
  BY Tries DEF CaptchaHolds, ChallengeHolds, Left

LEMMA KeptShrinks ==
  ASSUME CaptchaHolds, Kept
  PROVE  Shrinks /\ Spends /\ LiveOnes' = LiveOnes /\ active' = active
  <1>1. /\ challenge' = challenge /\ active' = active /\ consumed' = consumed
        /\ failures' = failures \/ failures' = 0
    BY DEF Kept
  <1>2. /\ LiveOnes' = LiveOnes /\ Unused' = Unused /\ (\A d : Issued(d)' <=> Issued(d))
        /\ \A d \in Challenges : (ChallengeHolds(d)' <=> ChallengeHolds(d)) /\ Left(d)' = Left(d)
    BY <1>1 DEF LiveOnes, Unused, Issued, ChallengeHolds, Live, Left
  <1>3. CaptchaHolds'
    BY <1>1, <1>2, CaptchaKept DEF CaptchaHolds
  <1>4. \A n \in Nat : Budget(n) => \A d \in Challenges : failures' + Left(d)' <= n
    <2> SUFFICES ASSUME NEW n \in Nat, Budget(n), NEW d \in Challenges
                 PROVE  failures' + Left(d)' <= n
      OBVIOUS
    <2>1. failures + Left(d) <= n /\ Left(d) \in 0 .. CaptchaTries /\ failures \in Nat
      BY LeftInNat DEF Budget
    <2>2. Left(d) \in Nat
      BY <2>1, Tries
    <2>3. Left(d)' = Left(d)
      BY <1>2
    <2>4. QED
      BY <1>1, <2>1, <2>2, <2>3
  <1>5. QED
    BY <1>1, <1>2, <1>3, <1>4 DEF Shrinks, Spends

\* A challenge is over.
LEMMA GoneShrinks ==
  ASSUME CaptchaHolds, NEW c \in Challenges, Gone(c), active' \in { active, Nothing },
         consumed' \in { consumed, consumed \cup { c } },
         failures' = 0 \/ failures' = failures \/ failures' = failures + 1
  PROVE  Shrinks /\ Spends /\ LiveOnes' = LiveOnes \ { c } /\ c \in LiveOnes
  <1>1. c \in LiveOnes /\ Live(c) /\ Issued(c)
    BY Tries DEF Gone, LiveOnes, Live, Issued
  <1>2. failures' \in Nat
    BY DEF CaptchaHolds
  <1>3. Issued(c)' /\ c \notin LiveOnes' /\ LiveOnes' = LiveOnes \ { c }
    BY <1>1, GoneEffect
  <1>4. CaptchaHolds'
    BY <1>2, <1>3, GoneEffect, CaptchaKept
  <1>5. Spends
    <2> SUFFICES ASSUME Orphans = {}, NEW n \in Nat, Budget(n), NEW d \in Challenges
                 PROVE  failures' + Left(d)' <= n
      BY DEF Spends
    <2>1. active = c
      BY <1>1 DEF Orphans
    <2>2. d # c => ~ Live(d)
      BY <2>1 DEF Orphans, LiveOnes
    <2>3. Left(d)' = 0
      BY <2>2, GoneEffect, LeftInNat
    <2>4. failures + Left(c) <= n /\ Left(c) \in Nat /\ Left(c) # 0 /\ failures \in Nat
      BY <1>1, LeftInNat, Tries DEF Budget
    <2>5. failures' <= n
      BY <1>2, <2>4
    <2>6. \A f \in Nat : f <= n => f + 0 <= n
      OBVIOUS
    <2>7. failures' + 0 <= n
      BY <1>2, <2>5, <2>6, Zenon
    <2>8. failures' + Left(d)' = failures' + 0
      BY <2>3
    <2>9. QED
      BY <2>7, <2>8
  <1>6. QED
    BY <1>1, <1>3, <1>4, <1>5, GoneEffect DEF Shrinks

\* An attempt is used up, or none.
LEMMA RewrittenShrinks ==
  ASSUME CaptchaHolds, NEW c \in Challenges, NEW used \in { 0, 1 },
         challenge[c].attempts > used, Rewritten(c, challenge[c].attempts - used),
         UNCHANGED << active, consumed >>, failures' = failures + used
  PROVE  Shrinks /\ Spends /\ LiveOnes' = LiveOnes /\ active' = active
  <1> DEFINE attempts == challenge[c].attempts - used
  <1>1. Live(c) /\ c \in LiveOnes
    BY DEF Rewritten, LiveOnes
  <1>2. attempts \in 1 .. CaptchaTries /\ failures \in Nat /\ failures' \in Nat
    BY Tries DEF CaptchaHolds, ChallengeHolds
  <1>3. attempts = Left(c) - used /\ Left(c) \in Nat
    BY <1>1, LeftInNat, Tries
  <1>4. Rewritten(c, attempts)
    OBVIOUS
  <1> HIDE DEF attempts
  <1>5. /\ challenge' = [ d \in Challenges |-> challenge'[d] ]
        /\ \A d \in Challenges : ChallengeHolds(d)'
        /\ LiveOnes' = LiveOnes /\ IsFiniteSet(LiveOnes')
        /\ \A d : Issued(d)' <=> Issued(d)
        /\ Unused' = Unused
        /\ \A d \in Challenges : Left(d)' = IF d = c THEN attempts ELSE Left(d)
    BY <1>2, <1>4, RewrittenEffect
  <1>6. CaptchaHolds'
    BY <1>2, <1>5, CaptchaKept
  <1>7. Spends
    <2> SUFFICES ASSUME Orphans = {}, NEW n \in Nat, Budget(n), NEW d \in Challenges
                 PROVE  failures' + Left(d)' <= n
      BY DEF Spends
    <2>1. active = c
      BY <1>1 DEF Orphans
    <2>2. d # c => Left(d) = 0
      BY <2>1, LeftInNat DEF Orphans, LiveOnes
    <2>3. failures + Left(c) <= n
      BY DEF Budget
    <2>4. Left(d)' = IF d = c THEN attempts ELSE 0
      BY <1>5, <2>2
    <2>5. attempts \in Nat /\ attempts >= 1
      BY <1>2, Tries
    <2>6. QED
      BY <1>2, <1>3, <2>3, <2>4, <2>5
  <1>8. QED
    BY <1>5, <1>6, <1>7 DEF Shrinks

LEMMA AnsweredShrinks ==
  ASSUME CaptchaHolds, NEW c \in Challenges, Answered(c)
  PROVE  /\ Shrinks /\ Spends
         /\ \/ LiveOnes' = LiveOnes /\ active' = active
            \/ LiveOnes' = LiveOnes \ { c } /\ active' = Nothing /\ c \in LiveOnes
  <1>1. CASE ConsumeSuccess(c) \/ LockOut(c)
    <2>1. Gone(c) /\ active' = Nothing
      BY <1>1 DEF ConsumeSuccess, LockOut, Gone
    <2>2. /\ consumed' \in { consumed, consumed \cup { c } }
          /\ failures' = 0 \/ failures' = failures \/ failures' = failures + 1
      BY <1>1 DEF ConsumeSuccess, LockOut
    <2>3. QED
      BY <2>1, <2>2, GoneShrinks
  <1>2. CASE CountFailure(c)
    <2>1. Rewritten(c, challenge[c].attempts - 1)
      BY <1>2 DEF CountFailure, Rewritten
    <2>2. challenge[c].attempts > 1 /\ UNCHANGED << active, consumed >> /\ failures' = failures + 1
      BY <1>2 DEF CountFailure
    <2>3. QED
      BY <2>1, <2>2, RewrittenShrinks
  <1>3. QED
    BY <1>1, <1>2 DEF Answered

LEMMA AppendsShrinks ==
  ASSUME CaptchaHolds, NEW c \in Challenges, NEW seen, NEW next, Appends(c, seen, next)
  PROVE  Shrinks /\ Spends /\ LiveOnes' = LiveOnes /\ active' = active
  <1>1. Live(c) /\ UNCHANGED << active, consumed, failures >>
    BY DEF Appends
  <1>2. challenge[c].attempts \in Nat /\ challenge[c].attempts > 0 /\ failures \in Nat
    BY <1>1, Tries DEF CaptchaHolds, ChallengeHolds
  <1>3. challenge[c].attempts - 0 = challenge[c].attempts /\ failures' = failures + 0
    BY <1>1, <1>2
  <1>4. Rewritten(c, challenge[c].attempts - 0)
    BY <1>3 DEF Appends, Rewritten
  <1>5. QED
    BY <1>1, <1>2, <1>3, <1>4, RewrittenShrinks

LEMMA ExpiresShrinks ==
  ASSUME CaptchaHolds, NEW c \in Challenges, ChallengeExpires(c)
  PROVE  /\ Shrinks /\ Spends /\ LiveOnes' = LiveOnes \ { c }
         /\ active' = IF active = c THEN Nothing ELSE active
  <1>1. Gone(c) /\ UNCHANGED << consumed, failures >>
        /\ active' = IF active = c THEN Nothing ELSE active
    BY DEF ChallengeExpires, Gone
  <1>2. QED
    BY <1>1, GoneShrinks

LEMMA DropShrinks ==
  ASSUME CaptchaHolds, HandlersHold, NEW h \in Handlers, DropChallenge(h)
  PROVE  Shrinks /\ active' = Nothing
  <1>1. handler[h].seen = Nothing \/ Issued(handler[h].seen)
    BY DEF HandlersHold, HandlerHolds
  <1>2. Invalidated(handler[h].seen)
    BY DEF DropChallenge
  <1>3. /\ challenge' = [ d \in Challenges |-> challenge'[d] ]
        /\ \A d \in Challenges : ChallengeHolds(d)'
        /\ LiveOnes' = LiveOnes \ { handler[h].seen } /\ IsFiniteSet(LiveOnes')
        /\ \A d : Issued(d)' <=> Issued(d)
        /\ Unused' = Unused
        /\ UNCHANGED << failures, consumed >> /\ active' = Nothing
    BY <1>1, <1>2, InvalidatedEffect
  <1>4. CaptchaHolds'
    BY <1>3, CaptchaKept DEF CaptchaHolds
  <1>5. QED
    BY <1>3, <1>4 DEF Shrinks

\* What a start stores: its own challenge, for the current one.
LEMMA Stores ==
  ASSUME CaptchaHolds, IntersHold, NEW s \in Slots, Store(s)
  PROVE  \E mode \in Modes :
           LET c == inter[s].challenge
               previous == inter[s].previous
               attempts == CaptchaTries - inter[s].seen
           IN /\ Creates(s)
              /\ c \in Unused
              /\ previous = Nothing \/ Issued(previous)
              /\ active \in { previous, Nothing }
              /\ attempts \in 1 .. CaptchaTries
              /\ inter[s].seen \in Nat
              /\ StoreChallenge(c, previous, attempts, mode)
  <1>1. Creates(s) /\ inter[s].at = "store"
    BY DEF Store, Creates
  <1>2. /\ inter[s].challenge \in Unused /\ inter[s].seen \in 0 .. CaptchaTries - 1
        /\ inter[s].previous = Nothing \/ Issued(inter[s].previous)
        /\ active \in { inter[s].previous, Nothing }
    BY <1>1 DEF IntersHold, InterHolds
  <1>3. /\ Remaining(inter[s].seen) = CaptchaTries - inter[s].seen /\ inter[s].seen \in Nat
        /\ CaptchaTries - inter[s].seen \in 1 .. CaptchaTries
    BY <1>2, Tries DEF Remaining
  <1>4. QED
    BY <1>1, <1>2, <1>3 DEF Store

LEMMA StoreGrows ==
  ASSUME CaptchaHolds, IntersHold, NEW s \in Slots, Store(s)
  PROVE  /\ CaptchaHolds'
         /\ active' \notin LiveOnes
         /\ LiveOnes' \subseteq (LiveOnes \ { active }) \cup { active' }
         /\ \A d : Issued(d) => Issued(d)'
         /\ Budget(inter[s].seen + CaptchaTries) =>
              \A d \in Challenges : failures' + Left(d)' <= 2 * CaptchaTries
  <1> DEFINE c == inter[s].challenge
             previous == inter[s].previous
             attempts == CaptchaTries - inter[s].seen
  <1>1. PICK mode \in Modes :
          /\ c \in Unused
          /\ previous = Nothing \/ Issued(previous)
          /\ active \in { previous, Nothing }
          /\ attempts \in 1 .. CaptchaTries
          /\ inter[s].seen \in Nat
          /\ StoreChallenge(c, previous, attempts, mode)
    BY Stores
  <1>2. active' = c /\ UNCHANGED << failures, consumed >>
    BY <1>1 DEF StoreChallenge
  <1>3. attempts = CaptchaTries - inter[s].seen
    OBVIOUS
  <1> HIDE DEF c, previous, attempts
  <1>4. /\ challenge' = [ d \in Challenges |-> challenge'[d] ]
        /\ \A d \in Challenges : ChallengeHolds(d)'
        /\ LiveOnes' = (LiveOnes \ { previous }) \cup { c } /\ IsFiniteSet(LiveOnes')
        /\ c \notin LiveOnes /\ c # previous
        /\ \A d : Issued(d) => Issued(d)'
        /\ \A d \in Challenges : Left(d)' = IF d = c THEN attempts
                                             ELSE IF d = previous THEN 0 ELSE Left(d)
    BY <1>1, StoreEffect
  <1>5. c \in Challenges /\ challenge'[c].mode # "unused" /\ ~ Issued(c)
    <2>1. c \in Challenges /\ ~ Issued(c)
      BY <1>1 DEF Unused, Issued
    <2>2. challenge'[c].mode = mode
      BY <1>1, <2>1 DEF StoreChallenge
    <2>3. QED
      BY <2>1, <2>2, Tries
  <1>6. \A d \in consumed' : Issued(d)' /\ ~ Live(d)'
    <2>1. \A d \in consumed : Issued(d) /\ d \notin LiveOnes
      BY DEF CaptchaHolds, LiveOnes
    <2>2. \A d \in consumed : d # c /\ d \notin LiveOnes'
      BY <1>4, <1>5, <2>1
    <2>3. QED
      BY <1>2, <1>4, <2>1, <2>2 DEF LiveOnes, Live
  <1>7. CaptchaHolds'
    BY <1>2, <1>4, <1>5, <1>6 DEF CaptchaHolds, Issued
  <1>8. Nothing \notin LiveOnes
    BY Tries DEF LiveOnes
  <1>9. LiveOnes' \subseteq (LiveOnes \ { active }) \cup { active' }
    BY <1>1, <1>2, <1>4, <1>8
  <1>10. ASSUME Budget(inter[s].seen + CaptchaTries), NEW d \in Challenges
         PROVE  failures' + Left(d)' <= 2 * CaptchaTries
    <2>1. /\ failures + Left(d) <= inter[s].seen + CaptchaTries
          /\ failures \in Nat /\ Left(d) \in Nat /\ inter[s].seen \in Nat
      BY <1>1, <1>10, LeftInNat, Tries DEF Budget
    <2>2. attempts \in 1 .. CaptchaTries
      BY <1>1
    <2>3. inter[s].seen <= CaptchaTries
      BY <1>3, <2>1, <2>2, Tries
    <2>4. Left(d)' = attempts \/ Left(d)' = 0 \/ Left(d)' = Left(d)
      BY <1>4
    <2>5. failures' = failures /\ CaptchaTries \in Nat
      BY <1>2, Tries
    <2>6. QED
      BY <1>3, <2>1, <2>3, <2>4, <2>5
  <1>11. QED
    BY <1>2, <1>4, <1>7, <1>9, <1>10

-------------------------------------------------------------------------------
(***************************************************************************)
(* The challenges that are left open, and what may be answered wrongly.    *)
(***************************************************************************)
LEMMA HandlersFinite == IsFiniteSet(Handlers) /\ IsFiniteSet(Dropped) /\ IsFiniteSet(Invalidations)
  <1>1. IsFiniteSet(Joins) /\ IsFiniteSet(Commands)
    BY FS_Interval, MemberAssumption DEF Joins, Commands
  <1>2. IsFiniteSet({ "add", "update", "remove" }) /\ IsFiniteSet({ "verify", "unverify" })
    <2>1. IsFiniteSet({})
      BY FS_EmptySet
    <2>2. IsFiniteSet({ "add" }) /\ IsFiniteSet({ "verify" })
      BY FS_Singleton
    <2>3. IsFiniteSet({ "add" } \cup { "update" }) /\ IsFiniteSet({ "verify" } \cup { "unverify" })
      BY <2>2, FS_AddElement
    <2>4. IsFiniteSet(({ "add" } \cup { "update" }) \cup { "remove" })
      BY <2>3, FS_AddElement
    <2>5. /\ { "add", "update", "remove" } = ({ "add" } \cup { "update" }) \cup { "remove" }
          /\ { "verify", "unverify" } = { "verify" } \cup { "unverify" }
      OBVIOUS
    <2>6. QED
      BY <2>3, <2>4, <2>5
  <1>3. IsFiniteSet({ "add", "update", "remove" } \X Joins) /\ IsFiniteSet({ "verify", "unverify" } \X Commands)
    BY <1>1, <1>2, FS_Product
  <1>4. IsFiniteSet(Handlers)
    BY <1>3, FS_Union DEF Handlers
  <1>5. Dropped \subseteq Handlers /\ Invalidations \subseteq Handlers
    BY DEF Dropped, Invalidations
  <1>6. QED
    BY <1>4, <1>5, FS_Subset

LEMMA OrphansKept ==
  ASSUME CaptchaHolds, OrphansBounded, Orphans' \subseteq Orphans, Dropped \subseteq Dropped',
         IsFiniteSet(Dropped')
  PROVE  OrphansBounded'
  <1>1. IsFiniteSet(Orphans)
    BY FS_Subset DEF CaptchaHolds, Orphans
  <1>2. /\ Cardinality(Orphans') <= Cardinality(Orphans) /\ Cardinality(Orphans) \in Nat
        /\ IsFiniteSet(Orphans')
    BY <1>1, FS_Subset, FS_CardinalityType
  <1>3. /\ Cardinality(Dropped) <= Cardinality(Dropped') /\ Cardinality(Dropped') \in Nat
        /\ IsFiniteSet(Dropped)
    BY FS_Subset, FS_CardinalityType
  <1>4. Cardinality(Dropped) \in Nat /\ Cardinality(Orphans') \in Nat
    BY <1>2, <1>3, FS_CardinalityType
  <1>5. QED
    BY <1>2, <1>3, <1>4 DEF OrphansBounded

\* The current challenge is left open, for another that was.
LEMMA OrphanExchanged ==
  ASSUME CaptchaHolds, OrphansBounded, NEW c \in Orphans,
         Orphans' \subseteq (Orphans \ { c }) \cup { active },
         Dropped \subseteq Dropped', IsFiniteSet(Dropped')
  PROVE  OrphansBounded'
  <1>1. IsFiniteSet(Orphans)
    BY FS_Subset DEF CaptchaHolds, Orphans
  <1>2. /\ IsFiniteSet(Orphans \ { c }) /\ Cardinality(Orphans \ { c }) = Cardinality(Orphans) - 1
        /\ Cardinality(Orphans) \in Nat
    BY <1>1, FS_RemoveElement, FS_CardinalityType
  <1>3. active \notin Orphans \ { c }
    BY DEF Orphans
  <1>4. /\ IsFiniteSet((Orphans \ { c }) \cup { active })
        /\ Cardinality((Orphans \ { c }) \cup { active }) = Cardinality(Orphans \ { c }) + 1
    BY <1>2, <1>3, FS_AddElement
  <1>5. /\ IsFiniteSet(Orphans')
        /\ Cardinality(Orphans') <= Cardinality((Orphans \ { c }) \cup { active })
    BY <1>4, FS_Subset
  <1>6. /\ Cardinality(Dropped) <= Cardinality(Dropped') /\ Cardinality(Dropped') \in Nat
        /\ IsFiniteSet(Dropped)
    BY FS_Subset, FS_CardinalityType
  <1>7. Cardinality(Dropped) \in Nat /\ Cardinality(Orphans') \in Nat
    BY <1>5, <1>6, FS_CardinalityType
  <1>8. Cardinality(Orphans') <= Cardinality(Orphans)
    BY <1>2, <1>4, <1>5, <1>7
  <1>9. QED
    BY <1>2, <1>6, <1>7, <1>8 DEF OrphansBounded

\* The current challenge is left open by an invalidation.
LEMMA OrphanLeft ==
  ASSUME CaptchaHolds, OrphansBounded, Orphans' \subseteq Orphans \cup { active },
         NEW h, h \notin Dropped, h \in Dropped', Dropped \subseteq Dropped', IsFiniteSet(Dropped')
  PROVE  OrphansBounded'
  <1>1. IsFiniteSet(Orphans) /\ active \notin Orphans
    BY FS_Subset DEF CaptchaHolds, Orphans
  <1>2. /\ IsFiniteSet(Orphans \cup { active })
        /\ Cardinality(Orphans \cup { active }) = Cardinality(Orphans) + 1
        /\ Cardinality(Orphans) \in Nat
    BY <1>1, FS_AddElement, FS_CardinalityType
  <1>3. IsFiniteSet(Orphans') /\ Cardinality(Orphans') <= Cardinality(Orphans \cup { active })
    BY <1>2, FS_Subset
  <1>4. IsFiniteSet(Dropped)
    BY FS_Subset
  <1>5. /\ IsFiniteSet(Dropped \cup { h })
        /\ Cardinality(Dropped \cup { h }) = Cardinality(Dropped) + 1
    BY <1>4, FS_AddElement
  <1>6. Dropped \cup { h } \subseteq Dropped'
    OBVIOUS
  <1>7. Cardinality(Dropped \cup { h }) <= Cardinality(Dropped')
    BY <1>6, FS_Subset
  <1>8. /\ Cardinality(Dropped) \in Nat /\ Cardinality(Orphans') \in Nat
        /\ Cardinality(Dropped') \in Nat
    BY <1>3, <1>4, FS_CardinalityType
  <1>9. QED
    BY <1>2, <1>3, <1>5, <1>7, <1>8 DEF OrphansBounded

LEMMA Dropping ==
  ASSUME HandlersHold, NEW h \in Handlers, DropChallenge(h)
  PROVE  h \notin Dropped /\ h \in Dropped' /\ h \in Invalidations'
  <1>1. PICK at \in { "close", "reset" } : GoesTo(h, at)
    BY DEF DropChallenge
  <1>2. handler[h].at = "drop" /\ Invalidates(h) /\ DOMAIN handler[h] = HandlerFields
    BY DEF DropChallenge, HandlersHold, HandlerHolds
  <1>3. handler'[h].at = at
    BY <1>1, <1>2 DEF GoesTo, HandlersHold, HandlerFields
  <1>4. QED
    BY <1>2, <1>3 DEF Dropped, Early, Invalidations, Invalidates

LEMMA OrphansStep ==
  ASSUME Inv, [Next]_vars, HandlersHold', Dropped \subseteq Dropped'
  PROVE  /\ OrphansBounded' /\ CaptchaHolds'
         /\ (\A d : Issued(d) => Issued(d)')
         /\ \/ (\E s \in Slots : Store(s))
            \/ Shrinks /\ Spends
            \/ Shrinks /\ \E h : h \in Invalidations'
  <1> USE DEF Inv
  <1>1. IsFiniteSet(Dropped')
    <2>1. Dropped' \subseteq Handlers
      BY DEF Dropped
    <2>2. QED
      BY <2>1, HandlersFinite, FS_Subset
  <1>2. Nothing \notin LiveOnes
    BY Tries DEF LiveOnes
  <1>3. CASE Kept
    <2>1. Shrinks /\ Spends /\ LiveOnes' = LiveOnes /\ active' = active
      BY <1>3, KeptShrinks
    <2>2. Orphans' \subseteq Orphans
      BY <2>1 DEF Orphans
    <2>3. QED
      BY <1>1, <2>1, <2>2, OrphansKept DEF Shrinks
  <1>4. ASSUME NEW c \in Challenges, Answered(c)
        PROVE  Shrinks /\ Spends /\ OrphansBounded'
    <2>1. CASE LiveOnes' = LiveOnes /\ active' = active
      <3>1. Orphans' \subseteq Orphans
        BY <2>1 DEF Orphans
      <3>2. QED
        BY <1>1, <1>4, <3>1, AnsweredShrinks, OrphansKept
    <2>2. CASE LiveOnes' = LiveOnes \ { c } /\ active' = Nothing /\ c \in LiveOnes
      <3>1. CASE c = active
        <4>1. Orphans' \subseteq Orphans
          BY <2>2, <3>1 DEF Orphans
        <4>2. QED
          BY <1>1, <1>4, <4>1, AnsweredShrinks, OrphansKept
      <3>2. CASE c # active
        <4>1. c \in Orphans /\ Orphans' \subseteq (Orphans \ { c }) \cup { active }
          BY <2>2, <3>2 DEF Orphans
        <4>2. QED
          BY <1>1, <1>4, <4>1, AnsweredShrinks, OrphanExchanged
      <3>3. QED
        BY <3>1, <3>2
    <2>3. QED
      BY <1>4, <2>1, <2>2, AnsweredShrinks
  <1>5. ASSUME NEW c \in Challenges, ChallengeExpires(c)
        PROVE  Shrinks /\ Spends /\ OrphansBounded'
    <2>1. Shrinks /\ Spends /\ LiveOnes' = LiveOnes \ { c }
          /\ active' = IF active = c THEN Nothing ELSE active
      BY <1>5, ExpiresShrinks
    <2>2. Orphans' \subseteq Orphans
      BY <2>1 DEF Orphans
    <2>3. QED
      BY <1>1, <2>1, <2>2, OrphansKept
  <1>6. ASSUME NEW c \in Challenges, NEW seen, NEW next, Appends(c, seen, next)
        PROVE  Shrinks /\ Spends /\ OrphansBounded'
    <2>1. Shrinks /\ Spends /\ LiveOnes' = LiveOnes /\ active' = active
      BY <1>6, AppendsShrinks
    <2>2. Orphans' \subseteq Orphans
      BY <2>1 DEF Orphans
    <2>3. QED
      BY <1>1, <2>1, <2>2, OrphansKept
  <1>7. ASSUME NEW h \in Handlers, DropChallenge(h)
        PROVE  Shrinks /\ OrphansBounded' /\ h \in Invalidations'
    <2>1. Shrinks /\ active' = Nothing
      BY <1>7, DropShrinks
    <2>2. Orphans' \subseteq Orphans \cup { active }
      BY <2>1 DEF Orphans, Shrinks
    <2>3. h \notin Dropped /\ h \in Dropped' /\ h \in Invalidations'
      BY <1>7, Dropping
    <2>4. QED
      BY <1>1, <2>1, <2>2, <2>3, OrphanLeft
  <1>8. ASSUME NEW s \in Slots, Store(s)
        PROVE  OrphansBounded' /\ CaptchaHolds' /\ \A d : Issued(d) => Issued(d)'
    <2>1. /\ CaptchaHolds' /\ (\A d : Issued(d) => Issued(d)')
          /\ LiveOnes' \subseteq (LiveOnes \ { active }) \cup { active' }
      BY <1>8, StoreGrows
    <2>2. Orphans' \subseteq Orphans
      BY <2>1 DEF Orphans
    <2>3. QED
      BY <1>1, <2>1, <2>2, OrphansKept
  <1>9. QED
    BY <1>3, <1>4, <1>5, <1>6, <1>7, <1>8, StepKinds, KeptShrinks DEF Shrinks

\* Whoever is about to store a challenge was so before, or has just been
\* admitted; nobody is when a challenge has been stored.
LEMMA Creating ==
  ASSUME IntersHold, CaptchaHolds, [Next]_vars, NEW t \in Slots, Creates(t)'
  PROVE  /\ \A s \in Slots : ~ Store(s)
         /\ \/ Creates(t) /\ inter'[t].seen = inter[t].seen
            \/ Kept /\ failures' = failures /\ inter'[t].seen = failures /\ failures < CaptchaTries
  <1>1. ASSUME NEW s \in Slots, NEW i, Becomes(s, i)
        PROVE  /\ inter'[s] = i
               /\ t # s => inter'[t] = inter[t] /\ Creates(t)
    BY <1>1 DEF Becomes, IntersHold, Creates
  <1>2. \A s \in Slots : DOMAIN inter[s] = InterFields
    BY DEF IntersHold, InterHolds
  <1>3. ASSUME NEW s \in Slots, NEW i, Becomes(s, i), i.at \notin { "previous", "store" }
        PROVE  t # s /\ Creates(t) /\ inter'[t].seen = inter[t].seen
    BY <1>1, <1>3 DEF Creates
  <1>4. ASSUME NEW s \in Slots, NEW at, Goes(s, at), at \notin { "previous", "store" }
        PROVE  t # s /\ Creates(t) /\ inter'[t].seen = inter[t].seen
    <2> DEFINE i == [ inter[s] EXCEPT !.at = at ]
    <2>1. Becomes(s, i) /\ i.at = at
      BY <1>2, <1>4, Fields DEF Goes
    <2> HIDE DEF i
    <2>2. QED
      BY <1>3, <1>4, <2>1
  <1>5. ASSUME NEW s \in Slots, NEW result, Gets(s, result)
        PROVE  t # s /\ Creates(t) /\ inter'[t].seen = inter[t].seen
    <2> DEFINE i == [ inter[s] EXCEPT !.at = "record", !.result = result, !.seen = 0, !.next = << >> ]
    <2>1. Becomes(s, i) /\ i.at = "record"
      BY <1>2, <1>5, Fields DEF Gets
    <2> HIDE DEF i
    <2>2. QED
      BY <1>3, <2>1
  <1>6. ASSUME NEW s \in Slots, Store(s) PROVE FALSE
    <2>1. Goes(s, "created") /\ Creates(s)
      BY <1>6 DEF Store, Creates
    <2>2. t # s /\ Creates(t)
      BY <1>4, <2>1
    <2>3. QED
      BY <2>1, <2>2 DEF IntersHold
  <1> DEFINE Was == \/ Creates(t) /\ inter'[t].seen = inter[t].seen
                    \/ Kept /\ failures' = failures /\ inter'[t].seen = failures
                       /\ failures < CaptchaTries
  <1>7. ASSUME UNCHANGED inter PROVE Was
    BY <1>7 DEF Creates
  <1>8. ASSUME NEW s \in Slots, Admit(s) PROVE Was
    <2>1. CASE Becomes(s, NoInter)
      BY <1>3, <2>1, NoInterIsIdle
    <2>2. CASE ~ Becomes(s, NoInter)
      <3> DEFINE i == [ inter[s] EXCEPT !.at = "previous", !.seen = failures,
                                        !.challenge = CHOOSE c \in Unused : TRUE ]
      <3>1. Admitted /\ Becomes(s, i)
        BY <1>8, <2>2 DEF Admit
      <3>2. i.seen = failures
        BY <1>2 DEF InterFields
      <3> HIDE DEF i
      <3>3. Kept /\ failures' = failures /\ failures < CaptchaTries
        BY <3>1 DEF Admitted, MayStart, Kept
      <3>4. QED
        BY <1>1, <3>1, <3>2, <3>3
    <2>3. QED
      BY <2>1, <2>2
  <1>9. ASSUME NEW s \in Slots, FindPrevious(s) PROVE Was
    <2> DEFINE i == [ inter[s] EXCEPT !.at = "store", !.previous = active ]
    <2>1. Becomes(s, i) /\ Creates(s)
      BY <1>9 DEF FindPrevious, Creates
    <2>2. i.seen = inter[s].seen
      BY <1>2 DEF InterFields
    <2> HIDE DEF i
    <2>3. QED
      BY <1>1, <2>1, <2>2
  <1>10. ASSUME NEW s \in Slots, RecordCreated(s) \/ QueueEvaluation(s) PROVE Was
    BY <1>3, <1>10, NoInterIsIdle DEF RecordCreated, QueueEvaluation
  <1>11. ASSUME NEW s \in Slots, Consume(s) \/ Fail(s) PROVE Was
    BY <1>5, <1>11 DEF Consume, Fail
  <1>12. ASSUME NEW s \in Slots, Record(s) PROVE Was
    BY <1>3, <1>4, <1>12, NoInterIsIdle DEF Record
  <1>13. ASSUME NEW s \in Slots, VerifySequence(s) PROVE Was
    <2>1. (\E at \in { "consume", "fail" } : Goes(s, at)) \/ Gets(s, "REFUSED")
      BY <1>13 DEF VerifySequence
    <2>2. QED
      BY <1>4, <1>5, <2>1
  <1>14. ASSUME NEW s \in Slots, AppendChoice(s) PROVE Was
    <2> DEFINE j == [ inter[s] EXCEPT !.at = "read", !.seen = inter[s].seen + 1 ]
    <2>1. Becomes(s, NoInter) \/ Gets(s, "REFUSED") \/ Becomes(s, j)
      BY <1>14 DEF AppendChoice
    <2>2. j.at = "read"
      BY <1>2, Fields
    <2> HIDE DEF j
    <2>3. QED
      BY <1>3, <1>5, <2>1, <2>2, NoInterIsIdle
  <1>15. ASSUME NEW s \in Slots, Read(s) PROVE Was
    <2> DEFINE c == inter[s].challenge
               next == Append(challenge[c].progress, inter[s].next[Len(inter[s].next)])
               step == IF Len(next) < Length THEN "append" ELSE "verify"
               j == [ inter[s] EXCEPT !.next = next, !.at = step ]
    <2>1. Gets(s, "REFUSED") \/ (\E at \in { "consume", "fail" } : Goes(s, at)) \/ Becomes(s, j)
      BY <1>15 DEF Read
    <2>2. step \in { "append", "verify" }
      OBVIOUS
    <2> HIDE DEF step, next
    <2>3. j.at = step
      BY <1>2, Fields
    <2> HIDE DEF j
    <2>4. QED
      BY <1>3, <1>4, <1>5, <2>1, <2>2, <2>3
  <1>16. ASSUME NEW s \in Slots, Start(s) PROVE Was
    <2> DEFINE j == [ NoInter EXCEPT !.at = "admit", !.join = member.join ]
    <2>1. Becomes(s, j) /\ j.at = "admit"
      BY <1>16 DEF Start, NoInter
    <2> HIDE DEF j
    <2>2. QED
      BY <1>3, <2>1
  <1>17. ASSUME NEW s \in Slots, NEW c \in Challenges, NEW right \in BOOLEAN, Answer(s, c, right)
         PROVE  Was
    <2> DEFINE j == [ NoInter EXCEPT !.at = "read", !.join = member.join, !.challenge = c,
                                     !.next = << right >> ]
    <2>1. Becomes(s, j) /\ j.at = "read"
      BY <1>17 DEF Answer, NoInter
    <2> HIDE DEF j
    <2>2. QED
      BY <1>3, <2>1
  <1>18. UNCHANGED inter \/ (\E s \in Slots : InteractionStep(s) \/ Start(s))
         \/ (\E s \in Slots, c \in Challenges, right \in BOOLEAN : Answer(s, c, right))
    BY DEF Next, InteractionNext, KeysExpire, interactionVars, vars
  <1>19. ASSUME NEW s \in Slots, ReadRow(s) PROVE Was
    <2> DEFINE screened == row.screening \/ inter[s].join \in member.screened
               j == [ inter[s] EXCEPT !.at = "write", !.screened = screened ]
    <2>1. Becomes(s, j)
      BY <1>19 DEF ReadRow
    <2> HIDE DEF screened
    <2>2. j.at = "write"
      BY <1>2, Fields
    <2> HIDE DEF j
    <2>3. QED
      BY <1>3, <2>1, <2>2
  <1> HIDE DEF Was
  <1>20. Was
    BY <1>6, <1>7, <1>8, <1>9, <1>10, <1>11, <1>12, <1>13, <1>14, <1>15, <1>16, <1>17, <1>18, <1>19
       DEF InteractionStep, Was
  <1>21. QED
    BY <1>6, <1>20 DEF Was

LEMMA OrphansEmpty ==
  ASSUME CaptchaHolds, OrphansBounded, Invalidations = {}
  PROVE  Orphans = {}
  <1>1. Dropped = {}
    BY DEF Dropped, Invalidations, Early, Invalidates
  <1>2. IsFiniteSet(Orphans)
    BY FS_Subset DEF CaptchaHolds, Orphans
  <1>3. Cardinality(Orphans) <= 0 /\ Cardinality(Orphans) \in Nat
    BY <1>1, <1>2, FS_EmptySet, FS_CardinalityType DEF OrphansBounded
  <1>4. Cardinality(Orphans) = 0
    BY <1>3
  <1>5. QED
    BY <1>2, <1>4, FS_EmptySet

LEMMA BudgetsStep ==
  ASSUME Inv, [Next]_vars, CaptchaHolds', Invalidations \subseteq Invalidations',
         \/ (\E s \in Slots : Store(s))
         \/ Shrinks /\ Spends
         \/ Shrinks /\ \E h : h \in Invalidations'
  PROVE  BudgetsHold'
  <1> SUFFICES ASSUME Invalidations' = {}
               PROVE  /\ Budget(2 * CaptchaTries)'
                      /\ \A t \in Slots : Creates(t)' => Budget(inter[t].seen + CaptchaTries)'
    BY DEF BudgetsHold
  <1>1. Invalidations = {} /\ Orphans = {}
    BY OrphansEmpty DEF Inv
  <1>2. /\ Budget(2 * CaptchaTries)
        /\ \A s \in Slots : Creates(s) => Budget(inter[s].seen + CaptchaTries)
    BY <1>1 DEF Inv, BudgetsHold
  <1>3. CASE \E s \in Slots : Store(s)
    <2>1. PICK s \in Slots : Store(s)
      BY <1>3
    <2>2. Budget(inter[s].seen + CaptchaTries)
      BY <1>2, <2>1, Stores DEF Inv
    <2>3. \A d \in Challenges : failures' + Left(d)' <= 2 * CaptchaTries
      BY <2>1, <2>2, StoreGrows DEF Inv
    <2>4. \A t \in Slots : ~ Creates(t)'
      BY <2>1, Creating DEF Inv
    <2>5. QED
      BY <2>3, <2>4 DEF Budget
  <1>4. CASE Spends
    <2>1. \A n \in Nat : Budget(n) => \A d \in Challenges : failures' + Left(d)' <= n
      BY <1>1, <1>4 DEF Spends
    <2>2. 2 * CaptchaTries \in Nat
      BY Tries
    <2>3. \A d \in Challenges : failures' + Left(d)' <= 2 * CaptchaTries
      BY <1>2, <2>1, <2>2
    <2>4. ASSUME NEW t \in Slots, Creates(t)', NEW d \in Challenges
          PROVE  failures' + Left(d)' <= inter'[t].seen + CaptchaTries
      <3>1. CASE Creates(t) /\ inter'[t].seen = inter[t].seen
        <4>1. inter[t].seen + CaptchaTries \in Nat
          BY <3>1, Tries DEF Inv, IntersHold, InterHolds
        <4>2. QED
          BY <1>2, <2>1, <3>1, <4>1
      <3>2. CASE Kept /\ failures' = failures /\ inter'[t].seen = failures
        <4>1. Left(d)' = Left(d)
          BY <3>2 DEF Kept, Left, Live
        <4>2. Left(d) \in 0 .. CaptchaTries /\ failures \in Nat
          BY LeftInNat DEF Inv
        <4>3. failures + Left(d) <= failures + CaptchaTries
          BY <4>2, Tries
        <4>4. QED
          BY <3>2, <4>1, <4>3
      <3>3. QED
        BY <2>4, <3>1, <3>2, Creating DEF Inv
    <2>5. QED
      BY <2>3, <2>4 DEF Budget
  <1>5. QED
    BY <1>3, <1>4

-------------------------------------------------------------------------------
(***************************************************************************)
(* The theorems.                                                           *)
(***************************************************************************)
LEMMA InvInit ==
  ASSUME Init
  PROVE  Inv
  <1>1. /\ \A c \in Challenges : challenge[c].mode = "unused" /\ challenge[c].attempts = 0
        /\ challenge = [ c \in Challenges |-> challenge[c] ]
        /\ active = Nothing /\ consumed = {} /\ failures = 0
    BY DEF Init, CaptchaInit, NoHash
  <1>2. \A c \in Challenges : ~ Live(c)
    BY <1>1, Tries DEF Live
  <1>3. LiveOnes = {} /\ IsFiniteSet(LiveOnes)
    BY <1>2, FS_EmptySet DEF LiveOnes
  <1>4. CaptchaHolds
    BY <1>1, <1>2, <1>3, Tries DEF CaptchaHolds, ChallengeHolds
  <1>5. \A s \in Slots : inter[s] = NoInter
    BY DEF Init, InteractionsInit
  <1>6. IntersHold
    BY <1>5, NoInterIsIdle DEF Init, InteractionsInit, IntersHold, InterHolds, Creates
  <1>7. HandlersHold
    BY DEF Init, MemberInit, HandlersHold, HandlerHolds, Idle, HandlerFields
  <1>8. CountsHold
    BY DEF Init, MemberInit, CountsHold, Handlers, Idle, Absent
  <1>9. OrphansBounded
    <2>1. Orphans = {}
      BY <1>3 DEF Orphans
    <2>2. Cardinality(Dropped) \in Nat
      BY HandlersFinite, FS_CardinalityType
    <2>3. QED
      BY <2>1, <2>2, FS_EmptySet DEF OrphansBounded
  <1>10. BudgetsHold
    BY <1>1, <1>2, <1>5, NoInterIsIdle, Tries DEF BudgetsHold, Budget, Left, Creates
  <1>11. QED
    BY <1>4, <1>6, <1>7, <1>8, <1>9, <1>10 DEF Inv

LEMMA InvStep ==
  ASSUME Inv, [Next]_vars
  PROVE  Inv'
  <1>1. HandlersMove
    BY HandlersMoved DEF Inv
  <1>2. CountsHold'
    BY CountsStep DEF Inv
  <1>3. /\ \A d : Issued(d) => Issued(d)'
    <2>1. CASE \E s \in Slots : Store(s)
      BY <2>1, StoreGrows DEF Inv
    <2>2. CASE \E h \in Handlers : DropChallenge(h)
      BY <2>2, DropShrinks DEF Inv, Shrinks
    <2>3. QED
      BY <2>1, <2>2, StepKinds, KeptShrinks, AnsweredShrinks, AppendsShrinks, ExpiresShrinks
         DEF Inv, Shrinks
  <1>4. HandlersHold' /\ Dropped \subseteq Dropped' /\ Invalidations \subseteq Invalidations'
    BY <1>1, <1>3, HandlersKept DEF Inv
  <1>5. /\ OrphansBounded' /\ CaptchaHolds'
        /\ \/ (\E s \in Slots : Store(s))
           \/ Shrinks /\ Spends
           \/ Shrinks /\ \E h : h \in Invalidations'
    BY <1>4, OrphansStep
  <1>6. BudgetsHold'
    BY <1>4, <1>5, BudgetsStep
  <1>7. (\E s \in Slots : Store(s)) \/ Rests
    BY <1>5, CooldownLasts DEF Inv, Shrinks, Rests
  <1>8. IntersHold'
    BY <1>7, IntersStep DEF Inv
  <1>9. QED
    BY <1>2, <1>4, <1>5, <1>6, <1>8 DEF Inv

\* The inductive invariant, which the theorems below follow from.
THEOREM InvHolds == Spec => []Inv
  <1>1. QED
    BY InvInit, InvStep, PTL DEF Spec

LEMMA InvBoundsOpen ==
  ASSUME Inv
  PROVE  OpenChallenges
  <1>1. IsFiniteSet(LiveOnes) /\ IsFiniteSet(Orphans) /\ IsFiniteSet(Orphans \cup { active })
    BY FS_Subset, FS_AddElement DEF Inv, CaptchaHolds, Orphans
  <1>2. /\ Cardinality(Orphans \cup { active }) = Cardinality(Orphans) + 1
        /\ LiveOnes \subseteq Orphans \cup { active }
    BY <1>1, FS_AddElement DEF Orphans
  <1>3. Cardinality(LiveOnes) <= Cardinality(Orphans \cup { active })
    BY <1>1, <1>2, FS_Subset
  <1>4. Dropped \subseteq Invalidations
    BY DEF Dropped, Invalidations, Early, Invalidates
  <1>5. Cardinality(Dropped) <= Cardinality(Invalidations)
    BY <1>4, HandlersFinite, FS_Subset
  <1>6. /\ Cardinality(LiveOnes) \in Nat /\ Cardinality(Orphans) \in Nat
        /\ Cardinality(Dropped) \in Nat /\ Cardinality(Invalidations) \in Nat
    BY <1>1, HandlersFinite, FS_CardinalityType
  <1>7. Cardinality(LiveOnes) <= 1 + Cardinality(Invalidations)
    BY <1>2, <1>3, <1>5, <1>6 DEF Inv, OrphansBounded
  <1>8. QED
    BY <1>7 DEF OpenChallenges, LiveOnes

\* (captcha.ts:158, captcha.ts:322) Of any number of starts that overlap, with
\* whatever answers, invalidations and expiry between their commands, at most
\* one challenge stays open, and one more for each invalidation.
THEOREM OpenChallengesBounded == Spec => []OpenChallenges
  <1>1. Inv => OpenChallenges
    BY InvBoundsOpen
  <1>2. QED
    BY <1>1, InvHolds, PTL

\* (captcha.ts:205, captcha.ts:403) Whatever the number of attempts that a
\* challenge is configured with, a member who is not invalidated has at most
\* twice as many wrong answers behind and before them.
THEOREM FailuresStayBounded == Spec => []FailuresBounded
  <1>1. Inv => FailuresBounded
    BY DEF Inv, BudgetsHold, Budget, FailuresBounded
  <1>2. QED
    BY <1>1, InvHolds, PTL

-------------------------------------------------------------------------------
(***************************************************************************)
(* The refinement of CaptchaChallenge.                                     *)
(***************************************************************************)
LEMMA PhaseOf ==
  ASSUME CaptchaHolds, NEW c \in Challenges
  PROVE  /\ Phase[c] = "new" <=> ~ Issued(c)
         /\ Phase[c] = "open" <=> Live(c)
         /\ c \in consumed => Phase[c] = "solved"
         /\ Issued(c) /\ ~ Live(c) /\ c \notin consumed => Phase[c] = "lost"
  BY Tries DEF Phase, Issued, Live, CaptchaHolds

\* A challenge that a step does not change is in the phase it was in.
LEMMA SamePhase ==
  ASSUME NEW c \in Challenges, challenge'[c].mode = challenge[c].mode,
         c \in consumed' <=> c \in consumed
  PROVE  Phase'[c] = Phase[c]
  BY DEF Phase, Live

LEMMA PhaseIsFunction ==
  /\ Phase = [ c \in Challenges |-> Phase[c] ]
  /\ Phase' = [ c \in Challenges |-> Phase'[c] ]
  BY DEF Phase

\* A challenge that was open is gone: solved if it was answered, lost if not.
LEMMA GoneIsOver ==
  ASSUME CaptchaHolds, NEW c \in Challenges, Gone(c),
         consumed' = consumed \/ consumed' = consumed \cup { c }
  PROVE  Abstract!Solve(c) \/ Abstract!Lose(c)
  <1>1. Live(c) /\ Phase[c] = "open" /\ c \notin consumed
    BY PhaseOf DEF Gone, CaptchaHolds
  <1>2. /\ challenge'[c].mode = "gone"
        /\ \A d \in Challenges : d # c => challenge'[d] = challenge[d]
    BY NothingLeft, GoneEffect DEF Gone, CaptchaHolds
  <1>3. \A d \in Challenges : d # c => Phase'[d] = Phase[d]
    BY <1>2, SamePhase
  <1>4. Phase'[c] = IF c \in consumed' THEN "solved" ELSE "lost"
    BY <1>2, Tries DEF Phase, Live
  <1>5. Phase' = [ Phase EXCEPT ![c] = "solved" ] \/ Phase' = [ Phase EXCEPT ![c] = "lost" ]
    BY <1>3, <1>4, PhaseIsFunction
  <1>6. QED
    BY <1>1, <1>5 DEF Abstract!Solve, Abstract!Lose

LEMMA PhaseKept ==
  ASSUME \A c \in Challenges : challenge'[c].mode = challenge[c].mode, consumed' = consumed
  PROVE  Phase' = Phase
  BY SamePhase, PhaseIsFunction

LEMMA StoreIssues ==
  ASSUME Inv, NEW s \in Slots, Store(s)
  PROVE  Abstract!Issue(inter[s].challenge)
  <1> DEFINE c == inter[s].challenge
             previous == inter[s].previous
             attempts == CaptchaTries - inter[s].seen
             replaced == { previous } \cap Abstract!Open
  <1>1. PICK mode \in Modes :
          /\ c \in Unused
          /\ previous = Nothing \/ Issued(previous)
          /\ StoreChallenge(c, previous, attempts, mode)
    BY Stores DEF Inv
  <1>2. /\ c \in Challenges /\ ~ Issued(c) /\ c # previous
        /\ c \notin consumed /\ consumed' = consumed
    BY <1>1, Tries DEF Inv, CaptchaHolds, Unused, Issued, StoreChallenge
  <1>3. /\ challenge'[c].mode = mode
        /\ previous \in Challenges => challenge'[previous].mode = "gone"
        /\ \A d \in Challenges : d # c /\ d # previous => challenge'[d] = challenge[d]
    BY <1>1, <1>2, NothingLeft DEF StoreChallenge
  <1>4. Phase[c] = "new" /\ Phase'[c] = "open"
    BY <1>2, <1>3, PhaseOf, Tries DEF Phase, Live, Inv
  <1>5. \A d \in Challenges : d # c /\ d # previous => Phase'[d] = Phase[d]
    BY <1>2, <1>3, SamePhase
  <1>6. previous \in Challenges =>
          Phase'[previous] = IF Phase[previous] = "open" THEN "lost" ELSE Phase[previous]
    <2> SUFFICES ASSUME previous \in Challenges
                 PROVE  Phase'[previous] = IF Phase[previous] = "open" THEN "lost" ELSE Phase[previous]
      OBVIOUS
    <2>1. Issued(previous)
      BY <1>1, Tries
    <2>2. Phase'[previous] = IF previous \in consumed THEN "solved" ELSE "lost"
      BY <1>2, <1>3, Tries DEF Phase, Live
    <2>3. QED
      BY <2>1, <2>2, PhaseOf DEF Inv, CaptchaHolds
  <1>7. replaced \in SUBSET Abstract!Open
    OBVIOUS
  <1>8. \A d \in Challenges : d \in replaced <=> d = previous /\ Phase[d] = "open"
    BY DEF Abstract!Open
  <1>9. \A d \in Challenges :
          Phase'[d] = IF d = c THEN "open" ELSE IF d \in replaced THEN "lost" ELSE Phase[d]
    BY <1>4, <1>5, <1>6, <1>8
  <1>10. Phase' = [ d \in Challenges |->
                      IF d = c THEN "open" ELSE IF d \in replaced THEN "lost" ELSE Phase[d] ]
    BY <1>9, PhaseIsFunction
  <1>11. QED
    BY <1>4, <1>7, <1>10 DEF Abstract!Issue

LEMMA ChallengeStep ==
  ASSUME Inv, [Next]_vars
  PROVE  [Abstract!Next]_Phase
  <1> USE DEF Inv
  <1>1. CASE Kept
    BY <1>1, PhaseKept DEF Kept
  <1>2. ASSUME NEW c \in Challenges, ConsumeSuccess(c) \/ LockOut(c) \/ ChallengeExpires(c)
        PROVE  Abstract!Next
    <2>1. Gone(c) /\ (consumed' = consumed \/ consumed' = consumed \cup { c })
      BY <1>2 DEF ConsumeSuccess, LockOut, ChallengeExpires, Gone
    <2>2. QED
      BY <2>1, GoneIsOver DEF Abstract!Next
  <1>3. ASSUME NEW c \in Challenges, CountFailure(c) \/ \E seen, next : Appends(c, seen, next)
        PROVE  Phase' = Phase
    <2>1. /\ \A d \in Challenges : challenge'[d].mode = challenge[d].mode
          /\ consumed' = consumed
      BY <1>3 DEF CountFailure, Appends, CaptchaHolds
    <2>2. QED
      BY <2>1, PhaseKept
  <1>4. ASSUME NEW s \in Slots, Store(s) PROVE Abstract!Next
    <2>1. inter[s].challenge \in Challenges
      BY <1>4, Stores DEF Unused
    <2>2. QED
      BY <1>4, <2>1, StoreIssues DEF Abstract!Next
  <1>5. ASSUME NEW h \in Handlers, DropChallenge(h) PROVE Abstract!Next \/ Phase' = Phase
    <2> DEFINE seen == handler[h].seen
    <2>1. Invalidated(seen) /\ (seen = Nothing \/ Issued(seen)) /\ consumed' = consumed
      BY <1>5 DEF DropChallenge, Invalidated, HandlersHold, HandlerHolds
    <2> HIDE DEF seen
    <2>2. CASE seen \in Challenges /\ Live(seen)
      <3>1. Gone(seen)
        BY <2>1, <2>2 DEF Invalidated, Gone, CaptchaHolds
      <3>2. QED
        BY <2>1, <2>2, <3>1, GoneIsOver DEF Abstract!Next
    <2>3. CASE ~ (seen \in Challenges /\ Live(seen))
      <3>1. seen \in Challenges => challenge[seen].mode = "gone"
        BY <2>1, <2>3, Tries DEF CaptchaHolds, ChallengeHolds, Issued, Live
      <3>2. \A d \in Challenges : challenge'[d].mode = challenge[d].mode
        BY <2>1, <3>1, NothingLeft DEF Invalidated
      <3>3. QED
        BY <2>1, <3>2, PhaseKept
    <2>4. QED
      BY <2>2, <2>3
  <1>6. QED
    BY <1>1, <1>2, <1>3, <1>4, <1>5, StepKinds DEF Answered

\* (captcha.ts:378, captcha.ts:403) The store keeps its promise about each of
\* any number of challenges: it is issued once, and then solved, once, or lost
\* for good, whatever is between the commands of an answer.
THEOREM ChallengeImplemented == Spec => ImplementsChallenge
  <1>1. Init => Abstract!Init
    BY DEF Init, CaptchaInit, NoHash, Phase, Abstract!Init
  <1>2. Inv /\ [Next]_vars => [Abstract!Next]_Phase
    BY ChallengeStep
  <1>3. QED
    BY <1>1, <1>2, InvHolds, PTL DEF Spec, ImplementsChallenge, Abstract!Spec
====
