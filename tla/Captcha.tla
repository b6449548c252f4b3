-------------------------------- MODULE Captcha --------------------------------
(***************************************************************************)
(* CaptchaStore (packages/onboarding/src/captcha.ts) for one member of one *)
(* guild: the Redis keys, and each command or script as one atomic step.   *)
(*                                                                         *)
(* The answer's hash is made with the challenge's identifier, so a script  *)
(* that finds the expected hash has found the challenge itself.            *)
(***************************************************************************)
EXTENDS Naturals, Sequences

CONSTANTS
  Challenges,   \* the identifiers that are drawn; randomBytes does not repeat
  Modes,        \* modes the configuration may have: "TEXT", "BUTTON_SEQUENCE"
  CaptchaTries, \* config.maxAttempts
  Length,       \* length of a button sequence
  Nothing       \* no challenge

ASSUME CaptchaAssumption ==
  /\ Modes \subseteq { "TEXT", "BUTTON_SEQUENCE" }
  /\ CaptchaTries \in Nat \ { 0 }
  /\ Length \in Nat \ { 0 }
  /\ Nothing \notin Challenges

VARIABLES
  challenge,  \* the hash of a challenge; its mode is "unused" or "gone" if there is none
  active,     \* the member's current challenge
  lock,       \* verification-lock
  failures,   \* verification-failures
  cooldown,   \* verification-rate:user
  consumed    \* verification-consumed

captchaVars == << challenge, active, lock, failures, cooldown, consumed >>

\* The choices of a sequence so far: TRUE for a right one.
Progress == UNION { [ 1 .. n -> BOOLEAN ] : n \in 0 .. Length - 1 }

Stored == [ mode : Modes \cup { "unused", "gone" }, attempts : Nat, progress : Progress ]

NoHash(mode) == [ mode |-> mode, attempts |-> 0, progress |-> << >> ]

CaptchaTypeOK ==
  /\ challenge \in [ Challenges -> Stored ]
  /\ active \in Challenges \cup { Nothing }
  /\ lock \in BOOLEAN
  /\ failures \in Nat
  /\ cooldown \in BOOLEAN
  /\ consumed \in SUBSET Challenges

CaptchaInit ==
  /\ challenge = [ c \in Challenges |-> NoHash("unused") ]
  /\ active = Nothing
  /\ lock = FALSE
  /\ failures = 0
  /\ cooldown = FALSE
  /\ consumed = {}

Live(c) == c \in Challenges /\ challenge[c].mode \in Modes

\* Another challenge may be drawn (bound).
Unused == { c \in Challenges : challenge[c].mode = "unused" }

-------------------------------------------------------------------------------
\* create: the admission script.

\* The lock is on, or the failures of earlier challenges set it again.
AdmissionLocked ==
  /\ lock \/ failures >= CaptchaTries
  /\ lock' = TRUE
  /\ UNCHANGED << challenge, active, failures, cooldown, consumed >>

\* (mutant) the member's own starts are not limited
MayStartAgain == ~lock /\ failures < CaptchaTries

MayStart == ~lock /\ failures < CaptchaTries /\ ~cooldown

\* The member's cooldown, or, with the cooldown set, the guild's limit, which
\* the starts of other members use up as well.
AdmissionLimited ==
  /\ ~lock /\ failures < CaptchaTries
  /\ cooldown' = TRUE
  /\ UNCHANGED << challenge, active, lock, failures, consumed >>

Admitted ==
  /\ MayStart
  /\ cooldown' = TRUE
  /\ UNCHANGED << challenge, active, lock, failures, consumed >>

\* create: what the admitted challenge may still be answered wrongly.
Remaining(seen) == IF seen < CaptchaTries THEN CaptchaTries - seen ELSE 1

\* create: the MULTI that replaces the previous challenge.
StoreChallenge(c, previous, remaining, mode) ==
  /\ challenge' = [ d \in Challenges |->
       IF d = c THEN [ mode |-> mode, attempts |-> remaining, progress |-> << >> ]
       ELSE IF d = previous THEN NoHash("gone") ELSE challenge[d] ]
  /\ active' = c
  /\ UNCHANGED << lock, failures, cooldown, consumed >>

-------------------------------------------------------------------------------
\* verify and appendSequenceChoice: the scripts.

\* (mutant) the script does not look for the challenge
ConsumeUnchecked(c) ==
  /\ challenge' = [ challenge EXCEPT ![c] = NoHash("gone") ]
  /\ active' = Nothing
  /\ consumed' = consumed \cup { c }
  /\ failures' = 0
  /\ UNCHANGED << lock, cooldown >>

ConsumeSuccess(c) ==
  /\ Live(c)
  /\ challenge' = [ challenge EXCEPT ![c] = NoHash("gone") ]
  /\ active' = Nothing
  /\ consumed' = consumed \cup { c }
  /\ failures' = 0
  /\ UNCHANGED << lock, cooldown >>

\* (mutant) a wrong answer uses up no attempt
CountFailureOnly(c) ==
  /\ Live(c)
  /\ failures' = failures + 1
  /\ UNCHANGED << challenge, active, lock, cooldown, consumed >>

\* A wrong answer that leaves further attempts ...
CountFailure(c) ==
  /\ Live(c)
  /\ challenge[c].attempts > 1
  /\ challenge' = [ challenge EXCEPT ![c] =
       [ mode |-> @.mode, attempts |-> @.attempts - 1,
         progress |-> IF @.mode = "BUTTON_SEQUENCE" THEN << >> ELSE @.progress ] ]
  /\ failures' = failures + 1
  /\ UNCHANGED << active, lock, cooldown, consumed >>

\* ... and the last one.
LockOut(c) ==
  /\ Live(c)
  /\ challenge[c].attempts <= 1
  /\ challenge' = [ challenge EXCEPT ![c] = NoHash("gone") ]
  /\ active' = Nothing
  /\ lock' = TRUE
  /\ failures' = failures + 1
  /\ UNCHANGED << cooldown, consumed >>

\* Compare-and-set of the choices entered so far.
Appends(c, seen, next) ==
  /\ Live(c)
  /\ challenge[c].progress = seen
  /\ challenge' = [ challenge EXCEPT ![c] =
       [ mode |-> @.mode, attempts |-> @.attempts, progress |-> next ] ]
  /\ UNCHANGED << active, lock, failures, cooldown, consumed >>

\* invalidateUser, after it has read the current challenge.
Invalidated(seen) ==
  /\ challenge' = [ c \in Challenges |-> IF c = seen THEN NoHash("gone") ELSE challenge[c] ]
  /\ active' = Nothing
  /\ UNCHANGED << lock, failures, cooldown, consumed >>

-------------------------------------------------------------------------------
\* Keys expire.  A challenge and the key that names it are set together; the
\* lock and the failures take their times from configurations that may differ.

ChallengeExpires(c) ==
  /\ Live(c)
  /\ challenge' = [ challenge EXCEPT ![c] = NoHash("gone") ]
  /\ active' = IF active = c THEN Nothing ELSE active
  /\ UNCHANGED << lock, failures, cooldown, consumed >>

LockExpires ==
  /\ lock
  /\ lock' = FALSE
  /\ UNCHANGED << challenge, active, failures, cooldown, consumed >>

FailuresExpire ==
  /\ failures > 0
  /\ failures' = 0
  /\ UNCHANGED << challenge, active, lock, cooldown, consumed >>

CooldownExpires ==
  /\ cooldown
  /\ cooldown' = FALSE
  /\ UNCHANGED << challenge, active, lock, failures, consumed >>
===============================================================================
