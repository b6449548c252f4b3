\* Captchas, the screening, a moderator, messages and roles, with failures,
\* restarts, forgotten jobs and deleted journal rows.
SPECIFICATION Spec
CONSTANTS
  Challenges = { 1 }
  Modes = { "TEXT" }
  CaptchaTries = 1
  Length = 1
  Nothing = Nothing
  SettingsSet <- MemberScenarios
  Kinds = { "channel", "dm", "roles", "evaluate", "goodbye", "delete", "migrate", "test" }
  Forgotten = { "channel" }
  MaxJoins = 1
  MaxCommands = 1
  Concurrency = 2
  MaxAttempts = 2
  Outlived = { "channel" }
  Slots = { 1 }
  Expiring = { "challenge" }
INVARIANTS
  VerifiedWasEarned
  SentOnce
  WelcomedWhenVerified
  OwedRoleIsGiven
CHECK_DEADLOCK FALSE
