\* An answer is recorded while the member completes the screening.
SPECIFICATION Spec
CONSTANTS
  Challenges = { 1 }
  Modes = { "TEXT" }
  CaptchaTries = 1
  Length = 1
  Nothing = Nothing
  SettingsSet <- Both
  Kinds = { "evaluate" }
  Forgotten = {}
  MaxJoins = 1
  MaxCommands = 0
  Concurrency = 1
  MaxAttempts = 1
  Outlived = {}
  Slots = { 1 }
  Expiring = {}
PROPERTIES
  ScreeningIsKept
CHECK_DEADLOCK FALSE
