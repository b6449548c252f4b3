\* Overlapping interactions of one member with the panel, while keys expire.
SPECIFICATION Spec
CONSTANTS
  Challenges = { 1, 2 }
  Modes = { "BUTTON_SEQUENCE" }
  CaptchaTries = 2
  Length = 2
  Nothing = Nothing
  SettingsSet <- PanelSettings
  Kinds = { "evaluate" }
  Forgotten = {}
  MaxJoins = 1
  MaxCommands = 0
  Slots = { s1, s2 }
  Expiring = { "challenge", "lock", "failures", "cooldown" }
INVARIANTS OpenChallenges FailuresBounded
PROPERTIES ImplementsChallenge
SYMMETRY Symmetry
CHECK_DEADLOCK FALSE
