SPECIFICATION FairSpec
CONSTANTS
  Runs = {1, 2}
  StatusTtl = 3
  BeatTtl = 2
  RunTime = 1
  Limits <- Scenarios
  Slots = {1, 2}
  Keys = {1, 2}
  Freshness = 2
  FetchTime = 1
  KeyTime = 1
  Busy = 3
  Cooldown = 2
INVARIANTS TypeOK OnlineIsRecent AccessIsRecent SubmittedOnce SettingsTrailIsHistory CredentialSurvives OneSale
PROPERTIES PresenceSettles
