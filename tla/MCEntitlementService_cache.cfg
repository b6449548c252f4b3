SPECIFICATION FairSpec
CONSTANTS
  bot = bot
  api = api
  r1 = r1
  r2 = r2
  Processes = {bot, api}
  Subscribers = {bot}
  Readers = {r1, r2}
  ProcessOf <- Placed
  LocalTtl = 1
  RedisTtl = 1
  MaxMessages = 1
  Starts <- Scenarios
  Writers = {api}
  EndTimes = {0, 1}
  MaxVersion = 2
  MaxClock = 1
  MaxAge = 0
INVARIANTS TypeOK ReadIsCurrent CalmReadIsExact
PROPERTIES EventuallyCurrent
CHECK_DEADLOCK FALSE
