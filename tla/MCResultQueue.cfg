SPECIFICATION MCSpec
CONSTANTS
  Producers = {p1, p2}
  Main = main
  Items <- MCItems
  Nothing = Nothing
  Waiting = Waiting
  MaxLen = 2
  NumPatterns = 2
  Interval = 2
  MaxDraws = 2
  MaxMatches = 2
  ThreadCounts = {0, 1, 2, 3}
  NotGiven = NotGiven
  Concurrencies = {0, 1, 2, 6}
  PrefixLists <- MCPrefixLists
  Keys = {k1, k2}
  NoKey = NoKey
INVARIANTS
  TypeOK
  NoLostWakeup
  EveryMatchDelivered
  SlotsWithinBoard
  TornOnlyWhileWritten
PROPERTIES
  PushWakesConsumer
  RefinesChannel
  NaiveStops
