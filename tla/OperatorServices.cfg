SPECIFICATION FairServicesSpec
CONSTANTS
  position = position
  event = event
  Position = {position}
  ConfirmTtl = 1
  PositionTtl = 1
  MaxAge = 0
  MaxCommands = 2
  MaxTrades = 1
  MaxUpdates = 3
  MaxActions = 3
  MaxTime = 1
  MaxRestarts = 1
  Event = {event}
  Flush = Flush
  Messages <- TwoMessages
  MaxAttempts = 3
  MaxEnds = 1
INVARIANTS OneOrderPerConfirmation OrderedAsConfirmed SentMeansComplete
PROPERTIES OutboxDrains UpdatesAreConsumed
CHECK_DEADLOCK FALSE
