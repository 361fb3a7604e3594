SPECIFICATION FairSpec
CONSTANTS
  Streams = {TRUE, FALSE}
  MaxMsgs = 3
  MaxAhead = 2
  MaxTexts = 2
CHECK_DEADLOCK FALSE
INVARIANTS TurnInvariant AnsweredUnderOwnRouting BlockDeliveredOnce
PROPERTIES TurnIsHeardOnce MessagesAreTaken
