SPECIFICATION FairSpec
CONSTANTS
  Keys = {publish, pool}
  Retryable = {publish}
  RetryDelay = 2
  MaxRetryAge = 3
  MaxTime = 8
  MaxPushTime = 4
  MaxStops = 2
  NoEvent = NoEvent
INVARIANTS TypeOK
PROPERTIES
  NothingDroppedUnattended
  RescheduledRowSurvives
  HandledRowGone
  ImplementsSignal
  EveryEventAttended
CHECK_DEADLOCK FALSE
