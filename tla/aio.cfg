SPECIFICATION FairSpec
CONSTANTS
  r1 = r1
  r2 = r2
  w1 = w1
  w2 = w2
  Request <- MCRequest
  Worker <- MCWorker
  MaxContext = 1
INVARIANTS TypeOK CountersMatch SleepersAreNotNeeded ResultsGoHome EndsAreNoticed CallbacksKeepToContext
PROPERTIES EveryRequestEnds
