\* Every call ends: one synchronous and one asynchronous call, callers that may
\* give up, errors and a killed worker.
CONSTANTS
  c1 = c1
  c2 = c2
  NoCall = NoCall
  WorldSize = 2
  Calls <- AllCalls
  Awaited <- LeaderForSecond
  Async <- SecondOnly
  Impatient <- SecondOnly
  LoopsClose = FALSE
  Closable = FALSE
  MaxKills = 1
SPECIFICATION Spec
PROPERTIES
  CallEnds
