\* Two ranks and two calls on their own threads, callers that may give up, loops
\* that close, workers that raise, and close().
CONSTANTS
  c1 = c1
  c2 = c2
  NoCall = NoCall
  WorldSize = 2
  Calls <- AllCalls
  Awaited <- LeaderForSecond
  Async <- SecondOnly
  Impatient <- AllCalls
  LoopsClose = TRUE
  Closable = TRUE
  MaxKills = 0
SPECIFICATION Spec
INVARIANTS
  TypeOK
  OneOrder
  NothingLost
  TableExact
