\* Two processes; transactions over three sectors, of which the log takes
\* two, so that absorption and the too-big panic both happen.
SPECIFICATION FairSpec
CONSTANTS
  Proc = {p1, p2}
  Block = {b1, b2, b3}
  Val = {v1, v2}
  LogCap = 2
  NotCached = NotCached
  NoBlock = NoBlock
INVARIANT LogInv
INVARIANT SleeperHasWaker
PROPERTY AtomicTransactions
PROPERTY SleeperIsWoken
