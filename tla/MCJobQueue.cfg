\* Two periods that ask for a crawl first, two processes, leases of two
\* minutes: what a lease promises, and that every period ends.
SPECIFICATION FairQueueSpec
CONSTANTS
  Jobs <- TwoPeriods
  Workers = {w1, w2}
  RefreshFlags = {TRUE}
  LeaseLength = 2
  MaxOverdue = 0
INVARIANTS
  QueueTypeOK
  OneIndexer
  DeadLettersTellWhy
PROPERTIES
  VerdictsAreOwn
  AttemptsAreAccounted
  EveryJobEnds
