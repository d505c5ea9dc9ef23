\* One process and one period are enough: an exception without a text.
SPECIFICATION FairQueueSpec
CONSTANTS
  Jobs <- OnePeriod
  Workers = {w1}
  RefreshFlags = {TRUE, FALSE}
  LeaseLength = 3
  MaxOverdue = 1
INVARIANT
  DoneMeansPublished
