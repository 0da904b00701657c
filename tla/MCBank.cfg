\* Three branches with 20 each (a branch pays only when it has 20 or more), two
\* snapshots begun by any of them, three payments before, during and after them.
CONSTANTS
  Branch = {b1, b2, b3}
  Balance = 20
  None = None
  MaxSnapshots = 2
  MaxPayments = 3
SPECIFICATION FairSpec
INVARIANTS
  NoExplosion
  ReportConserves
  BooksBalance
PROPERTIES
  SnapshotReturned
\* Payments and snapshots are bounded: the branches come to rest.
CHECK_DEADLOCK FALSE
