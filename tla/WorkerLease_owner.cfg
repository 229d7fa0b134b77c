\* One process that may die and one that survives it, two returns claimed together.
SPECIFICATION Spec
CONSTANTS
  w1 = w1
  w2 = w2
  r1 = r1
  r2 = r2
  NoWorker = NoWorker
  Workers = {w1, w2}
  Survivors = {w2}
  Returns = {r1, r2}
  BatchSize = 2
  MaxFaults = 1
\* The survivor's timer never stops.
SYMMETRY ReturnSymmetry
CHECK_DEADLOCK TRUE
INVARIANT TypeOK
INVARIANT EpochsAreOwned
INVARIANT OvertakenStopsWithinAnItem
INVARIANT PauseStopsWithinAnItem
INVARIANT FailuresAreTheOwners
PROPERTY LiveLeaseIsKept
PROPERTY LeaseKept
