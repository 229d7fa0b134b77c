\* The owner dies, stalls or is shut down: the process that survives takes over.
SPECIFICATION FairSpec
CONSTANTS
  w1 = w1
  w2 = w2
  r1 = r1
  NoWorker = NoWorker
  Workers = {w1, w2}
  Survivors = {w2}
  Returns = {r1}
  BatchSize = 1
  MaxFaults = 2
\* The survivor's timer never stops.
CHECK_DEADLOCK TRUE
PROPERTY OverdueIsEscalated
