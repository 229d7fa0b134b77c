\* Two requests, a worker that may be killed and one that is not.
SPECIFICATION FairSpec
CONSTANTS
  c1 = c1
  c2 = c2
  w1 = w1
  w2 = w2
  Callers = {c1, c2}
  Workers = {w1, w2}
  Survivors = {w1}
  MaxErrors = 2
INVARIANT TypeOK
INVARIANT CompletedOnce
PROPERTY DisputeStands
PROPERTY ScheduledIsCompleted
