SPECIFICATION FairSpec
CONSTANTS
  Workers = {w1, w2}
  Tokens = {t1, t2, t3, t4}
  NoToken = noToken
  Occurrences = {1, 2}
  Revisions = {1}
  Horizon = 3
  Lease = 2
  RetryDelay = 1
  MaxAttempts = 2
  AttemptsCap = 3
  MaxManual = 1
  MaxTrouble = 1
PROPERTIES EveryJobEnds
