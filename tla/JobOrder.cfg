SPECIFICATION Spec
CONSTANTS
  Workers = {w1, w2}
  Tokens = {t1, t2, t3, t4}
  NoToken = noToken
  Occurrences = {1, 2}
  Revisions = {1}
  Horizon = 3
  Lease = 2
  RetryDelay = 1
  MaxAttempts = 2
  AttemptsCap = 3
  MaxManual = 0
  MaxTrouble = 0
INVARIANTS OlderStateCommitsFirst
