SPECIFICATION FairSpec
CONSTANTS
  Rules = {r1, r2}
  Slots = {1}
  Executors = {e1, e2}
  Cleaners = {c1}
  Requests = {q1}
  PoolSizes = {2, 3}
  Nobody = nobody
INVARIANTS TypeOK LocksLeaveWithTheEvaluation DeadlocksAreKnown FencedRowsStay
PROPERTIES EvaluationsGoOn HeartbeatsGetThrough
