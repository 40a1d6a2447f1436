\* A scan over Kafka: two workers, a rebalance, a crash, a stop signal, faults.
SPECIFICATION Spec
CONSTANTS
  Workers = {w1, w2}
  NumBatches = 2
  Findings <- FilesOnly
  FaultyScanners = {"patterns"}
  Faults = {"start", "acquire", "rank", "complete"}
  Stoppable = TRUE
  MaxRebalances = 1
  MaxCrashes = 1
INVARIANTS
  CheckpointHonest
  ReportComplete
PROPERTIES
  Answered
\* a scan ends: nothing is left to do
CHECK_DEADLOCK FALSE
