\* Fixed review workflows, one approver, no faults.
SPECIFICATION Spec
CONSTANTS
  WorkflowNames = {"code-review-only", "incremental-pr-scan"}
  Flows = {"fixed"}
  Incidents = {FALSE}
  Levels = {"low", "secrets", "critical"}
  Approvers = {a1}
  FaultyAgents = {}
  LateScrFault = FALSE
  MaxCrashes = 0
INVARIANTS
  TypeOK
  HumanGateHolds
  PausedShowsReport
  CompletedIsComplete
PROPERTIES
  OutputsInCustody
  EventsHandled
\* a workflow ends: nothing is left to do
CHECK_DEADLOCK FALSE
