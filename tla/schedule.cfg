\* A recurring job and one that is not, four hours, keys that lapse, a restart, a call that raises.
SPECIFICATION ScheduleSpec
CONSTANTS
  Jobs = {nightly, once}
  Recurring = {nightly}
  Limit = 2
  Interval = 2
  Ttl = 3
  Horizon = 4
  MaxStops = 1
  MaxRaises = 1
INVARIANTS
  JobKept
  ServedOnce
PROPERTIES
  DueServed
\* at the horizon, with every job in the future, the loop only sleeps
CHECK_DEADLOCK FALSE
