------------------------------ MODULE Scheduler ------------------------------
(***************************************************************************)
(* WorkflowScheduler: a loop that takes the due jobs from Redis, triggers  *)
(* a workflow for each, deletes the job and registers its next run, one    *)
(* awaited call after the other.  Any of them may raise, which ends the    *)
(* tick, and the process may stop at any of them and be started again.     *)
(* The key of a job lives for thirty days from its registration.           *)
(***************************************************************************)
EXTENDS Naturals, FiniteSets

CONSTANTS
  Jobs, Recurring,
  Limit,         \* the keys a tick looks at: 50
  Interval,      \* interval_hours
  Ttl,           \* of the key of a job: 86400 * 30 seconds
  Horizon,       \* bound on the clock
  MaxStops,      \* bound on restarts of the process
  MaxRaises      \* bound on calls that raise

ASSUME SchedulerAssumption ==
  /\ IsFiniteSet(Jobs) /\ Recurring \subseteq Jobs
  /\ Limit \in Nat /\ Interval \in Nat \ {0} /\ Ttl \in Nat
  /\ Horizon \in Nat /\ MaxStops \in Nat /\ MaxRaises \in Nat

Times == 0..(Horizon + Interval)

VARIABLES
  clock,
  job,        \* scheduler:job:*, each key's run_at: a set of at most one time
  expires,    \* and when the key last set is gone
  tick,       \* where the loop stands, its now, its keys, and the job in hand
  runs,       \* how often a job has been triggered for a time
  stops, raises

scheduleVars == <<clock, job, expires, tick, runs, stops, raises>>

Asleep == [at |-> "asleep", now |-> 0, keys |-> {}, job |-> {}, run_at |-> 0]

ScheduleInit ==
  /\ clock = 0
  /\ job \in [Jobs -> {{t} : t \in 0..Horizon}]
  /\ expires = [j \in Jobs |-> Ttl]
  /\ tick = Asleep
  /\ runs = [j \in Jobs |-> [t \in Times |-> 0]]
  /\ stops = 0 /\ raises = 0

\* What Redis answers for a job, and whether its key has gone without a DELETE.
Get(j) == IF clock < expires[j] THEN job[j] ELSE {}
Lapsed(j) == job[j] # {} /\ clock >= expires[j]
InRedis   == {j \in Jobs : Get(j) # {}}

Pass ==
  /\ clock < Horizon
  /\ clock' = clock + 1
  /\ UNCHANGED <<job, expires, tick, runs, stops, raises>>

\* Mutant of Wake: without the first key.
WakeButOne ==
  /\ tick.at = "asleep"
  /\ \E keys \in SUBSET InRedis :
       /\ Cardinality(keys) + 1 = Cardinality(InRedis)
       /\ tick' = [Asleep EXCEPT !.at = "next", !.now = clock, !.keys = keys]
  /\ UNCHANGED <<clock, job, expires, runs, stops, raises>>

\* scan_iter yields the keys in an order of its own; the first Limit of them are kept.
Wake ==
  /\ tick.at = "asleep"
  /\ \E keys \in SUBSET InRedis :
       /\ Cardinality(keys) <= Limit
       /\ Cardinality(keys) = Limit \/ keys = InRedis
       /\ keys # {}
       /\ tick' = [Asleep EXCEPT !.at = "next", !.now = clock, !.keys = keys]
  /\ UNCHANGED <<clock, job, expires, runs, stops, raises>>

\* Mutant of Take: deletes before the trigger, as one would take a lock.
TakeDeleting(j) ==
  /\ tick.at = "next" /\ j \in tick.keys
  /\ LET due == {t \in Get(j) : t <= tick.now}
     IN /\ tick' = IF due = {} THEN [tick EXCEPT !.keys = @ \ {j}]
                   ELSE [tick EXCEPT !.keys = @ \ {j}, !.at = "trigger", !.job = {j},
                                     !.run_at = CHOOSE t \in due : TRUE]
        /\ job' = [job EXCEPT ![j] = @ \ due]
  /\ UNCHANGED <<clock, expires, runs, stops, raises>>

Take(j) ==
  /\ tick.at = "next" /\ j \in tick.keys
  /\ LET due == {t \in Get(j) : t <= tick.now}
     IN tick' = IF due = {} THEN [tick EXCEPT !.keys = @ \ {j}]
                ELSE [tick EXCEPT !.keys = @ \ {j}, !.at = "trigger", !.job = {j},
                                  !.run_at = CHOOSE t \in due : TRUE]
  /\ UNCHANGED <<clock, job, expires, runs, stops, raises>>

Sleep ==
  /\ tick.at = "next" /\ tick.keys = {}
  /\ tick' = Asleep
  /\ UNCHANGED <<clock, job, expires, runs, stops, raises>>

Trigger ==
  /\ tick.at = "trigger"
  /\ \E j \in tick.job :
     runs' = [runs EXCEPT ![j][tick.run_at] = @ + 1]
  /\ tick' = [tick EXCEPT !.at = "delete"]
  /\ UNCHANGED <<clock, job, expires, stops, raises>>

Delete ==
  /\ tick.at = "delete"
  /\ job' = [j \in Jobs |-> IF j \in tick.job THEN {} ELSE job[j]]
  /\ tick' = [tick EXCEPT !.at = IF tick.job \subseteq Recurring THEN "register" ELSE "next"]
  /\ UNCHANGED <<clock, expires, runs, stops, raises>>

\* Mutant of Register: the same time again.
RegisterAgain ==
  /\ tick.at = "register"
  /\ job' = [j \in Jobs |-> IF j \in tick.job THEN {tick.run_at} ELSE job[j]]
  /\ expires' = [j \in Jobs |-> IF j \in tick.job THEN clock + Ttl ELSE expires[j]]
  /\ tick' = [tick EXCEPT !.at = "next"]
  /\ UNCHANGED <<clock, runs, stops, raises>>

\* register_job, an Interval after the time the job was due, not after now.
Register ==
  /\ tick.at = "register"
  /\ job' = [j \in Jobs |-> IF j \in tick.job THEN {tick.run_at + Interval} ELSE job[j]]
  /\ expires' = [j \in Jobs |-> IF j \in tick.job THEN clock + Ttl ELSE expires[j]]
  /\ tick' = [tick EXCEPT !.at = "next"]
  /\ UNCHANGED <<clock, runs, stops, raises>>

\* A call raises: scan_iter, get, the trigger, delete or set, having done nothing or, as
\* the next step has not begun, its work.  _loop logs it and sleeps.
Raise ==
  /\ raises < MaxRaises
  /\ tick.at # "asleep"
  /\ raises' = raises + 1
  /\ tick' = Asleep
  /\ UNCHANGED <<clock, job, expires, runs, stops>>

\* stop, or the end of the process, at any await.
Stop ==
  /\ stops < MaxStops
  /\ tick.at # "asleep"
  /\ stops' = stops + 1
  /\ tick' = Asleep
  /\ UNCHANGED <<clock, job, expires, runs, raises>>

Step == Wake \/ (\E j \in Jobs : Take(j)) \/ Sleep \/ Trigger \/ Delete \/ Register
ScheduleNext == Pass \/ Step \/ Raise \/ Stop

\* The loop wakes again and again and its calls return.
ScheduleSpec == ScheduleInit /\ [][ScheduleNext]_scheduleVars /\ WF_scheduleVars(Step)
-----------------------------------------------------------------------------
TheTick == [at : {"asleep", "next", "trigger", "delete", "register"}, now : 0..Horizon,
            keys : SUBSET Jobs, job : SUBSET Jobs, run_at : Times]

\* Types; a job has one time.
ScheduleTypeOK ==
  /\ clock \in 0..Horizon
  /\ job \in [Jobs -> {{}} \union {{t} : t \in Times}]
  /\ expires \in [Jobs -> Nat]
  /\ tick \in TheTick
  /\ runs \in [Jobs -> [Times -> Nat]]
  /\ stops \in Nat /\ raises \in Nat

Ran(j) == {t \in Times : runs[j][t] > 0}

\* The recurring jobs that are neither in Redis nor about to be registered again.
Dropped == {j \in Recurring : job[j] = {} /\ ~(tick.at = "register" /\ tick.job = {j})}

\* A job leaves Redis only after a workflow has been started for it or at the end of its
\* TTL; and of the recurring ones each end of the process, and each call that raises,
\* costs one at most: the one between its deletion and its registration.
JobKept ==
  /\ \A j \in Jobs : Get(j) = {} => Ran(j) # {} \/ Lapsed(j)
  /\ Cardinality(Dropped) <= stops + raises

\* Every time of a job is served once, and once more for each time the process ended or a
\* call raised, as between trigger and delete; and a tick that comes late leaves no time
\* of a recurring job out.
ServedOnce ==
  /\ \A j \in Jobs, t \in Times : runs[j][t] <= 1 + stops + raises
  /\ \A j \in Recurring : \A t, u \in Ran(j) : t + Interval <= u => t + Interval \in Ran(j)

\* A job that is due is started, if a tick has room for every job, or its key reaches its
\* TTL first: that of a job registered longer ahead than that, and of one whose interval
\* is longer, always does.
DueServed ==
  \A j \in Jobs, t \in Times : t \in Get(j) /\ t <= clock ~> t \in Ran(j) \/ Lapsed(j)
=============================================================================
