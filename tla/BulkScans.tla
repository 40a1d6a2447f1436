------------------------------ MODULE BulkScans ------------------------------
(***************************************************************************)
(* One request that scans several repositories of a client, the workflows  *)
(* it starts, and the counters kept of them: BulkScanStore saves a status  *)
(* to Redis and Postgres, and refreshes it from the workflows' states when *)
(* a workflow has been finalized and when somebody asks.                   *)
(*                                                                         *)
(* Every refresh loads the status, reads the states one by one and saves   *)
(* to both stores; refreshes interleave with each other, with the request  *)
(* and with the workflows.  A workflow is here what it says of itself; how *)
(* it gets there is in Orchestrator, where what it said once may be saved  *)
(* over what it says now.                                                  *)
(***************************************************************************)
EXTENDS Naturals, FiniteSets

CONSTANTS
  Repos,         \* the connections the request names
  Polls,         \* the questions for the status
  Hooks,         \* _post_finalize_hooks under way at once, at most
  Routes,        \* which endpoints the request may come by
  MaxSaves,      \* bound on saves of the workflows' states after their start
  MayFail,       \* may an awaited call raise?
  MayExpire      \* may keys of Redis reach their TTL?

ASSUME BulkScansAssumption ==
  /\ IsFiniteSet(Repos)
  /\ Hooks \cap Polls = {}
  /\ Routes \subseteq {"scan-multiple", "trigger"}
  /\ MaxSaves \in Nat
  /\ MayFail \in BOOLEAN /\ MayExpire \in BOOLEAN

\* A refresh is the hook of a workflow that was finalized, or a poll.
Refreshes == Hooks \union Polls

VARIABLES
  route,        \* the endpoint
  at,           \* where its handler stands
  targets,      \* what resolve_multi_repo returned
  todo,         \* the targets left in the handler's loop
  ids,          \* the repositories in its workflow_ids
  failures,     \* its count of failed starts
  wf,           \* per repository, the status of its workflow
  had,          \* and those it has ever had
  key,          \* per repository, is that status in Redis?
  saves,        \* counted up to MaxSaves
  redis, db,    \* the status of the bulk scan in either store
  ref,          \* the refreshes
  ended         \* per poll, the workflows that had ended when it came in and have said so since

handler == <<route, at, targets, todo, ids, failures>>
workflows == <<wf, had, key, saves>>
vars == <<handler, workflows, redis, db, ref, ended>>

None == [saved |-> FALSE, total |-> 0, ids |-> {}, completed |-> 0, failed |-> 0,
         in_progress |-> 0]
Status == [saved : BOOLEAN, total : Nat, ids : SUBSET Repos, completed : Nat,
           failed : Nat, in_progress : Nat]
Quiet == [at |-> "idle", todo |-> {}, as |-> None]
Outcomes == {"completed", "failed"}
Ended    == {c \in Repos : key[c] /\ wf[c] \in Outcomes}

Init ==
  /\ route \in Routes
  /\ at = "resolve" /\ targets = {} /\ todo = {} /\ ids = {} /\ failures = 0
  /\ wf = [c \in Repos |-> "none"]
  /\ had = [c \in Repos |-> {}]
  /\ key = [c \in Repos |-> FALSE]
  /\ saves = 0
  /\ redis = None /\ db = None
  /\ ref = [x \in Refreshes |-> Quiet]
  /\ ended = [p \in Polls |-> {}]

-----------------------------------------------------------------------------
\* The request.

\* resolve_multi_repo: whatever cannot be resolved is left out; scan-multiple insists on
\* something being left.
Resolve ==
  /\ at = "resolve"
  /\ \E S \in SUBSET Repos :
       /\ MayFail \/ S = Repos
       /\ targets' = S /\ todo' = S
       /\ at' = IF S = {} /\ route = "scan-multiple" THEN "refused" ELSE "start"
  /\ UNCHANGED <<route, ids, failures, workflows, redis, db, ref, ended>>

\* WorkflowStateStore.save
Save(c, status) ==
  /\ wf' = [wf EXCEPT ![c] = status]
  /\ had' = [had EXCEPT ![c] = @ \union {status}]
  /\ key' = [key EXCEPT ![c] = TRUE]

Begun(c) == Save(c, "running") /\ ids' = ids \union {c} /\ UNCHANGED saves
NotBegun == UNCHANGED <<workflows, ids>>

\* One turn of scan_multiple's loop; mark_scanned may raise after the start.
StartInBulk(c) ==
  /\ route = "scan-multiple" /\ at = "start" /\ c \in todo
  /\ todo' = todo \ {c}
  /\ \/ Begun(c) /\ UNCHANGED failures
     \/ MayFail /\ (Begun(c) \/ NotBegun) /\ failures' = failures + 1
  /\ UNCHANGED <<route, at, targets, redis, db, ref, ended>>

\* One turn of trigger_workflow's loop: an exception ends it.
StartByTrigger(c) ==
  /\ route = "trigger" /\ at = "start" /\ c \in todo
  /\ todo' = todo \ {c}
  /\ \/ Begun(c) /\ UNCHANGED at
     \/ MayFail /\ (Begun(c) \/ NotBegun) /\ at' = "failed"
  /\ UNCHANGED <<route, targets, failures, redis, db, ref, ended>>

Started ==
  /\ at = "start" /\ todo = {}
  /\ at' = IF route = "scan-multiple" THEN "redis" ELSE "done"
  /\ UNCHANGED <<route, targets, todo, ids, failures, workflows, redis, db, ref, ended>>

FirstStatus == [saved |-> TRUE, total |-> Cardinality(targets), ids |-> ids, completed |-> 0,
                failed |-> failures, in_progress |-> Cardinality(ids)]

\* BulkScanStore.save.
SaveFirst ==
  /\ \/ at = "redis" /\ redis' = FirstStatus /\ at' = "db" /\ UNCHANGED db
     \/ at = "db" /\ db' = FirstStatus /\ at' = "done" /\ UNCHANGED redis
     \/ MayFail /\ at \in {"redis", "db"} /\ at' = "failed" /\ UNCHANGED <<redis, db>>
  /\ UNCHANGED <<route, targets, todo, ids, failures, workflows, ref, ended>>

-----------------------------------------------------------------------------
\* The workflows.

SaveLater(c, status) == saves < MaxSaves /\ saves' = saves + 1 /\ Save(c, status)

\* What the polls may still count on, when c says something else than its outcome.
Unended(c) == ended' = [p \in Polls |-> ended[p] \ {c}]

\* _finalize: complete() saves nothing when it finds no state, and the hook runs all the same.
Complete(c) ==
  /\ wf[c] # "none"
  /\ \/ SaveLater(c, "completed")
     \/ ~key[c] /\ UNCHANGED workflows
  /\ IF route = "scan-multiple"
       THEN \E h \in Hooks : ref[h].at = "idle" /\ ref' = [ref EXCEPT ![h].at = "load"]
       ELSE UNCHANGED ref
  /\ UNCHANGED <<handler, redis, db, ended>>

\* fail(), after a step or the finalizing itself has raised.
Fail(c) ==
  /\ MayFail /\ wf[c] # "none"
  /\ SaveLater(c, "failed")
  /\ UNCHANGED <<handler, redis, db, ref, ended>>

\* mark_agent_running, _done, _failed or resume: a state is saved that was loaded before
\* another was, or, by resume, made RUNNING.
SaveStale(c) ==
  /\ \E status \in had[c] :
       /\ SaveLater(c, status)
       /\ IF status = "running" THEN Unended(c) ELSE UNCHANGED ended
  /\ UNCHANGED <<handler, redis, db, ref>>

\* The state of a workflow is kept for a day from its last save, that of a bulk scan for a week.
ExpireState(c) ==
  /\ MayExpire /\ key[c]
  /\ key' = [key EXCEPT ![c] = FALSE]
  /\ Unended(c)
  /\ UNCHANGED <<handler, wf, had, saves, redis, db, ref>>

ExpireBulk ==
  /\ MayExpire /\ at = "done" /\ redis.saved
  /\ redis' = None
  /\ UNCHANGED <<handler, workflows, db, ref, ended>>

-----------------------------------------------------------------------------
\* refresh_from_workflows.

Ask(p) ==
  /\ ref[p].at = "idle"
  /\ ref' = [ref EXCEPT ![p].at = "load"]
  /\ ended' = [ended EXCEPT ![p] = Ended]
  /\ UNCHANGED <<handler, workflows, redis, db>>

\* Where a refresh is that has found no status, or that failed: a hook is over.
Nothing(x) == IF x \in Polls THEN "none" ELSE "idle"

\* Mutant of Load: what is stored is the answer.
LoadStored(x) ==
  /\ ref[x].at = "load"
  /\ LET status == IF redis.saved THEN redis ELSE db
     IN ref' = [ref EXCEPT ![x].as = status, ![x].at = IF status.saved THEN "read" ELSE Nothing(x)]
  /\ UNCHANGED <<handler, workflows, redis, db, ended>>

\* Redis first, then Postgres; without a status there is nothing to refresh.
Load(x) ==
  /\ ref[x].at = "load"
  /\ LET status == IF redis.saved THEN redis ELSE db
     IN ref' = [ref EXCEPT ![x].todo = status.ids,
                           ![x].as = [status EXCEPT !.completed = 0, !.failed = 0,
                                                    !.in_progress = 0],
                           ![x].at = IF status.saved THEN "read" ELSE Nothing(x)]
  /\ UNCHANGED <<handler, workflows, redis, db, ended>>

\* Mutant of Counted: a workflow that has gone has completed.
CountedGone(status, c) ==
  IF ~key[c] \/ wf[c] = "completed" THEN [status EXCEPT !.completed = @ + 1]
  ELSE IF wf[c] = "failed"          THEN [status EXCEPT !.failed = @ + 1]
  ELSE [status EXCEPT !.in_progress = @ + 1]

Counted(status, c) ==
  IF key[c] /\ wf[c] = "completed"   THEN [status EXCEPT !.completed = @ + 1]
  ELSE IF key[c] /\ wf[c] = "failed" THEN [status EXCEPT !.failed = @ + 1]
  ELSE [status EXCEPT !.in_progress = @ + 1]

Read(x, c) ==
  /\ ref[x].at = "read" /\ c \in ref[x].todo
  /\ ref' = [ref EXCEPT ![x].todo = @ \ {c}, ![x].as = Counted(@, c)]
  /\ UNCHANGED <<handler, workflows, redis, db, ended>>

SaveRefresh(x) ==
  /\ \/ /\ ref[x].at = "read" /\ ref[x].todo = {}
        /\ redis' = ref[x].as
        /\ ref' = [ref EXCEPT ![x].at = "db"]
        /\ UNCHANGED db
     \/ /\ ref[x].at = "db"
        /\ db' = ref[x].as
        /\ ref' = [ref EXCEPT ![x] = IF x \in Polls THEN [@ EXCEPT !.at = "done"] ELSE Quiet]
        /\ UNCHANGED redis
  /\ UNCHANGED <<handler, workflows, ended>>

\* The hook swallows what is raised, the route answers 500.
FailRefresh(x) ==
  /\ MayFail /\ ref[x].at \in {"load", "read", "db"}
  /\ ref' = [ref EXCEPT ![x] = [Quiet EXCEPT !.at = Nothing(x)]]
  /\ UNCHANGED <<handler, workflows, redis, db, ended>>

Next ==
  \/ Resolve \/ Started \/ SaveFirst \/ ExpireBulk
  \/ \E c \in Repos : StartInBulk(c) \/ StartByTrigger(c) \/ Complete(c) \/ Fail(c)
                    \/ SaveStale(c) \/ ExpireState(c)
  \/ \E p \in Polls : Ask(p)
  \/ \E x \in Refreshes :
       Load(x) \/ (\E c \in Repos : Read(x, c)) \/ SaveRefresh(x) \/ FailRefresh(x)

Spec == Init /\ [][Next]_vars
-----------------------------------------------------------------------------
\* Types of the stores, the handler and the refreshes.
TypeOK ==
  /\ route \in Routes
  /\ at \in {"resolve", "start", "redis", "db", "done", "failed", "refused"}
  /\ targets \subseteq Repos /\ todo \subseteq targets /\ ids \subseteq Repos
  /\ failures \in Nat
  /\ wf \in [Repos -> {"none", "running"} \union Outcomes]
  /\ had \in [Repos -> SUBSET ({"running"} \union Outcomes)]
  /\ key \in [Repos -> BOOLEAN] /\ saves \in Nat
  /\ redis \in Status /\ db \in Status
  /\ ref \in [Refreshes -> [at : {"idle", "load", "read", "db", "done", "none"},
                            todo : SUBSET Repos, as : Status]]
  /\ ended \in [Polls -> SUBSET Repos]

Stored == {s \in {redis, db} : s.saved}

\* What is stored tells the truth, although old counters may be saved over new ones and
\* a workflow may take back what it said: as many workflows as it counts as completed have
\* said so once; every workflow of the request is in it and in one of its counters.
CountersHonest ==
  \A s \in Stored :
    /\ s.completed <= Cardinality({c \in Repos : "completed" \in had[c]})
    /\ s.ids = {c \in Repos : wf[c] # "none"}
    /\ s.completed + s.failed + s.in_progress >= Cardinality(s.ids)

\* What a poll answers is no older than the poll, whatever other refreshes save: of the
\* workflows that had ended none is in progress, unless since the poll came in its state
\* has expired or RUNNING was saved over it.
Answer(p) == ref[p].as
PollFresh ==
  \A p \in Polls : ref[p].at = "done" =>
    Answer(p).in_progress <= Cardinality(Answer(p).ids \ ended[p])

=============================================================================
