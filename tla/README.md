# UniShield: a verification project

TLA+ models of the UniShield backend and its gateway (`src/backend/`,
`src/gateway/`), the TLC configurations that check them on small instances and
the theorems TLAPS proves about them. Nine parts are modelled: a workflow from
its trigger to its row in the database, an SCR scan from its record in Kafka to
its report, the programs that scan runs, the approval of write-scope actions, the
registry of repositories, bulk scans, the scheduler, the attack-path analysis, and
what the dashboard makes of it all.

| File | What it is |
| --- | --- |
| `Orchestrator.tla` | one workflow, at the granularity of an await |
| `OutputCustody.tla` | what is promised about the agents' outputs (abstract) |
| `OrchestratorProofs.tla` | theorems about `Orchestrator` |
| `ScrScan.tla`, `MCScrScan.tla` | one SCR scan: batches, checkpoint, stored findings, ranking; the findings its run scans for |
| `ScrScanProofs.tla` | theorems about `ScrScan` |
| `ActionGate.tla`, `MCActionGate.tla` | proposed actions, decisions, execution, the review queue; an instance |
| `ApprovalContract.tla` | what is promised about approval (abstract) |
| `ActionGateProofs.tla` | theorems about `ActionGate` |
| `RepoRegistry.tla`, `MCRepoRegistry.tla` | a repository's connection, its secret, and the ref a scan reads; an instance |
| `RepoRegistryProofs.tla` | theorems about `RepoRegistry` |
| `BulkScans.tla`, `MCBulkScans.tla` | a scan of several repositories and its counters; its symmetry |
| `Scheduler.tla` | the jobs in Redis and the loop that runs them |
| `ScanRequestsProofs.tla` | theorems about `BulkScans` and about `Scheduler` |
| `AttackPath.tla`, `MCAttackPath.tla` | extraction, graph, paths, scores, what Neo4j keeps; an instance |
| `AttackPathProofs.tla` | theorems about `AttackPath` |
| `Dashboard.tla`, `MCDashboard.tla` | an answer of the gateway put together from several calls; an instance |
| `DashboardProofs.tla` | theorems about `Dashboard` |
| `Scanners.tla`, `MCScanners.tla` | acquisition, detection, the external scanners, merging and filtering; an instance |
| `ScannersProofs.tla` | theorems about `Scanners` |
| `*.cfg` | one configuration per run |
| `PROJECT.json` | components, runs, mutants, source map, findings, hazards, theorems |

## 1. Inventory

One asyncio process holds the API, the orchestrator, the Kafka consumer, the
gate watcher, the scheduler and (by default) the agents. What they share is in
Redis (workflow states, shared memory, personal memory, progress, bulk scans,
jobs), Postgres (rows), Vault (tokens), Neo4j (graphs) and Kafka (events). Nothing
takes a lock. The gateway is another process, which reaches the first by HTTP and
gives up on slow calls.

| Component | State | Operations | Hard behaviour |
| --- | --- | --- | --- |
| Orchestrator, skill controller | in-process set of running workflows | start, execute, on_agent_complete, plan, trigger, gate, approve, finalize | handlers of one workflow in several tasks; nested except clauses that each finalize |
| Workflow state store | one Redis record per workflow | ten updates, each a load and a save | lost updates |
| Finalizer | the `workflow_outputs` row | snapshot, upsert, verify, clear, publish, complete | many awaits between the snapshot and the clear |
| Shared memory | a Redis hash per agent and workflow | write, read, snapshot, clear | snapshot read section by section |
| Decision engine, routing rules | none | evaluate, should_escalate | the flow has no join: parallel agents each start what follows |
| Event bus, consumer | the `agent.complete` log, the group's offset | publish, fetch, handle, commit | redelivery after a restart; the handler awaits agents that publish to it |
| Human gate watcher | none | list expired, escalate | saves a record it read earlier |
| CMA, Reporting, dynamic agents | none | read sections, write their own, announce | level and approval flag passed from agent to agent |
| SCR pipeline | personal memory: findings, fingerprints, controls | ten stages, batches, ranking, output | checkpoint and resume, stop signal, what may fail after the output is out |
| SCR scanners | a temporary directory, child processes | acquire, detect, run, merge, filter | a program that is missing, hangs or prints nonsense beside others that do not; fallbacks that mix two trees |
| Action gate and executor | `proposed_actions` rows | propose, approve, reject, execute, list the queue | unconditional updates, check and use apart, a caller that timed out |
| Repository registry, vault | `repo_connections` rows, secrets | register, verify, update, rotate, resolve, delete | two stores, stale whole-row upserts, provider calls in between |
| Bulk scans | one record per bulk scan, in two stores | start, refresh | counters recomputed and saved by racing refreshes |
| Scheduler | one Redis key per job | register, tick | trigger, delete, re-register with a restart in between |
| Attack path | a graph in Neo4j | extract, build, store, search, score | bounded search, ids that collide, graphs of earlier analyses |
| Gateway, dashboard, metrics history | `metrics_history` rows | workflow metrics, legacy endpoints, proxies | one answer from many calls while workflows go on |
| SCR progress, repository memory | one Redis record each | set_stage, complete, fail; save summary | not modelled (section 14) |
| Model router, core, frontend | none of the workflow's | I/O | not modelled (section 14) |

What makes each correct:

- *Orchestrator, store, finalizer, bus*: no output is lost between Redis and
  Postgres; a status is true (COMPLETED and PAUSED mean a row, COMPLETED a
  complete one); a report that asks for a human is not finalised without one; no
  agent runs twice at once; every announcement is handled; the workflow ends.
- *SCR pipeline*: a resumed scan reports what an uninterrupted one would; a scan
  that was cut short does not say it was not.
- *SCR scanners*: what was asked for is what is scanned; a failing program costs
  no other's findings; nothing is left on disk; nothing is dropped uncounted.
- *Action gate*: what was executed had been approved, and each execution has an
  approval of its own; what a reviewer must see is in the queue.
- *Registry and vault*: a row has a secret; CONNECTED was earned, or an update has
  said it; a repository has one connection; a scan reads the ref asked for, with a
  token the provider accepts.
- *Bulk scans*: the counters account for every workflow and claim nothing that no
  workflow has said; a poll is not answered with the past.
- *Scheduler*: a due job is started, once for each of its times, and none is lost but
  to its time to live and to a restart or a failing call at the wrong moment.
- *Attack path*: every finding has its path; what is said of nodes and entries
  agrees with the paths; a stored graph is whole.
- *Dashboard*: the numbers of one answer agree with each other and with the order
  in which things happened.

The hazards behind these, each at its line, are in `PROJECT.json`.

## 2. Plan

Done, each step a module, its run and, where marked (T), theorems:

1. `Orchestrator` against `OutputCustody`, the refinement proved (T).
2. `ScrScan` (T).
3. `RepoRegistry` (T).
4. `ActionGate` against `ApprovalContract`, the refinement proved (T).
5. `BulkScans` (T) and `Scheduler` (T).
6. `AttackPath` (T).
7. `Scanners` (T) and `Dashboard` (T).

Dropped: a module for SCR progress and repository memory (section 14).

Left:

1. What is proved of an undisturbed workflow until somebody approves (section 13),
   proved after one approval too; until then the run `review` covers it.
2. A composition of `Orchestrator` with `BulkScans`: the hook that runs when a
   workflow is finalized.

## 3. The model of a workflow

**Processes.** Every asyncio task that touches the workflow is an element of
`Procs`: `background` (`TriggerHandler._run_background`), `consumer` (the loop on
`agent.complete`), `watcher` (`HumanGateWatcher`), one per agent run, and one per
call of the approve endpoint. They share `wf` (the `WorkflowState` record),
`shared` (the shared-memory hashes), `row` (the `workflow_outputs` row), `topic`,
`position` and `committed` (the bus) and `emitted` (other topics).

**Control.** A coroutine may be interrupted only where it awaits, so one step is
one awaited call with the code up to the next. `todo[p]` is the sequence of calls
`p` has left. A Python function is a sequence of operations (`Finalize`,
`Persist`, `HumanGate`, `OnAgentComplete`, ...); a branch puts the calls of the
branch taken at the head of the sequence; `Catch(h)` stands where the `try` block
that handler `h` guards ends. On a normal exit the mark is passed over (`Settle`);
`Throw` drops everything up to the first mark and goes on with its handler
(`Unwind`). The nested except clauses of `finalize`, `_trigger_agents_via_skill`,
`execute` and `on_agent_complete`, most of which fail and finalize the workflow,
are thus marks and handlers met in the order Python meets them. `local[p]`
keeps what a task has read and not yet used: the handler's `state` object
(`view`), the record between a load and its save (`copy`), the surface, a
half-read snapshot.

| Code | Actions |
| --- | --- |
| `WorkflowStateStore` updates | `Load`, `Save`, `Changed` |
| a handler's own `state`, and saving it | `View`, `SaveView` |
| `get_full_snapshot`, `_prepare_snapshot` | `Scan`, `Read`, `Prepared` |
| `_write_snapshot`, `_verify_checksum` | `Upsert`, `Verify` |
| `clear_workflow` | `ClearScan`, `Delete` |
| events other than agent.complete | `Emit` |
| `on_agent_complete`, `run_after_agent_complete`, `_scripted_plan` | `Surface`, `CheckScr`, `Plan` with `MustEscalate`, `NextAgents`, `Evaluate`, `Progression`, `Finish` |
| `execute_agent_tools` | `Gather`, `Await`, `Raise` |
| `_run_background`'s last resort | `IfRunning` |
| SCR run | `Placeholder`, `Pipeline`, `ScrOutput`, `Late` |
| CMA, Reporting, dynamic agents | `ReadScr`, `ReadCma`, `WriteOutput` |
| `_notify_agent_complete` | `Notify`, `WriteDefault`, `Publish` |
| the consumer | `Fetch`, `Commit` |
| the approve endpoint, the watcher, a restart | `Approve`, `ListExpired`, `Crash` |

**Data.** An output is three fields: its scan status, the level of what was found
(`low`, `mid`, `secrets`, `critical`, and `correlated` for the dynamic agents),
which is what the routing rules and the approval flag depend on, and
`requires_human_approval`. Two more reasons to escalate, a kill-chain stage of three
or later and techniques of the context that match (`should_escalate`), are left out:
no property tells them from the level. `EMPTY` is what Redis returns for a hash deleted
between the scan of the keys and the read. Identifiers, timestamps, checksums,
texts and TTLs are left out; the checksum comparison is a comparison of
snapshots.

**Settings.** `event_driven_orchestration` on, `scr_via_kafka` off, scripted planning:
the defaults. What a bulk scan keeps of a workflow is in `BulkScans`. The consumer group
is taken to have a committed offset (a group that has none starts at the end of the
topic). Time is left out: a gate may expire at any moment.

**Faults** are constants: `FaultyAgents` may raise (SCR before or after recording
a FAILED output), `LateScrFault` lets SCR raise after its output is announced, and
`MaxCrashes` bounds restarts, after which no task is resumed and the consumer
starts at the committed offset. Calls to Redis, Postgres and Kafka do not fail by
themselves.

**Fairness.** `WF_vars(Step(p))` for every task and `WF_vars(Fetch)`: asyncio runs
every ready task in turn, every awaited call here returns, and the consumer polls
as long as it runs. Nothing obliges a human to approve, a gate to expire or the
process to crash.

## 4. The model of a scan

`ScrScan` looks inside the step `Pipeline` of `Orchestrator`. With `SCR_VIA_KAFKA`
a scan is a record of `agent.execute.scr` and any worker may run it; the personal
memory in Redis is keyed by the workflow, so a worker that takes the record up
again works on what an earlier one left. A worker that lost the record (it did not
poll while scanning) does not notice and goes on: two may run at once. Without the
setting there is one worker, the orchestrator's task.

**State.** `record` is where the Kafka record stands; `stop`, `completed`,
`prints`, `stored` and `scanned` are the personal memory; `out` is the scr section
of shared memory and `announced` the event. `at[w]` is the call worker `w` makes
next and `local[w]` its Python locals.

| Code | Actions |
| --- | --- |
| the consumer loop, a worker's crash, the group's rebalance | `Deliver`, `Commit`, `Crash`, `Rebalance` |
| the agent session | `Start`, `Complete` |
| acquisition, detection, `process_repo` | `Acquire` |
| `append_findings`, one `rpush` at a time | `Push`, `Appended` |
| `_run_batch_analysis` | `LoadCheckpoint`, `SkipBatch`, `BatchesEnd`, `Seen`, `AddFingerprint`, `Stamped`, `SaveFiles`, `LoadProgress`, `SaveProgress` |
| `pre_batch_check` | `Guard`, `SkipProcessed` |
| `process_batch` and the exclusion filter | `ProcessBatch` |
| stages 7 and 8 | `EnrichAI`, `EnrichIntel` |
| ranking | `Rank` with `Ranked` |
| output | `Assemble`, `Publish` |
| the except clause and `on_execution_error` | `Raise`, `ErrorLoad`, `ErrorSave`, `WriteFailed` |
| `write_stop_signal` | `Stop` |

**Data.** A finding is a record of what the pipeline asks of it: its batch, the
scanner that finds it, whether it is severe, whether a hard rule excludes it. In
memory it is a copy with the fingerprint it carries (`analysis`, by rule and
snippet, or `runner`, by category) and the stage that appended it. Memory is a set
of copies: pushing the same copy twice, which a resumed scan does, is not told
apart for secrets and is what ranking removes for code. The order of the list
matters to ranking only in that an enriched copy comes after the copy it was made
from, which the stage records. A batch is counted as scanned as a whole. The batch
of a number is the same in every run of the scan: the files and the batch size are.

**Faults.** `FaultyScanners` may raise (logged, and the batch goes on without
their findings); `Faults` are the places where the pipeline raises; workers crash
and the group rebalances within bounds, at any step.

**Left out.** SCR progress and repository memory (section 14), the attack path
(`AttackPath`), what acquisition and the programs do (`Scanners`), the
pause signal (it only delays a batch, for at most ten polls), the token budget
(nothing reads it in the loop), the false-positive filter by a language model (off
by default), severities that threat intelligence raises.

**Fairness.** `WF_vars(Step(w))` and `WF_vars(Deliver(w))`: awaited calls return
and a worker polls. No fault, rebalance or stop has to happen.

## 5. The model of acquisition and the scanners

`Scanners` looks inside `Acquire`, the repository pass and the batches of
`ScrScan`: which tree ends up in the directory, which programs run on it and what
becomes of their answers. Here one scan runs alone and nothing crashes; what may go
wrong is every call to something outside.

**State.** `dir` is the directory (is it temporary, which trees and which `.git`
are in it), `got` how the trees came there; `listed`, `acquired`, `detected` the
results of the first stages; `task` and `found` where each program is and what it
returned; `memory` the personal memory; `left`, `open`, `kept`, `stats` the batch
in hand and `FilterStats`.

| Code | Actions |
| --- | --- |
| `validate_required_tools` | `CheckTools` |
| `_materialize_repo`, `clone_at_ref`, the tarball | `CloneRef`, `CloneDefault`, `DownloadTarball` |
| `AcquisitionStage.run`, `git_diff_changed_files`, `save_file_list` | `ListFiles` with `Cut`, `Changed`; `SaveFileList` |
| language and framework detection | `Detect` |
| `process_repo`, the `run_repo` methods | `StartTools` with `Wanted`; one action per program; `Gather` |
| the merge of results | `Deduped`, `CodeFound`, `SecretFound`, `SbomFound` |
| `process_batch` | `AnalyzeBatch` |
| `FindingsFilter` | `HardExcluded`, `Score`, `StoreBatch` |
| `SCRRunner.run`: the `finally` of `SCRSkillExecutor.run`, or mode `local` without one | `Cleanup` |

`host.mode` is `scr_execution_mode`. In `skill` and `hybrid` the scan is run by
`SCRSkillExecutor`, whose `finally` calls the cleanup of an acquisition there is; in
`local` `SCRRunner.run` awaits `run_canonical_sequence` and nobody calls it.

**Data.** A file is a record of what the code asks of it (tree, language, is it a
manifest, is it scannable, wanted by the patterns, changed, a test file, priority);
a finding belongs to one tool and one file and has the spot by which duplicates are
told, the rules that find it and a score. What a program finds in the trees it sees
is given; that it is not installed, prints nothing usable or makes its caller raise
is a choice. Lists are sets, and where the code cuts a list to a length, any part of
that length is taken: the order of a directory is nobody's choice.

**Bounds.** Four files of the ref, an unscannable manifest and one file of the default
branch; one or two findings per tool, two of different tools at one spot; nine inputs
(branch, commit and unknown ref, full and incremental; archives with and without files;
a list); seven hosts: all programs installed and some of them failing in three
combinations across the labels (`skill`), and only the required programs or a required
one missing (`hybrid` and `local`). A list longer than `MaxFiles` or `MaxRead` and
batches of two exist. No fairness: the properties say what holds at each point reached.

## 6. The model of the action gate

**State.** `row` is the status column of `proposed_actions`, `born` the order of
`proposed_at`, `stored` the workflows whose state is in Redis, `paused` those of them
at their gate, `proposing` what the output stage has still to propose,
`req[r]` a request with the call its handler makes next, `accepted`, `dispatched`
and `announced` what has been done on account of each request.

| Code | Actions |
| --- | --- |
| `propose_finding_reviews`, `ActionGate.propose` | `Ranked`, `Propose` |
| the gateway's decision route, `OrchestratorClient._request` | `Decide`, `DecideWorkflow`, `ListQueue`, `Respond`, `TimeOut` |
| `ActionGate.approve`, `reject` | `Approve`, `AnnounceApproved`, `Reject`, `AnnounceRejected` |
| `ActionExecutor.execute_approved` | `Fetch`, `Recheck`, `Dispatch`, `MarkExecuted`, `AnnounceExecuted` |
| a decision on a workflow item | `LoadWorkflow`, `Resume` |
| `HITLService.list_queue`: the scan of the paused workflows | `ReadPaused`, a key at a time, `EndScan` when there are `PausedLimit` of them |
| ... the actions of each | `ReadActions` with `Pending`, `WorkflowItems` |
| ... `list_pending` of all clients and its filter by client | `ReadPending` with `Newest`, `LoadOwner` with `Unseen`, `EndQueue` |
| the day after which a state expires | `Expire` |
| an awaited call raises | `Fail` |

Every update of a row is unconditional, as in the code; the proxy answers the
reviewer before the handler has ended when it times out. `ApprovalContract` is the
promise of the gate (`accepted` and `dispatched` map to themselves): an execution
spends an acceptance of its own, so no interleaving of decisions executes twice on
one approval.

**Bounds.** Two clients with a workflow and a severe finding each, so that a queue has
something it must not show, and something of another client's that may push its own
out; both limits (`PausedLimit`, fifty in the code, and `PendingLimit`, two hundred) are
one, so that both are reached. A workflow whose snapshot is gone has an entry of its own.
Two requests, which is where a check and a use come apart: `Asks` says what each may be,
both a decision on the first action, or a decision on the first workflow (by its client or
the other) beside a queue. Two runs of the output stage, the second of which meets rows
that have been decided on. The proofs of section 13 have no bounds.

**Fairness.** `WF_vars(Handle(r))` and `WF_vars(Respond(r))`: the event loop resumes
a handler whose call has returned or raised, and the gateway's call ends, at the
latest by its timeout. Nobody has to send a request.

**Left out.** What a dispatched action does outside (one step), and the order of the
queue. `SCAN` may repeat a key while Redis rehashes; here it yields each once. An
action whose workflow's state has expired is in no queue any more (section 12), so the
property is about those whose state stays.

## 7. The model of the repository registry

**State.** One repository of one client. `row[i]` and `vault[i]` are the row and
the secret of connection `i`; `remote` the branches the provider has; `req[r]` a
request with its locals, the copy of the row (`conn`) and the token it has read
among them. `deleting`, `given`, `declared`, `named` and `scans` remember what has
happened, for the properties: `declared` the connections that the body of an update has
called CONNECTED, `named` the branches somebody has called the default.

| Code | Actions |
| --- | --- |
| the gateway's routes | `Connect`, `OnConnection`, `Rotate`, `Update`, `ScanRepo` |
| `register` | `Lookup`, `WriteSecret`, `VerifyConnection`, `SyncDefaultBranch`, `UpsertConnection` |
| `verify_connection`, `rotate_token` | `Get`, `ReadSecret` or `WriteSecret`, then as above |
| `update_connection` | `Update`: the body's status, default branch and last scan, whatever they are, then `UpsertConnection` |
| `delete_connection` | `Get`, `DeleteSecret`, `DeleteRow` |
| `_resolve_head_sha` | `ResolveHead`, `ResolveDefault`, `ResolveRetry`, `ResolveListed`, `ResolveLast` |
| `scan_repo`, `mark_scanned` | `Trigger`, `MarkScanned` |
| the connectors | `Head`, `Access`, `DefaultBranch`, `ListBranches`, one case per provider |
| a call raises; a branch is renamed | `Fail`, `Rename` |

The unique index on client and URL is the guard of `UpsertConnection`; a row that
was deleted comes back when a request that had read it writes it (`INSERT ... ON
CONFLICT DO UPDATE`), which the properties allow. An update is not a patch: its body is a
whole `RepoConnection`, whose status and default branch are written over the row's. For
Bitbucket the connector answers `main` (`Main`) where the provider names no main branch.

**Bounds.** Two ids, so that two registrations can race; a token the provider
accepts and one it does not; two branches and one rename, so that the default can
be missing; three requests, so that one can undo another while a third reads. Ids,
requests and so on are symmetric (`Interchangeable`). No fairness.

## 8. The models of bulk scans and of the scheduler

`BulkScans`: `at`, `targets`, `todo`, `ids`, `failures` are the handler of the
request; `redis` and `db` the status in either store; `wf`, `had` and `key` each workflow's
status, those it has ever had, and whether its key is still there; `ref[x]` a refresh,
which is the hook of a finalized workflow or a poll. An end is not for good: as
`lost_completion` shows, a state that was loaded before a workflow completed may be
saved after it (`SaveStale`), and FAILED may be saved over COMPLETED (`Fail`).

| Code | Actions |
| --- | --- |
| `resolve_multi_repo` | `Resolve` |
| the loops of `scan_multiple` and `trigger_workflow` | `StartInBulk`, `StartByTrigger`, `Started` |
| `BulkScanStore.save` | `SaveFirst`, `SaveRefresh` |
| `refresh_from_workflows` | `Ask`, `Load`, `Read` with `Counted`, `FailRefresh` |
| `_finalize` with its hook, `fail` | `Complete`, `Fail` |
| `mark_agent_running`, `_done`, `_failed`, `resume` | `SaveStale` |
| the two times to live | `ExpireState`, `ExpireBulk` |

Two repositories, one poll, one hook at a time, both endpoints, failures and expiries:
hook and poll already overwrite each other's counters in every order. Three saves of a
workflow's state after its start (`MaxSaves`): both end, and one says RUNNING again.
Repositories are symmetric (`Alike`). A start that raises after it has saved the state
leaves a workflow that nobody refers to; it is not in `wf`.

`Scheduler` (its specification is `ScheduleSpec`): `job[j]` is the `run_at` of a key in
Redis and `expires[j]` the hour its time to live is over (`Ttl`; thirty days from its
registration in the code), so that `Get(j)` is what Redis answers; `tick` is where the loop
stands. `Wake`, `Take`, `Trigger`, `Delete`, `Register`, `Sleep` are the awaits of
`_loop` and `_tick`; `Raise` is any of these calls raising, before it has done its work or
after, which ends the tick; `Stop` ends the process at any of them; `Pass` is the hour. A
recurring job and a single one, four hours with an interval of two and a time to live of
three, one restart and one call that raises: enough for a tick that comes late, for each
crash or failing call between trigger, delete and register, and for a job whose key lapses
before it is taken. `WF_vars(Step)`: the loop wakes again and its calls return; the hour
need not pass.

## 9. The model of the attack-path analysis

`AttackPath` reads sources as sequences of functions with their decorators and
calls, at lines that keep their order, and computes with them what the code does:
`ExtractTree`, `ExtractViaRegex`, `WrapSnippets`, `SyntheticStub` (the extractor and
its stand-ins for files that were not read), `FileNodes`, `FileEdges`,
`WithEntry`, `WithSink`, `FindingEdges` (the builder), `PathsIn`, `Risk`, `Stride`,
`Chokepoints`, `BlastRadii` (the analyzers). The actions are the steps of
`analyze`: `Build`, `AddFinding`, then `DeleteStored`, `MergeNodes`, `LinkNodes` or
`Skip` (no password, or a call that raised), `Analyze`; `ScanAgain` analyses a second
scan on the same Neo4j. `todo` is the set of the positions of findings still to be added,
the first next. `report.radii` is a set: the code's list repeats the radius of an entry
that is listed twice. `Readable` says what an input is, and `AttackPathAssumption` that
the inputs are readable, that no route is empty and that no name taken for a sanitizer is
`entry`, the name of the node a file without a route is given; `Text` stands for strings.

The operators are translations, quirks included (section 12); the properties are
about the result as a whole. The instance has one or two files of one or two
functions with every decorator and call the code tells apart, or none read, and two
findings at lines that coincide with the nodes of the source and at others: ids
collide, routes are listed twice, sanitizers stand in the way. `Limit` is 4 in the
instance, and some inputs have more paths. No fairness.

## 10. The model of the dashboard

`Dashboard` has the workflows as the gateway sees them (`wf` in Redis, `row` in
Postgres, `history` of metrics) and one request `req`, which gathers the list, the
queue, each completed workflow's output and the history by calls that may find the
orchestrator unavailable (`List`, then `ReadState` of one key after the other and
`EndList`, `ListUnavailable`, `HitlQueue`, `GetOutput`, `GetHistory`), while workflows
start, pause, end, say RUNNING again after they have ended (`Overwrite`, a stale save)
and expire. `Metrics` is what `workflow_metrics` makes of it: the counts, the series
(`SortPoints`, `PadSeries`), the findings ranked and grouped, the agents' rows
(`BuildAgents`), compliance and vendor scores. `RiskScore` is the latest risk as the
answer has it, a share of one, here in hundredths: the gateway divides by a hundred what
is more than one. The list comes in any order, as from `scan_iter`; `req.todo` is the
set of its positions still to be read, the first next. A sort keeps what is equal in the
order it has, as Python's does (`Stably`). The loop over the workflows that makes an
agent's row is the function `AgentRows`: the row after each of them, by `Updates`.

Two workflows, so that there are an earlier and a later one, two completions
(`MaxCompletions`), two reports that differ in every field that is counted, one with a risk
of 80 and one with a risk of 1, one agent, a history cut at one row. Workflows are
symmetric. No fairness.

## 11. What is checked

| Run | Instance | States | Checked |
| --- | --- | --- | --- |
| `review` | code review and pull-request scan, three levels, one approval, the watcher | 7,884 | `TypeOK`, `HumanGateHolds`, `PausedShowsReport`, `CompletedIsComplete`, `OutputsInCustody`, `EventsHandled` |
| `incident` | incident response, fixed (then escalated) or dynamic, three parallel agents | 132,125 | `AnnouncedIsKept`, `OneTaskPerAgent`, `Reported` |
| `restart` | pull-request scan, SCR and Reporting may fail, SCR also late, one restart | 331,253 | `CompletedHasRow`, `PausedHasRow` |
| `resume` | a scan of two batches, two workers, a rebalance, a crash, a stop signal, a failing scanner, faults in the pipeline | 547,028 | `CheckpointHonest`, `ReportComplete`, `Answered` (of `ScrScan`) |
| `scanners` | six files, eighteen findings, nine inputs, seven hosts in three modes, five faults | 1,027,105 | `ScansTheRef`, `ChangedScanned`, `TempGone`, `FindingsKept`, `FilterAccounts` |
| `actions` | two clients, two requests, both limits reached, two runs of the output stage, calls that raise, states that expire | 593,997 | `ExecutedWasDone`, `AgreedDecisionSettles`, `QueueComplete`, `KeepsContract`, `Answered` (of `ActionGate`) |
| `registry` | three requests of any kind on one repository, updates with any status and branch, three providers, a rename, calls that raise | 1,193,588 | `SecretKept`, `StatusEarned`, `ScanReads`, `ConnectionKept` |
| `bulk` | two repositories by either route, a hook and a poll, ends that are taken back, failures, expiries | 3,573,593 | `CountersHonest`, `PollFresh` |
| `schedule` | a recurring job and another, four hours, keys that lapse, a restart, a call that raises | 78,950 | `JobKept`, `ServedOnce`, `DueServed` |
| `paths` | one or two files, two findings, two analyses | 371,116 | `FindingsReached`, `ChokepointBlocks`, `RadiiAccount`, `StoredWhole` |
| `dashboard` | two workflows while one answer is put together key by key | 7,851,772 | `CompletedHavePoints`, `KpiIsLatest`, `RowsHonest` |
| `lost_completion` | as `review`, one level | violated | `WorkflowSettles` (section 12) |

Every module but `AttackPath`, whose types are in its invariant, defines its `TypeOK`;
`review` checks that of `Orchestrator`, and all of them are proved (section 13).

Of a workflow:

- `HumanGateHolds`: a workflow whose report requires approval is not COMPLETED
  until somebody has called approve. It depends on the flag being carried from
  SCR through CMA to Reporting, on the plan ending with Reporting, and on no other
  path finalizing first.
- `PausedShowsReport`: what waits for approval is in the database when it waits.
- `CompletedIsComplete`: a COMPLETED row has the finished output of every agent
  of the definition.
- `AnnouncedIsKept`: an output that was announced is in Redis or in the row.
- `OutputsInCustody`: the workflow implements `OutputCustody`: the snapshot, read
  hash by hash while others run, equals the memory at one instant, nothing is
  released that the database does not hold, and the row never forgets an agent.
  The refinement maps `memory` to `shared` and `durable` to `row.snap`.
- `EventsHandled`: again and again the consumer has handled all there is. The
  handler awaits agents that publish to the topic it consumes, so this fails if
  any of them waits to be handled.
- `OneTaskPerAgent`: no agent is triggered while it runs.
- `Reported`: every workflow comes to a row or to FAILED.
- `CompletedHasRow`, `PausedHasRow`: the statuses are never ahead of the database,
  under every fault of the model and a restart.

Of a scan:

- `CheckpointHonest`: a batch in `completed_batches`, which nobody will look at
  again, is scanned and its findings are stored, although the list is loaded and
  saved in two calls by workers that do not know of each other.
- `ReportComplete`: a COMPLETED scan that was not stopped has seen every file and
  reports every finding that a working scanner found, no rule excludes and that is
  not a dependency (section 12). Its mutant drops findings whose fingerprint is
  known, as the skill's text asks: a crash between `add_fingerprint` and
  `append_findings` then loses one for good. The code keeps them.
- `Answered`: a scan asked for is announced, or its section says FAILED. It does
  not say that the workflow hears of it: a FAILED scan is not announced, so with
  `SCR_VIA_KAFKA` the workflow waits.
- `ScansTheRef`: a repository scan that goes on has the requested ref before it; it
  lists a file of the default branch only in the one case section 12 describes.
- `ChangedScanned`: an incremental scan lists every changed file the patterns
  admit, unless the walk was cut; without history to compare it scans everything.
- `TempGone`: the temporary directory of an ended scan is gone, whatever raised, but
  for a list that could not be saved and for mode `local`, which leaves every clone.
- `FindingsKept`: what a program returned is in memory, or a finding of the same
  spot is: a failing program costs its own findings, or its label's.
- `FilterAccounts`: over all batches every code finding is counted once.

Of decisions and connections:

- `ExecutedWasDone`: a row says executed only of what was carried out.
- `AgreedDecisionSettles`: when the decisions on an action have ended, none was cut
  short and they agree, the row says what they say. Its mutant leaves the mark to
  a listener that nobody has written.
- `QueueComplete`: read in three kinds of queries while things change, a queue
  leaves out nothing that waited all the while and was not kept out by a limit: a
  paused workflow only if `PausedLimit` others were read, an action only if
  `PendingLimit` pending ones, of whatever client and none of them older, were; and it
  shows nothing twice. Its mutant reads the oldest pending rows instead of the newest.
- `KeepsContract`: the gate implements `ApprovalContract`.
- `Answered` (of `ActionGate`): every request is answered and its handler ends.
- `SecretKept`: a row has its secret unless its deletion has begun.
- `StatusEarned`: CONNECTED stands only over a connection for which an accepted
  token was handed in, or which an update's body has called CONNECTED, whichever
  copies are written back in whatever order: the registry itself says it of no other.
- `ScanReads`: a scan reads the branch asked for, or, if none was asked for, one that
  has been called the default; its token is one the provider accepts and was handed in
  for that connection, so a status that was only declared starts no scan.
- `ConnectionKept`: a repository with a connection never gets another beside it.

Of the rest:

- `CountersHonest`: what either store holds of a bulk scan counts as completed no
  more workflows than have said so once, names every workflow and has each in a
  counter, although old counters are saved over new ones and workflows take back what
  they said.
- `PollFresh`: of the workflows that had ended when a poll came in, its answer has
  none in progress, whatever other refreshes saved meanwhile, unless the state has
  expired or RUNNING was saved over it since.
- `JobKept`: a job leaves Redis only when it has been started or its time to live is
  over; and no more recurring jobs are dropped, neither in Redis nor about to be
  registered again, than the process was restarted and calls raised.
- `ServedOnce`: a time of a job is served once, and once more at most for each restart
  and each call that raised; no time of a recurring job is left out.
- `DueServed`: a job that is due is started, or its key lapses first.
- `FindingsReached`: a finding of a sink category ends a reported path.
- `ChokepointBlocks`: without the node, the graph has as many paths less as is said.
- `RadiiAccount`: every path is in the radius of its entry, and the totals of the radii,
  each entry's taken once, add up to the paths.
- `StoredWhole`: an analysis that stored without an error owns its whole graph and
  nothing else, whatever earlier analyses left.
- `CompletedHavePoints`: an answer whose calls succeeded has the output of each
  workflow it counts as completed.
- `KpiIsLatest`: the last of the trend is the risk of the workflow completed last, and the
  score shown is that risk, but for a risk of one, which is shown as a hundred.
- `RowsHonest`: an agent's row says running exactly if a workflow runs it, error
  exactly if none does and one has it failed.

Each property has a mutant (the operators marked as such): a plausible slip in one
mapped definition under which TLC finds it violated.

**Bounds of a scan.** Two workers are needed for one to work behind the other's
back; two batches for a checkpoint with one in it and one out of it, and so that
lists of completed batches can overwrite each other. One rebalance and one crash
may both befall one scan. The run has the findings of a worker's scan (files, no
clone): one that can be excluded, one that cannot, and one of a scanner that may
fail. The proofs of section 13 cover the paths of a cloned repository too.

**Bounds of a workflow.** One workflow, since workflows share no record. All three
kinds of definition the code has: one step after SCR, two, and the incident's four
(`compliance-readiness` has the steps of `code-review-only`). The levels are those
the routing tells apart; `secrets` is needed where CMA asks for approval and SCR
does not. One restart brings the first redelivery and the loss of all tasks. Every
agent but SCR runs at most once per announcement, so nothing else grows.

CHECK_DEADLOCK is off in every run, because a workflow, a scan, an analysis and a
request end, and then nothing is left to do.

## 12. What the code does otherwise

One run is refuted: `lost_completion` (`WorkflowSettles`). With no fault, SCR's own
tail marks it failed because the memory is already cleared, and that update's save
puts RUNNING over COMPLETED, for good. This is why `WorkflowSettles` is in no passing
run. `findings` in `PROJECT.json` quotes what the repository says.

What follows was seen while modelling. The models do it, the properties above are
stated around it; the first four can be watched by giving `Orchestrator` other
constants.

*Workflow.*

- `LateScrFault = TRUE` refutes `HumanGateHolds`: SCR announces its output and then
  calls `save_scan_summary` with a parameter it does not have. The exception
  finalizes the workflow while Reporting is running on the announcement.
- `MaxCrashes = 1` refutes `HumanGateHolds`: a restart while Reporting runs delivers
  the scan's event again; the step is already advanced, so the plan is empty, and an
  empty plan after any agent but Reporting finalizes the workflow past its gate.
- `FaultyAgents = {"scr"}` refutes `CompletedIsComplete`: `fail` is followed by
  `_finalize`, which saves COMPLETED over FAILED.
- `FaultyAgents = {"web"}` in an incident refutes `AnnouncedIsKept`: two nested
  except clauses finalize; the second snapshot is of a cleared memory and replaces
  the first.
- Two approve calls both pass the paused check, and the second finalize replaces the
  row by an empty snapshot; the watcher's stale save puts PAUSED back after an
  approval; a restart during the first step leaves the workflow RUNNING with nothing
  to resume it.

*Scan.*

- A Semgrep finding is stored by the repository scan under one fingerprint and by its
  batch under another, and reported twice; a hard rule that excludes it in its batch
  does not exclude the other copy.
- The AI stage marks a copy it does not store; the original is ranked and reported.
  The enriched copies are dropped: the first copy of a fingerprint wins, and that is
  the bare one.
- Ranking reads a key for dependencies that `load_all_findings` does not return.
- A worker that lost the record can replace the COMPLETED section of the one that
  took over by FAILED; `on_execution_error` lists the batch completed last among the
  failed ones; a stopped scan reads COMPLETED (nothing calls `write_stop_signal`).

*Acquisition and scanners.*

- After a failed checkout the tarball is unpacked into the clone of the default
  branch, and files of both are scanned.
- If `save_file_list` raises, the clone stays on disk. With `scr_execution_mode` `local`
  every clone does: `SCRRunner.run` returns without calling the cleanup.
- An archive that does not exist is scanned as no files and completes; an incremental
  scan of a repository whose changes touch no scannable file fails as empty; without
  a full history every incremental scan is a full one. In a repository with more than
  `max_files` files the walk is cut before the changed ones are picked out, and changed
  files may be among those cut.
- An advisory of OSV with a CVSS vector makes `float` raise and costs the label all
  its findings.
- A secret in the tree and in the history is recorded as not in the history; paths
  Checkov prints with a leading slash match no batch; files beyond the first 200 are
  not read for frameworks; exit codes are not looked at.

*Actions.*

- The updates are unconditional: an approval that is sent again executes again; a
  crash between the dispatch and the mark leaves the row APPROVED, with nothing that
  looks for such rows.
- `list_pending` reads the newest two hundred pending rows of all clients, and
  `list_queue` filters them afterwards: two hundred newer actions of other clients empty a
  client's queue of what is not under one of its paused workflows. Pending actions of a
  workflow whose state has expired, after a day, are never shown again.

*Registry.*

- Only GitHub's connector raises `BranchNotFoundError`, so the fallback to the
  default branch does not happen for the other two.
- An update writes the status of its body: CONNECTED over a row that the provider has
  refused, or an error over one it accepts. Nothing verifies it until somebody asks.
- A verification or an update that races a deletion brings the row back without its
  secret; a registration refused by the unique index leaves its secret behind;
  registering a repository again forgets its last scan. A deletion that fails after the
  secret is gone leaves a CONNECTED row without one.

*Bulk scans, scheduler.*

- `on_workflow_terminal` has no caller. A refresh forgets the starts that failed.
  Workflow states expire after a day and the status after a week: a finished bulk
  scan is later in progress again. So is one of whose workflows a stale RUNNING was saved
  over COMPLETED, until it expires.
- Trigger, delete and set have no transaction: a `delete` that raises after the trigger
  leaves the job to be started again, a `set` that raises after the delete loses a
  recurring job for good, with no restart in either.
- A job's key lives thirty days from its registration: one that is registered further
  ahead, or recurs at a longer interval, is gone before it is due.
- A job name with a colon is re-registered under its last part; a job whose trigger
  raises ends the tick, so those behind it wait, possibly as long as it raises;
  nothing but the scheduler calls `register_job`.

*Attack path.*

- A payload's functions and calls are dropped, and the edges to sinks are looked up at
  line 0, so sinks found in the source seldom end a path; routes are listed twice;
  a finding at a function's line and name takes its id and is not added.
- The search keeps the first paths it finds, not the worst ones. A file that could
  not be read and has "auth" in its name is given a stub with a query, whose sink is
  reported as any other.
- Nodes are merged by their id alone, so a scan takes over the nodes of an earlier
  scan of the same code, whose graph is then in pieces.

*Dashboard.*

- The score is divided by a hundred only when it is more than one, so a risk of 1 in 100 is
  answered as 1, which reads as the whole; its label is that of 1.
- The brief shows the workflow listed last, the score the one completed last. The
  series reads the oldest 500 rows of the period. The legacy agents endpoint takes
  the state listed last. A completed workflow leaves the dashboard with its state,
  after a day, although its row stays.

## 13. What is proved

`OrchestratorProofs` proves, for every set of workflows, levels, approvers and
faulty agents and any number of restarts (the only assumption is
`OrchestratorAssumption`, the types of the constants):

| Theorem | States |
| --- | --- |
| `Invariant` | `Spec => []IInv` |
| `TypeCorrect` | `Spec => []TypeOK` |
| `CompletedHasRowHolds` | `Spec => []CompletedHasRow` |
| `PausedHasRowHolds` | `Spec => []PausedHasRow` |
| `TurnsHold` | `Spec => []Turns` |
| `OneTaskPerAgentHolds` | `Spec => []OneTaskPerAgent` |

**The inductive invariant.** Types alone are not inductive: a step's effect
depends on the operations still queued, so `IInv` must say which sequences a task
can hold. It is the conjunction of `StoresOK` (stores typed, COMPLETED and paused
imply the row), `BusOK`, `ControlOK` and `EnvOK`. `ControlOK` says that the
sequence of every task is `Good`: each operation is valid for its task, and every
queued update that pauses or completes the workflow is *backed*, that is, the row
is written already or an upsert stands before it in the sequence with no handler
between them (an exception could otherwise skip the upsert and keep the update).
It also says that a record held between a load and its save, or in a handler's
`view`, is *sound*: were it saved now, COMPLETED or paused in it would still have
a row. That clause is what makes the invariant survive the lost updates: a stale
save cannot promise more than was true when it was read, and rows are never
deleted. One lemma per action shows that it preserves `IInv`; lemmas about
`Settle`, `Unwind` and concatenation show that being `Good` passes to the rest of
a sequence, to a handler and to a branch.

**Turns.** `OneTaskPerAgent` follows from a second invariant over the first: SCR
has operations left only while `background` awaits it, any other agent only while
`consumer` awaits it, and only those two tasks gather. It holds because the group
of one consumer handles records one at a time and `gather` is awaited inside the
handler, whatever raises.

**The human gate and the custody of the outputs.** The other properties of a workflow
do not all hold when an agent raises or the process restarts (section 12), so the module
proves them under one hypothesis on the constants,

    Undisturbed == FaultyAgents = {} /\ ~LateScrFault /\ MaxCrashes = 0

still for any workflows, flow types, levels and approvers:

| Theorem | States |
| --- | --- |
| `GateInvariant` | `Undisturbed => (Spec => [](called = {} => GateInv))` |
| `HumanGateHoldsUndisturbed` | `Undisturbed => (Spec => []HumanGateHolds)` |
| `PausedShowsReportUndisturbed` | `Undisturbed => (Spec => [](called = {} => PausedShowsReport))` |
| `AnnouncedIsKeptUndisturbed` | `Undisturbed => (Spec => [](called = {} => AnnouncedIsKept))` |
| `CompletedIsCompleteUndisturbed` | `Undisturbed => (Spec => [](called = {} /\ Ordinary => CompletedIsComplete))` |
| `OutputsInCustodyUndisturbed` | `Undisturbed /\ Approvers = {} => (Spec => OutputsInCustody)` |

`called` is the set of approve calls that have arrived. `HumanGateHolds` speaks of the
time before them, so it is proved whole (TLC finds it also where SCR, CMA and Reporting
raise, on the instance of `review`; the proof does not go that far). The others are
proved up to the first call, since with two at once they are false (section 12).
`Ordinary` is a fixed flow of one of `SCR_REQUIRED_WORKFLOWS`: a dynamic or escalated
workflow stops when its decision engine says so, with agents of the definition left out.

**`GateInv`** has to follow the gate's decision from the agent that raises the flag to
the save that completes the workflow, past every await in between. Its parts:

- `Orderly`: the operations left to a task are some of those its handler performs, in
  the handler's order. `Rank` numbers the operations by their place in a handler and
  `Reach` says how far what an operation expands to may go; a sequence is `InOrder` if
  what an operation may become stays before all that follows it. That is what lets the
  other parts say "there is still an upsert to come" without naming sequences.
- `Memory`, `Outputs`: which sections are there. SCR's is there from its announcement
  until the memory is cleared; an agent announces only what it has written.
- `Snapped`, `Backing`: the snapshot read section by section equals the memory, because
  while the consumer persists, no agent has a write left; the row holds nothing that the
  memory does not hold or has not been cleared into it.
- `Decided`, `Held`, `Waiting`: outputs are cleared, and a record that says COMPLETED is
  held, only if the report asks for nobody; a record that pauses, only if it does. The
  records in hand count too, since any of them may be saved over a later one.
- `Records`: what a handler decides on (name, flow, step, paused) is in the record it
  holds as it is in the record stored.
- `InStep`, `OneToken`: a fixed flow is at one step, what is announced is of that step,
  and but for the parallel agents of an incident there is one announcement or one agent
  at work. So nobody finalizes while Reporting has still to run.
- `Surfaced`, `Told`, `Reviewed`: what the consumer read of the announced agent is still
  what is in memory; what was announced is in memory or, once that is cleared, in the
  row; each step of a required review leaves its outputs finished.

No part is inductive without the others: the snapshot is right because there is one
agent at work, there is one because the step is the one stored, and the step is stored
because nobody saves an older record. One lemma per action of the consumer and one per
group of actions of the other tasks shows that `GateInv` is kept. TLC checked it on the
instances of `review` and `incident` before it was proved.

**The refinement.** By `CustodyStep`, `Upsert` is a `Persist` (the snapshot is the memory,
and by `Backing` no agent of the row before is missing from it), `Delete` a `Release` (all
keys found are the keys there are, and the row is the memory), a write of SCR or of another
agent a `Produce`, and any other step leaves memory and row alone. With `Approvers = {}`
`called` stays empty.

`ScrScanProofs` proves, for every set of workers and findings, any number of
batches, crashes and rebalances, any faults, from `ScrScanAssumption` (the types of
the constants) alone:

| Theorem | States |
| --- | --- |
| `ScanInvariant` | `Spec => []IInv` |
| `ScanTypeCorrect` | `Spec => []TypeOK` |
| `CheckpointHonestHolds` | `Spec => []CheckpointHonest` |
| `ReportCompleteHolds` | `Spec => []ReportComplete` |

**The invariant of a scan** says where a finding that must not be lost is at each
point of a worker: among the findings the loop has still to stamp, held while its
fingerprint is added, pending, or stored as a copy of stage 1, which is the copy
ranking never drops (`RankedKeepsFirst`). What a worker remembers of the batches
(the checkpoint it loaded, the list it is about to save, the batches it has passed)
is *honest*: scanned, with their findings stored. Honesty is what makes a lost
update of `completed_batches` harmless, since memory only grows (`Grows`,
`HonestStays`): a stale list is short of batches, never wrong about one. So a step
of one worker cannot break the invariant of another (`OthersKeep`), and each lemma
deals with the worker that moves.

`ActionGateProofs` proves, for any workflows, clients, requests and runs of the
output stage, from `ActionGateAssumption` (the types of the constants; the findings
are finitely many):

| Theorem | States |
| --- | --- |
| `GateInvariant` | `Spec => []IInv` |
| `GateTypeCorrect` | `Spec => []TypeOK` |
| `ExecutedWasDoneHolds` | `Spec => []ExecutedWasDone` |
| `AgreedDecisionSettlesHolds` | `Spec => []AgreedDecisionSettles` |
| `QueueCompleteHolds` | `Spec => []QueueComplete` |
| `KeepsContractHolds` | `Spec => KeepsContract` |

**The invariant of the gate.** `Standing` says where a request of each kind may stand;
`Earned` what has been accepted and carried out on its account there (a request between
its update and its dispatch has accepted and not dispatched), which is all the
refinement needs: only `Approve` and `Dispatch` change the contract's variables.
`RowTold` says whose doing a status is, and that approved is never the last word of a
request that came to its end; with `Written`, that a decision past its update has left
its mark, it gives `AgreedDecisionSettles`: whatever order the writes came in, the row
can only say what one of the decisions says. `Queue` divides a half-read queue into what
has an entry, what has still to be read, what a limit has kept out (`CutOff`,
`Outnumbered`) and what no longer waits; a row that was proposed later is never older
(`born`), so what is outnumbered stays so. The lists are built by `InSomeOrder`;
`Ordered` and `Followed` show that each element comes once.

`RepoRegistryProofs` proves, for any ids, tokens, branches, requests and renames, from
`RepoRegistryAssumption`:

| Theorem | States |
| --- | --- |
| `RegistryInvariant` | `Spec => []IInv` |
| `RegistryTypeCorrect` | `Spec => []TypeOK` |
| `SecretKeptHolds` | `Spec => []SecretKept` |
| `StatusEarnedHolds` | `Spec => []StatusEarned` |
| `ScanReadsHolds` | `Spec => []ScanReads` |
| `ConnectionKeptHolds` | `Spec => ConnectionKept` |

**The invariant of the registry.** Nothing about the rows alone is inductive, since
a request may write back a whole row it read long ago. `Sound` says what a request may
carry at each point: that its connection has a secret, that its token was handed in,
that a CONNECTED in its copy was earned or declared, that its ref was asked for or has
been called the default, and that a scan about to be triggered has been let in by the
provider with its token. What has been handed in, declared, named or deleted stays so
(`Grows`), so what was sound when it was read is sound when it is written. `OneRow` is kept
by the unique index.

`ScannersProofs` proves, for any files, findings, inputs, hosts and faults, from
`ScannersAssumption` (the types of the constants, files and findings finitely many):

| Theorem | States |
| --- | --- |
| `ScannersTypeCorrect` | `Spec => []TypeOK` |
| `TempGoneHolds` | `Spec => []TempGone` |
| `ScansTheRefHolds` | `Spec => []ScansTheRef` |
| `ChangedScannedHolds` | `Spec => []ChangedScanned` |
| `FindingsKeptHolds` | `Spec => []FindingsKept` |
| `FilterAccountsHolds` | `Spec => []FilterAccounts` |

**The invariants of a scan's tools.** `Custody` follows the directory: until the list is
saved there is no cleanup at hand, afterwards there is, so that only a failure to save
leaves a directory without one, and only mode `local` one whose cleanup is not called.
The others each have their own: which trees the directory holds at each point, what the
list was made from, and for findings that a finding which loses its spot to another
loses it to one that is kept (the ranks of tools are compared, so the chain ends). For
`FilterAccounts` it is `Accounts`: what came in is what is counted so far as excluded or
kept together with what of the batch in hand is still open or kept (the findings are
finitely many, by `ScannersAssumption`, so that the sizes add up). The types follow with
one more fact, that nothing is put in a batch before the files are listed (`Unbatched`).

`ScanRequestsProofs` holds two parts, which share no state. Of the scheduler it proves,
for any jobs, hours, intervals, times to live and number of restarts and of calls that
raise, from
`SchedulerAssumption`:

| Theorem | States |
| --- | --- |
| `ScheduleInvariant` | `ScheduleSpec => []ScheduleIInv` |
| `ScheduleTypeCorrect` | `ScheduleSpec => []ScheduleTypeOK` |
| `JobKeptHolds` | `ScheduleSpec => []JobKept` |
| `ServedOnceHolds` | `ScheduleSpec => []ServedOnce` |

**The invariant of the scheduler.** A tick works on a job it has taken, and the process
may end at each of its awaits. `InHand`: the job in hand is still due for that time when
it is triggered, has run for it when it is deleted, and is gone when it is registered
again. `CountedOnce`: for the time it is due for, a job has run only in ticks that were
cut short, whose number is `Spoiled`, the restarts and the raises. `InStep`: the times a job
has run for are an interval apart and end at the one it is due for, or is about to be made
due after. `Kept`: a job is deleted only when it has run, and `Dropped`, the recurring ones
neither in Redis nor in hand for registration, are no more than the ticks that were cut
short: a tick has at most one job between its delete and its set.

Of bulk scans it proves, for any repositories, polls and failures, from
`BulkScansAssumption`:

| Theorem | States |
| --- | --- |
| `BulkInvariant` | `Spec => []IInv` |
| `BulkTypeCorrect` | `Spec => []TypeOK` |
| `CountersHonestHolds` | `Spec => []CountersHonest` |
| `PollFreshHolds` | `Spec => []PollFresh` |

**The invariant of bulk scans.** A refresh loads a status, reads the workflows one by one
and saves what it has counted over whatever is there. `Honest` is true of either store
whoever saved last: its counters claim no more than have said COMPLETED once, name what the
request has started, and have each of it. `Tallied` says the same of a refresh for the
workflows it has read so far, and of a poll that of those none is in progress that is in
`ended[p]`. A workflow may take back what it says, but not that it has said it (`Onward`:
`had` only grows), and one that does is taken out of `ended`, so what was true when it was
read is true when it is saved. Nothing is refreshed before the request has started them all
(`Early`), so that all refreshes know the same workflows.

`DashboardProofs` proves, for any workflows, agents, reports, lengths of list, series and
history, from `DashboardAssumption` (the workflows are finitely many, what a report counts
is a natural number, the lengths are positive):

| Theorem | States |
| --- | --- |
| `AnswerInvariant` | `Spec => []IInv` |
| `DashboardTypeCorrect` | `Spec => []TypeOK` |
| `CompletedHavePointsHolds` | `Spec => []CompletedHavePoints` |
| `KpiIsLatestHolds` | `Spec => []KpiIsLatest` |
| `RowsHonestHolds` | `Spec => []RowsHonest` |

**The invariant of an answer.** `Stored`: a workflow that says COMPLETED has its row, and
no two of them completed at the same time. `Listing`: of those already listed none has the
time of another, nor of one whose key is still to be read, although a workflow may complete
a second time. `Answer`: each position still to be read has a
row, whatever became of the workflow since; what was read and what is still to be read
completed at different times; and as long as no call has failed they are all that was
counted. The other two properties are about what is computed from an answer, for lists of
any length. `LatestLast` and `PaddedLast` follow the workflow completed last through the
stable sort and the padding; `RowsSay` says what the loop over the workflows has made of
a row after each of them.

`AttackPathProofs` proves, for any sources, findings and files, any depth of at least
two, any limits and any number of scans, from `AttackPathAssumption` (section 9):

| Theorem | States |
| --- | --- |
| `AnalysisInvariant` | `Spec => []IInv` |
| `StoredWholeHolds` | `Spec => []StoredWhole` |
| `FindingsReachedHolds` | `Spec => []FindingsReached` |
| `ChokepointBlocksHolds` | `Spec => []ChokepointBlocks` |
| `RadiiAccountHolds` | `Spec => []RadiiAccount` |

**The invariant of an analysis.** `Graph` is about what is built. `NodesOK`: an entry
has a route or stands in for one, which is then the only entry of its file, so no node
of another type shares an entry's id, whatever the extractor read. `EdgesOK`: no edge
leads into an entry from another node, so a path starts at the only entry on it. `Led`:
a finding that has been added is an edge, or an edge and a node, away from an entry;
later findings do not take that away. `Storing` follows the three calls to Neo4j: after
the first no node there is this scan's, after the second exactly the graph's nodes are,
whoever stored them before, after the third the edges are there. `Reported` ties the
report to the graph it was computed from.

**Paths.** `PathsIn` is a recursive function of the length; `PathsWalked` and
`WalksSimple` say what it computes, that is walks along edges without a repeated node.
`FindingsReached` then asks only that the one or two edges of `Led` are such a walk
(`LedPath`; hence a depth of two). `ChokepointBlocks` compares two searches:
`WalksAvoiding` shows that the paths of the graph without a node are the paths that avoid
it; the others have it inside, at their end, or at their start, which `EdgesOK` excludes
for an inner node (`PathsParted`). `RadiiAccount` adds up, over the radii, the paths
each starts (`TotalsAdd`).

**Loops.** What a recursive function computes is proved by the least counterexample: if a
claim fails at some number it fails at a least one (`LeastNat`, from the well-foundedness
of the order of the naturals), which the step of the loop excludes. So no theorem with an
operator for a parameter is needed, only that the function is defined (`LoopRuns`).

**Only model-checked**:

- the liveness properties (`EventsHandled`, `Reported`, `DueServed`, the two `Answered`)
  and the violation of `WorkflowSettles`: liveness is beyond the prover;
- `CompletedIsComplete`, `PausedShowsReport` and the refinement of `OutputCustody` after an
  approval: `review` has one approve call, whose task finalizes beside the watcher and the
  tail of SCR; under faults or with several approvals they do not hold (section 12);
- of a report of `AttackPath`, the stride, the scores and what is shown of it, about which
  no property is stated.

## 14. Not modelled

- LLM planning (`_llm_plan`), mock mode, a workflow whose SCR runs through Kafka (the
  scan itself is in `ScrScan`): other settings than the
  defaults; the plan an LLM returns has no definition to translate.
- SCR progress: it is shown and never read by the program, so no property of the
  system depends on it. Repository memory: its only writer,
  `save_scan_summary`, is called (`src/backend/scr/scr_tool_host.py:366`) with a keyword it
  does not have, and raises; there is no history to be right about.
- Prompts, language models, the model router, the OpenClaw runtime: data. What they
  return is a nondeterministic level, verdict or fault.
- Pattern tables, the JSON of each scanner, what is in a file: a finding is given
  with what the code asks of it.
- HTTP to the providers, pull-request comments, login, rate limits, database
  sessions: no state that a modelled component reads.
- Two analyses writing to Neo4j at once; several requests for the dashboard at once; a key
  that Redis yields twice in one scan; a ref that is the path of a file, which `git
  checkout` takes for one.
- Frontend, migrations, deployment: no state of the system.
