------------------------------ MODULE ScrScan ------------------------------
(***************************************************************************)
(* One SCR scan, taken up by workers that share its personal memory in     *)
(* Redis: the batches with their checkpoint, the findings they store, the  *)
(* stages that rank and report them.                                       *)
(*                                                                         *)
(* With SCR_VIA_KAFKA the scan is a record of agent.execute.scr, and its   *)
(* scan_id is that of the workflow: a worker that takes the record up      *)
(* again, after a crash or because the group was rebalanced while the      *)
(* first worker was still scanning, continues on the same memory.  Without *)
(* it there is one worker, the orchestrator's own task, and no second      *)
(* delivery.                                                               *)
(*                                                                         *)
(* A step is one awaited call, or one of a loop of calls.  Settings are    *)
(* the defaults: the canonical tool sequence, no LLM false-positive filter.*)
(* Time is left out: no TTL expires during a scan, and the pause signal,   *)
(* which only delays a batch, has no effect to model.                      *)
(***************************************************************************)
EXTENDS Naturals, FiniteSets

CONSTANTS
  Workers,         \* tasks that may run the scan
  NumBatches,      \* batches the files of the scan make
  Findings,        \* what the scanners can find in the files
  FaultyScanners,  \* scanners whose run may raise
  Faults,          \* places where the pipeline itself may raise
  Stoppable,       \* may a stop signal arrive?
  MaxRebalances,   \* bound on records taken from a worker that still runs
  MaxCrashes       \* bound on crashes of workers

Batches == 1..NumBatches

RepoScanners  == {"semgrep", "gitleaks", "syft"}
BatchScanners == {"dataflow", "heuristics", "patterns"}
Scanners      == RepoScanners \union BatchScanners
CodeScanners  == {"semgrep", "dataflow", "heuristics"}

Places == {"start", "acquire", "rank", "complete"}

ASSUME ScrScanAssumption ==
  /\ NumBatches \in Nat \ {0}
  /\ \A f \in Findings : /\ f.batch \in Batches        \* the batch of its file
                         /\ f.scanner \in Scanners
                         /\ f.excluded \in BOOLEAN     \* by a hard exclusion rule
                         /\ f.severe \in BOOLEAN       \* HIGH or CRITICAL
  /\ FaultyScanners \subseteq Scanners
  /\ Faults \subseteq Places
  /\ Stoppable \in BOOLEAN
  /\ MaxRebalances \in Nat
  /\ MaxCrashes \in Nat

IsCode(f)       == f.scanner \in CodeScanners
IsDependency(f) == f.scanner = "syft"

(* A finding in memory: which fingerprint it carries, and which stage      *)
(* appended it: 1 found it, 2 (AI) and 3 (threat intel) append enriched    *)
(* copies.  The analysis fingerprint is made of path, line, rule and       *)
(* snippet, the runner's of path, line and category; findings are taken to *)
(* differ in both.                                                         *)
Fingerprint == {"analysis", "runner", "none"}
Copies      == [of : Findings, print : Fingerprint, stage : 1..3]
Copy(f, print)  == [of |-> f, print |-> print, stage |-> 1]
Enriched(c, n)  == [c EXCEPT !.stage = n]

VARIABLES
  record,      \* the record: "due", with a worker, "skipped" after a failure, or "done"
  stop,        \* the stop signal in personal memory
  completed,   \* completed_batches of the progress record
  prints,      \* the set of fingerprints: <<finding, kind>>
  stored,      \* the lists of findings
  scanned,     \* files_scanned, batch by batch
  out,         \* the scr section of shared memory
  announced,   \* has agent.complete been published?
  at,          \* per worker: the next call
  local,       \* per worker: its Python locals
  rebalances, crashes

personal == <<stop, completed, prints, stored, scanned>>
result   == <<out, announced>>
faults   == <<rebalances, crashes>>
vars     == <<record, personal, result, at, local, faults>>

Points == {"idle", "start", "acquire", "repo", "checkpoint", "guard", "resumed", "stamp",
           "add", "append", "files", "load", "save", "ai", "aiAppend", "intel",
           "intelAppend", "rank", "assemble", "publish", "complete", "commit",
           "error", "errorSave", "fail"}

Local == [checkpoint : SUBSET Batches,      \* completed when the loop began
          batch      : 1..NumBatches + 1,   \* batch_num, plus one
          unstamped  : SUBSET Findings,     \* findings of the batch the loop has not met
          adding     : SUBSET Findings,     \* the one whose fingerprint was not in the set
          pending    : SUBSET Copies,       \* what append_findings has left to push
          done       : SUBSET Batches,      \* completed_batches between load and save
          suppressed : SUBSET Findings,     \* what the AI stage takes for false positives
          report     : SUBSET Copies]       \* what ranking returned
Fresh == [checkpoint |-> {}, batch |-> 1, unstamped |-> {}, adding |-> {}, pending |-> {},
          done |-> {}, suppressed |-> {}, report |-> {}]

NoReport == [status |-> "NONE", findings |-> {}, files |-> {}]
TypeOK ==
  /\ record \in {"due", "skipped", "done"} \union Workers
  /\ stop \in BOOLEAN
  /\ completed \in SUBSET Batches
  /\ prints \in SUBSET (Findings \X Fingerprint)
  /\ stored \in SUBSET Copies
  /\ scanned \in SUBSET Batches
  /\ out \in [status : {"NONE", "COMPLETED", "FAILED"}, findings : SUBSET Copies,
              files : SUBSET Batches]
  /\ announced \in BOOLEAN
  /\ at \in [Workers -> Points]
  /\ local \in [Workers -> Local]
  /\ rebalances \in Nat
  /\ crashes \in Nat

Init ==
  /\ record = "due"
  /\ stop = FALSE
  /\ completed = {}
  /\ prints = {}
  /\ stored = {}
  /\ scanned = {}
  /\ out = NoReport
  /\ announced = FALSE
  /\ at = [w \in Workers |-> "idle"]
  /\ local = [w \in Workers |-> Fresh]
  /\ rebalances = 0
  /\ crashes = 0

Goto(w, p) == at' = [at EXCEPT ![w] = p]
Forget(w)  == local' = [local EXCEPT ![w] = Fresh]   \* what is not read again

-----------------------------------------------------------------------------
(* The record of agent.execute.scr.                                        *)

\* Mutant of Deliver: the offset is committed before the record is handled.
DeliverCommitted(w) ==
  /\ record = "due"
  /\ at[w] = "idle"
  /\ record' = "done"
  /\ Goto(w, "start")
  /\ UNCHANGED <<personal, result, local, faults>>
Deliver(w) ==
  /\ record = "due"
  /\ at[w] = "idle"
  /\ record' = w
  /\ Goto(w, "start")
  /\ UNCHANGED <<personal, result, local, faults>>

\* The group gives the record to another member; the worker does not notice.
Rebalance(w) ==
  /\ record = w
  /\ rebalances < MaxRebalances
  /\ record' = "due"
  /\ rebalances' = rebalances + 1
  /\ UNCHANGED <<personal, result, at, local, crashes>>

\* A worker dies and comes back: what is not committed is delivered again.
Crash(w) ==
  /\ crashes < MaxCrashes
  /\ crashes' = crashes + 1
  /\ Goto(w, "idle")
  /\ Forget(w)
  /\ record' = IF record \in {w, "skipped"} THEN "due" ELSE record
  /\ UNCHANGED <<personal, result, rebalances>>

\* The commit of a worker that has lost the record raises, and is logged.
Commit(w) ==
  /\ at[w] = "commit"
  /\ record' = IF record = w THEN "done" ELSE record
  /\ Goto(w, "idle")
  /\ UNCHANGED <<personal, result, local, faults>>

Stop ==
  /\ Stoppable /\ ~stop
  /\ stop' = TRUE
  /\ UNCHANGED <<record, completed, prints, stored, scanned, result, at, local, faults>>

-----------------------------------------------------------------------------
(* Stages 1 to 3: the agent session, acquisition, detection, and the       *)
(* scanners of the whole repository.                                       *)

Start(w) ==
  /\ at[w] = "start"
  /\ Goto(w, "acquire")
  /\ UNCHANGED <<record, personal, result, local, faults>>

\* A repository scanner that raises leaves no findings and is only logged.
Acquire(w) ==
  /\ at[w] = "acquire"
  /\ \E failed \in SUBSET (FaultyScanners \intersect RepoScanners) :
       LET found == {f \in Findings : f.scanner \in RepoScanners \ failed}
       IN  local' = [local EXCEPT ![w].pending =
             {Copy(f, IF IsCode(f) THEN "analysis" ELSE "none") : f \in found}]
  /\ Goto(w, "repo")
  /\ UNCHANGED <<record, personal, result, faults>>

\* append_findings: one rpush.
Appending == {"repo", "append", "aiAppend", "intelAppend"}
Push(w) ==
  /\ at[w] \in Appending
  /\ \E c \in local[w].pending :
       /\ stored' = stored \union {c}
       /\ local' = [local EXCEPT ![w].pending = @ \ {c}]
  /\ UNCHANGED <<record, stop, completed, prints, scanned, result, at, faults>>

AfterAppend(p) ==
  CASE p = "repo"     -> "checkpoint" [] p = "append"      -> "files"
    [] p = "aiAppend" -> "intel"      [] p = "intelAppend" -> "rank"
Appended(w) ==
  /\ at[w] \in Appending
  /\ local[w].pending = {}
  /\ Goto(w, AfterAppend(at[w]))
  /\ UNCHANGED <<record, personal, result, local, faults>>

-----------------------------------------------------------------------------
(* The batch loop.                                                         *)

LoadCheckpoint(w) ==
  /\ at[w] = "checkpoint"
  /\ local' = [local EXCEPT ![w].checkpoint = completed]
  /\ Goto(w, "guard")
  /\ UNCHANGED <<record, personal, result, faults>>

SkipBatch(w) ==
  /\ at[w] = "guard"
  /\ local[w].batch \in local[w].checkpoint
  /\ local' = [local EXCEPT ![w].batch = @ + 1]
  /\ UNCHANGED <<record, personal, result, at, faults>>

\* pre_batch_check: the stop signal breaks the loop; the stages go on.
Guard(w) ==
  /\ at[w] = "guard"
  /\ local[w].batch \in Batches \ local[w].checkpoint
  /\ IF stop THEN Goto(w, "ai") /\ Forget(w)
             ELSE Goto(w, "resumed") /\ UNCHANGED local
  /\ UNCHANGED <<record, personal, result, faults>>

BatchesEnd(w) ==
  /\ at[w] = "guard"
  /\ local[w].batch = NumBatches + 1
  /\ Goto(w, "ai")
  /\ Forget(w)
  /\ UNCHANGED <<record, personal, result, faults>>

\* pre_batch_check, second part: another worker has completed the batch.
SkipProcessed(w) ==
  /\ at[w] = "resumed"
  /\ local[w].batch \in completed
  /\ local' = [local EXCEPT ![w].batch = @ + 1]
  /\ Goto(w, "guard")
  /\ UNCHANGED <<record, personal, result, faults>>

(* process_batch: a scanner that raises is only logged.  The findings of   *)
(* semgrep pass through the run of the heuristics, those of gitleaks       *)
(* through that of the patterns.                                           *)
Through(f) == CASE f.scanner = "semgrep"  -> "heuristics"
                [] f.scanner = "gitleaks" -> "patterns"
                [] OTHER                  -> f.scanner
\* Mutant of ProcessBatch: the batch is saved as completed before it is analysed.
ProcessBatchMarked(w) ==
  /\ at[w] = "resumed"
  /\ local[w].batch \notin completed
  /\ completed' = completed \union {local[w].batch}
  /\ \E failed \in SUBSET (FaultyScanners \intersect BatchScanners) :
       LET found == {f \in Findings : /\ f.batch = local[w].batch
                                      /\ Through(f) \in BatchScanners \ failed}
       IN  local' = [local EXCEPT
             ![w].unstamped = {f \in found : IsCode(f) /\ ~f.excluded},
             ![w].pending   = {Copy(f, "none") : f \in {g \in found : ~IsCode(g)}}]
  /\ Goto(w, "stamp")
  /\ UNCHANGED <<record, stop, prints, stored, scanned, result, faults>>
ProcessBatch(w) ==
  /\ at[w] = "resumed"
  /\ local[w].batch \notin completed
  /\ \E failed \in SUBSET (FaultyScanners \intersect BatchScanners) :
       LET found == {f \in Findings : /\ f.batch = local[w].batch
                                      /\ Through(f) \in BatchScanners \ failed}
       IN  local' = [local EXCEPT
             ![w].unstamped = {f \in found : IsCode(f) /\ ~f.excluded},
             ![w].pending   = {Copy(f, "none") : f \in {g \in found : ~IsCode(g)}}]
  /\ Goto(w, "stamp")
  /\ UNCHANGED <<record, personal, result, faults>>

\* Mutant of Seen: duplicates are dropped on sight.
SeenDropped(w) ==
  /\ at[w] = "stamp"
  /\ \E f \in local[w].unstamped :
       \/ /\ <<f, "runner">> \in prints
          /\ local' = [local EXCEPT ![w].unstamped = @ \ {f}]
          /\ UNCHANGED at
       \/ /\ <<f, "runner">> \notin prints
          /\ local' = [local EXCEPT ![w].unstamped = @ \ {f}, ![w].adding = {f}]
          /\ Goto(w, "add")
  /\ UNCHANGED <<record, personal, result, faults>>
\* fingerprint_exists: a known finding keeps the fingerprint it has.
Seen(w) ==
  /\ at[w] = "stamp"
  /\ \E f \in local[w].unstamped :
       \/ /\ <<f, "runner">> \in prints
          /\ local' = [local EXCEPT ![w].unstamped = @ \ {f},
                                    ![w].pending   = @ \union {Copy(f, "analysis")}]
          /\ UNCHANGED at
       \/ /\ <<f, "runner">> \notin prints
          /\ local' = [local EXCEPT ![w].unstamped = @ \ {f}, ![w].adding = {f}]
          /\ Goto(w, "add")
  /\ UNCHANGED <<record, personal, result, faults>>

\* add_fingerprint, and finding["fingerprint"] = fp.
AddFingerprint(w) ==
  /\ at[w] = "add"
  /\ prints' = prints \union {<<f, "runner">> : f \in local[w].adding}
  /\ local' = [local EXCEPT
       ![w].pending = @ \union {Copy(f, "runner") : f \in local[w].adding},
       ![w].adding  = {}]
  /\ Goto(w, "stamp")
  /\ UNCHANGED <<record, stop, completed, stored, scanned, result, faults>>

Stamped(w) ==
  /\ at[w] = "stamp"
  /\ local[w].unstamped = {}
  /\ Goto(w, "append")
  /\ UNCHANGED <<record, personal, result, local, faults>>

SaveFiles(w) ==
  /\ at[w] = "files"
  /\ scanned' = scanned \union {local[w].batch}
  /\ Goto(w, "load")
  /\ UNCHANGED <<record, stop, completed, prints, stored, result, local, faults>>

LoadProgress(w) ==
  /\ at[w] = "load"
  /\ local' = [local EXCEPT ![w].done = completed \union {local[w].batch}]
  /\ Goto(w, "save")
  /\ UNCHANGED <<record, personal, result, faults>>

SaveProgress(w) ==
  /\ at[w] = "save"
  /\ completed' = local[w].done
  /\ local' = [local EXCEPT ![w].batch = @ + 1, ![w].done = {}]
  /\ Goto(w, "guard")
  /\ UNCHANGED <<record, stop, prints, stored, scanned, result, faults>>

-----------------------------------------------------------------------------
(* Stages 7 to 10.                                                         *)

\* AI analysis: copies of what it keeps are appended; the rest is suppressed.
\* (With enable_ai_analysis off, or no severe finding, nothing is.)
EnrichAI(w) ==
  /\ at[w] = "ai"
  /\ LET high == {c \in stored : IsCode(c.of) /\ c.of.severe}
     IN  \E kept \in SUBSET high :
           local' = [local EXCEPT
             ![w].pending    = {Enriched(c, 2) : c \in kept},
             ![w].suppressed = {c.of : c \in high \ kept}]
  /\ Goto(w, "aiAppend")
  /\ UNCHANGED <<record, personal, result, faults>>

\* Threat intel: a copy of every code finding is appended (its severity, which
\* indicators may raise, is taken to stay).
EnrichIntel(w) ==
  /\ at[w] = "intel"
  /\ local' = [local EXCEPT ![w].pending =
                 {Enriched(c, 3) : c \in {d \in stored : IsCode(d.of)}}]
  /\ Goto(w, "intelAppend")
  /\ UNCHANGED <<record, personal, result, faults>>

(* Ranking keeps the first copy that carries a fingerprint, which is the   *)
(* one of the earliest stage; secrets are kept as they are, and            *)
(* dependencies are looked up under a key load_all_findings does not use.  *)
(* Its fingerprints are added in the same step: those the batch loop looks *)
(* up are in the set before their findings are stored.                     *)
Ranked(memory) ==
  {c \in memory :
     /\ ~IsDependency(c.of)
     /\ IsCode(c.of) =>
          ~\E d \in memory : d.of = c.of /\ d.print = c.print /\ d.stage < c.stage}

Rank(w) ==
  /\ at[w] = "rank"
  /\ local' = [local EXCEPT ![w].report = Ranked(stored)]
  /\ prints' = prints \union
       {<<c.of, c.print>> : c \in {d \in Ranked(stored) : IsCode(d.of)}}
  /\ Goto(w, "assemble")
  /\ UNCHANGED <<record, stop, completed, stored, scanned, result, faults>>

\* get_files_scanned and write_agent_output.
Assemble(w) ==
  /\ at[w] = "assemble"
  /\ out' = [status |-> "COMPLETED", findings |-> local[w].report, files |-> scanned]
  /\ Goto(w, "publish")
  /\ UNCHANGED <<record, personal, announced, local, faults>>

Publish(w) ==
  /\ at[w] = "publish"
  /\ announced' = TRUE
  /\ Goto(w, "complete")
  /\ Forget(w)
  /\ UNCHANGED <<record, personal, out, faults>>

\* The agent session is told that the scan is complete.
Complete(w) ==
  /\ at[w] = "complete"
  /\ Goto(w, "commit")
  /\ UNCHANGED <<record, personal, result, local, faults>>

-----------------------------------------------------------------------------
(* An exception: on_execution_error rewrites the progress record when the  *)
(* agent session raised, a FAILED output is written, and the consumer logs *)
(* the error and goes on to the next record.                               *)

Raise(w) ==
  /\ at[w] \in Faults
  /\ \/ Goto(w, "fail")
     \/ at[w] \in {"start", "complete"} /\ Goto(w, "error")   \* by the agent itself
  /\ UNCHANGED <<record, personal, result, local, faults>>

ErrorLoad(w) ==
  /\ at[w] = "error"
  /\ local' = [local EXCEPT ![w].done = completed]
  /\ Goto(w, "errorSave")
  /\ UNCHANGED <<record, personal, result, faults>>

ErrorSave(w) ==
  /\ at[w] = "errorSave"
  /\ completed' = local[w].done
  /\ Goto(w, "fail")
  /\ Forget(w)
  /\ UNCHANGED <<record, stop, prints, stored, scanned, result, faults>>

WriteFailed(w) ==
  /\ at[w] = "fail"
  /\ out' = [NoReport EXCEPT !.status = "FAILED"]
  /\ record' = IF record = w THEN "skipped" ELSE record
  /\ Goto(w, "idle")
  /\ Forget(w)
  /\ UNCHANGED <<personal, announced, faults>>

-----------------------------------------------------------------------------

Step(w) ==
  \/ Start(w) \/ Acquire(w) \/ Push(w) \/ Appended(w)
  \/ LoadCheckpoint(w) \/ SkipBatch(w) \/ Guard(w) \/ BatchesEnd(w) \/ SkipProcessed(w)
  \/ ProcessBatch(w) \/ Seen(w) \/ AddFingerprint(w) \/ Stamped(w)
  \/ SaveFiles(w) \/ LoadProgress(w) \/ SaveProgress(w)
  \/ EnrichAI(w) \/ EnrichIntel(w) \/ Rank(w) \/ Assemble(w) \/ Publish(w) \/ Complete(w)
  \/ Commit(w) \/ ErrorLoad(w) \/ ErrorSave(w) \/ WriteFailed(w)

Next ==
  \/ \E w \in Workers : Deliver(w) \/ Step(w) \/ Raise(w) \/ Rebalance(w) \/ Crash(w)
  \/ Stop

(* Every awaited call returns and a consumer polls; nothing has to fail.   *)
Fairness == \A w \in Workers : WF_vars(Step(w)) /\ WF_vars(Deliver(w))
Spec == Init /\ [][Next]_vars /\ Fairness

-----------------------------------------------------------------------------
(* Properties.                                                             *)

(* What a scan must find: the file is scanned by a tool that does not      *)
(* fail, no rule excludes it, and it is not a dependency (see below).      *)
Certain(f) == f.scanner \notin FaultyScanners /\ ~f.excluded /\ ~IsDependency(f)

Among(f, copies) == \E c \in copies : c.of = f

(* A batch in the checkpoint is never looked at again, so its files are    *)
(* counted and its findings stored by then, whoever scanned it, whatever   *)
(* crashed and whichever worker's progress record was saved last           *)
(* (scr_tool_host.py:248-260).                                             *)
CheckpointHonest ==
  \A b \in completed :
    /\ b \in scanned
    /\ \A f \in Findings : f.batch = b /\ f.scanner \in BatchScanners /\ Certain(f)
                           => Among(f, stored)

(* Unless it was told to stop, a scan that says COMPLETED has seen every   *)
(* file and reports every finding, also one that another worker stored     *)
(* before it crashed or lost the record (scr_tool_host.py:207-260,         *)
(* stage9_ranking.py:22-54).                                               *)
ReportComplete ==
  out.status = "COMPLETED" /\ ~stop =>
    /\ out.files = Batches
    /\ \A f \in Findings : Certain(f) => Among(f, out.findings)

(* A scan that was asked for is answered: it is announced, or its section  *)
(* says FAILED (scr_skill_executor.py:80-111, kafka_client.py:121-125).    *)
Answered == <>(announced \/ out.status = "FAILED")

=============================================================================
