------------------------------ MODULE Dashboard ------------------------------
(***************************************************************************)
(* The gateway's view of a client's workflows: an answer is put together   *)
(* from several calls to the orchestrator (the list, the queue, the output *)
(* of each completed workflow, the recorded history) while the workflows   *)
(* go on; a call may find the orchestrator unavailable.                    *)
(***************************************************************************)
EXTENDS Integers, FiniteSetsExt, SequencesExt

CONSTANTS
  Workflows, Agents,
  Reports,        \* what a scan's part of an output may be
  Recent,         \* the slots of a series: 6
  MaxRows,        \* the rows sparkline_series reads: 500
  MaxListed,      \* the workflows a request lists: 50
  MaxQueue,       \* the findings an answer shows: 12
  MaxCompletions, \* bound on the times workflows complete
  MayFail         \* whether calls of the gateway may fail

ASSUME DashboardAssumption ==
  /\ IsFiniteSet(Workflows)
  /\ \A r \in Reports : r.risk \in Nat /\ r.gaps \in Nat
  /\ Recent \in Nat \ {0} /\ MaxRows \in Nat \ {0} /\ MaxListed \in Nat \ {0} /\ MaxQueue \in Nat \ {0}
  /\ MaxCompletions \in Nat
  /\ MayFail \in BOOLEAN

VARIABLES
  wf,        \* the workflow states in Redis
  row,       \* workflow_outputs: workflow -> at most one report
  clock,     \* completions so far
  history,   \* metrics_history of the client, in the order recorded
  req        \* the request in hand

vars == <<wf, row, clock, history, req>>

Raw == {"none", "RUNNING", "DONE", "FAILED"}
Statuses == {"absent", "RUNNING", "PAUSED", "COMPLETED", "FAILED"}
Absent == [status |-> "absent", agents |-> [a \in Agents |-> "none"], completed |-> 0]
Idle == [kind |-> "idle", at |-> "idle", keys |-> {}, list |-> << >>, todo |-> {},
         got |-> << >>, queue |-> 0, spark |-> << >>, whole |-> TRUE]

Init ==
  /\ wf = [w \in Workflows |-> Absent]
  /\ row = [w \in Workflows |-> {}]
  /\ clock = 0 /\ history = << >> /\ req = Idle

----------------------------------------------------------------------------
(* The workflows. *)

Start(w) ==
  /\ wf[w].status = "absent" /\ row[w] = {}
  /\ wf' = [wf EXCEPT ![w].status = "RUNNING"]
  /\ UNCHANGED <<row, clock, history, req>>

Mark(w, a) ==
  /\ wf[w].status = "RUNNING"
  /\ \E s \in {"RUNNING", "DONE", "FAILED"} :
       /\ (s = "RUNNING") <=> (wf[w].agents[a] = "none")
       /\ wf[w].agents[a] \in {"none", "RUNNING"}
       /\ wf' = [wf EXCEPT ![w].agents[a] = s]
  /\ UNCHANGED <<row, clock, history, req>>

\* Pausing stores the outputs first, finishing does too; that a second snapshot may hold
\* more than the first is left out.
Persist(w) ==
  /\ wf[w].status = "RUNNING" /\ row[w] = {}
  /\ \E r \in Reports : row' = [row EXCEPT ![w] = {r}]
  /\ UNCHANGED <<wf, clock, history, req>>

Pause(w) ==
  /\ wf[w].status = "RUNNING" /\ row[w] # {}
  /\ wf' = [wf EXCEPT ![w].status = "PAUSED"]
  /\ UNCHANGED <<row, clock, history, req>>

\* Mutant of Complete: before the output is stored.
CompleteFirst(w) ==
  /\ wf[w].status \in {"RUNNING", "PAUSED"}
  /\ clock < MaxCompletions
  /\ clock' = clock + 1
  /\ wf' = [wf EXCEPT ![w].status = "COMPLETED", ![w].completed = clock + 1]
  /\ UNCHANGED <<row, history, req>>

Complete(w) ==
  /\ wf[w].status \in {"RUNNING", "PAUSED"} /\ row[w] # {}
  /\ clock < MaxCompletions
  /\ clock' = clock + 1
  /\ wf' = [wf EXCEPT ![w].status = "COMPLETED", ![w].completed = clock + 1]
  /\ UNCHANGED <<row, history, req>>

\* resume; or mark_agent_running, _done or _failed, with a copy loaded before the workflow
\* paused, completed or failed: what it saves says nothing of that.
Overwrite(w) ==
  /\ wf[w].status \in {"PAUSED", "COMPLETED", "FAILED"}
  /\ wf' = [wf EXCEPT ![w].status = "RUNNING", ![w].completed = 0]
  /\ UNCHANGED <<row, clock, history, req>>

\* After complete; a failure is only logged.  Rows after the oldest MaxRows are not read.
RecordMetrics(w) ==
  /\ wf[w].status = "COMPLETED" /\ Len(history) < MaxRows
  /\ \A i \in DOMAIN history : history[i].at # wf[w].completed
  /\ \E r \in row[w] :
       history' = Append(history, [at |-> wf[w].completed, risk |-> r.risk, gaps |-> r.gaps])
  /\ UNCHANGED <<wf, row, clock, req>>

Fail(w) ==
  /\ wf[w].status = "RUNNING"
  /\ wf' = [wf EXCEPT ![w].status = "FAILED"]
  /\ UNCHANGED <<row, clock, history, req>>

\* The state's time to live is a day, the output has none.
Expire(w) ==
  /\ wf[w].status \in {"COMPLETED", "FAILED"}
  /\ wf' = [wf EXCEPT ![w] = Absent]
  /\ row' = row
  /\ UNCHANGED <<clock, history, req>>

----------------------------------------------------------------------------
(* What the gateway makes of what it was given. *)

Having(list, status) == {i \in DOMAIN list : list[i].status = status}
Count(list, status)  == Cardinality(Having(list, status))

SeverityRank(s) == CASE s = "critical" -> 0 [] s = "high" -> 1 [] s = "medium" -> 2
                     [] s = "low" -> 3 [] OTHER -> 4

AgentRowStatus(raw) == CASE raw = "RUNNING" -> "running" [] raw = "FAILED" -> "error"
                         [] raw = "DONE" -> "listening" [] OTHER -> "idle"

\* Mutant of Updates: as the legacy endpoint, the last one.
UpdatesAlways(prev, mapped) == TRUE

\* Does what a workflow says of an agent replace what an earlier one said?
Updates(prev, mapped) == prev = "none" \/ mapped = "running" \/ (mapped = "error" /\ prev # "running")

GoesOn(s, a) == s.status \in {"RUNNING", "PAUSED"} /\ s.agents[a] # "none"

\* The agent's row after each workflow of the list, "none" for no row yet.
AgentRows(list, a) ==
  LET shown[i \in 0..Len(list)] ==
        IF i = 0 THEN "none"
        ELSE LET mapped == AgentRowStatus(list[i].agents[a])
             IN  IF GoesOn(list[i], a) /\ Updates(shown[i - 1], mapped) THEN mapped ELSE shown[i - 1]
  IN  shown

BuildAgents(list) ==
  LET last(a) == AgentRows(list, a)[Len(list)]
      rows    == {a \in Agents : last(a) # "none"}
  IN  IF rows = {} THEN [a \in {"scr", "cma", "reporting"} |-> "idle"] ELSE [a \in rows |-> last(a)]

PadSeries(s) ==
  LET tail == SubSeq(s, Len(s) - Min({Recent, Len(s)}) + 1, Len(s))
  IN  IF s = << >> THEN [i \in 1..Recent |-> 0]
      ELSE [i \in 1..(Recent - Len(tail)) |-> Head(tail)] \o tail

\* Sorted by a key; those of one key stay in the order they have.
Stably(s, key(_)) ==
  LET before(i) == {j \in DOMAIN s : key(s[j]) < key(s[i]) \/ (key(s[j]) = key(s[i]) /\ j < i)}
  IN  [k \in 1..Len(s) |-> s[CHOOSE i \in DOMAIN s : Cardinality(before(i)) = k - 1]]

\* Mutant of SortPoints: in the order of the list.
PointsAsListed(got) == got
\* By completed_at; a point is what was read of one workflow.
SortPoints(got) == Stably(got, LAMBDA p : p.completed)

Findings(got) == FlattenSeq([i \in 1..Len(got) |-> got[i].report.findings])
Criticals(findings) == Len(SelectSeq(findings, LAMBDA f : f.severity = "critical"))
Risks(points) == [i \in 1..Len(points) |-> points[i].report.risk]

PriorityQueue(got) == Stably(Findings(got), LAMBDA f : SeverityRank(f.severity))

ThreatOrigins(got) ==
  LET all == ToSet(Findings(got))
  IN  [c \in {f.category : f \in all} |->
         [count |-> Len(SelectSeq(Findings(got), LAMBDA f : f.category = c)),
          severity |-> (CHOOSE f \in all : f.category = c /\
                          \A g \in all : g.category = c =>
                            SeverityRank(f.severity) <= SeverityRank(g.severity)).severity]]

SeverityMix(got) ==
  LET named == SelectSeq(Findings(got), LAMBDA f : SeverityRank(f.severity) < 4)
  IN  [s \in {"critical", "high", "medium", "low"} |->
         (100 * Len(SelectSeq(named, LAMBDA f : f.severity = s))) \div Max({1, Len(named)})]

\* A dependency's score, and that of the packages the SBOM counts; the worst of a name.
\* No vulnerable packages stands for no SBOM as well.
PackageScore(f) == IF f.severity = "critical" THEN 80 ELSE IF f.severity = "high" THEN 60 ELSE 45
VendorRisks(got) ==
  LET deps == {f \in ToSet(Findings(got)) : f.category = "dependency"}
      sbom == {got[i].report.vulnerable : i \in {i \in DOMAIN got : got[i].report.vulnerable > 0}}
  IN  [packages |-> IF deps = {} THEN 0 ELSE Max({PackageScore(f) : f \in deps}),
       supply_chain |-> IF sbom = {} THEN 0 ELSE Max({Min({99, 50 + 15 * v}) : v \in sbom})]

\* One gap costs 12 points in the series and 8 in the percentage.
ComplianceSeries(got) == [i \in 1..Len(got) |-> Max({35, 100 - Min({65, 12 * got[i].report.gaps})})]
CompliancePct(got) ==
  IF got = << >> THEN {} ELSE {Max({35, 100 - Min({65, 8 * Max({got[i].report.gaps : i \in DOMAIN got})})})}

\* The latest risk as a share of one, here in hundredths: up to one it is taken for a
\* share already.
RiskScore(latest) == IF latest > 1 THEN latest ELSE 100 * latest

Metrics(r) ==
  LET points == SortPoints(r.got)
      risks  == Risks(points)
      queue  == PriorityQueue(r.got)
      agents == BuildAgents(r.list)
  IN [running |-> Count(r.list, "RUNNING"), completed |-> Count(r.list, "COMPLETED"),
      failed |-> Count(r.list, "FAILED"), paused |-> Count(r.list, "PAUSED"),
      risk_score |-> RiskScore(IF points = << >> THEN 0 ELSE Last(points).report.risk),
      brief |-> IF r.got = << >> THEN 0 ELSE Last(r.got).report.risk,
      total_findings |-> Len(Findings(points)),
      critical_findings |-> Criticals(Findings(points)),
      hitl_queue |-> IF r.queue > 0 THEN r.queue ELSE Count(r.list, "PAUSED"),
      priority_queue |-> SubSeq(queue, 1, Min({MaxQueue, Len(queue)})),
      alerts |-> IF queue # << >> THEN Len(queue) ELSE Count(r.list, "RUNNING") + Count(r.list, "PAUSED"),
      risk_trend |-> PadSeries(risks),
      sparkline |-> IF \E i \in DOMAIN r.spark : r.spark[i] # 0 THEN r.spark ELSE PadSeries(risks),
      compliance |-> CompliancePct(r.got), compliance_series |-> ComplianceSeries(r.got),
      threats |-> ThreatOrigins(r.got), vendors |-> VendorRisks(r.got), mix |-> SeverityMix(r.got),
      agents |-> agents,
      active |-> LET on == Cardinality({a \in DOMAIN agents : agents[a] \in {"running", "listening"}})
                 IN  IF on > 0 THEN on ELSE Count(r.list, "RUNNING")]

\* The oldest MaxRows of the period, of which the last Recent.
SparklineSeries ==
  LET rows == SubSeq(history, 1, Min({MaxRows, Len(history)}))
  IN  IF rows = << >> THEN << >> ELSE PadSeries([i \in 1..Len(rows) |-> rows[i].risk])

----------------------------------------------------------------------------
(* A request: workflow_metrics or legacy_findings. *)

Kinds == {"metrics", "findings"}

\* scan_iter yields every key that is there throughout, and may yield one that comes
\* meanwhile, in an order of its own.
List(kind) ==
  /\ req.at = "idle"
  /\ \E keys \in SUBSET Workflows :
       /\ {w \in Workflows : wf[w].status # "absent"} \subseteq keys
       /\ req' = [Idle EXCEPT !.kind = kind, !.at = "states", !.keys = keys]
  /\ UNCHANGED <<wf, row, clock, history>>

\* The state under a key is read when its turn comes, and left out if it has expired.
ReadState(w) ==
  /\ req.at = "states" /\ w \in req.keys /\ Len(req.list) < MaxListed
  /\ req' = [req EXCEPT !.keys = @ \ {w},
                         !.list = IF wf[w].status = "absent" THEN @
                                  ELSE Append(@, [w |-> w, status |-> wf[w].status,
                                                  agents |-> wf[w].agents,
                                                  completed |-> wf[w].completed])]
  /\ UNCHANGED <<wf, row, clock, history>>

\* All keys are read, or as many states as were asked for.
EndList ==
  /\ req.at = "states"
  /\ req.keys = {} \/ Len(req.list) = MaxListed
  /\ req' = [req EXCEPT !.at = IF req.kind = "metrics" THEN "queue" ELSE "outputs",
                         !.keys = {}, !.todo = Having(req.list, "COMPLETED")]
  /\ UNCHANGED <<wf, row, clock, history>>

\* No answer: the metrics say so, the legacy endpoints answer 503.
ListUnavailable ==
  /\ MayFail /\ req.at = "idle"
  /\ UNCHANGED vars

HitlQueue ==
  /\ req.at = "queue"
  /\ \E n \in {Cardinality({w \in Workflows : wf[w].status = "PAUSED"})} \cup (IF MayFail THEN {0} ELSE {}) :
       req' = [req EXCEPT !.queue = n, !.at = "outputs"]
  /\ UNCHANGED <<wf, row, clock, history>>

\* An output that is missing, or cannot be had, is passed over.
GetOutput ==
  /\ req.at = "outputs" /\ req.todo # {}
  /\ LET i == Min(req.todo)
         s == req.list[i]
     IN  \/ \E r \in row[s.w] :
              req' = [req EXCEPT !.todo = @ \ {i},
                                 !.got = Append(@, [w |-> s.w, completed |-> s.completed, report |-> r])]
         \/ /\ row[s.w] = {}
            /\ req' = [req EXCEPT !.todo = @ \ {i}]
         \/ /\ MayFail
            /\ req' = [req EXCEPT !.todo = @ \ {i}, !.whole = FALSE]
  /\ UNCHANGED <<wf, row, clock, history>>

GetHistory ==
  /\ req.at = "outputs" /\ req.todo = {}
  /\ \E s \in IF req.kind = "metrics" THEN {SparklineSeries} \cup (IF MayFail THEN {<< >>} ELSE {})
             ELSE {<< >>} :
       req' = [req EXCEPT !.at = "answered", !.spark = s]
  /\ UNCHANGED <<wf, row, clock, history>>

\* One request: what happens after its answer is of no matter to it, nor what the agents
\* of a workflow do once its state is read.
Next ==
  \/ \E w \in Workflows :
     \/ /\ req.at # "answered"
        /\ \/ Start(w) \/ Persist(w) \/ Pause(w) \/ Complete(w) \/ Overwrite(w)
           \/ RecordMetrics(w) \/ Fail(w) \/ Expire(w)
     \/ (req.at = "idle" \/ w \in req.keys) /\ \E a \in Agents : Mark(w, a)
     \/ ReadState(w)
  \/ \E kind \in Kinds : List(kind)
  \/ EndList \/ ListUnavailable \/ HitlQueue \/ GetOutput \/ GetHistory

Spec == Init /\ [][Next]_vars

----------------------------------------------------------------------------
(* A request lists states as they are stored, and has read some of the      *)
(* outputs of the completed ones.                                           *)
Listed == [w : Workflows, status : Statuses, agents : [Agents -> Raw], completed : Nat]
Point  == [w : Workflows, completed : Nat, report : Reports]

TypeOK ==
  /\ wf \in [Workflows -> [status : Statuses, agents : [Agents -> Raw], completed : Nat]]
  /\ row \in [Workflows -> SUBSET Reports]
  /\ clock \in Nat
  /\ history \in Seq([at : Nat, risk : Nat, gaps : Nat])
  /\ req \in [kind : Kinds \cup {"idle"}, at : {"idle", "states", "queue", "outputs", "answered"},
              keys : SUBSET Workflows, list : Seq(Listed), todo : SUBSET Nat, got : Seq(Point),
              queue : Nat, spark : Seq(Nat), whole : BOOLEAN]
  /\ req.todo \subseteq Having(req.list, "COMPLETED")

Answered(kind) == req.at = "answered" /\ req.kind = kind

(* A workflow counted as completed has its findings in the same answer,     *)
(* unless a call failed: the finalizer stores the output before it says     *)
(* COMPLETED, and the answer reads them in that order (workflow_metrics,    *)
(* legacy_findings).                                                        *)
CompletedHavePoints ==
  (Answered("metrics") \/ Answered("findings")) /\ req.whole =>
    Len(req.got) = Count(req.list, "COMPLETED")

(* The last of an answer's trend, and the risk it shows, are those of the   *)
(* workflow that completed last among those read, whatever order they were  *)
(* listed in and however stale the list is; only a risk of one is shown as  *)
(* a whole (_build_scr_series, _pad_series, workflow_metrics).              *)
KpiIsLatest ==
  Answered("metrics") /\ req.got # << >> =>
    LET m == Metrics(req)
    IN  \A i \in DOMAIN req.got :
          (\A j \in DOMAIN req.got : req.got[j].completed <= req.got[i].completed) =>
            /\ Last(m.risk_trend) = req.got[i].report.risk
            /\ m.risk_score = Last(m.risk_trend) \/ (m.risk_score = 100 /\ Last(m.risk_trend) = 1)

(* An agent shows as running exactly when a workflow that goes on runs it,  *)
(* and as an error exactly when none runs it and one has it failed, in      *)
(* whatever order they are listed (_build_workflow_agents).                 *)
RowsHonest ==
  Answered("metrics") =>
    LET rows == Metrics(req).agents
        is(a, raw) == \E i \in DOMAIN req.list :
                        req.list[i].status \in {"RUNNING", "PAUSED"} /\ req.list[i].agents[a] = raw
    IN  \A a \in Agents \cap DOMAIN rows :
          /\ (rows[a] = "running") <=> is(a, "RUNNING")
          /\ (rows[a] = "error") <=> (is(a, "FAILED") /\ ~is(a, "RUNNING"))

=============================================================================
