---------------------------- MODULE Orchestrator ----------------------------
(***************************************************************************)
(* One workflow of the UniShield orchestrator at await granularity.        *)
(*                                                                         *)
(* Every asyncio task is a process; every Redis, Postgres or Kafka call is *)
(* one step.  What a task still has to do is a sequence of operations: a   *)
(* Python function is the sequence of its awaited calls, a branch replaces *)
(* the head of the sequence by the calls of the branch taken, and a        *)
(* try/except is a "catch" mark, passed over on normal exit, to which an   *)
(* exception unwinds.                                                      *)
(*                                                                         *)
(* Settings are the defaults: event_driven_orchestration on, scr_via_kafka *)
(* off, scripted planning.  The workflow is not part of a bulk scan.       *)
(***************************************************************************)
EXTENDS Naturals, Sequences, FiniteSets

CONSTANTS
  WorkflowNames,   \* the workflow names a trigger may ask for
  Flows,           \* the flow types its source gives: "fixed", "dynamic"
  Incidents,       \* whether its context names an incident
  Levels,          \* what the SCR scan may find
  Approvers,       \* the approve calls that may arrive, one each
  FaultyAgents,    \* agents whose run may raise
  LateScrFault,    \* may the SCR task raise after it has written its output?
  MaxCrashes       \* bound on restarts of the orchestrator process

Dynamic == {"web", "asm", "cloudsec"}
Agents == {"scr", "cma", "reporting"} \union Dynamic
SCR_REQUIRED_WORKFLOWS ==
  {"code-review-only", "compliance-readiness", "incremental-pr-scan"}
AllNames == SCR_REQUIRED_WORKFLOWS \union {"incident-response"}
ScanLevels == {"low", "mid", "secrets", "critical"}
Procs == {"background", "consumer", "watcher"} \union Agents \union Approvers

ASSUME OrchestratorAssumption ==
  /\ WorkflowNames \subseteq AllNames
  /\ Flows \subseteq {"fixed", "dynamic"}
  /\ Incidents \subseteq BOOLEAN
  /\ Levels \subseteq ScanLevels
  /\ Approvers \intersect ({"background", "consumer", "watcher"} \union Agents) = {}
  /\ FaultyAgents \subseteq Agents
  /\ LateScrFault \in BOOLEAN
  /\ MaxCrashes \in Nat

WORKFLOW_DEFINITIONS ==
  [n \in AllNames |->
     CASE n = "incident-response"   -> <<{"scr"}, Dynamic, {"cma"}, {"reporting"}>>
       [] n = "incremental-pr-scan" -> <<{"scr"}, {"reporting"}>>
       [] OTHER                     -> <<{"scr"}, {"cma"}, {"reporting"}>>]

-----------------------------------------------------------------------------
(* Agent outputs: the scan status, the finding level that routing reads,   *)
(* and requires_human_approval.  NONE is an absent key and EMPTY what      *)
(* hgetall returns for a key that was deleted after it was scanned.        *)

Output == [status : {"NONE", "EMPTY", "RUNNING", "COMPLETED", "FAILED"},
           level  : ScanLevels \union {"correlated"},
           human  : BOOLEAN]
Out(status, level, human) == [status |-> status, level |-> level, human |-> human]
NoOutput    == Out("NONE", "low", FALSE)
EmptyOutput == Out("EMPTY", "low", FALSE)
Snapshot    == [Agents -> Output]
NoSnapshot  == [a \in Agents |-> NoOutput]
Present(o)  == o.status # "NONE"

AgentState    == {"PENDING", "RUNNING", "DONE", "FAILED"}
WorkflowState ==
  {s \in [name : AllNames, incident : BOOLEAN, flow : {"fixed", "dynamic"},
          agents : [Agents -> AgentState], step : 1..4, paused : BOOLEAN,
          approved : BOOLEAN, gateEscalated : BOOLEAN,
          status : {"RUNNING", "PAUSED", "COMPLETED", "FAILED"}] :
     s.step <= Len(WORKFLOW_DEFINITIONS[s.name])}

VARIABLES
  wf,          \* the WorkflowState record in Redis
  shared,      \* the shared-memory hashes of the workflow
  row,         \* the workflow_outputs row: written?, and its snapshot
  topic,       \* the agent.complete log
  position,    \* next record the consumer fetches
  committed,   \* the group's committed offset: resumed from after a crash
  emitted,     \* events published on the other topics
  todo,        \* per task: the operations left
  local,       \* per task: its Python locals
  raised,      \* per task: did it end with an exception?
  called,      \* approve calls that arrived
  crashes      \* restarts so far

stores  == <<wf, shared, row, emitted>>
bus     == <<topic, position, committed>>
control == <<todo, local, raised>>
env     == <<called, crashes>>
vars    == <<stores, bus, control, env>>

-----------------------------------------------------------------------------
(* Operations and control flow.  An operation names the call, its argument *)
(* and the agents it is about.                                             *)

Calls ==
  {"load", "save", "view", "saveview", "scan", "read", "upsert", "verify", "clearscan",
   "delete", "emit", "surface", "checkscr", "plan", "next", "gather", "await", "raise",
   "ifrunning", "placeholder", "pipeline", "output", "late", "readscr", "readcma", "write",
   "notify", "default", "publish", "commit", "catch"}
Kinds == {"running", "done", "failed", "pause", "resume", "complete", "fail",
          "escalate", "gateEscalated"}
Handlers == {"finalizeFailed", "stepFailed", "executeFailed", "background",
             "progressFailed", "skip"}
Topics == {"workflow.completed", "workflow.human_gate", "workflow.human_gate_escalated"}
Arguments == Kinds \union Handlers \union Topics \union ScanLevels \union {"", "FAILED", "paused"}

Operation         == [do : Calls, x : Arguments, who : SUBSET Agents]
Op(do, x, who)    == [do |-> do, x |-> x, who |-> who]
Do(do)            == Op(do, "", {})
For(do, a)        == Op(do, "", {a})
Update(kind, who) == Op("load", kind, who)      \* load; change; save
Catch(handler)    == Op("catch", handler, {})

Fail      == <<Update("fail", {})>>
Persist   == <<Do("scan"), Do("upsert"), Do("verify")>>
\* Mutants of Finalize: clears before it persists; marks the workflow first.
FinalizeClearFirst ==
  <<Do("clearscan"), Do("delete")>> \o Persist
    \o <<Op("emit", "workflow.completed", {}), Update("complete", {}), Catch("finalizeFailed")>>
FinalizeMarkFirst ==
  <<Update("complete", {})>> \o Persist
    \o <<Do("clearscan"), Do("delete"), Op("emit", "workflow.completed", {}),
         Catch("finalizeFailed")>>
Finalize  == Persist \o
  <<Do("clearscan"), Do("delete"), Op("emit", "workflow.completed", {}),
    Update("complete", {}), Catch("finalizeFailed")>>
HumanGate == <<Update("pause", {}), Op("emit", "workflow.human_gate", {})>>
TriggerAgents(who) == <<Op("gather", "", who), Catch("stepFailed")>>
Progress(a)        == <<For("plan", a), Catch("progressFailed")>>
RunInBackground    == <<Do("view")>> \o TriggerAgents({"scr"})
                        \o <<Catch("executeFailed"), Catch("background")>>
OnAgentComplete(a) == <<Update("done", {a}), Do("view"), For("surface", a),
                        Do("commit"), Catch("skip")>>
ApproveWorkflow    == <<Update("resume", {})>> \o Finalize

AgentRun(a) ==
  <<Update("running", {a})>>
    \o (CASE a = "scr"       -> <<For("placeholder", a), For("pipeline", a)>>
          [] a = "cma"       -> <<For("readscr", a), For("write", a)>>
          [] a = "reporting" -> <<For("readscr", a), For("readcma", a), For("write", a)>>
          [] OTHER           -> <<For("write", a)>>)
    \o <<For("notify", a)>>

Handler(h) ==
  CASE h = "finalizeFailed" -> Fail \o <<Do("raise")>>
    [] h = "stepFailed"     -> Fail \o Finalize \o <<Do("raise")>>
    [] h = "executeFailed"  -> Fail \o Finalize \o <<Catch("skip"), Do("raise")>>
    [] h = "background"     -> <<Do("ifrunning")>>
    [] h = "progressFailed" -> Fail \o Finalize
    [] h = "skip"           -> <<>>

\* The sequence left once a normal exit has run over the leading catch marks.
Settle(ops) ==
  LET rest == {i \in DOMAIN ops : ops[i].do # "catch"}
  IN  IF rest = {} THEN <<>>
      ELSE SubSeq(ops, CHOOSE i \in rest : \A j \in rest : i <= j, Len(ops))

\* The sequence after an exception: the innermost handler, then what follows it.
Unwind(ops) ==
  LET marks == {i \in DOMAIN ops : ops[i].do = "catch"}
      first == CHOOSE i \in marks : \A j \in marks : i <= j
  IN  IF marks = {} THEN <<>>
      ELSE Settle(Handler(ops[first].x) \o SubSeq(ops, first + 1, Len(ops)))

NewState(name, flow, incident) ==
  [name |-> name, incident |-> incident, flow |-> flow,
   agents |-> [a \in Agents |-> "PENDING"], step |-> 1, paused |-> FALSE,
   approved |-> FALSE, gateEscalated |-> FALSE, status |-> "RUNNING"]
NoState == NewState("code-review-only", "fixed", FALSE)
Locals == [view : WorkflowState, copy : WorkflowState, surface : Output,
           keys : SUBSET Agents, snap : Snapshot, scr : Output, cma : Output]
NoLocals == [view |-> NoState, copy |-> NoState, surface |-> NoOutput, keys |-> {},
             snap |-> NoSnapshot, scr |-> NoOutput, cma |-> NoOutput]

At(p, do) == todo[p] # <<>> /\ Head(todo[p]).do = do
This(p)   == Head(todo[p])
Rest(p)   == Tail(todo[p])

Continue(p, ops, locals) ==
  /\ todo'  = [todo EXCEPT ![p] = Settle(ops)]
  /\ local' = [local EXCEPT ![p] = IF Settle(ops) = <<>> THEN NoLocals ELSE locals]
  /\ UNCHANGED raised

Throw(p) ==
  LET ops == Unwind(todo[p])
  IN  /\ todo'   = [todo EXCEPT ![p] = ops]
      /\ local'  = [local EXCEPT ![p] = IF ops = <<>> THEN NoLocals
                                        ELSE [@ EXCEPT !.snap = NoSnapshot, !.keys = {}]]
      /\ raised' = [raised EXCEPT ![p] = \A i \in DOMAIN todo[p] : todo[p][i].do # "catch"]

-----------------------------------------------------------------------------
(* WorkflowStateStore: each update loads the record and saves it back in   *)
(* two calls, with nothing to keep another task's save from coming between *)

Changed(kind, who, s) ==
  CASE kind = "running"  -> [s EXCEPT !.agents = [a \in Agents |-> IF a \in who THEN "RUNNING" ELSE @[a]]]
    [] kind = "done"     -> [s EXCEPT !.agents = [a \in Agents |-> IF a \in who THEN "DONE" ELSE @[a]]]
    [] kind = "failed"   -> [s EXCEPT !.agents = [a \in Agents |-> IF a \in who THEN "FAILED" ELSE @[a]]]
    [] kind = "pause"    -> [s EXCEPT !.paused = TRUE, !.status = "PAUSED"]
    [] kind = "resume"   -> [s EXCEPT !.paused = FALSE, !.approved = TRUE, !.status = "RUNNING"]
    [] kind = "complete" -> [s EXCEPT !.status = "COMPLETED"]
    [] kind = "fail"     -> [s EXCEPT !.status = "FAILED"]
    [] kind = "escalate" -> [s EXCEPT !.flow = "dynamic"]
    [] kind = "gateEscalated" -> [s EXCEPT !.gateEscalated = TRUE]

Load(p) ==
  /\ At(p, "load")
  /\ Continue(p, <<[This(p) EXCEPT !.do = "save"]>> \o Rest(p),
              [local[p] EXCEPT !.copy = wf])
  /\ UNCHANGED <<stores, bus, env>>

Save(p) ==
  /\ At(p, "save")
  /\ wf' = Changed(This(p).x, This(p).who, local[p].copy)
  /\ Continue(p, Rest(p), [local[p] EXCEPT !.copy = NoState])
  /\ UNCHANGED <<shared, row, emitted, bus, env>>

\* A handler's own `state` object, read once and trusted to the end.
View(p) ==
  /\ At(p, "view")
  /\ Continue(p, Rest(p), [local[p] EXCEPT !.view = wf])
  /\ UNCHANGED <<stores, bus, env>>

SaveView(p) ==
  /\ At(p, "saveview")
  /\ wf' = local[p].view
  /\ Continue(p, Rest(p), local[p])
  /\ UNCHANGED <<shared, row, emitted, bus, env>>

-----------------------------------------------------------------------------
(* WorkflowFinalizer: snapshot, upsert, verify, clear, publish, complete   *)

\* The check after the last hgetall: a required SCR section must be there.
Prepared(p, ops, locals) ==
  IF wf.name \in SCR_REQUIRED_WORKFLOWS /\ ~Present(locals.snap["scr"])
  THEN Throw(p)
  ELSE Continue(p, ops, locals)

Scan(p) ==
  /\ At(p, "scan")
  /\ LET keys == {a \in Agents : Present(shared[a])}
         locals == [local[p] EXCEPT !.keys = keys, !.snap = NoSnapshot]
     IN  IF keys = {} THEN Prepared(p, Rest(p), locals)
         ELSE Continue(p, <<Do("read")>> \o Rest(p), locals)
  /\ UNCHANGED <<stores, bus, env>>

Read(p) ==
  /\ At(p, "read")
  /\ \E a \in local[p].keys :
       LET seen   == IF Present(shared[a]) THEN shared[a] ELSE EmptyOutput
           locals == [local[p] EXCEPT !.keys = @ \ {a}, !.snap[a] = seen]
       IN  IF locals.keys = {} THEN Prepared(p, Rest(p), locals)
           ELSE Continue(p, todo[p], locals)
  /\ UNCHANGED <<stores, bus, env>>

Upsert(p) ==
  /\ At(p, "upsert")
  /\ row' = [written |-> TRUE, snap |-> local[p].snap]
  /\ Continue(p, Rest(p), local[p])
  /\ UNCHANGED <<wf, shared, emitted, bus, env>>

Verify(p) ==
  /\ At(p, "verify")
  /\ IF row.snap = local[p].snap THEN Continue(p, Rest(p), local[p]) ELSE Throw(p)
  /\ UNCHANGED <<stores, bus, env>>

ClearScan(p) ==
  /\ At(p, "clearscan")
  /\ Continue(p, Rest(p), [local[p] EXCEPT !.keys = {a \in Agents : Present(shared[a])}])
  /\ UNCHANGED <<stores, bus, env>>

Delete(p) ==
  /\ At(p, "delete")
  /\ shared' = [a \in Agents |-> IF a \in local[p].keys THEN NoOutput ELSE shared[a]]
  /\ Continue(p, Rest(p), [local[p] EXCEPT !.keys = {}, !.snap = NoSnapshot])
  /\ UNCHANGED <<wf, row, emitted, bus, env>>

Emit(p) ==
  /\ At(p, "emit")
  /\ emitted' = emitted \union {This(p).x}
  /\ Continue(p, Rest(p), local[p])
  /\ UNCHANGED <<wf, shared, row, bus, env>>

-----------------------------------------------------------------------------
(* Planning: DecisionEngine and the scripted plan of the skill controller  *)

\* A late kill-chain stage and techniques that match, which escalate too, are left out.
Escalates(o) == o.level \in {"correlated", "critical"}

\* Mutant of Evaluate: sends a critical scan back to the scanner.
EvaluateRescan(a, s, o) ==
  CASE a = "scr" -> IF o.level = "critical" THEN {"scr"} ELSE Dynamic
    [] a = "reporting" -> {}
    [] a = "cma" -> {"reporting"}
    [] a \in Dynamic -> {"cma"}

Evaluate(a, s, o) ==
  CASE a = "scr" -> IF s.flow = "dynamic" /\ s.incident THEN Dynamic
                    ELSE IF o.level = "low" THEN {"reporting"} ELSE {"cma"}
    [] a = "cma" -> {"reporting"}
    [] a = "reporting" -> {}
    [] a \in Dynamic -> IF s.flow = "dynamic" THEN {"cma"} ELSE {}

\* Mutants of Finish: a gate for critical levels only; pause, then persist.
FinishCritical(a, o) ==
  IF a = "reporting" /\ o.level = "critical" THEN Persist \o HumanGate ELSE Finalize
FinishPauseFirst(a, o) ==
  IF a = "reporting" /\ o.human THEN HumanGate \o Persist ELSE Finalize

Finish(a, o) ==
  IF a = "reporting" /\ o.human THEN Persist \o HumanGate ELSE Finalize


\* The step of a fixed flow is over and is not the last one.
Advances(s) ==
  /\ s.flow = "fixed"
  /\ \A b \in WORKFLOW_DEFINITIONS[s.name][s.step] : s.agents[b] \in {"DONE", "FAILED"}
  /\ s.step < Len(WORKFLOW_DEFINITIONS[s.name])

\* Mutant of NextAgents: goes to the last step of the definition.
NextAgentsLast(a, s, o) ==
  LET steps == WORKFLOW_DEFINITIONS[s.name]
  IN  IF s.flow = "dynamic" THEN Evaluate(a, s, o)
      ELSE IF Advances(s) THEN steps[Len(steps)] ELSE {}

NextAgents(a, s, o) ==
  IF s.flow = "dynamic" THEN Evaluate(a, s, o)
  ELSE IF Advances(s) THEN WORKFLOW_DEFINITIONS[s.name][s.step + 1] ELSE {}

Progression(a, s, o, paused) ==
  LET who == NextAgents(a, s, o)
  IN  IF who = {} THEN Finish(a, o)
      ELSE (IF Advances(s) THEN <<Do("saveview")>> ELSE <<>>)
             \o (IF paused THEN <<>> ELSE TriggerAgents(who))

MustEscalate(s, o) ==
  s.flow = "fixed" /\ Escalates(o) /\ s.name \notin SCR_REQUIRED_WORKFLOWS

\* read_decision_surface; a surface that is not there ends the handler.
Surface(p) ==
  /\ At(p, "surface")
  /\ \E a \in This(p).who :
       LET o == shared[a]
           s == local[p].view
           next == IF ~Present(o) THEN <<>>
                   ELSE IF MustEscalate(s, o)
                   THEN <<Update("escalate", {}), Do("view")>> \o Progress(a)
                   ELSE IF s.flow = "fixed" /\ s.name \in SCR_REQUIRED_WORKFLOWS /\ a = "scr"
                   THEN <<For("checkscr", a)>>
                   ELSE Progress(a)
       IN  Continue(p, next \o Rest(p), [local[p] EXCEPT !.surface = o])
  /\ UNCHANGED <<stores, bus, env>>

CheckScr(p) ==
  /\ At(p, "checkscr")
  /\ Continue(p, (IF shared["scr"].status = "COMPLETED" THEN Progress("scr")
                  ELSE Fail \o Finalize) \o Rest(p), local[p])
  /\ UNCHANGED <<stores, bus, env>>

\* A plan escalates at most once; "next" is the plan with that behind it, which
\* reads the record again but keeps the `paused` the handler saw first.
Plan(p) ==
  /\ At(p, "plan") \/ At(p, "next")
  /\ \E a \in This(p).who :
       LET s == local[p].view
           o == local[p].surface
           paused == IF At(p, "plan") THEN s.paused ELSE This(p).x = "paused"
       IN  IF At(p, "plan") /\ MustEscalate(s, o)
           THEN Continue(p, <<Update("escalate", {}), Do("view"),
                              Op("next", IF paused THEN "paused" ELSE "", {a})>> \o Rest(p),
                         local[p])
           ELSE Continue(p, Progression(a, s, o, paused) \o Rest(p),
                         [local[p] EXCEPT !.view.step = IF Advances(s) THEN @ + 1 ELSE @])
  /\ UNCHANGED <<stores, bus, env>>

-----------------------------------------------------------------------------
(* execute_agent_tools: one task per planned agent, gathered               *)

Gather(p) ==
  /\ At(p, "gather")
  /\ LET who == This(p).who
     IN  /\ todo' = [q \in Procs |->
                       IF q = p THEN <<Op("await", "", who)>> \o Rest(p)
                       ELSE IF q \in who THEN AgentRun(q) ELSE todo[q]]
         /\ raised' = [q \in Procs |-> IF q \in who THEN FALSE ELSE raised[q]]
  /\ UNCHANGED <<local, stores, bus, env>>

\* Mutant of Await: waits for the agents' events to be handled too.
AwaitHandled(p) ==
  /\ At(p, "await")
  /\ position = Len(topic)
  /\ \A q \in This(p).who : todo[q] = <<>>
  /\ Continue(p, Rest(p), local[p])
  /\ UNCHANGED <<stores, bus, env>>

\* The results are looked at in order: the first exception marks its agent.
Await(p) ==
  /\ At(p, "await")
  /\ \A q \in This(p).who : todo[q] = <<>>
  /\ LET failed == {q \in This(p).who : raised[q]}
         first  == IF "web" \in failed THEN {"web"}
                   ELSE IF "asm" \in failed THEN {"asm"} ELSE failed
     IN  IF failed = {} THEN Continue(p, Rest(p), local[p])
         ELSE Continue(p, <<Update("failed", first), Do("raise")>> \o Rest(p), local[p])
  /\ UNCHANGED <<stores, bus, env>>

Raise(p) ==
  /\ At(p, "raise")
  /\ Throw(p)
  /\ UNCHANGED <<stores, bus, env>>

IfRunning(p) ==
  /\ At(p, "ifrunning")
  /\ Continue(p, IF wf.status = "RUNNING" THEN Fail \o Finalize \o <<Catch("skip")>>
                 ELSE <<>>, local[p])
  /\ UNCHANGED <<stores, bus, env>>

-----------------------------------------------------------------------------
(* The agents.  A task p \in Agents runs the agent of that name.           *)

Write(p, agent, o) == shared' = [shared EXCEPT ![agent] = o]

\* _run_scr: the placeholder goes in before the input is looked at.
Placeholder(p) ==
  /\ At(p, "placeholder")
  /\ Write(p, "scr", Out("RUNNING", "low", FALSE))
  /\ Continue(p, Rest(p), local[p])
  /\ UNCHANGED <<wf, row, emitted, bus, env>>

\* The scan succeeds; or fails and records it; or fails and cannot record it
\* (a missing token, a failed write).
Pipeline(p) ==
  /\ At(p, "pipeline")
  /\ \/ \E l \in Levels :
          Continue(p, <<Op("output", l, {}), For("publish", "scr"), Do("late")>> \o Rest(p),
                   local[p])
     \/ /\ "scr" \in FaultyAgents
        /\ Continue(p, <<Op("output", "FAILED", {}), Do("raise")>> \o Rest(p), local[p])
     \/ /\ "scr" \in FaultyAgents
        /\ Throw(p)
  /\ UNCHANGED <<stores, bus, env>>

ScrOutput(p) ==
  /\ At(p, "output")
  /\ LET x == This(p).x
     IN  Write(p, "scr", IF x = "FAILED" THEN Out("FAILED", "low", FALSE)
                         ELSE Out("COMPLETED", x, x = "critical"))
  /\ Continue(p, Rest(p), local[p])
  /\ UNCHANGED <<wf, row, emitted, bus, env>>

\* Proposals, repository memory and the skill_complete call come after the
\* output is out; what they raise is recorded as a failed scan.
Late(p) ==
  /\ At(p, "late")
  /\ \/ Continue(p, Rest(p), local[p])
     \/ /\ LateScrFault
        /\ Continue(p, <<Op("output", "FAILED", {}), Do("raise")>> \o Rest(p), local[p])
  /\ UNCHANGED <<stores, bus, env>>

ReadScr(p) ==
  /\ At(p, "readscr")
  /\ IF p = "cma" /\ ~Present(shared["scr"]) THEN Throw(p)
     ELSE Continue(p, Rest(p), [local[p] EXCEPT !.scr = shared["scr"]])
  /\ UNCHANGED <<stores, bus, env>>

ReadCma(p) ==
  /\ At(p, "readcma")
  /\ Continue(p, Rest(p), [local[p] EXCEPT !.cma = shared["cma"]])
  /\ UNCHANGED <<stores, bus, env>>

AgentOutput(p) ==
  LET scr == local[p].scr
      cma == local[p].cma
  IN  CASE p = "cma"  -> Out("COMPLETED", scr.level, scr.level \in {"secrets", "critical"})
        [] p = "reporting" ->
             LET level == IF "critical" \in {scr.level, cma.level} THEN "critical" ELSE scr.level
             IN  Out("COMPLETED", level, scr.human \/ cma.human \/ level = "critical")
        [] p \in Dynamic -> Out("COMPLETED", "correlated", FALSE)

WriteOutput(p) ==
  /\ At(p, "write")
  /\ \/ Write(p, p, AgentOutput(p)) /\ Continue(p, Rest(p), local[p])
     \/ p \in FaultyAgents /\ Throw(p) /\ UNCHANGED shared
  /\ UNCHANGED <<wf, row, emitted, bus, env>>

\* Mutant of Notify: announces none but cma and reporting.
NotifyFew(p) ==
  /\ At(p, "notify")
  /\ Continue(p, IF p \in {"cma", "reporting"} THEN <<For("publish", p)>> ELSE <<>>, local[p])
  /\ UNCHANGED <<stores, bus, env>>

\* _notify_agent_complete: SCR has announced itself; the others are announced
\* here, with a default output when theirs is not there to be routed on.
Notify(p) ==
  /\ At(p, "notify")
  /\ LET bad == shared[p].status \in {"NONE", "RUNNING"}
     IN  Continue(p,
           (CASE p = "scr" -> IF bad THEN <<Update("failed", {"scr"})>> ELSE <<>>
              [] p \in Dynamic -> <<For("publish", p)>>
              [] p \in {"cma", "reporting"} ->
                   IF bad THEN <<Do("default"), For("publish", p)>> ELSE <<For("publish", p)>>)
           \o Rest(p), local[p])
  /\ UNCHANGED <<stores, bus, env>>

WriteDefault(p) ==
  /\ At(p, "default")
  /\ Write(p, p, Out("COMPLETED", "low", FALSE))
  /\ Continue(p, Rest(p), local[p])
  /\ UNCHANGED <<wf, row, emitted, bus, env>>

Publish(p) ==
  /\ At(p, "publish")
  /\ \E a \in This(p).who : topic' = Append(topic, a)
  /\ Continue(p, Rest(p), local[p])
  /\ UNCHANGED <<stores, position, committed, env>>

-----------------------------------------------------------------------------
(* The consumer, the approve endpoint, the gate watcher, a restart         *)

Fetch ==
  /\ todo["consumer"] = <<>>
  /\ position < Len(topic)
  /\ position' = position + 1
  /\ Continue("consumer", OnAgentComplete(topic[position + 1]), NoLocals)
  /\ UNCHANGED <<stores, topic, committed, env>>

\* Mutant of Commit: commits the offset of a record not yet fetched.
CommitAhead(p) ==
  /\ At(p, "commit")
  /\ committed' = position + 1
  /\ Continue(p, Rest(p), local[p])
  /\ UNCHANGED <<stores, topic, position, env>>

Commit(p) ==
  /\ At(p, "commit")
  /\ committed' = position
  /\ Continue(p, Rest(p), local[p])
  /\ UNCHANGED <<stores, topic, position, env>>

\* A call that finds the workflow not paused is answered 400.
Approve(p) ==
  /\ p \in Approvers \ called
  /\ wf.paused
  /\ called' = called \union {p}
  /\ Continue(p, ApproveWorkflow, NoLocals)
  /\ UNCHANGED <<stores, bus, crashes>>

\* The watcher lists the paused workflows, then saves the record it listed.
ListExpired ==
  /\ todo["watcher"] = <<>>
  /\ wf.status = "PAUSED"
  /\ ~wf.gateEscalated
  /\ Continue("watcher", <<Op("save", "gateEscalated", {}),
                           Op("emit", "workflow.human_gate_escalated", {})>>,
              [NoLocals EXCEPT !.copy = wf])
  /\ UNCHANGED <<stores, bus, env>>

\* The process restarts: no task is resumed, the group resumes from its offset.
Crash ==
  /\ crashes < MaxCrashes
  /\ crashes'  = crashes + 1
  /\ todo'     = [p \in Procs |-> <<>>]
  /\ local'    = [p \in Procs |-> NoLocals]
  /\ raised'   = [p \in Procs |-> FALSE]
  /\ position' = committed
  /\ UNCHANGED <<stores, topic, committed, called>>

-----------------------------------------------------------------------------
Init ==
  /\ wf \in {NewState(name, flow, incident) :
               name \in WorkflowNames, flow \in Flows, incident \in Incidents}
  /\ shared    = NoSnapshot
  /\ row       = [written |-> FALSE, snap |-> NoSnapshot]
  /\ topic     = <<>>
  /\ position  = 0
  /\ committed = 0
  /\ emitted   = {}
  /\ todo      = [p \in Procs |-> IF p = "background" THEN RunInBackground ELSE <<>>]
  /\ local     = [p \in Procs |-> NoLocals]
  /\ raised    = [p \in Procs |-> FALSE]
  /\ called    = {}
  /\ crashes   = 0

Step(p) ==
  \/ Load(p) \/ Save(p) \/ View(p) \/ SaveView(p)
  \/ Scan(p) \/ Read(p) \/ Upsert(p) \/ Verify(p) \/ ClearScan(p) \/ Delete(p) \/ Emit(p)
  \/ Surface(p) \/ CheckScr(p) \/ Plan(p)
  \/ Gather(p) \/ Await(p) \/ Raise(p) \/ IfRunning(p)
  \/ Placeholder(p) \/ Pipeline(p) \/ ScrOutput(p) \/ Late(p)
  \/ ReadScr(p) \/ ReadCma(p) \/ WriteOutput(p) \/ Notify(p) \/ WriteDefault(p)
  \/ Publish(p) \/ Commit(p)

Next ==
  \/ \E p \in Procs : Step(p)
  \/ Fetch
  \/ \E p \in Approvers : Approve(p)
  \/ ListExpired
  \/ Crash

\* The event loop runs every ready task; nobody has to approve or to crash.
Fairness == (\A p \in Procs : WF_vars(Step(p))) /\ WF_vars(Fetch)

Spec == Init /\ [][Next]_vars /\ Fairness

-----------------------------------------------------------------------------
(* Properties.                                                             *)

\* Every variable keeps its shape; the step index never passes the plan's end.
TypeOK ==
  /\ wf \in WorkflowState
  /\ shared \in Snapshot
  /\ row \in [written : BOOLEAN, snap : Snapshot]
  /\ topic \in Seq(Agents)
  /\ position \in 0..Len(topic) /\ committed \in 0..position
  /\ emitted \subseteq Topics
  /\ todo \in [Procs -> Seq(Operation)]
  /\ local \in [Procs -> Locals]
  /\ raised \in [Procs -> BOOLEAN]
  /\ called \subseteq Approvers
  /\ crashes \in 0..MaxCrashes

\* A workflow reads COMPLETED only when its outputs are in the database: the
\* order of WorkflowFinalizer.finalize, whatever races, fails or restarts.
CompletedHasRow == wf.status = "COMPLETED" => row.written

\* A workflow waits at the human gate only when its outputs are in the
\* database: persist_snapshot comes before _handle_human_gate.
PausedHasRow == wf.paused => row.written

\* Nobody runs an agent of the workflow that is still running: the handlers of
\* agent.complete come one at a time and wait for the agents they trigger.
OneTaskPerAgent ==
  \A p \in Procs : At(p, "gather") => \A a \in This(p).who : todo[a] = <<>>

\* A workflow whose report asks for a human is not COMPLETED before somebody
\* has called approve.
HumanGateHolds ==
  wf.status = "COMPLETED" /\ row.snap["reporting"].human => called # {}

\* What a human is asked to approve is in the database: the paused workflow's
\* row holds the report that asked for the approval.
PausedShowsReport == wf.paused => row.snap["reporting"].human

Team == UNION {WORKFLOW_DEFINITIONS[wf.name][i] : i \in DOMAIN WORKFLOW_DEFINITIONS[wf.name]}

\* A COMPLETED workflow has in its row the finished output of every agent its
\* definition names.
CompletedIsComplete ==
  wf.status = "COMPLETED" => \A a \in Team : row.snap[a].status = "COMPLETED"

\* The output of an agent that was announced is in shared memory or in the row.
AnnouncedIsKept ==
  \A i \in DOMAIN topic : Present(shared[topic[i]]) \/ Present(row.snap[topic[i]])

\* The outputs are in custody as OutputCustody promises: the snapshot is as if
\* taken at one instant and nothing is cleared before it is in the database.
Custody == INSTANCE OutputCustody WITH memory <- shared, durable <- row.snap
OutputsInCustody == Custody!Spec

\* The consumer gets through every agent.complete: a handler that waits for
\* agents is never itself what the agents wait for.
EventsHandled == []<>(position = Len(topic) /\ todo["consumer"] = <<>>)

\* Every workflow comes to a row in the database or to FAILED.
Reported == <>(row.written \/ wf.status = "FAILED")

\* Every workflow ends COMPLETED, FAILED or at its gate, and stays there until
\* it is approved.
WorkflowSettles == <>[](wf.status \in {"COMPLETED", "FAILED", "PAUSED"})
=============================================================================
