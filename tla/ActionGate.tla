----------------------------- MODULE ActionGate -----------------------------
(***************************************************************************)
(* Write-scope actions and the reviewers who decide on them: the findings  *)
(* of a scan become rows of proposed_actions, the queue shows what waits,  *)
(* a decision goes through the gateway's proxy to ActionGate and           *)
(* ActionExecutor.                                                         *)
(*                                                                         *)
(* A request is handled in steps, one for each awaited call; requests and  *)
(* scans interleave.  Any awaited call may raise, and then the handler     *)
(* ends where it is.  The proxy gives up on a slow handler, which goes on: *)
(* reviewers see that a decision is unavailable, and may send it again.    *)
(* What a paused workflow does when it is resumed is in Orchestrator.      *)
(***************************************************************************)
EXTENDS Naturals, Sequences, FiniteSets

CONSTANTS
  Workflows, Clients,
  ClientOf,       \* the client of a workflow
  Findings,       \* what the scans ranked
  WorkflowOf,     \* the workflow of a finding
  Severe,         \* findings that are CRITICAL or HIGH
  HighRisk,       \* is risk_score at least 80?
  Requests,       \* the requests that may arrive, one each
  Asks,           \* what each request may ask
  PausedLimit,    \* how many paused workflows the queue reads
  PendingLimit,   \* how many pending rows the queue reads, over all clients
  MaxScans,       \* bound on runs of the output stage
  MayFail         \* may an awaited call raise?

ASSUME ActionGateAssumption ==
  /\ ClientOf \in [Workflows -> Clients]
  /\ WorkflowOf \in [Findings -> Workflows]
  /\ IsFiniteSet(Findings)
  /\ Severe \subseteq Findings
  /\ HighRisk \in BOOLEAN
  /\ PausedLimit \in Nat \ {0} /\ PendingLimit \in Nat \ {0}
  /\ MaxScans \in Nat
  /\ MayFail \in BOOLEAN

\* An action is the review of one finding: action_id holds its finding_id.
Actions == IF HighRisk THEN Findings ELSE Severe

Status == {"none", "pending_approval", "approved", "rejected", "executed"}
Kinds  == {"accept", "reject", "resume", "queue"}

VARIABLES
  row,         \* status of each row of proposed_actions
  born,        \* when each row was proposed
  stored,      \* the workflows whose state has not expired
  paused,      \* the workflows whose state says PAUSED
  proposing,   \* findings the output stage has yet to propose
  scans,       \* runs of the output stage so far
  req,         \* the requests
  accepted,    \* requests whose approval has been written
  dispatched,  \* requests that have carried their action out
  announced    \* per topic, the requests that have published

decisions == <<accepted, dispatched, announced>>
store == <<born, stored>>
vars == <<row, store, paused, proposing, scans, req, decisions>>

Topics == {"action.approved", "action.rejected", "action.executed"}
Points == {"idle", "approve", "approved", "fetch", "recheck", "dispatch", "mark",
           "executed", "reject", "rejected", "load", "resume", "paused", "actions",
           "owners", "done", "failed"}
Answers == {"none", "ok", "unavailable"}

\* One entry of the queue: an action, a finding of a paused workflow, or the workflow.
Items == ({"action", "finding"} \X Findings) \union ({"workflow"} \X Workflows)
Item(kind, x) == <<kind, x>>

Blank == [at |-> "idle", kind |-> "queue", on |-> "none", client |-> "none", answer |-> "none",
          todo |-> {}, found |-> {}, rows |-> {}, left |-> {}, items |-> <<>>,
          waiting |-> {}, steady |-> {}]

Init ==
  /\ row = [a \in Actions |-> "none"]
  /\ born = [a \in Actions |-> 0]
  /\ stored = Workflows
  /\ paused = {}
  /\ proposing = {}
  /\ scans = 0
  /\ req = [r \in Requests |-> Blank]
  /\ accepted = {} /\ dispatched = {}
  /\ announced = [t \in Topics |-> {}]

-----------------------------------------------------------------------------
Pending(w) == {a \in Actions : WorkflowOf[a] = w /\ row[a] = "pending_approval"}

Go(r, point)  == req' = [req EXCEPT ![r].at = point]
Publish(r, t) == announced' = [announced EXCEPT ![t] = @ \union {r}]

\* The row changes; queue requests under way forget what no longer waits.
SetRow(a, status, r, point) ==
  /\ row' = [row EXCEPT ![a] = status]
  /\ req' = [q \in Requests |->
       IF q = r THEN [req[q] EXCEPT !.at = point]
       ELSE [req[q] EXCEPT !.waiting = @ \ {a}]]

(* The output stage of a COMPLETED scan proposes a review of each severe   *)
(* finding.  INSERT ... ON CONFLICT DO NOTHING, then action.pending; an    *)
(* exception drops the findings that are left.                             *)
Ranked(w) ==
  /\ scans < MaxScans
  /\ proposing = {}
  /\ scans' = scans + 1
  /\ proposing' = {a \in Actions : WorkflowOf[a] = w}
  /\ UNCHANGED <<row, store, paused, req, decisions>>

Propose(a) ==
  /\ a \in proposing
  /\ row' = [row EXCEPT ![a] = IF @ = "none" THEN "pending_approval" ELSE @]
  /\ born' = IF row[a] = "none"
               THEN [born EXCEPT ![a] = 1 + Cardinality({b \in Actions : row[b] # "none"})]
               ELSE born
  /\ \/ proposing' = proposing \ {a}
     \/ MayFail /\ proposing' = {}
  /\ UNCHANGED <<stored, paused, scans, req, decisions>>

\* The orchestrator's human gate; see Orchestrator.
Pause(w) ==
  /\ w \in stored \ paused
  /\ paused' = paused \union {w}
  /\ UNCHANGED <<row, store, proposing, scans, req, decisions>>

\* The key of a workflow's state lapses a day after the last save.
Expire(w) ==
  /\ w \in stored
  /\ stored' = stored \ {w}
  /\ paused' = paused \ {w}
  /\ req' = [q \in Requests |->
       [req[q] EXCEPT !.steady = @ \ {w},
                      !.waiting = {a \in @ : WorkflowOf[a] # w}]]
  /\ UNCHANGED <<row, born, proposing, scans, decisions>>

-----------------------------------------------------------------------------
(* A request passes the gateway, which lets a user name only a client of   *)
(* theirs, and reaches the handler.  modify is a reject with other words.  *)
(* A reviewer decides on actions that the queue has shown: they have rows, *)
(* and rows are never deleted.                                             *)
Decide(r, a, kind) ==
  /\ req[r].at = "idle"
  /\ row[a] # "none"
  /\ req' = [req EXCEPT ![r] = [Blank EXCEPT !.kind = kind, !.on = a,
                 !.at = IF kind = "accept" THEN "approve" ELSE "reject"]]
  /\ UNCHANGED <<row, store, paused, proposing, scans, decisions>>

DecideWorkflow(r, w, c) ==
  /\ req[r].at = "idle"
  /\ req' = [req EXCEPT ![r] = [Blank EXCEPT !.kind = "resume", !.on = w, !.client = c,
                                             !.at = "load"]]
  /\ UNCHANGED <<row, store, paused, proposing, scans, decisions>>

ListQueue(r, c) ==
  /\ req[r].at = "idle"
  /\ req' = [req EXCEPT ![r] = [Blank EXCEPT !.client = c, !.at = "paused", !.todo = stored,
                 !.steady = {w \in paused : ClientOf[w] = c},
                 !.waiting = {a \in Actions : /\ row[a] = "pending_approval"
                                              /\ WorkflowOf[a] \in stored
                                              /\ ClientOf[WorkflowOf[a]] = c}]]
  /\ UNCHANGED <<row, store, paused, proposing, scans, decisions>>

\* ActionGate.approve: an UPDATE whatever the status, then action.approved.
Approve(r) ==
  /\ req[r].at = "approve"
  /\ SetRow(req[r].on, "approved", r, "approved")
  /\ accepted' = accepted \union {r}
  /\ UNCHANGED <<store, paused, proposing, scans, dispatched, announced>>

AnnounceApproved(r) ==
  /\ req[r].at = "approved"
  /\ Publish(r, "action.approved")
  /\ Go(r, "fetch")
  /\ UNCHANGED <<row, store, paused, proposing, scans, accepted, dispatched>>

\* Mutant of Fetch: marks first.
FetchMark(r) ==
  /\ req[r].at = "fetch"
  /\ Go(r, IF row[req[r].on] = "approved" THEN "mark" ELSE "recheck")
  /\ UNCHANGED <<row, store, paused, proposing, scans, decisions>>

\* ActionExecutor.execute_approved.
Fetch(r) ==
  /\ req[r].at = "fetch"
  /\ Go(r, IF row[req[r].on] = "approved" THEN "dispatch" ELSE "recheck")
  /\ UNCHANGED <<row, store, paused, proposing, scans, decisions>>

Recheck(r) ==
  /\ req[r].at = "recheck"
  /\ Go(r, IF row[req[r].on] = "approved" THEN "dispatch" ELSE "failed")
  /\ UNCHANGED <<row, store, paused, proposing, scans, decisions>>

Dispatch(r) ==
  /\ req[r].at = "dispatch"
  /\ dispatched' = dispatched \union {r}
  /\ Go(r, "mark")
  /\ UNCHANGED <<row, store, paused, proposing, scans, accepted, announced>>

\* Mutant of MarkExecuted: leaves the row to the listener of action.executed.
MarkLater(r) ==
  /\ req[r].at = "mark"
  /\ Go(r, "executed")
  /\ UNCHANGED <<row, store, paused, proposing, scans, decisions>>

MarkExecuted(r) ==
  /\ req[r].at = "mark"
  /\ SetRow(req[r].on, "executed", r, "executed")
  /\ UNCHANGED <<store, paused, proposing, scans, decisions>>

AnnounceExecuted(r) ==
  /\ req[r].at = "executed"
  /\ Publish(r, "action.executed")
  /\ Go(r, "done")
  /\ UNCHANGED <<row, store, paused, proposing, scans, accepted, dispatched>>

\* ActionGate.reject.
Reject(r) ==
  /\ req[r].at = "reject"
  /\ SetRow(req[r].on, "rejected", r, "rejected")
  /\ UNCHANGED <<store, paused, proposing, scans, decisions>>

\* Mutant of AnnounceRejected: goes on to the executor.
AnnounceRejectedOn(r) ==
  /\ req[r].at = "rejected"
  /\ Publish(r, "action.rejected")
  /\ Go(r, "fetch")
  /\ UNCHANGED <<row, store, paused, proposing, scans, accepted, dispatched>>

AnnounceRejected(r) ==
  /\ req[r].at = "rejected"
  /\ Publish(r, "action.rejected")
  /\ Go(r, "done")
  /\ UNCHANGED <<row, store, paused, proposing, scans, accepted, dispatched>>

\* A decision on a WORKFLOW- or FINDING- item: only its client, only if paused.
LoadWorkflow(r) ==
  /\ req[r].at = "load"
  /\ Go(r, IF req[r].on \in stored /\ ClientOf[req[r].on] # req[r].client THEN "failed"
           ELSE IF req[r].on \in paused THEN "resume" ELSE "done")
  /\ UNCHANGED <<row, store, paused, proposing, scans, decisions>>

Resume(r) ==
  /\ req[r].at = "resume"
  /\ paused' = paused \ {req[r].on}
  /\ req' = [q \in Requests |->
       IF q = r THEN [req[q] EXCEPT !.at = "done"]
       ELSE [req[q] EXCEPT !.steady = @ \ {req[r].on}]]
  /\ UNCHANGED <<row, store, proposing, scans, decisions>>

-----------------------------------------------------------------------------
(* HITLService.list_queue: the paused workflows of the client, at most     *)
(* PausedLimit, for each its pending actions or else its findings; then    *)
(* the newest pending rows of all clients, at most PendingLimit, of which  *)
(* those are added that have not been seen and whose workflow's state is   *)
(* found and names the client.  A key or a row is read in an await of its  *)
(* own.  The final sort is left out: no property is about order.           *)
Listed(items) == {items[i] : i \in DOMAIN items}

Full(r) == Cardinality(req[r].found) >= PausedLimit

\* list_workflows: one of the keys that are left to scan.
ReadPaused(r, w) ==
  /\ req[r].at = "paused"
  /\ w \in req[r].todo
  /\ ~Full(r)
  /\ req' = [req EXCEPT ![r].todo = @ \ {w},
                        ![r].found = IF w \in paused /\ ClientOf[w] = req[r].client
                                       THEN @ \union {w} ELSE @]
  /\ UNCHANGED <<row, store, paused, proposing, scans, decisions>>

EndScan(r) ==
  /\ req[r].at = "paused"
  /\ req[r].todo = {} \/ Full(r)
  /\ req' = [req EXCEPT ![r].at = "actions", ![r].todo = req[r].found]
  /\ UNCHANGED <<row, store, paused, proposing, scans, decisions>>

InSomeOrder(S) == CHOOSE s \in [1..Cardinality(S) -> S] : Listed(s) = S

\* A snapshot is in shared memory or in the row of the workflow, or is gone.
WorkflowItems(w, snapshot) ==
  LET severe == {f \in Severe : WorkflowOf[f] = w}
  IN IF snapshot /\ severe # {} THEN {Item("finding", f) : f \in severe}
                                ELSE {Item("workflow", w)}

ReadActions(r, w) ==
  /\ req[r].at = "actions"
  /\ w \in req[r].todo
  /\ \E snapshot \in BOOLEAN :
       LET new == IF Pending(w) # {} THEN {Item("action", a) : a \in Pending(w)}
                                     ELSE WorkflowItems(w, snapshot)
       IN req' = [req EXCEPT ![r].todo = @ \ {w}, ![r].items = @ \o InSomeOrder(new)]
  /\ UNCHANGED <<row, store, paused, proposing, scans, decisions>>

\* Mutant of Newest: ORDER BY proposed_at.
Oldest(S) ==
  {T \in SUBSET S :
     /\ \A a \in S \ T, b \in T : born[b] <= born[a]
     /\ Cardinality(T) = PendingLimit \/ (T = S /\ Cardinality(S) < PendingLimit)}

\* ORDER BY proposed_at DESC LIMIT: as many as that, and none newer is left.
Newest(S) ==
  {T \in SUBSET S :
     /\ \A a \in S \ T, b \in T : born[b] >= born[a]
     /\ Cardinality(T) = PendingLimit \/ (T = S /\ Cardinality(S) < PendingLimit)}

ReadPending(r) ==
  /\ req[r].at = "actions"
  /\ req[r].todo = {}
  /\ \E T \in Newest({a \in Actions : row[a] = "pending_approval"}) :
       req' = [req EXCEPT ![r].at = "owners", ![r].rows = T, ![r].left = T]
  /\ UNCHANGED <<row, store, paused, proposing, scans, decisions>>

\* Is a row the client's, and not in the queue yet?
Unseen(r, a) ==
  /\ Item("action", a) \notin Listed(req[r].items)
  /\ WorkflowOf[a] \in stored
  /\ ClientOf[WorkflowOf[a]] = req[r].client

LoadOwner(r, a) ==
  /\ req[r].at = "owners"
  /\ a \in req[r].left
  /\ req' = [req EXCEPT ![r].left = @ \ {a},
                        ![r].items = IF Unseen(r, a) THEN Append(@, Item("action", a)) ELSE @]
  /\ UNCHANGED <<row, store, paused, proposing, scans, decisions>>

EndQueue(r) ==
  /\ req[r].at = "owners"
  /\ req[r].left = {}
  /\ Go(r, "done")
  /\ UNCHANGED <<row, store, paused, proposing, scans, decisions>>

-----------------------------------------------------------------------------
\* An awaited call raises.
Fail(r) ==
  /\ MayFail
  /\ req[r].at \notin {"idle", "done", "failed"}
  /\ Go(r, "failed")
  /\ UNCHANGED <<row, store, paused, proposing, scans, decisions>>

\* Mutant of Respond: only a handler that succeeded answers.
RespondOk(r) ==
  /\ req[r].at = "done"
  /\ req[r].answer = "none"
  /\ req' = [req EXCEPT ![r].answer = "ok"]
  /\ UNCHANGED <<row, store, paused, proposing, scans, decisions>>

\* OrchestratorClient._request: a status of 400 or more is OrchestratorUnavailable.
Respond(r) ==
  /\ req[r].at \in {"done", "failed"}
  /\ req[r].answer = "none"
  /\ req' = [req EXCEPT ![r].answer = IF req[r].at = "done" THEN "ok" ELSE "unavailable"]
  /\ UNCHANGED <<row, store, paused, proposing, scans, decisions>>

\* ... and so is a timeout of the call.
TimeOut(r) ==
  /\ req[r].at \notin {"idle", "done", "failed"}
  /\ req[r].answer = "none"
  /\ req' = [req EXCEPT ![r].answer = "unavailable"]
  /\ UNCHANGED <<row, store, paused, proposing, scans, decisions>>

Handle(r) ==
  \/ Approve(r) \/ AnnounceApproved(r) \/ Fetch(r) \/ Recheck(r) \/ Dispatch(r)
  \/ MarkExecuted(r) \/ AnnounceExecuted(r) \/ Reject(r) \/ AnnounceRejected(r)
  \/ LoadWorkflow(r) \/ Resume(r)
  \/ (\E w \in Workflows : ReadPaused(r, w) \/ ReadActions(r, w))
  \/ EndScan(r) \/ ReadPending(r) \/ (\E a \in Actions : LoadOwner(r, a)) \/ EndQueue(r)

Ask(kind, on, client) == [kind |-> kind, on |-> on, client |-> client]

Arrive(r) ==
  \/ \E a \in Actions, kind \in {"accept", "reject"} :
       Ask(kind, a, "none") \in Asks[r] /\ Decide(r, a, kind)
  \/ \E c \in Clients : Ask("queue", "none", c) \in Asks[r] /\ ListQueue(r, c)
  \/ \E w \in Workflows, c \in Clients :
       Ask("resume", w, c) \in Asks[r] /\ DecideWorkflow(r, w, c)

Next ==
  \/ \E w \in Workflows : Ranked(w) \/ Pause(w) \/ Expire(w)
  \/ \E a \in Actions : Propose(a)
  \/ \E r \in Requests : Arrive(r) \/ Handle(r) \/ Fail(r) \/ Respond(r) \/ TimeOut(r)

\* The event loop resumes a handler whose call has returned; nobody has to ask.
Fairness == \A r \in Requests : WF_vars(Handle(r)) /\ WF_vars(Respond(r))
Spec == Init /\ [][Next]_vars /\ Fairness
-----------------------------------------------------------------------------
Request == [at : Points, kind : Kinds, on : Actions \union Workflows \union {"none"},
            client : Clients \union {"none"}, answer : Answers, todo : SUBSET Workflows,
            found : SUBSET Workflows, rows : SUBSET Actions, left : SUBSET Actions,
            items : Seq(Items), waiting : SUBSET Actions, steady : SUBSET Workflows]

\* Types; also that a request stands where its kind may stand.
TypeOK ==
  /\ row \in [Actions -> Status] /\ born \in [Actions -> Nat]
  /\ stored \subseteq Workflows
  /\ paused \subseteq Workflows
  /\ proposing \subseteq Actions
  /\ scans \in Nat
  /\ req \in [Requests -> Request]
  /\ accepted \subseteq Requests /\ dispatched \subseteq Requests
  /\ announced \in [Topics -> SUBSET Requests]

\* A row says executed only of what somebody carried out, whatever other decisions
\* and proposals came in between.
ExecutedWasDone ==
  \A a \in Actions : row[a] = "executed" => \E r \in dispatched : req[r].on = a

\* When every decision on an action has ended and none was cut short or contradicted,
\* the row says what was decided.
DecisionsOn(a) == {r \in Requests : req[r].at # "idle" /\ req[r].on = a}
AgreedDecisionSettles ==
  \A a \in Actions, kind \in {"accept", "reject"} :
    /\ DecisionsOn(a) # {}
    /\ \A r \in DecisionsOn(a) : /\ req[r].kind = kind
                                 /\ req[r].at = "done"
    => row[a] = IF kind = "accept" THEN "executed" ELSE "rejected"

\* The queue of a client leaves out nothing that waited while it was being read: every
\* workflow that stayed paused has an entry unless PausedLimit others were read, and every
\* action that stayed pending has one of its own unless PendingLimit pending rows, none of
\* them older, kept it out; and the queue shows nothing twice, although what it reads
\* changes between its two lists.  (An action whose workflow's state expires is not among
\* those that waited.)
Concerns(item, w) == IF item[1] = "workflow" THEN item[2] = w ELSE WorkflowOf[item[2]] = w
Outnumbered(x, a) ==
  /\ Cardinality(x.rows) = PendingLimit /\ a \notin x.rows
  /\ \A b \in x.rows : born[b] >= born[a]
QueueComplete ==
  /\ \A r \in Requests : req[r].kind = "queue" /\ req[r].at = "done" =>
       /\ \A w \in req[r].steady : \/ \E i \in Listed(req[r].items) : Concerns(i, w)
                                   \/ Full(r) /\ w \notin req[r].found
       /\ \A a \in req[r].waiting : \/ Item("action", a) \in Listed(req[r].items)
                                    \/ Outnumbered(req[r], a)
  /\ \A r \in Requests : \A i, j \in DOMAIN req[r].items :
       req[r].items[i] = req[r].items[j] => i = j

\* The gate and the executor do what the contract promises.
Contract == INSTANCE ApprovalContract
KeepsContract == Contract!Spec

\* Every request is answered, and its handler ends, whatever raises on the way.
Answered ==
  \A r \in Requests :
    req[r].at # "idle" ~> req[r].at \in {"done", "failed"} /\ req[r].answer # "none"
=============================================================================
