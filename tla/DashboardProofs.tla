---------------------------- MODULE DashboardProofs ---------------------------
(***************************************************************************)
(* What an answer of the dashboard says of the workflows, for any          *)
(* workflows, agents, reports and bounds, and whichever calls fail: the    *)
(* completed workflows it counts are those it has findings of, its risk is *)
(* that of the latest, and an agent's row is what its workflows say.       *)
(***************************************************************************)
EXTENDS Dashboard, FiniteSetTheorems, SequenceTheorems, WellFoundedInduction, TLAPS

(* A set of numbers that is not empty has a least one.                     *)
LEMMA LeastNat ==
  ASSUME NEW S \in SUBSET Nat, S # {}
  PROVE  \E m \in S : \A n \in S : m <= n
<1>1. PICK m \in S : \A n \in S : ~ (<<n, m>> \in OpToRel(<, Nat))
  BY WFMin, NatLessThanWellFounded, Zenon
<1>2. \A n \in S : ~(n < m)
  BY <1>1 DEF OpToRel
<1> QED BY <1>2

LEMMA MinOf ==
  ASSUME NEW S \in SUBSET Nat, S # {}
  PROVE  Min(S) \in S /\ \A n \in S : Min(S) <= n
BY LeastNat DEF Min

LEMMA MinOfTwo ==
  ASSUME NEW a \in Nat, NEW b \in Nat
  PROVE  Min({a, b}) \in Nat /\ Min({a, b}) <= a /\ Min({a, b}) <= b /\ Min({a, b}) \in {a, b}
BY MinOf
----------------------------------------------------------------------------
(* The rows of the agents. *)

(* What the row of an agent is after the i-th workflow.                    *)
RowAfter(prev, list, a, i) ==
  LET mapped == AgentRowStatus(list[i].agents[a])
  IN  IF GoesOn(list[i], a) /\ Updates(prev, mapped) THEN mapped ELSE prev

(* f is the run of the loop over the first n workflows.                    *)
RunsTo(f, n, list, a) ==
  /\ f = [i \in 0..n |-> f[i]]
  /\ f[0] = "none"
  /\ \A i \in 1..n : f[i] = RowAfter(f[i - 1], list, a, i)

(* The loop has a run over every list: there is no least one without.      *)
LEMMA LoopRuns ==
  ASSUME NEW list, NEW a, NEW n \in Nat
  PROVE  \E f : RunsTo(f, n, list, a)
<1> DEFINE Without == {k \in Nat : ~ \E f : RunsTo(f, k, list, a)}
<1> SUFFICES ASSUME Without # {} PROVE FALSE
  OBVIOUS
<1>1. PICK m \in Without : \A k \in Without : m <= k
  BY LeastNat
<1>2. m \in Nat /\ ~ \E f : RunsTo(f, m, list, a)
  OBVIOUS
<1>3. CASE m = 0
  <2> DEFINE g == [i \in 0..0 |-> "none"]
  <2>1. g = [i \in 0..0 |-> g[i]] /\ g[0] = "none" /\ 1..0 = {}
    OBVIOUS
  <2>2. RunsTo(g, 0, list, a)
    BY <2>1 DEF RunsTo
  <2> QED BY <1>2, <1>3, <2>2
<1>4. CASE m # 0
  <2>1. m - 1 \in Nat /\ ~(m <= m - 1)
    BY <1>2, <1>4
  <2>2. PICK f : RunsTo(f, m - 1, list, a)
    BY <1>1, <2>1
  <2> DEFINE g == [i \in 0..m |-> IF i = m THEN RowAfter(f[m - 1], list, a, m) ELSE f[i]]
  <2>3. g = [i \in 0..m |-> g[i]]
    OBVIOUS
  <2>4. g[0] = "none"
    BY <1>2, <1>4, <2>2 DEF RunsTo
  <2>5. ASSUME NEW i \in 1..m
        PROVE  g[i] = RowAfter(g[i - 1], list, a, i)
    <3>1. i \in 0..m /\ i - 1 \in 0..m /\ i - 1 # m
      BY <1>2
    <3>2. g[i - 1] = f[i - 1] /\ g[i] = (IF i = m THEN RowAfter(f[m - 1], list, a, m) ELSE f[i])
      BY <3>1
    <3>3. CASE i = m
      BY <3>2, <3>3
    <3>4. CASE i # m
      <4>1. i \in 1..(m - 1)
        BY <1>2, <3>4
      <4> QED BY <2>2, <3>2, <3>4, <4>1 DEF RunsTo
    <3> QED BY <3>3, <3>4
  <2> HIDE DEF g
  <2>6. RunsTo(g, m, list, a)
    BY <2>3, <2>4, <2>5 DEF RunsTo
  <2> QED BY <1>2, <2>6
<1> QED BY <1>3, <1>4

LEMMA AgentRowsRun ==
  ASSUME NEW list \in Seq(Listed), NEW a
  PROVE  RunsTo(AgentRows(list, a), Len(list), list, a)
<1> DEFINE Is(f) == f = [i \in 0..Len(list) |-> IF i = 0 THEN "none" ELSE RowAfter(f[i - 1], list, a, i)]
<1>1. AgentRows(list, a) = CHOOSE f : Is(f)
  BY Zenon DEF AgentRows, RowAfter
<1>3. PICK n \in Nat : n = Len(list)
  OBVIOUS
<1>2. PICK f : RunsTo(f, n, list, a)
  BY LoopRuns, Zenon
<1>4. \A i \in 0..n : f[i] = IF i = 0 THEN "none" ELSE RowAfter(f[i - 1], list, a, i)
  <2> SUFFICES ASSUME NEW i \in 0..n
               PROVE  f[i] = IF i = 0 THEN "none" ELSE RowAfter(f[i - 1], list, a, i)
    OBVIOUS
  <2>1. CASE i = 0
    BY <1>2, <2>1 DEF RunsTo
  <2>2. CASE i # 0
    <3>1. i \in 1..n
      BY <2>2
    <3> QED BY <1>2, <2>2, <3>1 DEF RunsTo
  <2> QED BY <2>1, <2>2
<1>5. f = [i \in 0..n |-> f[i]]
  BY <1>2 DEF RunsTo
<1>6. Is(f)
  BY <1>3, <1>4, <1>5
<1>7. Is(AgentRows(list, a))
  BY <1>1, <1>6, Zenon
<1>8. PICK g : g = AgentRows(list, a)
  OBVIOUS
<1>9. g = [i \in 0..Len(list) |-> IF i = 0 THEN "none" ELSE RowAfter(g[i - 1], list, a, i)]
  BY <1>7, <1>8
<1>10. g = [i \in 0..Len(list) |-> g[i]] /\ g[0] = "none" /\ \A i \in 1..Len(list) : g[i] = RowAfter(g[i - 1], list, a, i)
  BY <1>3, <1>9
<1> QED BY <1>8, <1>10 DEF RunsTo

(* What the row is, whatever the order of the list.                        *)
Says(list, a, n, raw) ==
  \E i \in 1..n : list[i].status \in {"RUNNING", "PAUSED"} /\ list[i].agents[a] = raw

RowSays(row1, list, a, n) ==
  /\ row1 = "running" <=> Says(list, a, n, "RUNNING")
  /\ row1 = "error" <=> (Says(list, a, n, "FAILED") /\ ~Says(list, a, n, "RUNNING"))
  /\ row1 = "none" => ~Says(list, a, n, "FAILED")

(* One more workflow is taken account of.                                  *)
LEMMA RowAfterSays ==
  ASSUME NEW list \in Seq(Listed), NEW a, NEW n \in 1..Len(list), NEW prev,
         RowSays(prev, list, a, n - 1)
  PROVE  RowSays(RowAfter(prev, list, a, n), list, a, n)
<1>1. PICK s : s = list[n]
  OBVIOUS
<1>2. PICK raw : raw = s.agents[a]
  OBVIOUS
<1>3. PICK goes : goes = (s.status \in {"RUNNING", "PAUSED"})
  OBVIOUS
<1>4. \A r : Says(list, a, n, r) <=> (Says(list, a, n - 1, r) \/ (goes /\ raw = r))
  <2>1. n - 1 \in Nat /\ 1..n = (1..(n - 1)) \cup {n}
    OBVIOUS
  <2> QED BY <2>1, <1>1, <1>2, <1>3 DEF Says
<1>5. RowAfter(prev, list, a, n) =
        IF goes /\ raw # "none" /\ Updates(prev, AgentRowStatus(raw)) THEN AgentRowStatus(raw) ELSE prev
  BY <1>1, <1>2, <1>3 DEF RowAfter, GoesOn
<1>6. /\ AgentRowStatus(raw) = "running" <=> raw = "RUNNING"
      /\ AgentRowStatus(raw) = "error" <=> raw = "FAILED"
      /\ AgentRowStatus(raw) # "none"
  BY DEF AgentRowStatus
<1> QED BY <1>4, <1>5, <1>6 DEF RowSays, Updates

LEMMA RowsSay ==
  ASSUME NEW list \in Seq(Listed), NEW a
  PROVE  RowSays(AgentRows(list, a)[Len(list)], list, a, Len(list))
<1>1. PICK f : f = AgentRows(list, a)
  OBVIOUS
<1>2. RunsTo(f, Len(list), list, a)
  BY <1>1, AgentRowsRun
<1> DEFINE Wrong == {k \in 0..Len(list) : ~RowSays(f[k], list, a, k)}
<1>3. Wrong = {}
  <2> SUFFICES ASSUME Wrong # {} PROVE FALSE
    OBVIOUS
  <2>0. Wrong \in SUBSET Nat
    OBVIOUS
  <2>1. PICK m \in Wrong : \A k \in Wrong : m <= k
    <3> HIDE DEF Wrong
    <3> QED BY <2>0, LeastNat
  <2>2. CASE m = 0
    <3>1. f[0] = "none" /\ 1..0 = {}
      BY <1>2 DEF RunsTo
    <3>2. RowSays(f[0], list, a, 0)
      BY <3>1 DEF RowSays, Says
    <3> QED BY <2>1, <2>2, <3>2
  <2>3. CASE m # 0
    <3>1. m \in 1..Len(list) /\ m - 1 \in 0..Len(list) /\ ~(m <= m - 1)
      BY <2>1, <2>3
    <3>2. RowSays(f[m - 1], list, a, m - 1)
      BY <2>1, <3>1
    <3>3. f[m] = RowAfter(f[m - 1], list, a, m)
      BY <1>2, <3>1 DEF RunsTo
    <3> QED BY <2>1, <3>1, <3>2, <3>3, RowAfterSays
  <2> QED BY <2>2, <2>3
<1> QED BY <1>1, <1>3

(* An agent's row says what the workflows that go on say of it.            *)
LEMMA AgentsSay ==
  ASSUME NEW list \in Seq(Listed), NEW a \in Agents \cap DOMAIN BuildAgents(list)
  PROVE  RowSays(BuildAgents(list)[a], list, a, Len(list))
<1> DEFINE last(b) == AgentRows(list, b)[Len(list)]
           rows    == {b \in Agents : last(b) # "none"}
<1>1. RowSays(last(a), list, a, Len(list))
  BY RowsSay
<1> HIDE DEF last
<1>2. CASE rows = {}
  <2>1. BuildAgents(list) = [b \in {"scr", "cma", "reporting"} |-> "idle"]
    BY <1>2, Zenon DEF BuildAgents, last
  <2>2. last(a) = "none"
    BY <1>2
  <2>3. BuildAgents(list)[a] = "idle"
    BY <2>1
  <2> QED BY <1>1, <2>2, <2>3 DEF RowSays
<1>3. CASE rows # {}
  <2>1. BuildAgents(list) = [b \in rows |-> last(b)]
    BY <1>3, Zenon DEF BuildAgents, last
  <2>2. BuildAgents(list)[a] = last(a)
    BY <2>1
  <2> QED BY <1>1, <2>2
<1> QED BY <1>2, <1>3
----------------------------------------------------------------------------
(* The latest point. *)

(* Of points with distinct times the sorted ones end in the latest.        *)
LEMMA LatestLast ==
  ASSUME NEW got \in Seq(Point), NEW i \in DOMAIN got,
         \A j \in DOMAIN got : got[j].completed <= got[i].completed,
         \A j \in DOMAIN got : j # i => got[j].completed # got[i].completed
  PROVE  /\ SortPoints(got) = [k \in 1..Len(got) |-> SortPoints(got)[k]]
         /\ SortPoints(got)[Len(got)] = got[i]
<1> DEFINE before(k) == {j \in DOMAIN got : got[j].completed < got[k].completed \/
                                            (got[j].completed = got[k].completed /\ j < k)}
           at(k) == CHOOSE j \in DOMAIN got : Cardinality(before(j)) = k - 1
<1>1. SortPoints(got) = [k \in 1..Len(got) |-> got[at(k)]]
  BY Zenon DEF SortPoints, Stably
<1>2. /\ Len(got) \in Nat \ {0} /\ DOMAIN got = 1..Len(got)
      /\ IsFiniteSet(DOMAIN got) /\ Cardinality(DOMAIN got) = Len(got)
      /\ \A j \in DOMAIN got : got[j].completed \in Nat
  <2>1. Len(got) \in Nat /\ DOMAIN got = 1..Len(got) /\ Len(got) # 0
    OBVIOUS
  <2>2. \A j \in DOMAIN got : got[j] \in Point
    OBVIOUS
  <2>3. IsFiniteSet(1..Len(got)) /\ Cardinality(1..Len(got)) = Len(got)
    BY <2>1, FS_Interval
  <2> QED BY <2>1, <2>2, <2>3 DEF Point
<1>3. before(i) = DOMAIN got \ {i}
  BY <1>2
<1>4. \A k \in DOMAIN got : before(k) \subseteq DOMAIN got \ {k}
  BY <1>2
<1> HIDE DEF before
<1>5. \A k \in DOMAIN got : IsFiniteSet(DOMAIN got \ {k}) /\ Cardinality(DOMAIN got \ {k}) = Len(got) - 1
  BY <1>2, FS_RemoveElement
<1>6. at(Len(got)) \in DOMAIN got /\ Cardinality(before(at(Len(got)))) = Len(got) - 1
  <2>1. Cardinality(before(i)) = Len(got) - 1
    BY <1>3, <1>5
  <2> QED BY <2>1
<1>7. PICK k : k = at(Len(got))
  OBVIOUS
<1> HIDE DEF at
<1>8. before(k) = DOMAIN got \ {k}
  <2>1. k \in DOMAIN got /\ Cardinality(before(k)) = Len(got) - 1
    BY <1>6, <1>7
  <2>2. before(k) \in SUBSET (DOMAIN got \ {k})
    BY <1>4, <2>1
  <2> QED BY <1>5, <2>1, <2>2, FS_Subset
<1>9. k = i
  <2> SUFFICES ASSUME k # i PROVE FALSE
    OBVIOUS
  <2>1. i \in before(k) /\ k \in DOMAIN got
    BY <1>6, <1>7, <1>8
  <2>2. got[i].completed < got[k].completed \/ got[i].completed = got[k].completed
    BY <2>1 DEF before
  <2> QED BY <1>2, <2>1, <2>2
<1>10. Len(got) \in 1..Len(got)
  BY <1>2
<1> QED BY <1>1, <1>7, <1>9, <1>10

(* A series that is not empty ends as it ended before it was padded.       *)
LEMMA PaddedLast ==
  ASSUME NEW n \in Nat \ {0}, NEW s, s = [k \in 1..n |-> s[k]]
  PROVE  Last(PadSeries(s)) = s[n]
<1> DEFINE T == {s[k] : k \in 1..n}
<1>1. s \in Seq(T) /\ Len(s) = n /\ s # << >>
  OBVIOUS
<1> HIDE DEF T
<1>2. PICK m : m = Min({Recent, Len(s)})
  OBVIOUS
<1>3. m \in 1..n /\ m <= Recent
  <2>1. Recent \in Nat \ {0} /\ m = Min({Recent, n})
    BY <1>1, <1>2, DashboardAssumption
  <2>2. m \in Nat /\ m <= Recent /\ m <= n /\ m \in {Recent, n}
    BY <2>1, MinOfTwo
  <2> QED BY <2>1, <2>2
<1>4. PICK tail : tail = SubSeq(s, Len(s) - m + 1, Len(s))
  OBVIOUS
<1>5. tail \in Seq(T) /\ Len(tail) = m /\ tail[m] = s[n]
  <2>1. PICK from \in 1..n : from = n - m + 1
    BY <1>3
  <2>2. tail = SubSeq(s, from, n)
    BY <1>1, <1>4, <2>1
  <2>3. \A k \in from..n : s[k] \in T
    BY <2>1 DEF T
  <2>4. /\ tail \in Seq(T)
        /\ Len(tail) = IF from <= n THEN n - from + 1 ELSE 0
        /\ \A k \in 1..(n - from + 1) : tail[k] = s[from + k - 1]
    <3> HIDE DEF T
    <3>1. from \in Int /\ n \in Int
      BY <2>1
    <3> QED BY <3>1, <2>2, <2>3, SubSeqProperties, SMTT(30)
  <2>5. n - from + 1 = m /\ from + m - 1 = n /\ from <= n
    BY <1>3, <2>1
  <2>6. tail \in Seq(T) /\ Len(tail) = m
    BY <2>4, <2>5
  <2>7. m \in 1..(n - from + 1)
    BY <1>3, <2>5
  <2>8. tail[m] = s[from + m - 1]
    BY <2>4, <2>7
  <2> QED BY <2>5, <2>6, <2>8
<1>6. PICK pad : pad = [k \in 1..(Recent - Len(tail)) |-> Head(tail)]
  OBVIOUS
<1>7. pad \in Seq(T) /\ Len(pad) \in Nat
  <2>1. Head(tail) \in T /\ Recent - Len(tail) \in Nat
    BY <1>3, <1>5, DashboardAssumption
  <2> QED BY <1>6, <2>1
<1>8. PadSeries(s) = pad \o tail
  BY <1>1, <1>2, <1>4, <1>6, Zenon DEF PadSeries
<1>9. Len(pad \o tail) = Len(pad) + m /\ (pad \o tail)[Len(pad) + m] = tail[m]
  BY <1>3, <1>5, <1>7
<1> QED BY <1>5, <1>8, <1>9 DEF Last
----------------------------------------------------------------------------
(* The inductive invariant. *)

(* A completed workflow has its output, and no two completed at one time.  *)
Stored ==
  /\ \A w \in Workflows : wf[w].status = "COMPLETED" => row[w] # {} /\ wf[w].completed <= clock
  /\ \A v, w \in Workflows :
       v # w /\ wf[v].status = "COMPLETED" /\ wf[w].status = "COMPLETED" => wf[v].completed # wf[w].completed

(* What a request has listed as completed has its output, and a time that  *)
(* neither another has nor one that is still to be listed.                 *)
Listing ==
  /\ \A i \in Having(req.list, "COMPLETED") :
       /\ row[req.list[i].w] # {} /\ req.list[i].completed <= clock
       /\ \A w \in req.keys : wf[w].status = "COMPLETED" => wf[w].completed # req.list[i].completed
  /\ \A i, j \in Having(req.list, "COMPLETED") :
       i # j => req.list[i].completed # req.list[j].completed

(* What a request has still to read is there, each read or to be read has  *)
(* a time of its own, and while no call failed none of them is missing.    *)
Answer ==
  /\ \A i \in req.todo : row[req.list[i].w] # {}
  /\ \A i, j \in req.todo : i # j => req.list[i].completed # req.list[j].completed
  /\ \A k \in DOMAIN req.got, i \in req.todo : req.got[k].completed # req.list[i].completed
  /\ \A k, l \in DOMAIN req.got : k # l => req.got[k].completed # req.got[l].completed
  /\ req.at \in {"queue", "outputs", "answered"} /\ req.whole =>
       Len(req.got) + Cardinality(req.todo) = Count(req.list, "COMPLETED")
  /\ req.at \in {"idle", "states"} => req.got = << >>
  /\ req.at \in {"idle", "states", "answered"} => req.todo = {}

IInv == TypeOK /\ Stored /\ Listing /\ Answer

LEMMA NothingListed == Having(<< >>, "COMPLETED") = {} /\ Count(<< >>, "COMPLETED") = 0
BY FS_EmptySet DEF Having, Count

LEMMA InitIInv == Init => IInv
<1> SUFFICES ASSUME Init PROVE IInv
  OBVIOUS
<1> USE DEF Init
<1>1. TypeOK
  <2>1. Absent \in [status : Statuses, agents : [Agents -> Raw], completed : Nat]
    BY DEF Absent, Statuses, Raw
  <2>2. req.todo \subseteq Having(req.list, "COMPLETED")
    BY DEF Idle
  <2>3. req \in [kind : Kinds \cup {"idle"}, at : {"idle", "states", "queue", "outputs", "answered"},
                 keys : SUBSET Workflows, list : Seq(Listed), todo : SUBSET Nat, got : Seq(Point),
                 queue : Nat, spark : Seq(Nat), whole : BOOLEAN]
    BY DEF Idle
  <2> QED BY <2>1, <2>2, <2>3 DEF TypeOK
<1>2. Stored
  BY DEF Stored, Absent
<1>3. Answer
  BY NothingListed, FS_EmptySet DEF Answer, Idle
<1>4. Listing
  BY NothingListed DEF Listing, Idle
<1> QED BY <1>1, <1>2, <1>3, <1>4 DEF IInv

ReqType == [kind : Kinds \cup {"idle"}, at : {"idle", "states", "queue", "outputs", "answered"},
            keys : SUBSET Workflows, list : Seq(Listed), todo : SUBSET Nat, got : Seq(Point),
            queue : Nat, spark : Seq(Nat), whole : BOOLEAN]

(* The steps of the workflows.                                             *)
WorkflowStep(w) ==
  \/ Start(w) \/ Persist(w) \/ Pause(w) \/ Complete(w) \/ Overwrite(w)
  \/ RecordMetrics(w) \/ Fail(w) \/ Expire(w)
  \/ \E a \in Agents : Mark(w, a)

LEMMA WorkflowStepType ==
  ASSUME TypeOK, NEW w \in Workflows, WorkflowStep(w)
  PROVE  TypeOK'
<1> DEFINE State == [status : Statuses, agents : [Agents -> Raw], completed : Nat]
<1>1. /\ req' = req
      /\ req' \in [kind : Kinds \cup {"idle"}, at : {"idle", "states", "queue", "outputs", "answered"},
                   keys : SUBSET Workflows, list : Seq(Listed), todo : SUBSET Nat, got : Seq(Point),
                   queue : Nat, spark : Seq(Nat), whole : BOOLEAN]
      /\ req'.todo \subseteq Having(req'.list, "COMPLETED")
  <2>1. req' = req
    BY DEF WorkflowStep, Start, Persist, Pause, Complete, Overwrite, RecordMetrics, Fail, Expire, Mark
  <2> QED BY <2>1 DEF TypeOK
<1>2. /\ wf \in [Workflows -> State] /\ row \in [Workflows -> SUBSET Reports] /\ clock \in Nat
      /\ history \in Seq([at : Nat, risk : Nat, gaps : Nat])
  BY DEF TypeOK
<1>3. ASSUME wf' \in [Workflows -> State], row' \in [Workflows -> SUBSET Reports], clock' \in Nat,
             history' \in Seq([at : Nat, risk : Nat, gaps : Nat])
      PROVE  TypeOK'
  BY <1>1, <1>3 DEF TypeOK
<1>4. CASE Start(w) \/ Pause(w) \/ Fail(w)
  <2>1. PICK s \in Statuses : wf' = [wf EXCEPT ![w].status = s]
    BY <1>4 DEF Start, Pause, Fail, Statuses
  <2>2. UNCHANGED <<row, clock, history>>
    BY <1>4 DEF Start, Pause, Fail
  <2> QED BY <1>2, <1>3, <2>1, <2>2
<1>5. CASE \E a \in Agents : Mark(w, a)
  <2>1. PICK a \in Agents, s \in Raw : wf' = [wf EXCEPT ![w].agents[a] = s]
    BY <1>5 DEF Mark, Raw
  <2>2. UNCHANGED <<row, clock, history>>
    BY <1>5 DEF Mark
  <2> QED BY <1>2, <1>3, <2>1, <2>2
<1>6. CASE Persist(w)
  <2>1. PICK r \in Reports : row' = [row EXCEPT ![w] = {r}]
    BY <1>6 DEF Persist
  <2>2. UNCHANGED <<wf, clock, history>>
    BY <1>6 DEF Persist
  <2> QED BY <1>2, <1>3, <2>1, <2>2
<1>7. CASE Complete(w)
  <2>1. wf' = [wf EXCEPT ![w].status = "COMPLETED", ![w].completed = clock + 1]
    BY <1>7 DEF Complete
  <2>2. clock' = clock + 1 /\ UNCHANGED <<row, history>>
    BY <1>7 DEF Complete
  <2>3. wf'[w] = [status |-> "COMPLETED", agents |-> wf[w].agents, completed |-> clock + 1]
    BY <1>2, <2>1
  <2>4. wf'[w] \in State
    BY <1>2, <2>3 DEF Statuses
  <2>5. wf' = [v \in Workflows |-> IF v = w THEN wf'[w] ELSE wf[v]]
    BY <1>2, <2>1
  <2>6. wf' \in [Workflows -> State]
    BY <1>2, <2>4, <2>5
  <2> QED BY <1>2, <1>3, <2>2, <2>6
<1>8. CASE RecordMetrics(w)
  <2>1. PICK r \in row[w] :
          history' = Append(history, [at |-> wf[w].completed, risk |-> r.risk, gaps |-> r.gaps])
    BY <1>8 DEF RecordMetrics
  <2>2. [at |-> wf[w].completed, risk |-> r.risk, gaps |-> r.gaps] \in [at : Nat, risk : Nat, gaps : Nat]
    BY <1>2, <2>1, DashboardAssumption
  <2>3. UNCHANGED <<wf, row, clock>>
    BY <1>8 DEF RecordMetrics
  <2> QED BY <1>2, <1>3, <2>1, <2>2, <2>3
<1>9. CASE Expire(w)
  <2>1. Absent \in State
    BY DEF Absent, Statuses, Raw
  <2>2. wf' = [wf EXCEPT ![w] = Absent] /\ UNCHANGED <<row, clock, history>>
    BY <1>9 DEF Expire
  <2> QED BY <1>2, <1>3, <2>1, <2>2
<1>10. CASE Overwrite(w)
  <2>1. wf' = [wf EXCEPT ![w].status = "RUNNING", ![w].completed = 0]
    BY <1>10 DEF Overwrite
  <2>2. UNCHANGED <<row, clock, history>>
    BY <1>10 DEF Overwrite
  <2>3. wf'[w] = [status |-> "RUNNING", agents |-> wf[w].agents, completed |-> 0]
    BY <1>2, <2>1
  <2>4. wf'[w] \in State
    BY <1>2, <2>3 DEF Statuses
  <2>5. wf' = [v \in Workflows |-> IF v = w THEN wf'[w] ELSE wf[v]]
    BY <1>2, <2>1
  <2>6. wf' \in [Workflows -> State]
    BY <1>2, <2>4, <2>5
  <2> QED BY <1>2, <1>3, <2>2, <2>6
<1> QED BY <1>4, <1>5, <1>6, <1>7, <1>8, <1>9, <1>10 DEF WorkflowStep

LEMMA WorkflowStepIInv ==
  ASSUME IInv, NEW w \in Workflows, WorkflowStep(w)
  PROVE  IInv'
<1>1. TypeOK'
  BY WorkflowStepType DEF IInv
<1>2. req' = req
  BY DEF WorkflowStep, Start, Persist, Pause, Complete, Overwrite, RecordMetrics, Fail, Expire, Mark
<1> DEFINE State == [status : Statuses, agents : [Agents -> Raw], completed : Nat]
<1>3. wf \in [Workflows -> State] /\ row \in [Workflows -> SUBSET Reports] /\ clock \in Nat
  BY DEF IInv, TypeOK
<1>4. \A v \in Workflows : row[v] # {} => row'[v] # {}
  <2>1. CASE Persist(w)
    BY <1>3, <2>1 DEF Persist
  <2>2. CASE ~Persist(w)
    <3>1. row' = row
      BY <2>2 DEF WorkflowStep, Start, Pause, Complete, Overwrite, RecordMetrics, Fail, Expire, Mark
    <3> QED BY <3>1
  <2> QED BY <2>1, <2>2
<1>5. Answer'
  <2>1. \A i \in req.todo : req.list[i].w \in Workflows
    <3>1. req.list \in Seq(Listed) /\ req.todo \subseteq DOMAIN req.list
      BY DEF IInv, TypeOK, Having
    <3>2. \A i \in req.todo : req.list[i] \in Listed
      BY <3>1
    <3> QED BY <3>2 DEF Listed
  <2> QED BY <1>2, <1>4, <2>1 DEF IInv, Answer, Count, Having
<1>6. Stored' /\ (\A v \in Workflows : wf'[v].status = "COMPLETED" => wf'[v] = wf[v] \/ wf'[v].completed = clock + 1)
              /\ clock <= clock'
  <2>1. /\ \A v \in Workflows : wf[v].status = "COMPLETED" => row[v] # {} /\ wf[v].completed <= clock
        /\ \A u, v \in Workflows : u # v /\ wf[u].status = "COMPLETED" /\ wf[v].status = "COMPLETED" =>
             wf[u].completed # wf[v].completed
        /\ \A v \in Workflows : wf[v].completed \in Nat
    BY <1>3 DEF IInv, Stored
  <2>2. ASSUME clock' = clock, \A v \in Workflows : wf'[v].status = "COMPLETED" => wf'[v] = wf[v]
        PROVE  /\ Stored' /\ clock <= clock'
               /\ \A v \in Workflows : wf'[v].status = "COMPLETED" => wf'[v] = wf[v] \/ wf'[v].completed = clock + 1
    BY <1>3, <1>4, <2>1, <2>2 DEF Stored
  <2>3. CASE Start(w) \/ Pause(w) \/ Fail(w)
    <3>1. PICK s \in Statuses \ {"COMPLETED"} : wf' = [wf EXCEPT ![w].status = s]
      BY <2>3 DEF Start, Pause, Fail, Statuses
    <3>2. clock' = clock
      BY <2>3 DEF Start, Pause, Fail
    <3>3. wf'[w].status = s /\ \A v \in Workflows \ {w} : wf'[v] = wf[v]
      BY <1>3, <3>1
    <3> QED BY <2>2, <3>2, <3>3
  <2>4. CASE \E a \in Agents : Mark(w, a)
    <3>1. PICK a \in Agents : \E s : wf' = [wf EXCEPT ![w].agents[a] = s] /\ wf[w].status = "RUNNING" /\ clock' = clock
      BY <2>4 DEF Mark
    <3>2. wf'[w].status = "RUNNING" /\ \A v \in Workflows \ {w} : wf'[v] = wf[v]
      BY <1>3, <3>1
    <3> QED BY <2>2, <3>1, <3>2
  <2>5. CASE Persist(w) \/ RecordMetrics(w)
    <3>1. UNCHANGED <<wf, clock>>
      BY <2>5 DEF Persist, RecordMetrics
    <3> QED BY <2>2, <3>1
  <2>6. CASE Expire(w)
    <3>1. wf' = [wf EXCEPT ![w] = Absent] /\ clock' = clock
      BY <2>6 DEF Expire
    <3>2. wf'[w].status = "absent" /\ \A v \in Workflows \ {w} : wf'[v] = wf[v]
      BY <1>3, <3>1 DEF Absent
    <3> QED BY <2>2, <3>1, <3>2
  <2>7. CASE Complete(w)
    <3>1. /\ wf' = [wf EXCEPT ![w].status = "COMPLETED", ![w].completed = clock + 1]
          /\ clock' = clock + 1 /\ row' = row /\ row[w] # {}
      BY <2>7 DEF Complete
    <3>2. wf'[w].completed = clock + 1 /\ \A v \in Workflows \ {w} : wf'[v] = wf[v]
      BY <1>3, <3>1
    <3>3. \A v \in Workflows : wf'[v].status = "COMPLETED" => row'[v] # {} /\ wf'[v].completed <= clock'
      BY <1>3, <2>1, <3>1, <3>2
    <3>4. \A v \in Workflows \ {w} : wf'[v].status = "COMPLETED" => wf'[v].completed # wf'[w].completed
      BY <1>3, <2>1, <3>2
    <3>5. Stored'
      BY <2>1, <3>2, <3>3, <3>4 DEF Stored
    <3> QED BY <1>3, <3>1, <3>2, <3>5
  <2>8. CASE Overwrite(w)
    <3>1. wf' = [wf EXCEPT ![w].status = "RUNNING", ![w].completed = 0] /\ clock' = clock
      BY <2>8 DEF Overwrite
    <3>2. wf'[w].status = "RUNNING" /\ \A v \in Workflows \ {w} : wf'[v] = wf[v]
      BY <1>3, <3>1
    <3> QED BY <2>2, <3>1, <3>2
  <2> QED BY <2>3, <2>4, <2>5, <2>6, <2>7, <2>8 DEF WorkflowStep
<1>7. Listing'
  <2>1. req \in ReqType
    BY DEF IInv, TypeOK, ReqType
  <2>2. req.list \in Seq(Listed) /\ req.keys \subseteq Workflows
    BY <2>1 DEF ReqType
  <2>3. \A i \in Having(req.list, "COMPLETED") : req.list[i].w \in Workflows /\ req.list[i].completed \in Nat
    <3>1. \A i \in Having(req.list, "COMPLETED") : req.list[i] \in Listed
      BY <2>2 DEF Having
    <3> QED BY <3>1 DEF Listed
  <2>4. Having(req'.list, "COMPLETED") = Having(req.list, "COMPLETED")
    BY <1>2 DEF Having
  <2>5. ASSUME NEW i \in Having(req.list, "COMPLETED")
        PROVE  /\ row'[req.list[i].w] # {} /\ req.list[i].completed <= clock'
               /\ \A v \in req.keys : wf'[v].status = "COMPLETED" => wf'[v].completed # req.list[i].completed
    <3>1. /\ row[req.list[i].w] # {} /\ req.list[i].completed <= clock
          /\ \A v \in req.keys : wf[v].status = "COMPLETED" => wf[v].completed # req.list[i].completed
      BY DEF IInv, Listing
    <3>2. clock' \in Nat
      BY <1>1 DEF TypeOK
    <3>3. req.list[i].w \in Workflows /\ req.list[i].completed \in Nat /\ clock <= clock'
      BY <1>6, <2>3
    <3>4. row'[req.list[i].w] # {} /\ req.list[i].completed <= clock'
      <4>1. row'[req.list[i].w] # {}
        BY <1>4, <3>1, <3>3
      <4>2. PICK t \in Nat : t = req.list[i].completed
        BY <3>3
      <4> QED BY <1>3, <3>1, <3>2, <3>3, <4>1, <4>2
    <3>5. ASSUME NEW v \in req.keys, wf'[v].status = "COMPLETED"
          PROVE  wf'[v].completed # req.list[i].completed
      <4>1. v \in Workflows
        BY <2>2
      <4>2. wf'[v] = wf[v] \/ wf'[v].completed = clock + 1
        BY <1>6, <3>5, <4>1
      <4> QED BY <1>3, <3>1, <3>3, <3>5, <4>2
    <3> QED BY <3>4, <3>5
  <2> QED BY <1>2, <2>4, <2>5 DEF IInv, Listing
<1> QED BY <1>1, <1>5, <1>6, <1>7 DEF IInv

(* The steps of a request. *)
(* A request that changes nothing of the workflows needs its own part.     *)
LEMMA RequestFrame ==
  ASSUME IInv, UNCHANGED <<wf, row, clock, history>>,
         req' \in ReqType, req'.todo \subseteq Having(req'.list, "COMPLETED"), Answer', Listing'
  PROVE  IInv'
<1>1. TypeOK'
  BY DEF IInv, TypeOK, ReqType
<1>2. Stored'
  BY DEF IInv, Stored
<1> QED BY <1>1, <1>2 DEF IInv

(* The keys are known, and nothing is listed yet.                          *)
LEMMA ListIInv ==
  ASSUME IInv, NEW kind \in Kinds, List(kind)
  PROVE  IInv'
<1>1. PICK keys \in SUBSET Workflows : req' = [Idle EXCEPT !.kind = kind, !.at = "states", !.keys = keys]
  BY DEF List
<1>2. /\ req' = [kind |-> kind, at |-> "states", keys |-> keys, list |-> << >>, todo |-> {},
                 got |-> << >>, queue |-> 0, spark |-> << >>, whole |-> TRUE]
      /\ req'.todo = {} /\ req'.list = << >> /\ req'.got = << >> /\ req'.at = "states"
  BY <1>1 DEF Idle
<1>3. UNCHANGED <<wf, row, clock, history>>
  BY DEF List
<1>4. req' \in ReqType
  <2>1. << >> \in Seq(Listed) /\ << >> \in Seq(Point) /\ << >> \in Seq(Nat)
    OBVIOUS
  <2> QED BY <1>2, <2>1 DEF ReqType
<1>5. Answer' /\ Listing'
  BY <1>2, NothingListed DEF Answer, Listing
<1> QED BY <1>2, <1>3, <1>4, <1>5, RequestFrame

(* One more state is listed; its time is none of those listed before.      *)
LEMMA ReadStateIInv ==
  ASSUME IInv, NEW w \in Workflows, ReadState(w)
  PROVE  IInv'
<1>1. req \in ReqType /\ req.todo \subseteq Having(req.list, "COMPLETED")
  BY DEF IInv, TypeOK, ReqType
<1>2. /\ req.at = "states" /\ w \in req.keys
      /\ UNCHANGED <<wf, row, clock, history>>
      /\ req' = [req EXCEPT !.keys = @ \ {w},
                            !.list = IF wf[w].status = "absent" THEN @
                                     ELSE Append(@, [w |-> w, status |-> wf[w].status,
                                                     agents |-> wf[w].agents,
                                                     completed |-> wf[w].completed])]
  BY DEF ReadState
<1>3. req.todo = {} /\ req.got = << >>
  BY <1>2 DEF IInv, Answer
<1>4. wf[w] \in [status : Statuses, agents : [Agents -> Raw], completed : Nat]
  BY DEF IInv, TypeOK
<1>5. PICK p : p = [w |-> w, status |-> wf[w].status, agents |-> wf[w].agents, completed |-> wf[w].completed]
  OBVIOUS
<1>6. p \in Listed /\ p.w = w /\ p.status = wf[w].status /\ p.completed = wf[w].completed
  BY <1>4, <1>5 DEF Listed
<1>7. req.list \in Seq(Listed) /\ req.keys \subseteq Workflows
  BY <1>1 DEF ReqType
<1>8. PICK list : list = IF wf[w].status = "absent" THEN req.list ELSE Append(req.list, p)
  OBVIOUS
<1>9. list \in Seq(Listed)
  BY <1>6, <1>7, <1>8
<1>10. req' = [req EXCEPT !.keys = req.keys \ {w}, !.list = list]
  BY <1>2, <1>5, <1>8
<1>11. /\ req' \in ReqType /\ req'.at = "states" /\ req'.list = list /\ req'.keys = req.keys \ {w}
       /\ req'.todo = {} /\ req'.got = << >>
  BY <1>1, <1>2, <1>3, <1>7, <1>9, <1>10 DEF ReqType
<1>12. Answer'
  BY <1>11 DEF Answer
<1>13. Listing'
  <2>0. ASSUME \A i \in Having(list, "COMPLETED") :
                 /\ row[list[i].w] # {} /\ list[i].completed <= clock
                 /\ \A v \in req.keys \ {w} : wf[v].status = "COMPLETED" => wf[v].completed # list[i].completed,
               \A i, j \in Having(list, "COMPLETED") : i # j => list[i].completed # list[j].completed
        PROVE  Listing'
    <3>1. req'.list = list /\ req'.keys = req.keys \ {w} /\ wf' = wf /\ row' = row /\ clock' = clock
      BY <1>2, <1>11
    <3> QED BY <2>0, <3>1, Zenon DEF Listing, Having
  <2>1. CASE wf[w].status = "absent"
    <3>1. list = req.list
      BY <1>8, <2>1
    <3>2. \A i \in Having(req.list, "COMPLETED") :
            /\ row[req.list[i].w] # {} /\ req.list[i].completed <= clock
            /\ \A v \in req.keys \ {w} : wf[v].status = "COMPLETED" => wf[v].completed # req.list[i].completed
      BY DEF IInv, Listing
    <3> QED BY <3>1, <3>2, <2>0 DEF IInv, Listing
  <2>2. CASE wf[w].status # "absent"
    <3>1. PICK n \in Nat : n = Len(req.list)
      BY <1>7
    <3>2. /\ DOMAIN list = 1..(n + 1) /\ DOMAIN req.list = 1..n
          /\ \A i \in 1..n : list[i] = req.list[i]
          /\ list[n + 1] = p
      BY <1>6, <1>7, <1>8, <2>2, <3>1
    <3>3. \A i \in Having(list, "COMPLETED") :
            \/ i \in Having(req.list, "COMPLETED") /\ list[i] = req.list[i]
            \/ i = n + 1 /\ list[i] = p /\ wf[w].status = "COMPLETED"
      BY <1>6, <3>1, <3>2 DEF Having
    <3>4. \A i \in Having(req.list, "COMPLETED") :
            /\ row[req.list[i].w] # {} /\ req.list[i].completed <= clock
            /\ \A v \in req.keys : wf[v].status = "COMPLETED" => wf[v].completed # req.list[i].completed
      BY DEF IInv, Listing
    <3>5. wf[w].status = "COMPLETED" =>
            /\ row[w] # {} /\ p.completed <= clock
            /\ \A v \in req.keys \ {w} : wf[v].status = "COMPLETED" => wf[v].completed # p.completed
      BY <1>6, <1>7 DEF IInv, Stored
    <3>6. \A i \in Having(list, "COMPLETED") :
            /\ row[list[i].w] # {} /\ list[i].completed <= clock
            /\ \A v \in req.keys \ {w} : wf[v].status = "COMPLETED" => wf[v].completed # list[i].completed
      BY <1>6, <3>3, <3>4, <3>5
    <3>7. \A i, j \in Having(req.list, "COMPLETED") : i # j => req.list[i].completed # req.list[j].completed
      BY DEF IInv, Listing
    <3>8. \A i, j \in Having(list, "COMPLETED") : i # j => list[i].completed # list[j].completed
      BY <1>2, <1>6, <3>3, <3>4, <3>7
    <3> QED BY <3>6, <3>8, <2>0
  <2> QED BY <2>1, <2>2
<1>14. req'.todo \subseteq Having(req'.list, "COMPLETED")
  BY <1>11
<1> QED BY <1>2, <1>11, <1>12, <1>13, <1>14, RequestFrame

(* The list is closed: what it calls completed is to be read.              *)
LEMMA EndListIInv ==
  ASSUME IInv, EndList
  PROVE  IInv'
<1>1. req \in ReqType
  BY DEF IInv, TypeOK, ReqType
<1>2. PICK done : done = Having(req.list, "COMPLETED")
  OBVIOUS
<1>3. /\ req.at = "states" /\ UNCHANGED <<wf, row, clock, history>>
      /\ req' = [req EXCEPT !.at = IF req.kind = "metrics" THEN "queue" ELSE "outputs",
                            !.keys = {}, !.todo = done]
  BY <1>2 DEF EndList
<1>4. req.list \in Seq(Listed) /\ req.got = << >>
  BY <1>1, <1>3 DEF ReqType, IInv, Answer
<1>5. done \in SUBSET (1..Len(req.list)) /\ Len(req.list) \in Nat
  BY <1>2, <1>4 DEF Having
<1>6. /\ req' \in ReqType /\ req'.at \in {"queue", "outputs"} /\ req'.list = req.list /\ req'.keys = {}
      /\ req'.todo = done /\ req'.got = << >>
  <2>1. done \in SUBSET Nat
    BY <1>5
  <2> QED BY <1>1, <1>3, <1>4, <2>1 DEF ReqType
<1>7. Listing'
  BY <1>3, <1>6 DEF IInv, Listing
<1>8. Answer'
  <2>1. \A i \in done : row[req.list[i].w] # {}
    BY <1>2 DEF IInv, Listing
  <2>2. \A i, j \in done : i # j => req.list[i].completed # req.list[j].completed
    BY <1>2 DEF IInv, Listing
  <2>3. Len(<< >>) + Cardinality(done) = Count(req.list, "COMPLETED")
    <3>1. IsFiniteSet(done)
      <4>1. IsFiniteSet(1..Len(req.list))
        BY <1>5, FS_Interval
      <4> QED BY <1>5, <4>1, FS_Subset
    <3>2. Cardinality(done) \in Nat
      BY <3>1, FS_CardinalityType
    <3> QED BY <1>2, <3>2 DEF Count
  <2> QED BY <1>3, <1>6, <2>1, <2>2, <2>3 DEF Answer
<1>9. req'.todo \subseteq Having(req'.list, "COMPLETED")
  BY <1>2, <1>6
<1> QED BY <1>3, <1>6, <1>7, <1>8, <1>9, RequestFrame

LEMMA HitlQueueIInv ==
  ASSUME IInv, HitlQueue
  PROVE  IInv'
<1>1. PICK n \in {Cardinality({w \in Workflows : wf[w].status = "PAUSED"})} \cup (IF MayFail THEN {0} ELSE {}) :
        req' = [req EXCEPT !.queue = n, !.at = "outputs"]
  BY Zenon DEF HitlQueue
<1>2. n \in Nat
  <2>1. Cardinality({w \in Workflows : wf[w].status = "PAUSED"}) \in Nat
    BY DashboardAssumption, FS_Subset, FS_CardinalityType
  <2> QED BY <1>1, <2>1
<1>3. req \in ReqType
  BY DEF IInv, TypeOK, ReqType
<1>4. /\ req' \in ReqType /\ req'.at = "outputs" /\ req'.keys = req.keys
      /\ req'.list = req.list /\ req'.todo = req.todo /\ req'.got = req.got /\ req'.whole = req.whole
  BY <1>1, <1>2, <1>3 DEF ReqType
<1>5. UNCHANGED <<wf, row, clock, history>> /\ req.at = "queue"
  BY DEF HitlQueue
<1>6. Answer' /\ Listing'
  BY <1>4, <1>5 DEF IInv, Answer, Listing, Count, Having
<1>7. req'.todo \subseteq Having(req'.list, "COMPLETED")
  BY <1>4 DEF IInv, TypeOK
<1> QED BY <1>4, <1>5, <1>6, <1>7, RequestFrame

(* An output is read, or the answer is no longer whole.                    *)
LEMMA GetOutputIInv ==
  ASSUME IInv, GetOutput
  PROVE  IInv'
<1>1. PICK i : i = Min(req.todo)
  OBVIOUS
<1>2. PICK s : s = req.list[i]
  OBVIOUS
<1>3. req \in ReqType /\ req.todo \subseteq Having(req.list, "COMPLETED") /\ req.todo \in SUBSET Nat
  <2>1. req \in ReqType /\ req.todo \subseteq Having(req.list, "COMPLETED")
    BY Zenon DEF IInv, TypeOK, ReqType
  <2> QED BY <2>1 DEF ReqType
<1>4. i \in req.todo
  BY <1>1, <1>3, MinOf, Zenon DEF GetOutput
<1>5. s \in Listed /\ row[s.w] # {}
  <2>1. req.list \in Seq(Listed)
    BY <1>3, SMTT(30) DEF ReqType
  <2>2. i \in DOMAIN req.list
    BY <1>3, <1>4, Zenon DEF Having
  <2>3. s \in Listed
    <3>1. DOMAIN req.list = 1..Len(req.list)
      BY <2>1, LenProperties
    <3>2. i \in 1..Len(req.list)
      BY <2>2, <3>1, SMT
    <3> QED BY <1>2, <2>1, <3>2, ElementOfSeq, Zenon
  <2> QED BY <1>2, <1>4, <2>3 DEF IInv, Answer
<1>6. UNCHANGED <<wf, row, clock, history>> /\ req.at = "outputs"
  BY Zenon DEF GetOutput
<1>7. /\ IsFiniteSet(req.todo) /\ Cardinality(req.todo) \in Nat /\ Cardinality(req.todo \ {i}) \in Nat
      /\ Cardinality(req.todo \ {i}) = Cardinality(req.todo) - 1
  <2>1. req.list \in Seq(Listed)
    BY <1>3, SMTT(30) DEF ReqType
  <2>2. req.todo \in SUBSET (1..Len(req.list)) /\ Len(req.list) \in Nat
    BY <1>3, <2>1 DEF Having
  <2>3. IsFiniteSet(req.todo)
    <3>1. IsFiniteSet(1..Len(req.list))
      BY <2>2, FS_Interval
    <3> QED BY <2>2, <3>1, FS_Subset
  <2>4. IsFiniteSet(req.todo \ {i})
    BY <2>3, FS_RemoveElement
  <2> QED BY <1>4, <2>3, <2>4, FS_RemoveElement, FS_CardinalityType
<1>8. CASE \E r \in row[s.w] : req' = [req EXCEPT !.todo = @ \ {i},
                                                  !.got = Append(@, [w |-> s.w, completed |-> s.completed, report |-> r])]
  <2>1. PICK r \in row[s.w] :
          req' = [req EXCEPT !.todo = req.todo \ {i},
                             !.got = Append(req.got, [w |-> s.w, completed |-> s.completed, report |-> r])]
    BY <1>8, Zenon
  <2>2. PICK p : p = [w |-> s.w, completed |-> s.completed, report |-> r]
    OBVIOUS
  <2>3. p \in Point /\ p.completed = s.completed
    <3>1. row \in [Workflows -> SUBSET Reports] /\ s.w \in Workflows /\ s.completed \in Nat
      BY <1>5 DEF IInv, TypeOK, Listed
    <3>2. r \in Reports
      BY <2>1, <3>1
    <3> QED BY <2>2, <3>1, <3>2 DEF Point
  <2>4. req.got \in Seq(Point)
    BY <1>3, SMTT(30) DEF ReqType
  <2>5. PICK got : got = Append(req.got, p)
    OBVIOUS
  <2>6. /\ got \in Seq(Point) /\ Len(got) = Len(req.got) + 1 /\ Len(req.got) \in Nat
        /\ \A k \in 1..Len(req.got) : got[k] = req.got[k]
        /\ got[Len(req.got) + 1] = p
        /\ DOMAIN got = 1..(Len(req.got) + 1) /\ DOMAIN req.got = 1..Len(req.got)
    BY <2>3, <2>4, <2>5
  <2>7. /\ req' \in ReqType /\ req'.at = "outputs" /\ req'.got = got /\ req'.todo = req.todo \ {i}
        /\ req'.list = req.list /\ req'.whole = req.whole /\ req'.keys = req.keys
    <3>1. req' = [req EXCEPT !.todo = req.todo \ {i}, !.got = got]
      BY <2>1, <2>2, <2>5
    <3>2. req.todo \ {i} \in SUBSET Nat
      BY <1>3
    <3> QED BY <1>3, <1>6, <2>6, <3>1, <3>2 DEF ReqType
  <2>8. Answer'
    <3>1. \A j \in req.todo \ {i} : row[req.list[j].w] # {}
      BY DEF IInv, Answer
    <3>2. \A j, k \in req.todo \ {i} : j # k => req.list[j].completed # req.list[k].completed
      BY DEF IInv, Answer
    <3>3. \A k \in DOMAIN got, j \in req.todo \ {i} : got[k].completed # req.list[j].completed
      <4> SUFFICES ASSUME NEW k \in DOMAIN got, NEW j \in req.todo \ {i}
                   PROVE  got[k].completed # req.list[j].completed
        OBVIOUS
      <4>1. CASE k \in 1..Len(req.got)
        BY <2>6, <4>1 DEF IInv, Answer
      <4>2. CASE k = Len(req.got) + 1
        BY <1>2, <1>4, <2>3, <2>6, <4>2 DEF IInv, Answer
      <4>3. k \in 1..Len(req.got) \/ k = Len(req.got) + 1
        BY <2>6
      <4> QED BY <4>1, <4>2, <4>3
    <3>4. \A k, l \in DOMAIN got : k # l => got[k].completed # got[l].completed
      <4>1. \A k \in 1..Len(req.got) : got[k].completed # p.completed
        BY <1>2, <1>4, <2>3, <2>6 DEF IInv, Answer
      <4>2. \A k, l \in 1..Len(req.got) : k # l => got[k].completed # got[l].completed
        BY <2>6 DEF IInv, Answer
      <4>3. \A k \in DOMAIN got : k \in 1..Len(req.got) \/ k = Len(req.got) + 1
        BY <2>6
      <4> QED BY <2>6, <4>1, <4>2, <4>3
    <3>5. req.whole => Len(got) + Cardinality(req.todo \ {i}) = Count(req.list, "COMPLETED")
      <4>1. req.whole => Len(req.got) + Cardinality(req.todo) = Count(req.list, "COMPLETED")
        BY <1>6 DEF IInv, Answer
      <4> QED BY <1>7, <2>6, <4>1
    <3> QED BY <1>6, <2>7, <3>1, <3>2, <3>3, <3>4, <3>5 DEF Answer, Count, Having
  <2>9. req'.todo \subseteq Having(req'.list, "COMPLETED")
    BY <1>3, <2>7
  <2>10. Listing'
    BY <1>6, <2>7 DEF IInv, Listing, Having
  <2> QED BY <1>6, <2>7, <2>8, <2>9, <2>10, RequestFrame
<1>9. CASE req' = [req EXCEPT !.todo = @ \ {i}, !.whole = FALSE]
  <2>1. req.todo \ {i} \in SUBSET Nat
    BY <1>3
  <2>2. /\ req' \in ReqType /\ req'.at = "outputs" /\ req'.got = req.got /\ req'.todo = req.todo \ {i}
        /\ req'.list = req.list /\ req'.whole = FALSE /\ req'.keys = req.keys
    BY <1>3, <1>6, <1>9, <2>1 DEF ReqType
  <2>3. Answer' /\ Listing'
    BY <1>6, <2>2 DEF IInv, Answer, Listing, Having
  <2>4. req'.todo \subseteq Having(req'.list, "COMPLETED")
    BY <1>3, <2>2
  <2> QED BY <1>6, <2>2, <2>3, <2>4, RequestFrame
<1>10. \/ \E r \in row[s.w] : req' = [req EXCEPT !.todo = @ \ {i},
                                                 !.got = Append(@, [w |-> s.w, completed |-> s.completed, report |-> r])]
       \/ req' = [req EXCEPT !.todo = @ \ {i}, !.whole = FALSE]
  BY <1>1, <1>2, <1>5, Zenon DEF GetOutput
<1> QED BY <1>8, <1>9, <1>10, Zenon

LEMMA PaddedType ==
  ASSUME NEW s \in Seq(Nat)
  PROVE  PadSeries(s) \in Seq(Nat)
<1>1. CASE s = << >>
  <2>1. PadSeries(s) = [k \in 1..Recent |-> 0]
    BY <1>1, Zenon DEF PadSeries
  <2>2. Recent \in Nat
    BY DashboardAssumption
  <2> QED BY <2>1, <2>2
<1>2. CASE s # << >>
  <2>1. PICK n \in Nat \ {0} : n = Len(s)
    BY <1>2
  <2>2. PICK m \in 1..n : m = Min({Recent, Len(s)}) /\ m <= Recent
    BY <2>1, MinOfTwo, DashboardAssumption
  <2>3. PICK from \in 1..n : from = n - m + 1
    BY <2>2
  <2>4. PICK tail : tail = SubSeq(s, from, n)
    OBVIOUS
  <2>5. tail \in Seq(Nat) /\ Len(tail) = n - from + 1
    <3>1. \A k \in from..n : s[k] \in Nat
      BY <2>1
    <3>2. from \in Int /\ n \in Int /\ from <= n
      OBVIOUS
    <3>3. tail \in Seq(Nat) /\ Len(tail) = IF from <= n THEN n - from + 1 ELSE 0
      BY <2>4, <3>1, <3>2, SubSeqProperties
    <3> QED BY <3>2, <3>3
  <2>6. Len(tail) = m /\ Head(tail) \in Nat
    <3>1. Len(tail) = m
      BY <2>3, <2>5
    <3>2. tail # << >>
      BY <2>5, <3>1
    <3> QED BY <2>5, <3>1, <3>2
  <2>7. PICK pad : pad = [k \in 1..(Recent - Len(tail)) |-> Head(tail)]
    OBVIOUS
  <2>8. pad \in Seq(Nat)
    <3>1. Recent - Len(tail) \in Nat
      BY <2>2, <2>6, DashboardAssumption
    <3> QED BY <2>6, <2>7, <3>1
  <2>9. PadSeries(s) = pad \o tail
    <3>1. tail = SubSeq(s, Len(s) - Min({Recent, Len(s)}) + 1, Len(s))
      BY <2>1, <2>2, <2>3, <2>4
    <3> QED BY <1>2, <2>7, <3>1, Zenon DEF PadSeries
  <2> QED BY <2>5, <2>8, <2>9
<1> QED BY <1>1, <1>2

LEMMA SparklineType ==
  ASSUME TypeOK
  PROVE  SparklineSeries \in Seq(Nat)
<1>1. PICK T : T = [at : Nat, risk : Nat, gaps : Nat]
  OBVIOUS
<1>2. history \in Seq(T)
  BY <1>1 DEF TypeOK
<1>3. PICK m \in 0..Len(history) : m = Min({MaxRows, Len(history)})
  BY <1>2, MinOfTwo, DashboardAssumption
<1>4. PICK rows : rows = SubSeq(history, 1, m)
  OBVIOUS
<1>5. [i \in 1..Len(rows) |-> rows[i].risk] \in Seq(Nat)
  <2>1. m \in Int /\ 1 \in Int /\ \A k \in 1..m : history[k] \in T
    <3>1. Len(history) \in Nat /\ \A k \in 1..Len(history) : history[k] \in T
      BY <1>2
    <3>2. m \in 0..Len(history) /\ m \in Int /\ 1 \in Int
      BY <1>3, <3>1
    <3> QED BY <3>1, <3>2
  <2>2. rows \in Seq(T)
    BY <1>4, <2>1, SubSeqProperties
  <2>3. Len(rows) \in Nat /\ \A i \in 1..Len(rows) : rows[i] \in T
    BY <2>2
  <2>4. \A i \in 1..Len(rows) : rows[i].risk \in Nat
    BY <1>1, <2>3
  <2> QED BY <2>3, <2>4
<1>6. SparklineSeries = IF rows = << >> THEN << >> ELSE PadSeries([i \in 1..Len(rows) |-> rows[i].risk])
  BY <1>3, <1>4, Zenon DEF SparklineSeries
<1> QED BY <1>5, <1>6, PaddedType

LEMMA GetHistoryIInv ==
  ASSUME IInv, GetHistory
  PROVE  IInv'
<1>1. PICK s \in {SparklineSeries, << >>} : req' = [req EXCEPT !.at = "answered", !.spark = s]
  <2>1. PICK s \in IF req.kind = "metrics" THEN {SparklineSeries} \cup (IF MayFail THEN {<< >>} ELSE {})
                   ELSE {<< >>} : req' = [req EXCEPT !.at = "answered", !.spark = s]
    BY Zenon DEF GetHistory
  <2>2. s \in {SparklineSeries, << >>}
    OBVIOUS
  <2> QED BY <2>1, <2>2
<1>2. s \in Seq(Nat)
  <2>1. SparklineSeries \in Seq(Nat) /\ << >> \in Seq(Nat)
    BY SparklineType DEF IInv
  <2> QED BY <1>1, <2>1
<1>3. req \in ReqType
  BY DEF IInv, TypeOK, ReqType
<1>4. /\ req' \in ReqType /\ req'.at = "answered" /\ req'.keys = req.keys
      /\ req'.list = req.list /\ req'.todo = req.todo /\ req'.got = req.got /\ req'.whole = req.whole
  BY <1>1, <1>2, <1>3 DEF ReqType
<1>5. UNCHANGED <<wf, row, clock, history>> /\ req.todo = {} /\ req.at = "outputs"
  BY DEF GetHistory
<1>6. Answer' /\ Listing'
  BY <1>4, <1>5 DEF IInv, Answer, Listing, Count, Having
<1>7. req'.todo \subseteq Having(req'.list, "COMPLETED")
  BY <1>4 DEF IInv, TypeOK
<1> QED BY <1>4, <1>5, <1>6, <1>7, RequestFrame

LEMMA NextIInv ==
  ASSUME IInv, [Next]_vars
  PROVE  IInv'
<1>1. CASE \E w \in Workflows : WorkflowStep(w)
  BY <1>1, WorkflowStepIInv
<1>2. CASE \E kind \in Kinds : List(kind)
  BY <1>2, ListIInv
<1>3. CASE HitlQueue
  BY <1>3, HitlQueueIInv
<1>4. CASE GetOutput
  BY <1>4, GetOutputIInv
<1>5. CASE GetHistory
  BY <1>5, GetHistoryIInv
<1>7. CASE \E w \in Workflows : ReadState(w)
  BY <1>7, ReadStateIInv
<1>8. CASE EndList
  BY <1>8, EndListIInv
<1>6. CASE ListUnavailable \/ UNCHANGED vars
  <2>1. UNCHANGED <<wf, row, clock, history, req>>
    BY <1>6 DEF ListUnavailable, vars
  <2>2. TypeOK' /\ Stored'
    BY <2>1 DEF IInv, TypeOK, Stored, Having
  <2>3. Answer' /\ Listing'
    BY <2>1 DEF IInv, Answer, Listing, Having, Count
  <2> QED BY <2>2, <2>3 DEF IInv
<1> QED BY <1>1, <1>2, <1>3, <1>4, <1>5, <1>6, <1>7, <1>8, Zenon DEF Next, WorkflowStep

(* The invariant holds in every state of every behaviour.                  *)
THEOREM AnswerInvariant == Spec => []IInv
<1>1. Init => IInv
  BY InitIInv
<1>2. IInv /\ [Next]_vars => IInv'
  BY NextIInv
<1> QED BY <1>1, <1>2, PTL DEF Spec

(* The variables have their types, whatever the calls answer.              *)
THEOREM DashboardTypeCorrect == Spec => []TypeOK
<1>1. IInv => TypeOK
  BY DEF IInv
<1> QED BY <1>1, AnswerInvariant, PTL

(* Every workflow an answer counts as completed has its findings in it,    *)
(* unless a call failed, though it was listed before they were read.       *)
THEOREM CompletedHavePointsHolds == Spec => []CompletedHavePoints
<1>1. IInv => CompletedHavePoints
  <2> SUFFICES ASSUME IInv, req.at = "answered", req.whole
               PROVE  Len(req.got) = Count(req.list, "COMPLETED")
    BY DEF CompletedHavePoints, Answered
  <2>1. req.todo = {} /\ Cardinality({}) = 0
    BY FS_EmptySet DEF IInv, Answer
  <2>2. Len(req.got) \in Nat
    <3>1. req.got \in Seq(Point)
      BY DEF IInv, TypeOK
    <3> QED BY <3>1
  <2>3. Len(req.got) + Cardinality(req.todo) = Count(req.list, "COMPLETED")
    BY DEF IInv, Answer
  <2> QED BY <2>1, <2>2, <2>3
<1> QED BY <1>1, AnswerInvariant, PTL

(* The end of the trend, and the risk shown, is that of the workflow that  *)
(* completed last of those read, in whatever order they were listed; only  *)
(* a risk of one is shown as a whole.                                      *)
THEOREM KpiIsLatestHolds == Spec => []KpiIsLatest
<1>1. IInv => KpiIsLatest
  <2> SUFFICES ASSUME IInv, NEW i \in DOMAIN req.got,
                      \A j \in DOMAIN req.got : req.got[j].completed <= req.got[i].completed
               PROVE  /\ Last(Metrics(req).risk_trend) = req.got[i].report.risk
                      /\ \/ Metrics(req).risk_score = Last(Metrics(req).risk_trend)
                         \/ Metrics(req).risk_score = 100 /\ Last(Metrics(req).risk_trend) = 1
    BY DEF KpiIsLatest
  <2>1. req.got \in Seq(Point) /\ \A j \in DOMAIN req.got : j # i => req.got[j].completed # req.got[i].completed
    BY DEF IInv, TypeOK, Answer
  <2>2. PICK n \in Nat \ {0} : n = Len(req.got)
    BY <2>1
  <2>3. PICK points : points = SortPoints(req.got)
    OBVIOUS
  <2>4. points = [k \in 1..n |-> points[k]] /\ points[n] = req.got[i]
    BY <2>1, <2>2, <2>3, LatestLast
  <2>5. Len(points) = n /\ points # << >>
    BY <2>4
  <2>6. PICK risks : risks = Risks(points)
    OBVIOUS
  <2>7. risks = [k \in 1..n |-> risks[k]] /\ risks[n] = req.got[i].report.risk
    <3>1. risks = [k \in 1..n |-> points[k].report.risk]
      BY <2>5, <2>6 DEF Risks
    <3> QED BY <2>2, <2>4, <3>1
  <2>8. Last(PadSeries(risks)) = req.got[i].report.risk
    BY <2>7, PaddedLast
  <2>9. /\ Metrics(req).risk_score = RiskScore(req.got[i].report.risk)
        /\ Metrics(req).risk_trend = PadSeries(risks)
    <3>1. Last(points) = req.got[i]
      BY <2>4, <2>5 DEF Last
    <3>2. Metrics(req).risk_score = RiskScore(Last(points).report.risk)
      BY <2>3, <2>5 DEF Metrics
    <3> QED BY <2>3, <2>6, <3>1, <3>2 DEF Metrics
  <2>10. req.got[i].report.risk \in Nat
    <3>1. req.got[i] \in Point
      BY <2>1
    <3> QED BY <3>1, DashboardAssumption DEF Point
  <2>11. PICK risk \in Nat : risk = req.got[i].report.risk
    BY <2>10
  <2>12. RiskScore(risk) = risk \/ (RiskScore(risk) = 100 /\ risk = 1)
    BY <2>11 DEF RiskScore
  <2> QED BY <2>8, <2>9, <2>11, <2>12
<1> QED BY <1>1, AnswerInvariant, PTL

(* An agent's row says what the listed workflows that go on say of it,     *)
(* running before an error before the rest, in whatever order they come.   *)
THEOREM RowsHonestHolds == Spec => []RowsHonest
<1>1. IInv => RowsHonest
  <2> SUFFICES ASSUME IInv
               PROVE  LET rows == Metrics(req).agents
                          is(a, raw) == \E i \in DOMAIN req.list :
                            req.list[i].status \in {"RUNNING", "PAUSED"} /\ req.list[i].agents[a] = raw
                      IN  \A a \in Agents \cap DOMAIN rows :
                            /\ (rows[a] = "running") <=> is(a, "RUNNING")
                            /\ (rows[a] = "error") <=> (is(a, "FAILED") /\ ~is(a, "RUNNING"))
    BY Zenon DEF RowsHonest
  <2>1. req.list \in Seq(Listed) /\ DOMAIN req.list = 1..Len(req.list)
    BY DEF IInv, TypeOK
  <2>2. Metrics(req).agents = BuildAgents(req.list)
    BY DEF Metrics
  <2>3. \A a \in Agents \cap DOMAIN BuildAgents(req.list) :
          RowSays(BuildAgents(req.list)[a], req.list, a, Len(req.list))
    BY <2>1, AgentsSay
  <2>4. \A a, raw : Says(req.list, a, Len(req.list), raw) <=>
          \E i \in DOMAIN req.list : req.list[i].status \in {"RUNNING", "PAUSED"} /\ req.list[i].agents[a] = raw
    BY <2>1 DEF Says
  <2>5. ASSUME NEW a \in Agents \cap DOMAIN BuildAgents(req.list)
        PROVE  /\ BuildAgents(req.list)[a] = "running" <=>
                    \E i \in DOMAIN req.list :
                      req.list[i].status \in {"RUNNING", "PAUSED"} /\ req.list[i].agents[a] = "RUNNING"
               /\ BuildAgents(req.list)[a] = "error" <=>
                    /\ \E i \in DOMAIN req.list :
                         req.list[i].status \in {"RUNNING", "PAUSED"} /\ req.list[i].agents[a] = "FAILED"
                    /\ ~ \E i \in DOMAIN req.list :
                         req.list[i].status \in {"RUNNING", "PAUSED"} /\ req.list[i].agents[a] = "RUNNING"
    <3>1. RowSays(BuildAgents(req.list)[a], req.list, a, Len(req.list))
      BY <2>3
    <3> QED BY <3>1, <2>4, Zenon DEF RowSays
  <2> QED BY <2>2, <2>5, Zenon
<1> QED BY <1>1, AnswerInvariant, PTL
=============================================================================
