--------------------------- MODULE ActionGateProofs ---------------------------
(***************************************************************************)
(* What the gate, the executor and the queue keep true for any workflows,  *)
(* findings and requests, whatever raises or times out: an inductive       *)
(* invariant that ties where every request stands to the rows and to what  *)
(* was accepted and carried out, and the theorems that follow from it.     *)
(***************************************************************************)
EXTENDS ActionGate, FiniteSetTheorems, SequenceTheorems, TLAPS

Executing == {"approved", "fetch", "recheck", "dispatch"}
Accepting == {"approve", "mark", "executed"} \union Executing

Going     == Executing \union {"mark", "failed"}

(* Where a request of each kind may stand, and on what.                    *)
Standing(x) ==
  /\ x.at \in Accepting => x.kind = "accept"
  /\ x.at \in {"reject", "rejected"} => x.kind = "reject"
  /\ x.at \in {"load", "resume"} => x.kind = "resume"
  /\ x.at \in {"idle", "paused", "actions", "owners"} => x.kind = "queue"
  /\ x.kind \in {"accept", "reject"} => x.on \in Actions
  /\ x.kind # "queue" => x.items = << >> /\ x.rows = {} /\ x.waiting = {} /\ x.steady = {}

(* What has been accepted and carried out on account of a request.         *)
Earned(x, r) ==
  /\ x.at \in Executing => r \in accepted \ dispatched
  /\ x.at \in {"idle", "approve"} => r \notin dispatched
  /\ x.at = "mark" => r \in dispatched
  /\ r \in dispatched => x.kind = "accept"

(* A status is some request's doing, and approved never the last word of   *)
(* one that came to its end.                                               *)
RowTold(a) ==
  /\ row[a] = "executed" => \E r \in dispatched : req[r].on = a
  /\ row[a] = "rejected" => \E r \in Requests : req[r].kind = "reject" /\ req[r].on = a
  /\ row[a] = "approved" => \E r \in Requests :
       req[r].kind = "accept" /\ req[r].on = a /\ req[r].at \in Going

(* A decision that is past its update has left its mark on the row.        *)
Written(x) ==
  x.kind \in {"accept", "reject"} /\ x.at \notin {"approve", "reject", "failed"} =>
    row[x.on] \notin {"none", "pending_approval"}

Waits(a, c) ==
  row[a] = "pending_approval" /\ WorkflowOf[a] \in stored /\ ClientOf[WorkflowOf[a]] = c
HasEntry(items, w) == \E i \in Listed(items) : Concerns(i, w)
Shows(x, a)        == Item("action", a) \in Listed(x.items)
CutOff(x, w)       == Cardinality(x.found) >= PausedLimit /\ w \notin x.found

(* What a queue request has read and has still to read.                    *)
Queue(x) ==
  /\ \A i, j \in DOMAIN x.items : x.items[i] = x.items[j] => i = j
  /\ \A a \in x.waiting : Waits(a, x.client)
  /\ \A b \in x.rows : row[b] # "none"
  /\ x.at = "paused" =>
       /\ x.items = << >>
       /\ \A w \in x.steady : w \in paused /\ ClientOf[w] = x.client /\ w \in x.todo \union x.found
  /\ x.at = "actions" =>
       /\ \A w \in x.steady : w \in x.todo \/ HasEntry(x.items, w) \/ CutOff(x, w)
       /\ \A w \in x.todo : ~HasEntry(x.items, w)
  /\ x.at \in {"owners", "done"} => \A w \in x.steady : HasEntry(x.items, w) \/ CutOff(x, w)
  /\ x.at = "owners" => \A a \in x.waiting : a \in x.left \/ Shows(x, a) \/ Outnumbered(x, a)
  /\ x.at = "done" => \A a \in x.waiting : Shows(x, a) \/ Outnumbered(x, a)

\* A request of which only the answer or the place has changed.
SameReading(y, x) ==
  /\ y.client = x.client /\ y.items = x.items /\ y.todo = x.todo /\ y.found = x.found
  /\ y.rows = x.rows /\ y.left = x.left /\ y.waiting = x.waiting /\ y.steady = x.steady

Typed ==
  /\ row \in [Actions -> Status] /\ born \in [Actions -> Nat] /\ stored \subseteq Workflows
  /\ paused \subseteq stored
  /\ proposing \subseteq Actions
  /\ scans \in Nat
  /\ accepted \subseteq Requests /\ dispatched \subseteq Requests
  /\ announced \in [Topics -> SUBSET Requests]

IInv ==
  /\ Typed
  /\ req \in [Requests -> Request]
  /\ \A r \in Requests : Standing(req[r])
  /\ \A r \in Requests : Earned(req[r], r)
  /\ \A a \in Actions : RowTold(a)
  /\ \A r \in Requests : Written(req[r])
  /\ \A r \in Requests : Queue(req[r])

-----------------------------------------------------------------------------
(* A finite set has an order, which lists each of its elements once.       *)
LEMMA Ordered ==
  ASSUME NEW S, IsFiniteSet(S)
  PROVE  /\ InSomeOrder(S) \in Seq(S)
         /\ Listed(InSomeOrder(S)) = S
         /\ \A i, j \in DOMAIN InSomeOrder(S) : InSomeOrder(S)[i] = InSomeOrder(S)[j] => i = j
<1> DEFINE n == Cardinality(S)
           Lists(s) == Listed(s) = S
<1>1. n \in Nat /\ ExistsBijection(1..n, S)
  BY FS_CardinalityType
<1>2. \E s \in [1..n -> S] : Lists(s)
  <2>1. PICK s \in Bijection(1..n, S) : TRUE
    BY <1>1 DEF ExistsBijection
  <2>2. s \in [1..n -> S] /\ \A t \in S : \E i \in 1..n : s[i] = t
    BY <2>1 DEF Bijection, Surjection
  <2> QED BY <2>2 DEF Listed
<1> DEFINE o == CHOOSE s \in [1..n -> S] : Lists(s)
<1>3. o \in [1..n -> S] /\ Lists(o)
  BY <1>2
<1>4. o = InSomeOrder(S)
  BY DEF InSomeOrder
<1> HIDE DEF o
<1>5. o \in Seq(S)
  BY <1>1, <1>3
<1>6. o \in Surjection(1..n, S)
  BY <1>3 DEF Surjection, Listed
<1>7. IsFiniteSet(1..n) /\ Cardinality(1..n) = Cardinality(S)
  BY <1>1, FS_Interval
<1>8. o \in Injection(1..n, S)
  BY <1>6, <1>7, FS_SurjSameCardinalityImpliesInj
<1>9. \A i, j \in 1..n : o[i] = o[j] => i = j
  BY <1>8 DEF Injection, IsInjective
<1> QED BY <1>3, <1>4, <1>5, <1>9

LEMMA ItemsFinite ==
  ASSUME NEW kind, NEW S, IsFiniteSet(S)
  PROVE  IsFiniteSet({Item(kind, x) : x \in S})
<1> DEFINE T == {Item(kind, x) : x \in S}
           f == [x \in S |-> Item(kind, x)]
<1>1. f \in Surjection(S, T)
  BY DEF Surjection
<1> HIDE DEF f, T
<1>2. IsFiniteSet(T)
  BY <1>1, FS_Surjection
<1> QED BY <1>2 DEF T

\* A list that shows nothing twice.
Distinct(s) == \A i, j \in DOMAIN s : s[i] = s[j] => i = j

(* A list followed by another one that it has nothing in common with.      *)
LEMMA Followed ==
  ASSUME NEW S, NEW s \in Seq(S), NEW t \in Seq(S), Distinct(s), Distinct(t),
         Listed(s) \cap Listed(t) = {}
  PROVE  /\ s \o t \in Seq(S)
         /\ Listed(s \o t) = Listed(s) \union Listed(t)
         /\ Distinct(s \o t)
<1> DEFINE u == s \o t
<1>1. /\ u \in Seq(S) /\ Len(u) = Len(s) + Len(t)
      /\ \A i \in 1..(Len(s) + Len(t)) : u[i] = IF i <= Len(s) THEN s[i] ELSE t[i - Len(s)]
  BY ConcatProperties
<1>2. /\ DOMAIN u = 1..(Len(s) + Len(t)) /\ DOMAIN s = 1..Len(s) /\ DOMAIN t = 1..Len(t)
      /\ Len(s) \in Nat /\ Len(t) \in Nat
  BY <1>1, LenProperties
<1> HIDE DEF u
<1>3. Listed(u) = Listed(s) \union Listed(t)
  <2>1. ASSUME NEW i \in DOMAIN u PROVE u[i] \in Listed(s) \union Listed(t)
    <3>1. CASE i <= Len(s)
      BY <1>1, <1>2, <2>1, <3>1 DEF Listed
    <3>2. CASE i > Len(s)
      <4>1. i - Len(s) \in 1..Len(t) /\ u[i] = t[i - Len(s)]
        BY <1>1, <1>2, <2>1, <3>2
      <4> QED BY <1>2, <4>1 DEF Listed
    <3> QED BY <1>2, <3>1, <3>2
  <2>2. ASSUME NEW i \in DOMAIN s PROVE s[i] \in Listed(u)
    <3>1. i \in DOMAIN u /\ u[i] = s[i]
      BY <1>1, <1>2, <2>2
    <3> QED BY <3>1 DEF Listed
  <2>3. ASSUME NEW i \in DOMAIN t PROVE t[i] \in Listed(u)
    <3>1. i + Len(s) \in DOMAIN u /\ u[i + Len(s)] = t[i]
      BY <1>1, <1>2, <2>3
    <3> QED BY <3>1 DEF Listed
  <2> QED BY <2>1, <2>2, <2>3 DEF Listed
<1>4. ASSUME NEW i \in DOMAIN u, NEW j \in DOMAIN u, u[i] = u[j]
      PROVE  i = j
  <2>1. ASSUME NEW k \in DOMAIN u PROVE
          \/ k \in DOMAIN s /\ u[k] = s[k] /\ u[k] \in Listed(s)
          \/ k - Len(s) \in DOMAIN t /\ u[k] = t[k - Len(s)] /\ u[k] \in Listed(t)
    <3>1. CASE k <= Len(s)
      BY <1>1, <1>2, <2>1, <3>1 DEF Listed
    <3>2. CASE k > Len(s)
      <4>1. k - Len(s) \in 1..Len(t) /\ u[k] = t[k - Len(s)]
        BY <1>1, <1>2, <2>1, <3>2
      <4> QED BY <1>2, <4>1 DEF Listed
    <3> QED BY <1>2, <3>1, <3>2
  <2> QED BY <1>2, <1>4, <2>1 DEF Distinct
<1>5. Distinct(u)
  BY <1>4 DEF Distinct
<1> QED BY <1>1, <1>3, <1>5 DEF u
-----------------------------------------------------------------------------
LEMMA InitHolds == Init => IInv
<1> SUFFICES ASSUME Init PROVE IInv
  OBVIOUS
<1>1. Blank \in Request
  BY DEF Blank, Request, Points, Kinds, Answers
<1>2. Typed
  BY ActionGateAssumption DEF Init, Typed, Status
<1>3. req \in [Requests -> Request] /\ \A r \in Requests : req[r] = Blank
  BY <1>1 DEF Init
<1>4. Standing(Blank) /\ Queue(Blank) /\ Written(Blank)
  BY DEF Standing, Queue, Written, Blank, Accepting, Executing
<1>5. \A r \in Requests : Earned(Blank, r)
  BY DEF Earned, Blank, Executing, Init
<1>6. \A a \in Actions : RowTold(a)
  BY DEF RowTold, Init
<1> QED BY <1>2, <1>3, <1>4, <1>5, <1>6 DEF IInv

(* What does not concern the queue is no trouble to it.                    *)
LEMMA QueueRests ==
  ASSUME NEW x \in Request, Standing(x), x.kind # "queue"
  PROVE  Queue(x)
BY DEF Standing, Queue

(* One request moves; no row changes.                                      *)
LEMMA RequestMoves ==
  ASSUME IInv, NEW r \in Requests, NEW y \in Request,
         req' = [req EXCEPT ![r] = y], UNCHANGED <<row, store, paused, proposing, scans, accepted>>,
         dispatched' \in {dispatched, dispatched \union {r}},
         announced' \in [Topics -> SUBSET Requests],
         Standing(y), Queue(y), Written(y), Earned(y, r)',
         req[r].at = "idle" \/ (y.kind = req[r].kind /\ y.on = req[r].on),
         req[r].at \in Going => y.at \in Going
  PROVE  IInv'
<1>1. Typed'
  BY DEF IInv, Typed, store
<1>2. /\ req' \in [Requests -> Request]
      /\ req'[r] = y
      /\ \A q \in Requests : q # r => req'[q] = req[q]
  BY DEF IInv
<1>3. \A q \in Requests : Standing(req[q])'
  BY <1>2 DEF IInv, Standing
<1>4. \A q \in Requests : Earned(req[q], q)'
  BY <1>2 DEF IInv, Earned
<1>5. \A q \in Requests : Written(req[q])'
  BY <1>2 DEF IInv, Written
<1>6. \A q \in Requests : Queue(req[q])'
  BY <1>2 DEF IInv, Queue, Waits, Outnumbered, store
<1>7. ASSUME NEW a \in Actions PROVE RowTold(a)'
  <2>1. ASSUME row[a] = "executed" PROVE \E q \in dispatched' : req'[q].on = a
    <3>1. PICK q \in dispatched : req[q].on = a
      BY <2>1 DEF IInv, RowTold
    <3>2. q \in Requests /\ req[q].at # "idle"
      BY DEF IInv, Typed, Earned
    <3>3. req'[q].on = a
      BY <1>2, <3>1, <3>2
    <3> QED BY <3>3
  <2>2. ASSUME row[a] = "rejected" PROVE \E q \in Requests : req'[q].kind = "reject" /\ req'[q].on = a
    <3>1. PICK q \in Requests : req[q].kind = "reject" /\ req[q].on = a
      BY <2>2 DEF IInv, RowTold
    <3>2. req[q].at # "idle"
      BY <3>1 DEF IInv, Standing
    <3> QED BY <1>2, <3>1, <3>2
  <2>3. ASSUME row[a] = "approved"
        PROVE  \E q \in Requests : req'[q].kind = "accept" /\ req'[q].on = a /\ req'[q].at \in Going
    <3>1. PICK q \in Requests : req[q].kind = "accept" /\ req[q].on = a /\ req[q].at \in Going
      BY <2>3 DEF IInv, RowTold
    <3>2. req[q].at # "idle"
      BY <3>1 DEF IInv, Standing
    <3> QED BY <1>2, <3>1, <3>2
  <2> QED BY <2>1, <2>2, <2>3 DEF RowTold
<1> QED BY <1>1, <1>2, <1>3, <1>4, <1>5, <1>6, <1>7 DEF IInv

(* A request that goes on to a point where its kind may stand.             *)
LEMMA Goes ==
  ASSUME IInv, NEW r \in Requests, NEW p \in Points, Go(r, p),
         UNCHANGED <<row, store, paused, proposing, scans, accepted>>,
         dispatched' \in {dispatched, dispatched \union {r}},
         announced' \in [Topics -> SUBSET Requests],
         p \in Accepting => req[r].kind = "accept",
         p = "resume" => req[r].kind = "resume",
         p \notin {"idle", "approve", "reject", "rejected", "load", "paused", "actions", "owners"},
         req[r].kind = "queue" => p = "failed",
         req[r].at \in {"approve", "reject", "failed"} => p = "failed",
         p \in Executing => r \in accepted \ dispatched',
         p = "mark" => r \in dispatched',
         r \in dispatched' => req[r].kind = "accept",
         req[r].at \in Going => p \in Going
  PROVE  IInv'
<1>1. PICK x : x = req[r]
  OBVIOUS
<1>2. x \in Request /\ Standing(x) /\ Earned(x, r) /\ Written(x) /\ Queue(x)
  BY <1>1 DEF IInv
<1>3. PICK y : y = [x EXCEPT !.at = p]
  OBVIOUS
<1>4. y \in Request /\ y.at = p /\ y.kind = x.kind /\ y.on = x.on /\ SameReading(y, x)
  BY <1>2, <1>3 DEF Request, SameReading
<1>5. req' = [req EXCEPT ![r] = y]
  BY <1>1, <1>3 DEF Go
<1>6. Standing(y)
  BY <1>1, <1>2, <1>4 DEF Standing, SameReading
<1>7. Queue(y)
  <2>1. CASE x.kind # "queue"
    BY <1>4, <1>6, <2>1, QueueRests
  <2>2. CASE x.kind = "queue"
    BY <1>1, <1>2, <1>4, <2>2 DEF Queue, SameReading
  <2> QED BY <2>1, <2>2
<1>8. Written(y)
  BY <1>1, <1>2, <1>4 DEF Written
<1>9. Earned(y, r)'
  BY <1>1, <1>4 DEF Earned, Executing
<1> QED BY <1>1, <1>4, <1>5, <1>6, <1>7, <1>8, <1>9, RequestMoves

LEMMA PublishTyped ==
  ASSUME IInv, NEW r \in Requests, NEW t \in Topics, Publish(r, t)
  PROVE  announced' \in [Topics -> SUBSET Requests]
BY DEF IInv, Typed, Publish

LEMMA AnnounceHolds ==
  ASSUME IInv, NEW r \in Requests, AnnounceApproved(r) \/ AnnounceExecuted(r) \/ AnnounceRejected(r)
  PROVE  IInv'
<1>1. Standing(req[r]) /\ Earned(req[r], r)
  BY DEF IInv
<1> USE DEF Points, Topics, Accepting, Executing, Going, Standing, Earned
<1>2. CASE AnnounceApproved(r)
  <2>1. announced' \in [Topics -> SUBSET Requests]
    BY <1>2, PublishTyped DEF AnnounceApproved
  <2> QED BY <1>1, <1>2, <2>1, Goes DEF AnnounceApproved
<1>3. CASE AnnounceExecuted(r)
  <2>1. announced' \in [Topics -> SUBSET Requests]
    BY <1>3, PublishTyped DEF AnnounceExecuted
  <2> QED BY <1>1, <1>3, <2>1, Goes DEF AnnounceExecuted
<1>4. CASE AnnounceRejected(r)
  <2>1. announced' \in [Topics -> SUBSET Requests]
    BY <1>4, PublishTyped DEF AnnounceRejected
  <2> QED BY <1>1, <1>4, <2>1, Goes DEF AnnounceRejected
<1> QED BY <1>2, <1>3, <1>4

(* execute_approved, up to the action itself.                              *)
LEMMA ExecuteHolds ==
  ASSUME IInv, NEW r \in Requests, Fetch(r) \/ Recheck(r) \/ Dispatch(r)
  PROVE  IInv'
<1>1. Standing(req[r]) /\ Earned(req[r], r) /\ announced \in [Topics -> SUBSET Requests]
  BY DEF IInv, Typed
<1> USE DEF Points, Accepting, Executing, Going, Standing, Earned, decisions
<1>2. CASE Fetch(r)
  BY <1>1, <1>2, Goes DEF Fetch
<1>3. CASE Recheck(r)
  BY <1>1, <1>3, Goes DEF Recheck
<1>4. CASE Dispatch(r)
  BY <1>1, <1>4, Goes DEF Dispatch
<1> QED BY <1>2, <1>3, <1>4

LEMMA FailHolds ==
  ASSUME IInv, NEW r \in Requests, Fail(r) \/ LoadWorkflow(r)
  PROVE  IInv'
<1>1. Standing(req[r]) /\ Earned(req[r], r) /\ announced \in [Topics -> SUBSET Requests]
  BY DEF IInv, Typed
<1> USE DEF Points, Accepting, Executing, Going, Standing, Earned, decisions
<1>2. CASE Fail(r)
  BY <1>1, <1>2, Goes DEF Fail
<1>3. CASE LoadWorkflow(r)
  BY <1>1, <1>3, Goes DEF LoadWorkflow
<1> QED BY <1>2, <1>3

(* The answer to a request is no concern of the invariant.                 *)
LEMMA AnswerHolds ==
  ASSUME IInv, NEW r \in Requests, Respond(r) \/ TimeOut(r)
  PROVE  IInv'
<1>1. PICK x : x = req[r]
  OBVIOUS
<1>2. x \in Request /\ Standing(x) /\ Earned(x, r) /\ Written(x) /\ Queue(x)
  BY <1>1 DEF IInv
<1>3. \E c \in Answers : req' = [req EXCEPT ![r].answer = c]
  BY DEF Respond, TimeOut, Answers
<1>4. PICK c \in Answers : req' = [req EXCEPT ![r].answer = c]
  BY <1>3
<1>5. PICK y : y = [x EXCEPT !.answer = c]
  OBVIOUS
<1>6. y \in Request /\ y.at = x.at /\ y.kind = x.kind /\ y.on = x.on /\ SameReading(y, x)
  BY <1>2, <1>5 DEF Request, SameReading
<1>7. req' = [req EXCEPT ![r] = y]
  BY <1>1, <1>4, <1>5
<1>8. UNCHANGED <<row, store, paused, proposing, scans, accepted, dispatched, announced>>
  BY DEF Respond, TimeOut, decisions
<1>9. Standing(y) /\ Queue(y) /\ Written(y) /\ Earned(y, r)'
  BY <1>2, <1>6, <1>8 DEF Standing, Queue, Written, Earned, SameReading, Shows, CutOff, Outnumbered
<1> QED BY <1>1, <1>6, <1>7, <1>8, <1>9, RequestMoves DEF IInv, Typed

LEMMA ArriveHolds ==
  ASSUME IInv, NEW r \in Requests, Arrive(r)
  PROVE  IInv'
<1>1. ASSUME NEW y \in Request, req' = [req EXCEPT ![r] = y], req[r].at = "idle",
             UNCHANGED <<row, store, paused, proposing, scans, decisions>>, Standing(y), Queue(y),
             y.at \in {"approve", "reject", "load", "paused"}
      PROVE  IInv'
  <2>1. r \notin dispatched
    BY <1>1 DEF IInv, Earned
  <2>2. Written(y) /\ Earned(y, r)'
    BY <1>1, <2>1 DEF Written, Earned, Executing, decisions, Standing
  <2> QED BY <1>1, <2>2, RequestMoves DEF IInv, Typed, decisions, Going, Executing
<1> USE DEF Points, Kinds, Answers
<1>2. ASSUME NEW a \in Actions, NEW kind \in {"accept", "reject"}, Decide(r, a, kind) PROVE IInv'
  <2> DEFINE first == IF kind = "accept" THEN "approve" ELSE "reject"
  <2>1. PICK y : y = [Blank EXCEPT !.kind = kind, !.on = a, !.at = first]
    OBVIOUS
  <2>4. y = [at |-> first, kind |-> kind, on |-> a, client |-> "none", answer |-> "none",
             todo |-> {}, found |-> {}, rows |-> {}, left |-> {}, items |-> << >>,
             waiting |-> {}, steady |-> {}]
    BY <2>1 DEF Blank
  <2>2. /\ y \in Request /\ y.kind = kind /\ y.on = a /\ y.at = first
        /\ y.items = << >> /\ y.rows = {} /\ y.waiting = {} /\ y.steady = {}
    BY <2>4 DEF Request
  <2>3. Standing(y)
    BY <2>2 DEF Standing, Accepting, Executing
  <2>5. req[r].at = "idle" /\ UNCHANGED <<row, store, paused, proposing, scans, decisions>>
        /\ req' = [req EXCEPT ![r] = y]
    BY <1>2, <2>1 DEF Decide
  <2> HIDE DEF first
  <2>6. Queue(y)
    BY <2>2, <2>3, QueueRests
  <2>7. y.at \in {"approve", "reject"}
    BY <2>2 DEF first
  <2> QED BY <1>1, <2>2, <2>3, <2>5, <2>6, <2>7
<1>3. ASSUME NEW w \in Workflows, NEW c \in Clients, DecideWorkflow(r, w, c) PROVE IInv'
  <2>1. PICK y : y = [Blank EXCEPT !.kind = "resume", !.on = w, !.client = c, !.at = "load"]
    OBVIOUS
  <2>4. y = [at |-> "load", kind |-> "resume", on |-> w, client |-> c, answer |-> "none",
             todo |-> {}, found |-> {}, rows |-> {}, left |-> {}, items |-> << >>,
             waiting |-> {}, steady |-> {}]
    BY <2>1 DEF Blank
  <2>2. /\ y \in Request /\ y.kind = "resume" /\ y.at = "load"
        /\ y.items = << >> /\ y.rows = {} /\ y.waiting = {} /\ y.steady = {}
    BY <2>4 DEF Request
  <2>3. Standing(y)
    BY <2>2 DEF Standing, Accepting, Executing
  <2> QED BY <1>1, <1>3, <2>1, <2>2, <2>3, QueueRests DEF DecideWorkflow
<1>4. ASSUME NEW c \in Clients, ListQueue(r, c) PROVE IInv'
  <2>1. PICK ws : ws = {w \in paused : ClientOf[w] = c}
    OBVIOUS
  <2>2. PICK as : as = {a \in Actions : /\ row[a] = "pending_approval"
                                        /\ WorkflowOf[a] \in stored
                                        /\ ClientOf[WorkflowOf[a]] = c}
    OBVIOUS
  <2>3. PICK y : y = [Blank EXCEPT !.client = c, !.at = "paused", !.todo = stored,
                                 !.steady = ws, !.waiting = as]
    OBVIOUS
  <2>4. ws \in SUBSET stored /\ stored \in SUBSET Workflows /\ as \in SUBSET Actions
    BY <2>1, <2>2 DEF IInv, Typed
  <2>9. y = [at |-> "paused", kind |-> "queue", on |-> "none", client |-> c, answer |-> "none",
             todo |-> stored, found |-> {}, rows |-> {}, left |-> {}, items |-> << >>,
             waiting |-> as, steady |-> ws]
    BY <2>3 DEF Blank
  <2>5. /\ y \in Request /\ y.kind = "queue" /\ y.at = "paused" /\ y.client = c
        /\ y.items = << >> /\ y.rows = {} /\ y.todo = stored /\ y.waiting = as /\ y.steady = ws
    <3>1. << >> \in Seq(Items) /\ {} \in SUBSET Workflows
      OBVIOUS
    <3>2. y \in Request
      BY <2>4, <2>9, <3>1 DEF Request
    <3> QED BY <2>9, <3>2
  <2>6. Standing(y)
    BY <2>5 DEF Standing, Accepting, Executing
  <2>7. Queue(y)
    BY <2>1, <2>2, <2>4, <2>5 DEF Queue, Waits
  <2>8. req[r].at = "idle" /\ UNCHANGED <<row, store, paused, proposing, scans, decisions>>
        /\ req' = [req EXCEPT ![r] = y]
    BY <1>4, <2>1, <2>2, <2>3 DEF ListQueue
  <2> QED BY <1>1, <2>5, <2>6, <2>7, <2>8
<1> QED BY <1>2, <1>3, <1>4 DEF Arrive

(* What a decision does to the row, and to the queue requests under way.   *)
LEMMA RowMoves ==
  ASSUME IInv, NEW r \in Requests, NEW status \in {"approved", "rejected", "executed"}, NEW p \in Points,
         req[r].at \in {"approve", "reject", "mark"}, SetRow(req[r].on, status, r, p),
         UNCHANGED <<store, paused, proposing, scans, dispatched, announced>>,
         accepted' \in {accepted, accepted \union {r}},
         p \in Accepting => req[r].kind = "accept",
         p \in {"rejected", "approved", "executed"},
         p = "rejected" => req[r].kind = "reject",
         p = "approved" => r \in accepted' /\ r \notin dispatched,
         status = "approved" => p = "approved",
         status = "rejected" => p = "rejected",
         status = "executed" => r \in dispatched
  PROVE  IInv'
<1>1. PICK x : x = req[r]
  OBVIOUS
<1>2. x \in Request /\ Standing(x) /\ Earned(x, r)
  BY <1>1 DEF IInv
<1>3. PICK y : y = [x EXCEPT !.at = p]
  OBVIOUS
<1>4. y \in Request /\ y.at = p /\ y.kind = x.kind /\ y.on = x.on /\ SameReading(y, x)
  BY <1>2, <1>3 DEF Request, SameReading
<1>5. PICK a : a = x.on
  OBVIOUS
<1>6. x.kind \in {"accept", "reject"} /\ a \in Actions
  BY <1>1, <1>2, <1>5 DEF Standing, Accepting
<1>7. /\ row \in [Actions -> Status] /\ row' = [row EXCEPT ![a] = status]
      /\ row' \in [Actions -> Status] /\ row'[a] = status /\ \A b \in Actions : b # a => row'[b] = row[b]
  BY <1>1, <1>5, <1>6 DEF SetRow, IInv, Typed, Status
<1>8. Typed'
  BY <1>7 DEF IInv, Typed, store
<1>9. ASSUME NEW q \in Requests, q # r
      PROVE  \E z \in Request :
               /\ req'[q] = z /\ z.at = req[q].at /\ z.kind = req[q].kind /\ z.on = req[q].on
               /\ z.client = req[q].client /\ z.items = req[q].items /\ z.todo = req[q].todo
               /\ z.found = req[q].found /\ z.rows = req[q].rows /\ z.left = req[q].left
               /\ z.steady = req[q].steady /\ z.waiting = req[q].waiting \ {a}
  <2>1. PICK v : v = req[q]
    OBVIOUS
  <2>2. PICK z : z = [v EXCEPT !.waiting = @ \ {a}]
    OBVIOUS
  <2>3. v \in Request
    BY <2>1 DEF IInv
  <2>4. /\ z \in Request /\ z.at = v.at /\ z.kind = v.kind /\ z.on = v.on /\ z.client = v.client
        /\ z.items = v.items /\ z.todo = v.todo /\ z.found = v.found /\ z.rows = v.rows
        /\ z.left = v.left /\ z.steady = v.steady /\ z.waiting = v.waiting \ {a}
    BY <2>2, <2>3 DEF Request
  <2>5. req'[q] = z
    BY <1>1, <1>5, <1>9, <2>1, <2>2 DEF SetRow
  <2> QED BY <2>1, <2>4, <2>5
<1>10. req'[r] = y
  BY <1>1, <1>3 DEF SetRow
<1>11. req' \in [Requests -> Request]
  <2>1. DOMAIN req' = Requests /\ req' = [q \in Requests |-> req'[q]]
    BY DEF SetRow
  <2>2. \A q \in Requests : req'[q] \in Request
    BY <1>4, <1>9, <1>10
  <2> QED BY <2>1, <2>2
<1>12. Standing(y)
  BY <1>1, <1>2, <1>4, <1>6 DEF Standing, Accepting, Executing, SameReading
<1>13. \A q \in Requests : Standing(req'[q])
  <2>1. ASSUME NEW q \in Requests, q # r PROVE Standing(req'[q])
    <3>1. Standing(req[q])
      BY DEF IInv
    <3> QED BY <1>9, <2>1, <3>1 DEF Standing
  <2> QED BY <1>10, <1>12, <2>1
<1>14. \A q \in Requests : Earned(req[q], q)'
  <2>1. ASSUME NEW q \in Requests, q # r PROVE Earned(req[q], q)'
    <3>1. Earned(req[q], q)
      BY DEF IInv
    <3> QED BY <1>9, <2>1, <3>1 DEF Earned
  <2>2. Earned(req[r], r)'
    BY <1>1, <1>2, <1>4, <1>10 DEF Earned, Executing
  <2> QED BY <2>1, <2>2
<1>15. \A q \in Requests : Written(req[q])'
  <2>1. ASSUME NEW q \in Requests, q # r PROVE Written(req[q])'
    <3>1. Written(req[q]) /\ (req[q].kind \in {"accept", "reject"} => req[q].on \in Actions)
      BY DEF IInv, Standing
    <3> QED BY <1>7, <1>9, <2>1, <3>1 DEF Written
  <2>2. Written(req[r])'
    BY <1>4, <1>5, <1>7, <1>10 DEF Written
  <2> QED BY <2>1, <2>2
<1>16. \A q \in Requests : Queue(req[q])'
  <2>1. ASSUME NEW q \in Requests, q # r PROVE Queue(req[q])'
    <3>1. Queue(req[q]) /\ req[q].waiting \subseteq Actions /\ req[q].rows \subseteq Actions
      BY DEF IInv, Request
    <3> QED BY <1>7, <1>9, <2>1, <3>1 DEF Queue, Waits, Shows, CutOff, Outnumbered, store
  <2>2. Queue(req[r])'
    <3>1. /\ y.items = << >> /\ y.rows = {} /\ y.waiting = {} /\ y.steady = {}
          /\ y.at \notin {"paused", "actions", "owners"}
      BY <1>2, <1>4, <1>6 DEF Standing, SameReading
    <3> QED BY <1>10, <3>1 DEF Queue
  <2> QED BY <2>1, <2>2
<1>17. ASSUME NEW b \in Actions PROVE RowTold(b)'
  <2>1. \A q \in Requests : req'[q].on = req[q].on /\ req'[q].kind = req[q].kind
    BY <1>1, <1>4, <1>9, <1>10
  <2>2. ASSUME row'[b] = "executed" PROVE \E q \in dispatched' : req'[q].on = b
    <3>1. dispatched \subseteq Requests
      BY DEF IInv, Typed
    <3>2. CASE b = a
      BY <1>1, <1>4, <1>5, <1>7, <1>10, <2>2, <3>2
    <3>3. CASE b # a
      BY <1>7, <2>1, <2>2, <3>1, <3>3 DEF IInv, RowTold
    <3> QED BY <3>2, <3>3
  <2>3. ASSUME row'[b] = "rejected" PROVE \E q \in Requests : req'[q].kind = "reject" /\ req'[q].on = b
    <3>1. CASE b = a
      BY <1>1, <1>4, <1>5, <1>7, <1>10, <2>3, <3>1
    <3>2. CASE b # a
      BY <1>7, <2>1, <2>3, <3>2 DEF IInv, RowTold
    <3> QED BY <3>1, <3>2
  <2>4. ASSUME row'[b] = "approved"
        PROVE  \E q \in Requests : req'[q].kind = "accept" /\ req'[q].on = b /\ req'[q].at \in Going
    <3>1. CASE b = a
      BY <1>1, <1>4, <1>5, <1>7, <1>10, <2>4, <3>1 DEF Going, Executing, Accepting
    <3>2. CASE b # a
      <4>1. PICK q \in Requests : req[q].kind = "accept" /\ req[q].on = b /\ req[q].at \in Going
        BY <1>7, <2>4, <3>2 DEF IInv, RowTold
      <4>2. q # r
        BY <1>1, <1>5, <3>2, <4>1
      <4> QED BY <1>9, <4>1, <4>2
    <3> QED BY <3>1, <3>2
  <2> QED BY <2>2, <2>3, <2>4 DEF RowTold
<1> QED BY <1>8, <1>11, <1>13, <1>14, <1>15, <1>16, <1>17 DEF IInv

LEMMA DecisionHolds ==
  ASSUME IInv, NEW r \in Requests, Approve(r) \/ MarkExecuted(r) \/ Reject(r)
  PROVE  IInv'
<1>1. Standing(req[r]) /\ Earned(req[r], r)
  BY DEF IInv
<1> USE DEF Points, Accepting, Executing, Standing, Earned, decisions
<1>2. CASE Approve(r)
  BY <1>1, <1>2, RowMoves DEF Approve
<1>3. CASE MarkExecuted(r)
  BY <1>1, <1>3, RowMoves DEF MarkExecuted
<1>4. CASE Reject(r)
  BY <1>1, <1>4, RowMoves DEF Reject
<1> QED BY <1>2, <1>3, <1>4

(* A workflow that is resumed is steady in no queue request any more.      *)
LEMMA ResumeHolds ==
  ASSUME IInv, NEW r \in Requests, Resume(r)
  PROVE  IInv'
<1>1. PICK x : x = req[r]
  OBVIOUS
<1>2. x \in Request /\ Standing(x) /\ Earned(x, r) /\ x.at = "resume"
  BY <1>1 DEF IInv, Resume
<1>3. PICK y : y = [x EXCEPT !.at = "done"]
  OBVIOUS
<1>4. y \in Request /\ y.at = "done" /\ y.kind = x.kind /\ y.on = x.on /\ SameReading(y, x)
  BY <1>2, <1>3 DEF Request, Points, SameReading
<1>5. PICK w : w = x.on
  OBVIOUS
<1>6. UNCHANGED <<row, store, proposing, scans, accepted, dispatched, announced>> /\ paused' = paused \ {w}
  BY <1>1, <1>5 DEF Resume, decisions
<1>7. ASSUME NEW q \in Requests, q # r
      PROVE  \E z \in Request :
               /\ req'[q] = z /\ z.at = req[q].at /\ z.kind = req[q].kind /\ z.on = req[q].on
               /\ z.client = req[q].client /\ z.items = req[q].items /\ z.todo = req[q].todo
               /\ z.found = req[q].found /\ z.rows = req[q].rows /\ z.left = req[q].left
               /\ z.waiting = req[q].waiting /\ z.steady = req[q].steady \ {w}
  <2>1. PICK v : v = req[q]
    OBVIOUS
  <2>2. PICK z : z = [v EXCEPT !.steady = @ \ {w}]
    OBVIOUS
  <2>3. v \in Request
    BY <2>1 DEF IInv
  <2>4. /\ z \in Request /\ z.at = v.at /\ z.kind = v.kind /\ z.on = v.on /\ z.client = v.client
        /\ z.items = v.items /\ z.todo = v.todo /\ z.found = v.found /\ z.rows = v.rows
        /\ z.left = v.left /\ z.waiting = v.waiting /\ z.steady = v.steady \ {w}
    BY <2>2, <2>3 DEF Request
  <2>5. req'[q] = z
    BY <1>1, <1>5, <1>7, <2>1, <2>2 DEF Resume
  <2> QED BY <2>1, <2>4, <2>5
<1>8. req'[r] = y
  BY <1>1, <1>3 DEF Resume
<1>9. req' \in [Requests -> Request]
  <2>1. DOMAIN req' = Requests /\ req' = [q \in Requests |-> req'[q]]
    BY DEF Resume
  <2>2. \A q \in Requests : req'[q] \in Request
    BY <1>4, <1>7, <1>8
  <2> QED BY <2>1, <2>2
<1>10. Typed'
  BY <1>6 DEF IInv, Typed, store
<1>11. x.kind = "resume" /\ Standing(y)
  BY <1>2, <1>4 DEF Standing, Accepting, Executing, SameReading
<1>12. \A q \in Requests : Standing(req'[q])
  <2>1. ASSUME NEW q \in Requests, q # r PROVE Standing(req'[q])
    <3>1. Standing(req[q])
      BY DEF IInv
    <3> QED BY <1>7, <2>1, <3>1 DEF Standing
  <2> QED BY <1>8, <1>11, <2>1
<1>13. \A q \in Requests : Earned(req[q], q)'
  <2>1. ASSUME NEW q \in Requests, q # r PROVE Earned(req[q], q)'
    <3>1. Earned(req[q], q)
      BY DEF IInv
    <3> QED BY <1>6, <1>7, <2>1, <3>1 DEF Earned
  <2>2. Earned(req[r], r)'
    BY <1>2, <1>4, <1>6, <1>8 DEF Earned, Executing
  <2> QED BY <2>1, <2>2
<1>14. \A q \in Requests : Written(req[q])'
  <2>1. ASSUME NEW q \in Requests, q # r PROVE Written(req[q])'
    <3>1. Written(req[q])
      BY DEF IInv
    <3> QED BY <1>6, <1>7, <2>1, <3>1 DEF Written
  <2>2. Written(req[r])'
    BY <1>4, <1>8, <1>11 DEF Written
  <2> QED BY <2>1, <2>2
<1>15. \A q \in Requests : Queue(req[q])'
  <2>1. ASSUME NEW q \in Requests, q # r PROVE Queue(req[q])'
    <3>1. Queue(req[q])
      BY DEF IInv
    <3> QED BY <1>6, <1>7, <2>1, <3>1 DEF Queue, Waits, Shows, CutOff, Outnumbered, store
  <2>2. Queue(req[r])'
    <3>1. y.items = << >> /\ y.rows = {} /\ y.waiting = {} /\ y.steady = {} /\ y.at = "done"
      BY <1>2, <1>4, <1>11 DEF Standing, SameReading
    <3> QED BY <1>8, <3>1 DEF Queue
  <2> QED BY <2>1, <2>2
<1>16. ASSUME NEW b \in Actions PROVE RowTold(b)'
  <2>1. \A q \in Requests : req'[q].on = req[q].on /\ req'[q].kind = req[q].kind
    BY <1>1, <1>4, <1>7, <1>8
  <2>2. \A q \in Requests : req[q].kind = "accept" => req'[q].at = req[q].at
    BY <1>1, <1>7, <1>11
  <2>3. dispatched \subseteq Requests /\ RowTold(b)
    BY DEF IInv, Typed
  <2> QED BY <1>6, <2>1, <2>2, <2>3 DEF RowTold
<1> QED BY <1>9, <1>10, <1>12, <1>13, <1>14, <1>15, <1>16 DEF IInv

(* Nor is a workflow whose state has expired, and its actions do not wait. *)
LEMMA ExpireHolds ==
  ASSUME IInv, NEW w \in Workflows, Expire(w)
  PROVE  IInv'
<1>1. UNCHANGED <<row, born, proposing, scans, accepted, dispatched, announced>>
      /\ paused' = paused \ {w} /\ stored' = stored \ {w}
  BY DEF Expire, decisions
<1>2. ASSUME NEW q \in Requests
      PROVE  \E z \in Request :
               /\ req'[q] = z /\ z.at = req[q].at /\ z.kind = req[q].kind /\ z.on = req[q].on
               /\ z.client = req[q].client /\ z.items = req[q].items /\ z.todo = req[q].todo
               /\ z.found = req[q].found /\ z.rows = req[q].rows /\ z.left = req[q].left
               /\ z.waiting = {a \in req[q].waiting : WorkflowOf[a] # w}
               /\ z.steady = req[q].steady \ {w}
  <2>1. PICK v : v = req[q]
    OBVIOUS
  <2>2. PICK z : z = [v EXCEPT !.steady = @ \ {w}, !.waiting = {a \in @ : WorkflowOf[a] # w}]
    OBVIOUS
  <2>3. v \in Request
    BY <2>1 DEF IInv
  <2>4. /\ z \in Request /\ z.at = v.at /\ z.kind = v.kind /\ z.on = v.on /\ z.client = v.client
        /\ z.items = v.items /\ z.todo = v.todo /\ z.found = v.found /\ z.rows = v.rows
        /\ z.left = v.left /\ z.waiting = {a \in v.waiting : WorkflowOf[a] # w}
        /\ z.steady = v.steady \ {w}
    BY <2>2, <2>3 DEF Request
  <2>5. req'[q] = z
    BY <2>1, <2>2 DEF Expire
  <2> QED BY <2>1, <2>4, <2>5
<1>3. req' \in [Requests -> Request]
  <2>1. DOMAIN req' = Requests /\ req' = [q \in Requests |-> req'[q]]
    BY DEF Expire
  <2> QED BY <1>2, <2>1
<1>4. Typed'
  BY <1>1 DEF IInv, Typed
<1>5. ASSUME NEW q \in Requests PROVE Standing(req'[q]) /\ Earned(req[q], q)' /\ Written(req[q])'
  <2>1. Standing(req[q]) /\ Earned(req[q], q) /\ Written(req[q])
    BY DEF IInv
  <2>2. Standing(req'[q])
    BY <1>2, <2>1 DEF Standing
  <2>3. Earned(req[q], q)'
    BY <1>1, <1>2, <2>1 DEF Earned
  <2>4. Written(req[q])'
    BY <1>1, <1>2, <2>1 DEF Written
  <2> QED BY <2>2, <2>3, <2>4
<1>6. ASSUME NEW q \in Requests PROVE Queue(req[q])'
  <2>1. Queue(req[q])
    BY DEF IInv
  <2> QED BY <1>1, <1>2, <2>1 DEF Queue, Waits, Shows, CutOff, Outnumbered
<1>7. ASSUME NEW b \in Actions PROVE RowTold(b)'
  <2>1. /\ \A q \in Requests : /\ req'[q].on = req[q].on /\ req'[q].kind = req[q].kind
                               /\ req'[q].at = req[q].at
        /\ dispatched \subseteq Requests /\ RowTold(b)
    BY <1>2 DEF IInv, Typed
  <2> QED BY <1>1, <2>1 DEF RowTold
<1> QED BY <1>3, <1>4, <1>5, <1>6, <1>7 DEF IInv

(* A proposal makes a pending row where there was none.                    *)
LEMMA ProposeHolds ==
  ASSUME IInv, NEW a \in Actions, Propose(a)
  PROVE  IInv'
<1>0. Cardinality({b \in Actions : row[b] # "none"}) \in Nat
  <2>1. IsFiniteSet(Actions)
    BY ActionGateAssumption, FS_Subset DEF Actions
  <2> QED BY <2>1, FS_Subset, FS_CardinalityType
<1>1. /\ row \in [Actions -> Status] /\ row' \in [Actions -> Status]
      /\ \A b \in Actions : row'[b] # row[b] => row[b] = "none" /\ row'[b] = "pending_approval"
  BY DEF Propose, IInv, Typed, Status
<1>2. UNCHANGED <<stored, paused, scans, req, accepted, dispatched, announced>> /\ proposing' \subseteq Actions
  BY DEF Propose, decisions, IInv, Typed
<1>8. born' \in [Actions -> Nat] /\ \A b \in Actions : row[b] # "none" => born'[b] = born[b]
  <2> DEFINE n == Cardinality({b \in Actions : row[b] # "none"})
  <2>1. n \in Nat /\ born \in [Actions -> Nat]
    BY <1>0 DEF IInv, Typed
  <2>2. born' = IF row[a] = "none" THEN [born EXCEPT ![a] = 1 + n] ELSE born
    BY DEF Propose
  <2> HIDE DEF n
  <2> QED BY <2>1, <2>2
<1>3. Typed'
  BY <1>1, <1>2, <1>8 DEF IInv, Typed
<1>4. \A q \in Requests : (Standing(req[q]) /\ Earned(req[q], q))'
  BY <1>2 DEF IInv, Standing, Earned
<1>5. \A b \in Actions : RowTold(b)'
  BY <1>1, <1>2 DEF IInv, RowTold
<1>6. \A q \in Requests : Written(req[q])'
  BY <1>1, <1>2 DEF IInv, Written, Standing
<1>7. ASSUME NEW q \in Requests PROVE Queue(req[q])'
  <2>1. PICK x : x = req[q]
    OBVIOUS
  <2>2. Queue(x) /\ x.waiting \subseteq Actions /\ x.rows \subseteq Actions
    BY <2>1 DEF IInv, Request
  <2>3. \A b \in x.waiting : row[b] = "pending_approval" /\ row'[b] = row[b] /\ born'[b] = born[b]
    BY <1>1, <1>8, <2>2 DEF Queue, Waits
  <2>4. \A b \in x.rows : row'[b] # "none" /\ born'[b] = born[b]
    BY <1>1, <1>8, <2>2 DEF Queue
  <2> QED BY <1>2, <2>1, <2>2, <2>3, <2>4 DEF Queue, Waits, Outnumbered
<1> QED BY <1>2, <1>3, <1>4, <1>5, <1>6, <1>7 DEF IInv

LEMMA WorkflowHolds ==
  ASSUME IInv, NEW w \in Workflows, Ranked(w) \/ Pause(w)
  PROVE  IInv'
<1>1. UNCHANGED <<row, born, stored, req, accepted, dispatched, announced>> /\ paused \subseteq paused'
  BY DEF Ranked, Pause, decisions, store
<1>2. Typed'
  BY DEF Ranked, Pause, decisions, IInv, Typed, store
<1>3. \A q \in Requests : Queue(req[q])'
  BY <1>1 DEF IInv, Queue, Waits, Outnumbered
<1>4. /\ \A q \in Requests : (Standing(req[q]) /\ Earned(req[q], q) /\ Written(req[q]))'
      /\ \A b \in Actions : RowTold(b)'
  BY <1>1 DEF IInv, Standing, Earned, Written, RowTold
<1> QED BY <1>1, <1>2, <1>3, <1>4 DEF IInv
-----------------------------------------------------------------------------
(* A queue request reads: rows and workflows stay as they are.             *)
LEMMA QueueMoves ==
  ASSUME IInv, NEW r \in Requests, NEW y \in Request, req' = [req EXCEPT ![r] = y],
         UNCHANGED <<row, store, paused, proposing, scans, decisions>>,
         req[r].at \in {"paused", "actions", "owners"}, y.at \in {"paused", "actions", "owners", "done"},
         y.kind = req[r].kind, y.on = req[r].on, Queue(y)
  PROVE  IInv'
<1>1. Standing(req[r]) /\ Earned(req[r], r)
  BY DEF IInv
<1>2. req[r].kind = "queue" /\ r \notin dispatched
  BY <1>1 DEF Standing, Earned
<1>3. Standing(y) /\ Written(y) /\ Earned(y, r)'
  BY <1>2 DEF Standing, Written, Earned, Accepting, Executing, decisions
<1> QED BY <1>3, RequestMoves DEF IInv, Typed, decisions, Going, Executing

LEMMA ReadPausedHolds ==
  ASSUME IInv, NEW r \in Requests, NEW w \in Workflows, ReadPaused(r, w)
  PROVE  IInv'
<1>1. PICK x : x = req[r]
  OBVIOUS
<1>2. x \in Request /\ Queue(x) /\ x.at = "paused"
  BY <1>1 DEF IInv, ReadPaused
<1>3. PICK fs : fs = IF w \in paused /\ ClientOf[w] = x.client THEN x.found \union {w} ELSE x.found
  OBVIOUS
<1>4. fs \in SUBSET Workflows
  BY <1>2, <1>3 DEF Request
<1>5. PICK y : y = [x EXCEPT !.todo = @ \ {w}, !.found = fs]
  OBVIOUS
<1>6. /\ y \in Request /\ y.at = "paused" /\ y.todo = x.todo \ {w} /\ y.found = fs /\ y.kind = x.kind
      /\ y.on = x.on /\ y.client = x.client /\ y.items = x.items /\ y.rows = x.rows
      /\ y.waiting = x.waiting /\ y.steady = x.steady
  BY <1>2, <1>4, <1>5 DEF Request, Points
<1>7. req' = [req EXCEPT ![r] = y]
  BY <1>1, <1>3, <1>5 DEF ReadPaused
<1>8. Queue(y)
  BY <1>2, <1>3, <1>6 DEF Queue
<1> QED BY <1>1, <1>2, <1>6, <1>7, <1>8, QueueMoves DEF ReadPaused

LEMMA EndScanHolds ==
  ASSUME IInv, NEW r \in Requests, EndScan(r)
  PROVE  IInv'
<1>1. PICK x : x = req[r]
  OBVIOUS
<1>2. x \in Request /\ Queue(x) /\ x.at = "paused" /\ (x.todo = {} \/ Cardinality(x.found) >= PausedLimit)
  BY <1>1 DEF IInv, EndScan, Full
<1>3. PICK y : y = [x EXCEPT !.at = "actions", !.todo = x.found]
  OBVIOUS
<1>4. /\ y \in Request /\ y.at = "actions" /\ y.todo = x.found /\ y.found = x.found /\ y.kind = x.kind
      /\ y.on = x.on /\ y.client = x.client /\ y.items = x.items /\ y.rows = x.rows
      /\ y.waiting = x.waiting /\ y.steady = x.steady
  BY <1>2, <1>3 DEF Request, Points
<1>5. req' = [req EXCEPT ![r] = y]
  BY <1>1, <1>3 DEF EndScan
<1>6. Queue(y)
  <2>1. \A w : ~HasEntry(<< >>, w)
    BY DEF HasEntry, Listed
  <2>2. \A w \in x.steady : w \in x.found \/ CutOff(y, w)
    BY <1>2, <1>4 DEF Queue, CutOff
  <2> QED BY <1>2, <1>4, <2>1, <2>2 DEF Queue
<1> QED BY <1>1, <1>2, <1>4, <1>5, <1>6, QueueMoves DEF EndScan

LEMMA ItemConcerns ==
  /\ \A k \in {"action", "finding"}, f \in Findings :
       /\ Item(k, f) \in Items
       /\ \A v : Concerns(Item(k, f), v) <=> WorkflowOf[f] = v
  /\ \A w \in Workflows :
       /\ Item("workflow", w) \in Items
       /\ \A v : Concerns(Item("workflow", w), v) <=> w = v
<1>1. \A k, x : Item(k, x)[1] = k /\ Item(k, x)[2] = x
  BY DEF Item
<1>2. ASSUME NEW k \in {"action", "finding"}, NEW f \in Findings
      PROVE  Item(k, f) \in Items /\ \A v : Concerns(Item(k, f), v) <=> WorkflowOf[f] = v
  <2>1. Item(k, f) \in Items
    BY <1>2 DEF Item, Items
  <2> QED BY <1>1, <1>2, <2>1 DEF Concerns
<1>3. ASSUME NEW w \in Workflows
      PROVE  Item("workflow", w) \in Items /\ \A v : Concerns(Item("workflow", w), v) <=> w = v
  <2>1. Item("workflow", w) \in Items
    BY <1>3 DEF Item, Items
  <2> QED BY <1>1, <1>3, <2>1 DEF Concerns
<1> QED BY <1>2, <1>3

Entries(w, snapshot) ==
  IF Pending(w) # {} THEN {Item("action", a) : a \in Pending(w)} ELSE WorkflowItems(w, snapshot)

\* Entries that all concern one workflow.
OnlyOf(new, w) == \A i \in new, v \in Workflows : Concerns(i, v) <=> v = w

(* What is read of a workflow concerns that workflow, and there is some.   *)
LEMMA EntriesOf ==
  ASSUME NEW w \in Workflows, NEW snapshot \in BOOLEAN
  PROVE  /\ Entries(w, snapshot) # {}
         /\ Entries(w, snapshot) \subseteq Items
         /\ IsFiniteSet(Entries(w, snapshot))
         /\ OnlyOf(Entries(w, snapshot), w)
<1> DEFINE new == Entries(w, snapshot)
<1> SUFFICES /\ new # {} /\ new \subseteq Items /\ IsFiniteSet(new)
             /\ \A i \in new, v \in Workflows : Concerns(i, v) <=> v = w
  BY DEF OnlyOf
<1>0. new = IF Pending(w) # {} THEN {Item("action", a) : a \in Pending(w)} ELSE WorkflowItems(w, snapshot)
  BY DEF Entries
<1> HIDE DEF new
<1>1. IsFiniteSet(Findings) /\ Severe \subseteq Findings /\ Actions \subseteq Findings
  BY ActionGateAssumption DEF Actions
<1>2. CASE Pending(w) # {}
  <2>1. IsFiniteSet(Pending(w))
    BY <1>1, FS_Subset DEF Pending
  <2>2. new = {Item("action", a) : a \in Pending(w)}
    BY <1>0, <1>2
  <2>3. IsFiniteSet(new)
    BY <2>1, <2>2, ItemsFinite
  <2>4. \A a \in Pending(w) : a \in Findings /\ WorkflowOf[a] = w
    BY <1>1 DEF Pending
  <2> QED BY <1>2, <2>2, <2>3, <2>4, ItemConcerns
<1>3. CASE Pending(w) = {}
  <2> DEFINE severe == {f \in Severe : WorkflowOf[f] = w}
  <2>1. new = IF snapshot /\ severe # {} THEN {Item("finding", f) : f \in severe} ELSE {Item("workflow", w)}
    BY <1>0, <1>3 DEF WorkflowItems
  <2>2. CASE snapshot /\ severe # {}
    <3>1. IsFiniteSet(severe)
      BY <1>1, FS_Subset
    <3>2. IsFiniteSet(new)
      BY <2>1, <2>2, <3>1, ItemsFinite
    <3>3. \A f \in severe : f \in Findings /\ WorkflowOf[f] = w
      BY <1>1
    <3>4. new = {Item("finding", f) : f \in severe} /\ severe # {}
      BY <2>1, <2>2
    <3>5. ASSUME NEW i \in new PROVE i \in Items /\ \A v \in Workflows : Concerns(i, v) <=> v = w
      <4>1. PICK f \in severe : i = Item("finding", f)
        BY <3>4, <3>5
      <4>2. f \in Findings /\ WorkflowOf[f] = w
        BY <3>3
      <4>3. Item("finding", f) \in Items /\ \A v : Concerns(Item("finding", f), v) <=> WorkflowOf[f] = v
        BY <4>2, ItemConcerns
      <4> QED BY <4>1, <4>2, <4>3
    <3> QED BY <3>2, <3>4, <3>5
  <2>3. CASE ~(snapshot /\ severe # {})
    <3>1. IsFiniteSet(new)
      BY <2>1, <2>3, FS_Singleton
    <3> QED BY <2>1, <2>3, <3>1, ItemConcerns
  <2> QED BY <2>2, <2>3
<1> QED BY <1>2, <1>3

LEMMA ReadActionsHolds ==
  ASSUME IInv, NEW r \in Requests, NEW w \in Workflows, ReadActions(r, w)
  PROVE  IInv'
<1>1. PICK x : x = req[r]
  OBVIOUS
<1>2. x \in Request /\ Queue(x) /\ x.at = "actions" /\ w \in x.todo
  BY <1>1 DEF IInv, ReadActions
<1>3. PICK snapshot \in BOOLEAN :
        req' = [req EXCEPT ![r].todo = @ \ {w}, ![r].items = @ \o InSomeOrder(Entries(w, snapshot))]
  BY DEF ReadActions, Entries
<1>4. PICK new : new = Entries(w, snapshot)
  OBVIOUS
<1>5. new # {} /\ new \subseteq Items /\ IsFiniteSet(new) /\ OnlyOf(new, w)
  BY <1>4, EntriesOf
<1>6. PICK s : s = InSomeOrder(new)
  OBVIOUS
<1>7. s \in Seq(new) /\ Listed(s) = new /\ \A i, j \in DOMAIN s : s[i] = s[j] => i = j
  BY <1>5, <1>6, Ordered
<1>8. s \in Seq(Items) /\ x.items \in Seq(Items) /\ x.todo \subseteq Workflows /\ x.steady \subseteq Workflows
  BY <1>2, <1>5, <1>7 DEF Request
<1>9. PICK l : l = x.items \o s
  OBVIOUS
<1>10. ~HasEntry(x.items, w)
  BY <1>2 DEF Queue
<1>11. Listed(x.items) \cap Listed(s) = {}
  <2> SUFFICES ASSUME NEW i \in Listed(x.items), i \in Listed(s) PROVE FALSE
    OBVIOUS
  <2>1. Concerns(i, w)
    BY <1>5, <1>7 DEF OnlyOf
  <2> QED BY <1>10, <2>1 DEF HasEntry
<1>12. \A i, j \in DOMAIN x.items : x.items[i] = x.items[j] => i = j
  BY <1>2 DEF Queue
<1>13. /\ l \in Seq(Items) /\ Listed(l) = Listed(x.items) \union new
       /\ \A i, j \in DOMAIN l : l[i] = l[j] => i = j
  <2>1. Distinct(x.items) /\ Distinct(s)
    BY <1>7, <1>12 DEF Distinct
  <2>2. /\ x.items \o s \in Seq(Items) /\ Listed(x.items \o s) = Listed(x.items) \union Listed(s)
        /\ Distinct(x.items \o s)
    BY <1>8, <1>11, <2>1, Followed
  <2> QED BY <1>7, <1>9, <2>2 DEF Distinct
<1>14. PICK y : y = [x EXCEPT !.todo = @ \ {w}, !.items = l]
  OBVIOUS
<1>15. /\ y \in Request /\ y.at = "actions" /\ y.todo = x.todo \ {w} /\ y.kind = x.kind /\ y.on = x.on
       /\ y.client = x.client /\ y.found = x.found /\ y.rows = x.rows /\ y.items = l
       /\ y.waiting = x.waiting /\ y.steady = x.steady
  BY <1>2, <1>13, <1>14 DEF Request
<1>16. req' = [req EXCEPT ![r] = y]
  BY <1>1, <1>3, <1>4, <1>6, <1>9, <1>14
<1>17. Queue(y)
  <2>1. \A v \in Workflows : HasEntry(l, v) <=> HasEntry(x.items, v) \/ v = w
    BY <1>5, <1>13 DEF HasEntry, OnlyOf
  <2> QED BY <1>2, <1>8, <1>13, <1>15, <2>1 DEF Queue, CutOff
<1> QED BY <1>1, <1>2, <1>15, <1>16, <1>17, QueueMoves DEF ReadActions

LEMMA ReadPendingHolds ==
  ASSUME IInv, NEW r \in Requests, ReadPending(r)
  PROVE  IInv'
<1>1. PICK x : x = req[r]
  OBVIOUS
<1>2. x \in Request /\ Queue(x) /\ x.at = "actions" /\ x.todo = {}
  BY <1>1 DEF IInv, ReadPending
<1>3. PICK S : S = {a \in Actions : row[a] = "pending_approval"}
  OBVIOUS
<1>4. PICK T \in Newest(S) : req' = [req EXCEPT ![r].at = "owners", ![r].rows = T, ![r].left = T]
  BY <1>3 DEF ReadPending
<1>5. /\ T \subseteq S /\ \A a \in S \ T, b \in T : born[b] >= born[a]
      /\ Cardinality(T) = PendingLimit \/ T = S
  BY <1>4 DEF Newest
<1>6. PICK y : y = [x EXCEPT !.at = "owners", !.rows = T, !.left = T]
  OBVIOUS
<1>7. /\ y \in Request /\ y.at = "owners" /\ y.rows = T /\ y.left = T /\ y.found = x.found
      /\ y.kind = x.kind /\ y.on = x.on /\ y.client = x.client /\ y.items = x.items
      /\ y.waiting = x.waiting /\ y.steady = x.steady
  <2>1. T \in SUBSET Actions
    BY <1>3, <1>5
  <2> QED BY <1>2, <1>6, <2>1 DEF Request, Points
<1>8. req' = [req EXCEPT ![r] = y]
  BY <1>1, <1>4, <1>6
<1>9. \A a \in x.waiting : a \in T \/ Outnumbered(y, a)
  <2>1. \A a \in x.waiting : a \in S
    BY <1>2, <1>3 DEF Queue, Waits, Request
  <2> QED BY <1>5, <1>7, <2>1 DEF Outnumbered
<1>10. Queue(y)
  BY <1>2, <1>3, <1>5, <1>7, <1>9 DEF Queue, CutOff
<1> QED BY <1>1, <1>2, <1>7, <1>8, <1>10, QueueMoves DEF ReadPending

LEMMA LoadOwnerHolds ==
  ASSUME IInv, NEW r \in Requests, NEW a \in Actions, LoadOwner(r, a)
  PROVE  IInv'
<1>1. PICK x : x = req[r]
  OBVIOUS
<1>2. x \in Request /\ Queue(x) /\ x.at = "owners"
  BY <1>1 DEF IInv, LoadOwner
<1>3. PICK i : i = Item("action", a)
  OBVIOUS
<1>4. i \in Items
  BY <1>3, ActionGateAssumption DEF Item, Items, Actions
<1>5. PICK l : l = IF Unseen(r, a) THEN Append(x.items, i) ELSE x.items
  OBVIOUS
<1>6. x.items \in Seq(Items) /\ Distinct(x.items)
  BY <1>2 DEF Request, Queue, Distinct
<1>7. l \in Seq(Items) /\ Distinct(l) /\ Listed(x.items) \subseteq Listed(l) /\ (Unseen(r, a) => i \in Listed(l))
  <2>1. CASE Unseen(r, a)
    <3>1. i \notin Listed(x.items) /\ l = Append(x.items, i)
      BY <1>1, <1>3, <1>5, <2>1 DEF Unseen
    <3>2. /\ l \in Seq(Items) /\ Len(l) = Len(x.items) + 1 /\ Len(x.items) \in Nat
          /\ DOMAIN l = 1..Len(l) /\ DOMAIN x.items = 1..Len(x.items)
          /\ \A k \in DOMAIN x.items : l[k] = x.items[k]
          /\ l[Len(l)] = i
      BY <1>4, <1>6, <3>1
    <3>3. \A k \in DOMAIN l : k \in DOMAIN x.items \/ k = Len(l)
      BY <3>2
    <3>4. \A k \in DOMAIN x.items : l[k] \in Listed(x.items)
      BY <3>2 DEF Listed
    <3>5. Distinct(l)
      BY <1>6, <3>1, <3>2, <3>3, <3>4 DEF Distinct
    <3>6. Len(l) \in DOMAIN l /\ \A k \in DOMAIN x.items : k \in DOMAIN l
      BY <3>2
    <3>7. Listed(x.items) \subseteq Listed(l) /\ i \in Listed(l)
      BY <3>2, <3>6 DEF Listed
    <3> QED BY <3>2, <3>5, <3>7
  <2>2. CASE ~Unseen(r, a)
    BY <1>5, <1>6, <2>2
  <2> QED BY <2>1, <2>2
<1>8. PICK y : y = [x EXCEPT !.left = @ \ {a}, !.items = l]
  OBVIOUS
<1>9. /\ y \in Request /\ y.at = "owners" /\ y.left = x.left \ {a} /\ y.items = l
      /\ y.rows = x.rows /\ y.found = x.found /\ y.kind = x.kind /\ y.on = x.on
      /\ y.client = x.client /\ y.waiting = x.waiting /\ y.steady = x.steady
  BY <1>2, <1>7, <1>8 DEF Request
<1>10. req' = [req EXCEPT ![r] = y]
  BY <1>1, <1>3, <1>5, <1>8 DEF LoadOwner
<1>11. \A b \in x.waiting : b \in y.left \/ Shows(y, b) \/ Outnumbered(y, b)
  <2> TAKE b \in x.waiting
  <2>1. b \in x.left \/ Shows(x, b) \/ Outnumbered(x, b)
    BY <1>2 DEF Queue
  <2>2. Shows(x, b) => Shows(y, b)
    BY <1>7, <1>9 DEF Shows
  <2>3. Outnumbered(x, b) => Outnumbered(y, b)
    BY <1>9 DEF Outnumbered
  <2>4. CASE b = a
    <3>1. Unseen(r, a) \/ Shows(x, a)
      BY <1>1, <1>2, <2>4 DEF Queue, Waits, Unseen, Shows
    <3> QED BY <1>3, <1>7, <1>9, <2>2, <2>4, <3>1 DEF Shows
  <2> QED BY <1>9, <2>1, <2>2, <2>3, <2>4
<1>12. \A w \in x.steady : HasEntry(l, w) \/ CutOff(y, w)
  BY <1>2, <1>7, <1>9 DEF Queue, HasEntry, CutOff
<1>13. Queue(y)
  BY <1>2, <1>7, <1>9, <1>11, <1>12 DEF Queue, Distinct
<1> QED BY <1>1, <1>2, <1>9, <1>10, <1>13, QueueMoves DEF LoadOwner

LEMMA EndQueueHolds ==
  ASSUME IInv, NEW r \in Requests, EndQueue(r)
  PROVE  IInv'
<1>1. PICK x : x = req[r]
  OBVIOUS
<1>2. x \in Request /\ Queue(x) /\ x.at = "owners" /\ x.left = {}
  BY <1>1 DEF IInv, EndQueue
<1>3. PICK y : y = [x EXCEPT !.at = "done"]
  OBVIOUS
<1>4. y \in Request /\ y.at = "done" /\ y.kind = x.kind /\ y.on = x.on /\ SameReading(y, x)
  BY <1>2, <1>3 DEF Request, Points, SameReading
<1>5. req' = [req EXCEPT ![r] = y]
  BY <1>1, <1>3 DEF EndQueue, Go
<1>6. Queue(y)
  BY <1>2, <1>4 DEF Queue, SameReading, Shows, CutOff, Outnumbered
<1> QED BY <1>1, <1>2, <1>4, <1>5, <1>6, QueueMoves DEF EndQueue

LEMMA NextHolds == IInv /\ [Next]_vars => IInv'
<1> SUFFICES ASSUME IInv, [Next]_vars PROVE IInv'
  OBVIOUS
<1>1. ASSUME NEW w \in Workflows, Ranked(w) \/ Pause(w) \/ Expire(w) PROVE IInv'
  BY <1>1, WorkflowHolds, ExpireHolds
<1>2. ASSUME NEW a \in Actions, Propose(a) PROVE IInv'
  BY <1>2, ProposeHolds
<1>3. ASSUME NEW r \in Requests, Arrive(r) PROVE IInv'
  BY <1>3, ArriveHolds
<1>4. ASSUME NEW r \in Requests, Handle(r) PROVE IInv'
  BY <1>4, DecisionHolds, AnnounceHolds, ExecuteHolds, FailHolds, ResumeHolds, ReadPausedHolds, EndScanHolds,
     ReadActionsHolds, ReadPendingHolds, LoadOwnerHolds, EndQueueHolds DEF Handle
<1>5. ASSUME NEW r \in Requests, Fail(r) \/ Respond(r) \/ TimeOut(r) PROVE IInv'
  BY <1>5, FailHolds, AnswerHolds
<1>6. CASE UNCHANGED vars
  BY <1>6 DEF vars, store, decisions, IInv, Typed, Standing, Earned, RowTold, Written, Queue, Waits, Outnumbered
<1> QED BY <1>1, <1>2, <1>3, <1>4, <1>5, <1>6 DEF Next

(* The strengthened invariant, for any workflows, findings and requests.   *)
THEOREM GateInvariant == Spec => []IInv
<1> QED BY InitHolds, NextHolds, PTL DEF Spec

(* Every variable keeps its type.                                          *)
THEOREM GateTypeCorrect == Spec => []TypeOK
<1>1. IInv => TypeOK
  BY DEF IInv, Typed, TypeOK
<1> QED BY <1>1, GateInvariant, PTL

(* A row that says executed tells of something that was carried out        *)
(* (execute_approved), whatever decisions and proposals interleave.        *)
THEOREM ExecutedWasDoneHolds == Spec => []ExecutedWasDone
<1>1. IInv => ExecutedWasDone
  BY DEF IInv, RowTold, ExecutedWasDone
<1> QED BY <1>1, GateInvariant, PTL

(* When all decisions on an action have ended and agree, the row says what *)
(* they say (approve, reject, mark_executed).                              *)
THEOREM AgreedDecisionSettlesHolds == Spec => []AgreedDecisionSettles
<1>1. IInv => AgreedDecisionSettles
  <2> SUFFICES ASSUME IInv, NEW a \in Actions, NEW kind \in {"accept", "reject"}, DecisionsOn(a) # {},
                      \A r \in DecisionsOn(a) : req[r].kind = kind /\ req[r].at = "done"
               PROVE  row[a] = IF kind = "accept" THEN "executed" ELSE "rejected"
    BY DEF AgreedDecisionSettles
  <2>1. PICK r \in DecisionsOn(a) : TRUE
    OBVIOUS
  <2>2. r \in Requests /\ req[r].on = a /\ req[r].kind = kind /\ req[r].at = "done"
    BY <2>1 DEF DecisionsOn
  <2>3. row[a] \in Status \ {"none", "pending_approval"}
    BY <2>2 DEF IInv, Typed, Written
  <2>4. \A q \in Requests : req[q].kind \in {"accept", "reject"} /\ req[q].on = a /\ req[q].at # "idle" =>
          req[q].kind = kind /\ req[q].at = "done"
    BY DEF DecisionsOn
  <2>5. \A q \in Requests : req[q].kind \in {"accept", "reject"} => req[q].at # "idle"
    BY DEF IInv, Standing
  <2>6. row[a] # "approved"
    BY <2>4, <2>5 DEF IInv, RowTold, Going, Executing
  <2>7. row[a] = "executed" => kind = "accept"
    <3>1. \A q \in dispatched : q \in Requests /\ req[q].kind = "accept"
      BY DEF IInv, Typed, Earned
    <3> QED BY <2>4, <2>5, <3>1 DEF IInv, RowTold
  <2>8. row[a] = "rejected" => kind = "reject"
    BY <2>4, <2>5 DEF IInv, RowTold
  <2> QED BY <2>3, <2>6, <2>7, <2>8 DEF Status
<1> QED BY <1>1, GateInvariant, PTL

(* The queue leaves out nothing that waited all the while but what its two *)
(* limits cut off, and what the second cuts off is older than all that it  *)
(* kept; and it shows nothing twice (HITLService.list_queue, list_pending). *)
THEOREM QueueCompleteHolds == Spec => []QueueComplete
<1>1. IInv => QueueComplete
  BY DEF IInv, Queue, HasEntry, Shows, CutOff, Full, QueueComplete
<1> QED BY <1>1, GateInvariant, PTL

(* The gate and the executor keep the contract: each execution spends an   *)
(* acceptance of its own, under any interleaving, failure and repetition.  *)
THEOREM KeepsContractHolds == Spec => KeepsContract
<1>1. Init => Contract!Init
  BY DEF Init, Contract!Init
<1>2. IInv /\ [Next]_vars => [Contract!Next]_<<accepted, dispatched>>
  <2> SUFFICES ASSUME IInv, [Next]_vars, <<accepted, dispatched>>' # <<accepted, dispatched>>
               PROVE  Contract!Next
    BY Zenon
  <2>1. \E r \in Requests : Approve(r) \/ Dispatch(r)
    BY ZenonT(40) DEF Next, vars, decisions, Ranked, Pause, Expire, Propose, Arrive, Decide, DecideWorkflow, ListQueue, Handle,
       AnnounceApproved, Fetch, Recheck, MarkExecuted, AnnounceExecuted, Reject, AnnounceRejected,
       LoadWorkflow, Resume, ReadPaused, EndScan, ReadActions, ReadPending, LoadOwner, EndQueue, Fail, Respond, TimeOut
  <2>2. PICK r \in Requests : Approve(r) \/ Dispatch(r)
    BY <2>1
  <2>3. CASE Approve(r)
    BY <2>3 DEF Approve, Contract!Next, Contract!Accept
  <2>4. CASE Dispatch(r)
    <3>1. r \in accepted \ dispatched
      BY <2>4 DEF Dispatch, IInv, Earned, Executing
    <3> QED BY <2>4, <3>1 DEF Dispatch, Contract!Next, Contract!CarryOut
  <2> QED BY <2>2, <2>3, <2>4
<1> QED BY <1>1, <1>2, GateInvariant, PTL DEF Spec, KeepsContract, Contract!Spec
=============================================================================
