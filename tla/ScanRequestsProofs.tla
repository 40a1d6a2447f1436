------------------------- MODULE ScanRequestsProofs -------------------------
(***************************************************************************)
(* What holds of the two ways a scan is asked for without a person at each *)
(* repository: a bulk request and a schedule.                              *)
(*                                                                         *)
(* For bulk scans, for any repositories and any number of polls: whatever  *)
(* order the refreshes load, read and save in, the counters that are       *)
(* stored tell the truth and an answer is no older than its question.      *)
(*                                                                         *)
(* For the scheduler, for any jobs, limit, interval, TTL and number of     *)
(* restarts and of calls that raise: a job is not lost before it has run,  *)
(* and each of these costs one recurring job at most, or one run too many. *)
(*                                                                         *)
(* The two share no state; the second part begins at InHand.               *)
(***************************************************************************)
EXTENDS BulkScans, Scheduler, FiniteSetTheorems, TLAPS

Completed == {c \in Repos : "completed" \in had[c]}

\* The request knows what it has started, and starts nothing twice.
Known ==
  /\ ids = {c \in Repos : wf[c] # "none"}
  /\ ids \cap todo = {}
  /\ at = "resolve" => ids = {}
  /\ \A c \in Repos : IF wf[c] = "none" THEN had[c] = {} ELSE wf[c] \in had[c]

\* A refresh that holds counters.
Counting(x) == ref[x].at \in {"read", "db"} \/ (x \in Polls /\ ref[x].at = "done")

\* Nothing is stored, or being refreshed, while workflows are started.
Early ==
  at \in {"resolve", "start", "redis"} =>
    /\ ~redis.saved /\ ~db.saved
    /\ \A x \in Refreshes : ~Counting(x)

Honest(s) ==
  s.saved =>
    /\ s.completed <= Cardinality(Completed)
    /\ s.ids = ids
    /\ s.completed + s.failed + s.in_progress >= Cardinality(ids)

\* What a refresh has counted is what it has read.
Done(x) == ids \ ref[x].todo
Tallied(x) ==
  Counting(x) =>
    /\ ref[x].as.saved /\ ref[x].as.ids = ids
    /\ ref[x].todo \subseteq ids
    /\ ref[x].at # "read" => ref[x].todo = {}
    /\ ref[x].as.completed <= Cardinality(Done(x) \cap Completed)
    /\ ref[x].as.completed + ref[x].as.failed + ref[x].as.in_progress = Cardinality(Done(x))
    /\ x \in Polls =>
         ref[x].as.in_progress <= Cardinality(Done(x) \ ended[x])

IInv ==
  /\ TypeOK /\ Known /\ Early /\ Honest(redis) /\ Honest(db)
  /\ \A x \in Refreshes : Tallied(x)
  /\ \A p \in Polls : ended[p] \subseteq Ended

\* Nothing is started, and what a workflow has said it has said.
Onward ==
  /\ ids' = ids
  /\ \A c \in Repos : (wf[c] = "none" <=> wf'[c] = "none") /\ had[c] \subseteq had'[c]
-----------------------------------------------------------------------------
LEMMA Finite ==
  ASSUME NEW S, S \subseteq Repos
  PROVE  IsFiniteSet(S) /\ Cardinality(S) \in Nat
BY FS_Subset, FS_CardinalityType, BulkScansAssumption

LEMMA Larger ==
  ASSUME NEW S, NEW T, S \subseteq T, T \subseteq Repos
  PROVE  Cardinality(S) \in Nat /\ Cardinality(T) \in Nat /\ Cardinality(S) <= Cardinality(T)
BY FS_Subset, Finite

LEMMA OneMore ==
  ASSUME NEW S, NEW c, S \subseteq Repos, c \in Repos \ S
  PROVE  /\ Cardinality(S) \in Nat
         /\ Cardinality(S \union {c}) = Cardinality(S) + 1
BY FS_AddElement, Finite

LEMMA NoneStatus == None \in Status /\ ~None.saved
BY DEF None, Status

LEMMA InitHolds == Init => IInv
<1> SUFFICES ASSUME Init PROVE IInv
  OBVIOUS
<1>1. Quiet \in [at : {"idle", "load", "read", "db", "done", "none"},
                 todo : SUBSET Repos, as : Status]
  BY NoneStatus DEF Quiet
<1>2. TypeOK
  BY <1>1, NoneStatus DEF Init, TypeOK
<1>3. Known
  BY DEF Init, Known
<1>4. \A x \in Refreshes : ~Counting(x)
  BY DEF Init, Quiet, Counting
<1>5. Early /\ Honest(redis) /\ Honest(db)
  BY <1>4, NoneStatus DEF Init, Early, Honest
<1>6. \A x \in Refreshes : Tallied(x)
  BY <1>4 DEF Tallied
<1>7. \A p \in Polls : ended[p] \subseteq Ended
  BY DEF Init
<1> QED BY <1>2, <1>3, <1>5, <1>6, <1>7 DEF IInv

\* As the workflows get on, what was counted stays true,
LEMMA HonestStays ==
  ASSUME IInv, Onward, NEW s \in Status, Honest(s)
  PROVE  s.saved =>
           /\ s.completed <= Cardinality(Completed')
           /\ s.ids = ids'
           /\ s.completed + s.failed + s.in_progress >= Cardinality(ids')
<1>1. Completed \subseteq Completed' /\ Completed' \subseteq Repos
  BY DEF Onward, Completed
<1>2. Cardinality(Completed) <= Cardinality(Completed')
      /\ Cardinality(Completed) \in Nat /\ Cardinality(Completed') \in Nat
  BY <1>1, Larger
<1>3. s.completed \in Nat
  BY DEF Status
<1> QED BY <1>2, <1>3 DEF Onward, Honest

\* and what a refresh has read.
LEMMA TalliedStays ==
  ASSUME IInv, Onward, NEW x \in Refreshes, ref'[x] = ref[x],
         x \in Polls => ended'[x] \subseteq ended[x]
  PROVE  Tallied(x)'
<1> SUFFICES ASSUME Counting(x)' PROVE Tallied(x)'
  BY DEF Tallied
<1>1. Counting(x)
  BY DEF Counting
<1>2. Done(x)' = Done(x) /\ ids \subseteq Repos /\ ids' = ids /\ ref[x].as \in Status
  BY DEF Done, Onward, IInv, TypeOK
<1>3. Tallied(x)
  BY DEF IInv
<1>4. Cardinality(Done(x) \cap Completed) <= Cardinality(Done(x) \cap Completed')
      /\ Cardinality(Done(x) \cap Completed) \in Nat /\ Cardinality(Done(x) \cap Completed') \in Nat
  <2>1. Done(x) \cap Completed \subseteq Done(x) \cap Completed'
    BY DEF Onward, Completed
  <2>2. Done(x) \cap Completed' \subseteq Repos
    BY <1>2 DEF Done
  <2> QED BY <2>1, <2>2, Larger
<1>5. ref[x].as.completed \in Nat /\ ref[x].as.in_progress \in Nat
  BY <1>2 DEF Status
<1>6. ref[x].as.completed <= Cardinality(Done(x) \cap Completed')
  BY <1>1, <1>3, <1>4, <1>5 DEF Tallied
<1>7. ASSUME x \in Polls
      PROVE  ref[x].as.in_progress <= Cardinality(Done(x) \ ended'[x])
  <2>1. Done(x) \ ended[x] \subseteq Done(x) \ ended'[x] /\ Done(x) \ ended'[x] \subseteq Repos
    BY <1>2, <1>7 DEF Done
  <2>2. /\ Cardinality(Done(x) \ ended[x]) \in Nat /\ Cardinality(Done(x) \ ended'[x]) \in Nat
        /\ Cardinality(Done(x) \ ended[x]) <= Cardinality(Done(x) \ ended'[x])
    BY <2>1, Larger
  <2>3. ref[x].as.in_progress <= Cardinality(Done(x) \ ended[x])
    BY <1>1, <1>3, <1>7 DEF Tallied
  <2> QED BY <1>5, <2>2, <2>3
<1>8. /\ ref'[x].as.saved /\ ref'[x].as.ids = ids' /\ ref'[x].todo \subseteq ids'
      /\ ref'[x].at # "read" => ref'[x].todo = {}
      /\ ref'[x].as.completed + ref'[x].as.failed + ref'[x].as.in_progress = Cardinality(Done(x)')
  BY <1>1, <1>2, <1>3 DEF Tallied
<1> QED BY <1>2, <1>6, <1>7, <1>8 DEF Tallied

\* A step of no refresh that starts nothing.
LEMMA Unrefreshed ==
  ASSUME IInv, Onward, ref' = ref, \A p \in Polls : ended'[p] \subseteq ended[p]
  PROVE  \A x \in Refreshes : Tallied(x)' /\ (Counting(x)' <=> Counting(x))
<1>1. \A x \in Refreshes : Tallied(x)'
  BY TalliedStays
<1>2. \A x \in Refreshes : Counting(x)' <=> Counting(x)
  BY DEF Counting
<1> QED BY <1>1, <1>2

\* What is stored stays honest where it is left alone.
LEMMA StoresStay ==
  ASSUME IInv, Onward
  PROVE  /\ redis' = redis => Honest(redis)'
         /\ db' = db => Honest(db)'
<1>1. redis \in Status /\ db \in Status /\ Honest(redis) /\ Honest(db)
  BY DEF IInv, TypeOK
<1> QED BY <1>1, HonestStays DEF Honest

\* Nothing moves but the handler, within the request.
LEMMA StillOnward ==
  ASSUME ids' = ids, UNCHANGED workflows
  PROVE  Onward /\ Completed' = Completed /\ Ended' = Ended
BY DEF Onward, workflows, Completed, Ended
-----------------------------------------------------------------------------
LEMMA ResolveHolds ==
  ASSUME IInv, Resolve
  PROVE  IInv'
<1>1. at = "resolve" /\ UNCHANGED <<route, ids, failures, workflows, redis, db, ref, ended>>
  BY DEF Resolve
<1>2. PICK S \in SUBSET Repos : targets' = S /\ todo' = S /\ at' \in {"refused", "start"}
  BY DEF Resolve
<1>3. TypeOK'
  BY <1>1, <1>2 DEF IInv, TypeOK, workflows
<1>4. Known'
  BY <1>1, <1>2 DEF IInv, Known, workflows
<1>5. Early'
  BY <1>1 DEF IInv, Early, Counting
<1> QED BY <1>1, <1>3, <1>4, <1>5, StillOnward, Unrefreshed, StoresStay DEF IInv

\* A start, in either loop.
LEMMA StartHolds ==
  ASSUME IInv, NEW c \in Repos, StartInBulk(c) \/ StartByTrigger(c)
  PROVE  IInv'
<1>1. at = "start" /\ c \in todo /\ todo' = todo \ {c}
      /\ UNCHANGED <<route, targets, redis, db, ref, ended>> /\ at' \in {"start", "failed"}
  BY DEF StartInBulk, StartByTrigger
<1>2. Begun(c) \/ NotBegun
  BY DEF StartInBulk, StartByTrigger
<1>3. failures' \in Nat
  BY DEF StartInBulk, StartByTrigger, IInv, TypeOK
<1>4. /\ wf \in [Repos -> {"none", "running"} \union Outcomes] /\ key \in [Repos -> BOOLEAN]
      /\ had \in [Repos -> SUBSET ({"running"} \union Outcomes)] /\ saves \in Nat
      /\ ids \subseteq Repos /\ wf[c] = "none"
  BY <1>1 DEF IInv, TypeOK, Known
<1>5. /\ wf' \in [Repos -> {"none", "running"} \union Outcomes] /\ key' \in [Repos -> BOOLEAN]
      /\ had' \in [Repos -> SUBSET ({"running"} \union Outcomes)] /\ saves' \in Nat
      /\ ids' \subseteq Repos
  BY <1>2, <1>4 DEF Begun, NotBegun, Save, workflows
<1>6. TypeOK'
  BY <1>1, <1>3, <1>5 DEF IInv, TypeOK
<1>7. Known'
  <2>1. CASE Begun(c)
    <3>1. /\ wf' = [wf EXCEPT ![c] = "running"] /\ ids' = ids \union {c}
          /\ had' = [had EXCEPT ![c] = @ \union {"running"}]
      BY <2>1 DEF Begun, Save
    <3>2. \A d \in Repos : IF wf'[d] = "none" THEN had'[d] = {} ELSE wf'[d] \in had'[d]
      BY <1>4, <3>1 DEF IInv, Known
    <3> QED BY <1>1, <1>4, <3>1, <3>2 DEF IInv, Known
  <2>2. CASE NotBegun
    BY <1>1, <2>2 DEF IInv, Known, NotBegun, workflows
  <2> QED BY <1>2, <2>1, <2>2
<1>8. ~redis.saved /\ ~db.saved /\ \A x \in Refreshes : ~Counting(x)
  BY <1>1 DEF IInv, Early
<1>9. \A x \in Refreshes : ~Counting(x)'
  BY <1>1, <1>8 DEF Counting
<1>10. Early' /\ Honest(redis)' /\ Honest(db)' /\ \A x \in Refreshes : Tallied(x)'
  BY <1>1, <1>8, <1>9 DEF Early, Honest, Tallied
<1>11. \A p \in Polls : ended'[p] \subseteq Ended'
  <2>1. Ended' = Ended
    BY <1>2, <1>4 DEF Begun, NotBegun, Save, workflows, Ended, Outcomes
  <2> QED BY <1>1, <2>1 DEF IInv
<1> QED BY <1>6, <1>7, <1>10, <1>11 DEF IInv

LEMMA StartedHolds ==
  ASSUME IInv, Started
  PROVE  IInv'
<1>1. at = "start" /\ at' \in {"redis", "done"}
      /\ UNCHANGED <<route, targets, todo, ids, failures, workflows, redis, db, ref, ended>>
  BY DEF Started
<1>2. TypeOK' /\ Known'
  BY <1>1 DEF IInv, TypeOK, Known, workflows
<1>3. Early'
  BY <1>1 DEF IInv, Early, Counting
<1> QED BY <1>1, <1>2, <1>3, StillOnward, Unrefreshed, StoresStay DEF IInv

\* What is saved first counts every workflow as in progress.
LEMMA FirstIsHonest ==
  ASSUME IInv
  PROVE  FirstStatus \in Status /\ Honest(FirstStatus)
<1>1. Cardinality(targets) \in Nat /\ Cardinality(ids) \in Nat /\ Cardinality(Completed) \in Nat
  BY Finite DEF IInv, TypeOK, Completed
<1>2. failures \in Nat /\ ids \subseteq Repos
  BY DEF IInv, TypeOK
<1> QED BY <1>1, <1>2 DEF FirstStatus, Status, Honest

LEMMA SaveFirstHolds ==
  ASSUME IInv, SaveFirst
  PROVE  IInv'
<1>1. at \in {"redis", "db"} /\ at' \in {"db", "done", "failed"}
      /\ UNCHANGED <<route, targets, todo, ids, failures, workflows, ref, ended>>
  BY DEF SaveFirst
<1>2. redis' \in {redis, FirstStatus} /\ db' \in {db, FirstStatus}
  BY DEF SaveFirst
<1>3. redis' \in Status /\ db' \in Status
  BY <1>2, FirstIsHonest DEF IInv, TypeOK
<1>4. TypeOK' /\ Known'
  BY <1>1, <1>3 DEF IInv, TypeOK, Known, workflows
<1>5. Early'
  BY <1>1 DEF Early
<1>6. Completed' = Completed
  BY <1>1, StillOnward
<1>7. Honest(redis)' /\ Honest(db)'
  BY <1>1, <1>2, <1>6, FirstIsHonest DEF IInv, Honest
<1> QED BY <1>1, <1>4, <1>5, <1>7, StillOnward, Unrefreshed DEF IInv

\* A step of the workflows, which may expire what is stored and let a hook begin.
LEMMA Moved ==
  ASSUME IInv, Onward, TypeOK', Known',
         UNCHANGED <<handler, db>>, redis' = redis \/ redis' = None,
         \A p \in Polls : ended'[p] \subseteq ended[p] /\ ended'[p] \subseteq Ended',
         \A x \in Refreshes : ref'[x] = ref[x] \/ ~Counting(x)'
  PROVE  IInv'
<1>1. ASSUME NEW x \in Refreshes
      PROVE  Tallied(x)' /\ (Counting(x)' => Counting(x))
  <2>1. CASE ref'[x] = ref[x]
    BY <2>1, TalliedStays DEF Counting
  <2>2. CASE ~Counting(x)'
    BY <2>2 DEF Tallied
  <2> QED BY <2>1, <2>2
<1>2. Early'
  BY <1>1, NoneStatus DEF IInv, Early, handler
<1>3. Honest(redis)' /\ Honest(db)'
  BY StoresStay, NoneStatus DEF Honest
<1> QED BY <1>1, <1>2, <1>3 DEF IInv

\* What a save of a workflow that was started leaves true.
LEMMA Saved ==
  ASSUME IInv, NEW c \in Repos, NEW status \in {"running"} \union Outcomes, wf[c] # "none",
         SaveLater(c, status), UNCHANGED handler
  PROVE  /\ wf' \in [Repos -> {"none", "running"} \union Outcomes]
         /\ had' \in [Repos -> SUBSET ({"running"} \union Outcomes)]
         /\ key' \in [Repos -> BOOLEAN] /\ saves' \in Nat
         /\ Onward /\ Known'
         /\ \A d \in Ended : d \in Ended' \/ (d = c /\ status = "running")
<1>1. /\ wf \in [Repos -> {"none", "running"} \union Outcomes]
      /\ had \in [Repos -> SUBSET ({"running"} \union Outcomes)]
      /\ key \in [Repos -> BOOLEAN] /\ saves \in Nat
  BY DEF IInv, TypeOK
<1>2. /\ wf' = [wf EXCEPT ![c] = status] /\ had' = [had EXCEPT ![c] = @ \union {status}]
      /\ key' = [key EXCEPT ![c] = TRUE] /\ saves' = saves + 1
  BY DEF SaveLater, Save
<1>3. /\ wf' \in [Repos -> {"none", "running"} \union Outcomes]
      /\ had' \in [Repos -> SUBSET ({"running"} \union Outcomes)]
      /\ key' \in [Repos -> BOOLEAN] /\ saves' \in Nat
  BY <1>1, <1>2
<1>4. status # "none"
  BY DEF Outcomes
<1>5. Onward
  BY <1>1, <1>2, <1>4 DEF Onward, handler
<1>6. \A d \in Repos : IF wf'[d] = "none" THEN had'[d] = {} ELSE wf'[d] \in had'[d]
  BY <1>1, <1>2, <1>4 DEF IInv, Known
<1>7. Known'
  BY <1>5, <1>6 DEF IInv, Known, Onward, handler
<1>8. \A d \in Ended : d \in Ended' \/ (d = c /\ status = "running")
  BY <1>1, <1>2 DEF Ended, Outcomes
<1> QED BY <1>3, <1>5, <1>7, <1>8

LEMMA CompleteHolds ==
  ASSUME IInv, NEW c \in Repos, Complete(c)
  PROVE  IInv'
<1>1. wf[c] # "none" /\ UNCHANGED <<handler, redis, db, ended>>
  BY DEF Complete
<1>2. /\ wf' \in [Repos -> {"none", "running"} \union Outcomes]
      /\ had' \in [Repos -> SUBSET ({"running"} \union Outcomes)]
      /\ key' \in [Repos -> BOOLEAN] /\ saves' \in Nat
      /\ Onward /\ Known' /\ Ended \subseteq Ended'
  <2>1. CASE SaveLater(c, "completed")
    BY <1>1, <2>1, Saved DEF Outcomes
  <2>2. CASE UNCHANGED workflows
    BY <1>1, <2>2, StillOnward DEF IInv, TypeOK, Known, workflows, handler
  <2> QED BY <2>1, <2>2 DEF Complete
<1>3. /\ ref' \in [Refreshes -> [at : {"idle", "load", "read", "db", "done", "none"},
                                todo : SUBSET Repos, as : Status]]
      /\ \A x \in Refreshes : ref'[x] = ref[x] \/ ~Counting(x)'
  <2>1. ref \in [Refreshes -> [at : {"idle", "load", "read", "db", "done", "none"},
                               todo : SUBSET Repos, as : Status]]
    BY DEF IInv, TypeOK
  <2>2. CASE ref' = ref
    BY <2>1, <2>2
  <2>3. CASE ref' # ref
    <3>1. PICK h \in Hooks : ref' = [ref EXCEPT ![h].at = "load"]
      BY <2>3 DEF Complete
    <3> QED BY <2>1, <3>1 DEF Refreshes, Counting
  <2> QED BY <2>2, <2>3
<1>4. TypeOK'
  BY <1>1, <1>2, <1>3 DEF IInv, TypeOK, handler
<1>5. \A p \in Polls : ended'[p] \subseteq ended[p] /\ ended'[p] \subseteq Ended'
  BY <1>1, <1>2 DEF IInv
<1> QED BY <1>1, <1>2, <1>3, <1>4, <1>5, Moved

LEMMA OverwriteHolds ==
  ASSUME IInv, NEW c \in Repos, Fail(c) \/ SaveStale(c)
  PROVE  IInv'
<1>1. PICK status \in {"running"} \union Outcomes :
        /\ wf[c] # "none" /\ SaveLater(c, status) /\ UNCHANGED <<handler, redis, db, ref>>
        /\ IF status = "running" THEN Unended(c) ELSE UNCHANGED ended
  <2>1. CASE Fail(c)
    BY <2>1 DEF Fail, Outcomes
  <2>2. CASE SaveStale(c)
    <3>1. had[c] \subseteq {"running"} \union Outcomes /\ (had[c] # {} => wf[c] # "none")
      BY DEF IInv, TypeOK, Known
    <3> QED BY <2>2, <3>1 DEF SaveStale
  <2> QED BY <2>1, <2>2
<1>2. /\ wf' \in [Repos -> {"none", "running"} \union Outcomes]
      /\ had' \in [Repos -> SUBSET ({"running"} \union Outcomes)]
      /\ key' \in [Repos -> BOOLEAN] /\ saves' \in Nat
      /\ Onward /\ Known'
      /\ \A d \in Ended : d \in Ended' \/ (d = c /\ status = "running")
  BY <1>1, Saved
<1>3. ended \in [Polls -> SUBSET Repos] /\ \A p \in Polls : ended[p] \subseteq Ended
  BY DEF IInv, TypeOK
<1>4. /\ ended' \in [Polls -> SUBSET Repos]
      /\ \A p \in Polls : ended'[p] \subseteq ended[p] /\ ended'[p] \subseteq Ended'
  BY <1>1, <1>2, <1>3 DEF Unended
<1>5. TypeOK'
  BY <1>1, <1>2, <1>4 DEF IInv, TypeOK, handler
<1> QED BY <1>1, <1>2, <1>4, <1>5, Moved

LEMMA ExpireHolds ==
  ASSUME IInv, ExpireBulk \/ \E c \in Repos : ExpireState(c)
  PROVE  IInv'
<1>1. UNCHANGED <<handler, wf, had, saves, db, ref>> /\ (redis' = redis \/ redis' = None)
  BY DEF ExpireBulk, ExpireState, workflows
<1>2. Onward
  BY <1>1 DEF Onward, handler
<1>3. /\ key \in [Repos -> BOOLEAN] /\ ended \in [Polls -> SUBSET Repos]
      /\ \A p \in Polls : ended[p] \subseteq Ended
  BY DEF IInv, TypeOK
<1>4. /\ key' \in [Repos -> BOOLEAN] /\ ended' \in [Polls -> SUBSET Repos]
      /\ \A p \in Polls : ended'[p] \subseteq ended[p] /\ ended'[p] \subseteq Ended'
  <2>1. CASE ExpireBulk
    BY <1>3, <2>1, StillOnward DEF ExpireBulk, handler, workflows
  <2>2. CASE \E c \in Repos : ExpireState(c)
    <3>1. PICK c \in Repos : key' = [key EXCEPT ![c] = FALSE] /\ Unended(c)
      BY <2>2 DEF ExpireState
    <3> QED BY <1>1, <1>3, <3>1 DEF Unended, Ended
  <2> QED BY <2>1, <2>2
<1>5. TypeOK' /\ Known'
  BY <1>1, <1>4, NoneStatus DEF IInv, TypeOK, Known, handler
<1> QED BY <1>1, <1>2, <1>4, <1>5, Moved
-----------------------------------------------------------------------------
(* The refreshes. *)

Refresh == [at : {"idle", "load", "read", "db", "done", "none"},
            todo : SUBSET Repos, as : Status]

LEMMA RefTyped == IInv => ref \in [Refreshes -> Refresh]
BY DEF IInv, TypeOK, Refresh

\* A step of one refresh that leaves the stores keeps them, and needs only keep its own tally.
LEMMA OnlyItself ==
  ASSUME IInv, NEW x \in Refreshes, NEW y \in Refresh, ref' = [ref EXCEPT ![x] = y],
         UNCHANGED <<handler, workflows, redis, db>>,
         ended' \in [Polls -> SUBSET Repos], \A p \in Polls : ended'[p] \subseteq Ended,
         \A p \in Polls \ {x} : ended'[p] = ended[p],
         Counting(x)' => Counting(x) \/ redis.saved \/ db.saved,
         Tallied(x)'
  PROVE  IInv'
<1>1. ref \in [Refreshes -> Refresh]
  BY RefTyped
<1>2. ref' \in [Refreshes -> Refresh] /\ \A z \in Refreshes \ {x} : ref'[z] = ref[z]
  BY <1>1
<1>3. Onward /\ Ended' = Ended
  BY StillOnward DEF handler
<1>4. TypeOK' /\ Known'
  BY <1>2 DEF IInv, TypeOK, Known, Refresh, handler, workflows
<1>5. Early'
  BY <1>2 DEF IInv, Early, Counting, handler
<1>6. Honest(redis)' /\ Honest(db)'
  BY <1>3, StoresStay
<1>7. \A z \in Refreshes : Tallied(z)'
  <2>1. ASSUME NEW z \in Refreshes \ {x} PROVE Tallied(z)'
    BY <1>2, <1>3, <2>1, TalliedStays
  <2> QED BY <2>1
<1>8. \A p \in Polls : ended'[p] \subseteq Ended'
  BY <1>3
<1> QED BY <1>4, <1>5, <1>6, <1>7, <1>8 DEF IInv

LEMMA AskHolds ==
  ASSUME IInv, NEW p \in Polls, Ask(p)
  PROVE  IInv'
<1> DEFINE y == [ref[p] EXCEPT !.at = "load"]
<1>1. p \in Refreshes /\ ref \in [Refreshes -> Refresh]
  BY RefTyped DEF Refreshes
<1>2. y \in Refresh /\ ref' = [ref EXCEPT ![p] = y]
  BY <1>1 DEF Ask, Refresh
<1>3. ~Counting(p)'
  BY <1>1, <1>2 DEF Counting
<1>4. /\ ended' \in [Polls -> SUBSET Repos]
      /\ \A q \in Polls : ended'[q] \subseteq Ended
      /\ \A q \in Polls \ {p} : ended'[q] = ended[q]
  BY DEF Ask, IInv, TypeOK, Ended
<1>5. UNCHANGED <<handler, workflows, redis, db>>
  BY DEF Ask
<1> HIDE DEF y
<1> QED BY <1>1, <1>2, <1>3, <1>4, <1>5, OnlyItself DEF Tallied

\* What a refresh finds is one of the two, and of a workflow it has counted nothing.
LEMMA LoadHolds ==
  ASSUME IInv, NEW x \in Refreshes, Load(x)
  PROVE  IInv'
<1> DEFINE status == IF redis.saved THEN redis ELSE db
           count == [status EXCEPT !.completed = 0, !.failed = 0, !.in_progress = 0]
           y == [ref[x] EXCEPT !.todo = status.ids, !.as = count,
                               !.at = IF status.saved THEN "read" ELSE Nothing(x)]
<1>1. ref \in [Refreshes -> Refresh] /\ status \in Status
  BY RefTyped DEF IInv, TypeOK
<1>2. Honest(status)
  BY DEF IInv
<1>3. status.saved => redis.saved \/ db.saved
  OBVIOUS
<1> HIDE DEF status
<1>4. /\ count \in Status /\ count.saved = status.saved /\ count.ids = status.ids
      /\ count.completed = 0 /\ count.failed = 0 /\ count.in_progress = 0
  BY <1>1 DEF Status
<1> HIDE DEF count
<1>5. /\ y \in Refresh /\ y.todo = status.ids /\ y.as = count
      /\ IF status.saved THEN y.at = "read" ELSE y.at \in {"idle", "none"}
  BY <1>1, <1>4 DEF Refresh, Status, Nothing
<1>6. ref' = [ref EXCEPT ![x] = y] /\ UNCHANGED <<handler, workflows, redis, db, ended>>
  BY <1>1 DEF Load, status, count, Nothing
<1> HIDE DEF y
<1>7. ref'[x] = y
  BY <1>1, <1>6
<1>8. Counting(x)' => status.saved
  BY <1>5, <1>7 DEF Counting
<1>9. Tallied(x)'
  <2> SUFFICES ASSUME status.saved, y.at = "read" PROVE Tallied(x)'
    BY <1>5, <1>7, <1>8 DEF Tallied, Counting
  <2>1. status.ids = ids /\ ids' = ids /\ ids \subseteq Repos
    BY <1>2, <1>6 DEF Honest, handler, IInv, TypeOK
  <2>2. Done(x)' = {}
    BY <1>5, <1>7, <2>1 DEF Done
  <2>3. Cardinality({}) = 0 /\ Done(x)' \cap Completed' = {}
        /\ Done(x)' \ ended'[x] = {}
    BY <2>2, FS_EmptySet
  <2>4. /\ ref'[x].at = "read" /\ ref'[x].todo = ids' /\ ref'[x].as.saved /\ ref'[x].as.ids = ids'
        /\ ref'[x].as.completed = 0 /\ ref'[x].as.failed = 0 /\ ref'[x].as.in_progress = 0
    BY <1>4, <1>5, <1>7, <2>1
  <2> QED BY <2>2, <2>3, <2>4 DEF Tallied
<1>10. ended \in [Polls -> SUBSET Repos] /\ \A p \in Polls : ended[p] \subseteq Ended
  BY DEF IInv, TypeOK
<1> QED BY <1>3, <1>5, <1>6, <1>8, <1>9, <1>10, OnlyItself

\* Reading one state moves it to what has been counted.
LEMMA ReadHolds ==
  ASSUME IInv, NEW x \in Refreshes, NEW c \in Repos, Read(x, c)
  PROVE  IInv'
<1> DEFINE old == ref[x].as
           count == Counted(old, c)
           y == [ref[x] EXCEPT !.todo = @ \ {c}, !.as = count]
<1>1. ref \in [Refreshes -> Refresh] /\ ref[x].at = "read" /\ c \in ref[x].todo
  BY RefTyped DEF Read
<1>2. old \in Status /\ Counting(x) /\ Tallied(x)
  BY <1>1 DEF Refresh, Counting, IInv
<1> DEFINE one == IF key[c] /\ wf[c] = "completed" THEN <<1, 0, 0>>
                     ELSE IF key[c] /\ wf[c] = "failed" THEN <<0, 1, 0>> ELSE <<0, 0, 1>>
<1>3. /\ count \in Status /\ count.saved = old.saved /\ count.ids = old.ids
      /\ count.completed = old.completed + one[1] /\ count.failed = old.failed + one[2]
      /\ count.in_progress = old.in_progress + one[3]
  BY <1>2 DEF Counted, Status
<1> HIDE DEF count
<1>4. y \in Refresh /\ y.todo = ref[x].todo \ {c} /\ y.as = count /\ y.at = "read"
  BY <1>1, <1>3 DEF Refresh
<1>5. ref' = [ref EXCEPT ![x] = y] /\ UNCHANGED <<handler, workflows, redis, db, ended>>
  BY <1>1 DEF Read, count
<1> HIDE DEF y
<1>6. ref'[x] = y
  BY <1>1, <1>5
<1>7. /\ old.saved /\ old.ids = ids /\ ids' = ids /\ ids \subseteq Repos
      /\ old.completed \in Nat /\ old.failed \in Nat /\ old.in_progress \in Nat
  BY <1>2, <1>5 DEF Tallied, Status, handler, IInv, TypeOK
<1>8. /\ c \in ids \ Done(x) /\ Done(x)' = Done(x) \union {c} /\ Done(x) \subseteq Repos
      /\ y.todo \subseteq ids
  BY <1>1, <1>2, <1>4, <1>6, <1>7 DEF Done, Tallied
<1>9. /\ Cardinality(Done(x)) \in Nat
      /\ Cardinality(Done(x)') = Cardinality(Done(x)) + 1
  BY <1>8, OneMore
<1>10. count.completed + count.failed + count.in_progress = Cardinality(Done(x)')
  <2>1. old.completed + old.failed + old.in_progress = Cardinality(Done(x))
    BY <1>2 DEF Tallied
  <2>2. one \in {<<1, 0, 0>>, <<0, 1, 0>>, <<0, 0, 1>>}
    OBVIOUS
  <2>3. count.completed + count.failed + count.in_progress
        = old.completed + old.failed + old.in_progress + 1
    BY <1>3, <1>7, <2>2
  <2> QED BY <1>9, <2>1, <2>3
<1>11. Completed' = Completed
  BY <1>5, StillOnward DEF handler
<1>12. count.completed <= Cardinality(Done(x)' \cap Completed')
  <2> DEFINE seen == Done(x) \cap Completed
  <2>1. old.completed <= Cardinality(seen) /\ seen \subseteq Repos
    BY <1>2, <1>8 DEF Tallied
  <2>2. CASE one[1] = 1
    <3>1. c \in Completed
      BY <2>2 DEF Completed, IInv, Known
    <3>2. c \notin seen /\ Done(x)' \cap Completed' = seen \union {c}
      BY <1>8, <1>11, <3>1
    <3>3. Cardinality(seen) \in Nat /\ Cardinality(seen \union {c}) = Cardinality(seen) + 1
      BY <2>1, <3>2, OneMore
    <3>4. count.completed <= old.completed + 1
      BY <1>3, <1>7
    <3>5. count.completed \in Nat
      BY <1>3 DEF Status
    <3>6. Cardinality(Done(x)' \cap Completed') = Cardinality(seen) + 1
      BY <3>2, <3>3
    <3>7. count.completed <= Cardinality(seen) + 1
      BY <1>7, <2>1, <3>3, <3>4, <3>5
    <3> QED BY <3>6, <3>7
  <2>3. CASE one[1] # 1
    <3>1. seen \subseteq Done(x)' \cap Completed' /\ Done(x)' \cap Completed' \subseteq Repos
      BY <1>8, <1>11 DEF Completed
    <3>2. count.completed = old.completed
      BY <1>3, <1>7, <2>3
    <3>3. /\ Cardinality(seen) \in Nat /\ Cardinality(Done(x)' \cap Completed') \in Nat
          /\ Cardinality(seen) <= Cardinality(Done(x)' \cap Completed')
      BY <3>1, Larger
    <3> QED BY <1>7, <2>1, <3>2, <3>3
  <2> QED BY <2>2, <2>3
<1>13. ASSUME x \in Polls
       PROVE  count.in_progress <= Cardinality(Done(x)' \ ended'[x])
  <2> DEFINE open == Done(x) \ ended[x]
             opened == Done(x)' \ ended'[x]
  <2>1. /\ old.in_progress <= Cardinality(open) /\ open \subseteq Repos /\ c \notin open
    BY <1>2, <1>8, <1>13 DEF Tallied
  <2>2. CASE c \notin ended[x]
    <3>1. opened = open \union {c}
      BY <1>5, <1>8, <2>2
    <3>2. Cardinality(open) \in Nat /\ Cardinality(opened) = Cardinality(open) + 1
      BY <2>1, <3>1, OneMore
    <3>3. count.in_progress <= old.in_progress + 1 /\ count.in_progress \in Nat
      BY <1>3, <1>7 DEF Status
    <3>4. count.in_progress <= Cardinality(opened)
      <4> HIDE DEF open, opened
      <4> QED BY <1>7, <2>1, <3>2, <3>3
    <3> QED BY <3>4
  <2>3. CASE c \in ended[x]
    <3>1. key[c] /\ wf[c] \in Outcomes
      BY <1>13, <2>3 DEF IInv, Ended
    <3>2. count.in_progress = old.in_progress
      BY <1>3, <1>7, <3>1 DEF Outcomes
    <3>3. opened = open
      BY <1>5, <1>8, <2>3
    <3> QED BY <2>1, <3>2, <3>3
  <2> QED BY <2>2, <2>3
<1>14. Tallied(x)'
  <2>1. /\ ref'[x].at = "read" /\ ref'[x].as = count /\ ref'[x].todo \subseteq ids'
        /\ count.saved /\ count.ids = ids'
    BY <1>3, <1>4, <1>6, <1>7, <1>8
  <2> QED BY <1>10, <1>12, <1>13, <2>1 DEF Tallied
<1>15. ended \in [Polls -> SUBSET Repos] /\ \A p \in Polls : ended[p] \subseteq Ended
  BY DEF IInv, TypeOK
<1> QED BY <1>2, <1>4, <1>5, <1>14, <1>15, OnlyItself

\* What a refresh saves is what it has counted of every workflow.
LEMMA SaveRefreshHolds ==
  ASSUME IInv, NEW x \in Refreshes, SaveRefresh(x)
  PROVE  IInv'
<1>1. /\ ref \in [Refreshes -> Refresh] /\ ref[x].at \in {"read", "db"} /\ Counting(x) /\ Tallied(x)
      /\ ref[x].at = "read" => ref[x].todo = {}
  BY RefTyped DEF SaveRefresh, Counting, IInv
<1>2. UNCHANGED <<handler, workflows, ended>>
  BY DEF SaveRefresh
<1>3. redis' \in {redis, ref[x].as} /\ db' \in {db, ref[x].as}
  BY DEF SaveRefresh
<1>4. ref' \in [Refreshes -> Refresh] /\ \A z \in Refreshes \ {x} : ref'[z] = ref[z]
  <2>1. CASE ref[x].at = "read"
    <3>1. ref' = [ref EXCEPT ![x].at = "db"]
      BY <2>1 DEF SaveRefresh
    <3> QED BY <1>1, <3>1 DEF Refresh
  <2>2. CASE ref[x].at = "db"
    <3>1. ref' = [ref EXCEPT ![x] = IF x \in Polls THEN [@ EXCEPT !.at = "done"] ELSE Quiet]
      BY <2>2 DEF SaveRefresh
    <3>2. Quiet \in Refresh
      BY NoneStatus DEF Quiet, Refresh
    <3>3. CASE x \in Polls
      BY <1>1, <3>1, <3>3 DEF Refresh
    <3>4. CASE x \notin Polls
      BY <1>1, <3>1, <3>2, <3>4
    <3> QED BY <3>3, <3>4
  <2> QED BY <1>1, <2>1, <2>2
<1>5. \/ /\ ref'[x].at \in {"db", "done"} /\ ref'[x].todo = ref[x].todo /\ ref'[x].as = ref[x].as
      \/ ~Counting(x)'
  <2>1. CASE ref[x].at = "read" \/ x \in Polls
    BY <1>1, <2>1 DEF SaveRefresh, Refresh
  <2>2. CASE ref[x].at = "db" /\ x \notin Polls
    <3>1. ref'[x] = Quiet
      BY <1>1, <2>2 DEF SaveRefresh
    <3> QED BY <3>1 DEF Quiet, Counting
  <2> QED BY <1>1, <2>1, <2>2
<1>6. Onward /\ Completed' = Completed /\ Ended' = Ended
  BY <1>2, StillOnward DEF handler
<1>7. ref[x].as \in Status /\ Done(x) = ids /\ ids \subseteq Repos
  BY <1>1 DEF Refresh, Done, Tallied, IInv, TypeOK
<1>8. TypeOK' /\ Known'
  BY <1>2, <1>3, <1>4, <1>7 DEF IInv, TypeOK, Known, Refresh, handler, workflows
<1>9. Early'
  <2>1. at \notin {"resolve", "start", "redis"}
    BY <1>1 DEF IInv, Early
  <2> QED BY <1>2, <2>1 DEF Early, handler
<1>10. Honest(ref[x].as)
  <2>1. ids \cap Completed \subseteq Completed /\ Completed \subseteq Repos
    BY DEF Completed
  <2>2. /\ Cardinality(ids \cap Completed) \in Nat /\ Cardinality(Completed) \in Nat
        /\ Cardinality(ids \cap Completed) <= Cardinality(Completed)
    BY <2>1, Larger
  <2>3. Cardinality(ids) \in Nat
    BY <1>7, Finite
  <2> QED BY <1>1, <1>7, <2>2, <2>3 DEF Honest, Tallied, Status
<1>11. Honest(redis)' /\ Honest(db)'
  <2>1. ids' = ids /\ Completed' = Completed
    BY <1>2, <1>6 DEF handler
  <2> QED BY <1>3, <1>10, <2>1 DEF Honest, IInv
<1>12. \A z \in Refreshes : Tallied(z)'
  <2>1. ASSUME NEW z \in Refreshes \ {x} PROVE Tallied(z)'
    BY <1>2, <1>4, <1>6, <2>1, TalliedStays
  <2>2. Tallied(x)'
    <3> SUFFICES ASSUME ref'[x].as = ref[x].as, ref'[x].todo = ref[x].todo PROVE Tallied(x)'
      BY <1>5 DEF Tallied
    <3>1. ref'[x].todo = {} /\ ref[x].todo = {}
      BY <1>1 DEF Tallied
    <3>2. Done(x)' = Done(x) /\ UNCHANGED <<ids, ended>>
      BY <1>2, <3>1 DEF Done, handler
    <3> QED BY <1>1, <1>6, <3>1, <3>2 DEF Tallied
  <2> QED BY <2>1, <2>2
<1>13. \A p \in Polls : ended'[p] \subseteq Ended'
  BY <1>2, <1>6 DEF IInv
<1> QED BY <1>8, <1>9, <1>11, <1>12, <1>13 DEF IInv

LEMMA FailRefreshHolds ==
  ASSUME IInv, NEW x \in Refreshes, FailRefresh(x)
  PROVE  IInv'
<1> DEFINE y == [Quiet EXCEPT !.at = Nothing(x)]
<1>1. ref \in [Refreshes -> Refresh] /\ ref' = [ref EXCEPT ![x] = y]
      /\ UNCHANGED <<handler, workflows, redis, db, ended>>
  BY RefTyped DEF FailRefresh
<1>2. y \in Refresh /\ y.at \in {"idle", "none"}
  BY NoneStatus DEF Quiet, Refresh, Nothing
<1> HIDE DEF y
<1>3. ~Counting(x)'
  BY <1>1, <1>2 DEF Counting
<1>4. ended \in [Polls -> SUBSET Repos] /\ \A p \in Polls : ended[p] \subseteq Ended
  BY DEF IInv, TypeOK
<1>5. Tallied(x)'
  BY <1>3 DEF Tallied
<1> QED BY <1>1, <1>2, <1>3, <1>4, <1>5, OnlyItself
-----------------------------------------------------------------------------
LEMMA NextHolds == IInv /\ [Next]_vars => IInv'
<1> SUFFICES ASSUME IInv, [Next]_vars PROVE IInv'
  OBVIOUS
<1>1. CASE UNCHANGED vars
  <2>1. TypeOK' /\ Known' /\ Early'
    BY <1>1 DEF vars, handler, workflows, IInv, TypeOK, Known, Early, Counting
  <2>2. Onward /\ Ended' = Ended /\ UNCHANGED <<ref, ended, redis, db>>
    BY <1>1, StillOnward DEF vars, handler
  <2> QED BY <2>1, <2>2, Unrefreshed, StoresStay DEF IInv
<1>2. CASE Next
  BY <1>2, ResolveHolds, StartHolds, StartedHolds, SaveFirstHolds, CompleteHolds, OverwriteHolds,
     ExpireHolds, AskHolds, LoadHolds, ReadHolds, SaveRefreshHolds, FailRefreshHolds DEF Next
<1> QED BY <1>1, <1>2

(* The request, the workflows, the stores and every refresh agree on what  *)
(* has been started and counted, in whatever order they take their steps   *)
(* (BulkScanStore.save, refresh_from_workflows).                           *)
THEOREM BulkInvariant == Spec => []IInv
<1>1. Init => IInv
  BY InitHolds
<1>2. IInv /\ [Next]_vars => IInv'
  BY NextHolds
<1> QED BY <1>1, <1>2, PTL DEF Spec

(* The handler, the stores and the refreshes keep their types.             *)
THEOREM BulkTypeCorrect == Spec => []TypeOK
<1>1. IInv => TypeOK
  BY DEF IInv
<1> QED BY <1>1, BulkInvariant, PTL

(* Whichever of two refreshes saves last, what Redis and Postgres hold     *)
(* names every workflow of the request, counts each, and counts no more as *)
(* completed than have said so once (refresh_from_workflows).              *)
THEOREM CountersHonestHolds == Spec => []CountersHonest
<1>1. IInv => CountersHonest
  <2> SUFFICES ASSUME IInv, NEW s \in {redis, db}, s.saved
               PROVE  /\ s.completed <= Cardinality({c \in Repos : "completed" \in had[c]})
                      /\ s.ids = {c \in Repos : wf[c] # "none"}
                      /\ s.completed + s.failed + s.in_progress >= Cardinality(s.ids)
    BY DEF CountersHonest, Stored
  <2>1. Honest(s) /\ ids = {c \in Repos : wf[c] # "none"}
    BY DEF IInv, Known
  <2> QED BY <2>1 DEF Honest, Completed
<1> QED BY <1>1, BulkInvariant, PTL

(* An answer counts as in progress only what had not ended when it was     *)
(* asked for, or has expired or taken its outcome back since, whatever     *)
(* other refreshes save meanwhile (the endpoint answers with its own       *)
(* refresh).                                                               *)
THEOREM PollFreshHolds == Spec => []PollFresh
<1>1. IInv => PollFresh
  <2> SUFFICES ASSUME IInv, NEW p \in Polls, ref[p].at = "done"
               PROVE  ref[p].as.in_progress <= Cardinality(ref[p].as.ids \ ended[p])
    BY DEF PollFresh, Answer
  <2>1. Tallied(p) /\ Counting(p)
    BY DEF IInv, Counting, Refreshes
  <2>2. Done(p) = ref[p].as.ids
    BY <2>1 DEF Tallied, Done
  <2> QED BY <2>1, <2>2 DEF Tallied
<1> QED BY <1>1, BulkInvariant, PTL
-----------------------------------------------------------------------------
\* The job in hand is still due when it is triggered, has run when it is deleted, and is
\* gone when it is registered again.
InHand ==
  tick.at \in {"trigger", "delete", "register"} =>
    \E j \in Jobs :
      /\ tick.job = {j} /\ tick.run_at <= Horizon
      /\ tick.at # "register" => job[j] = {tick.run_at}
      /\ tick.at # "trigger" => tick.run_at \in Ran(j)
      /\ tick.at = "register" => job[j] = {} /\ j \in Recurring

\* A job that is due for a time has run for it only in ticks that were cut short.
Spent(j, t) == job[j] # {t} \/ (tick.at = "delete" /\ tick.job = {j})
Spoiled == stops + raises
CountedOnce ==
  \A j \in Jobs, t \in Times : runs[j][t] <= Spoiled + (IF Spent(j, t) THEN 1 ELSE 0)

\* A job has run for no time after last, and for every Interval on from one it has run
\* for, up to last.
Reached(j, last) ==
  \A t \in Ran(j) : t <= last /\ (t = last \/ t + Interval = last \/ t + Interval \in Ran(j))

\* A job is due, or is about to be made due again, at the end of what it has run for.
InStep ==
  \A j \in Jobs : \E last \in Times :
    /\ Reached(j, last)
    /\ job[j] \subseteq {last}
    /\ tick.at = "register" /\ tick.job = {j} => last = tick.run_at

\* A job is deleted when it has run, and each tick that is cut short drops one at most.
Kept ==
  /\ \A j \in Jobs : job[j] = {} => Ran(j) # {}
  /\ Cardinality(Dropped) <= Spoiled

ScheduleIInv == ScheduleTypeOK /\ InHand /\ CountedOnce /\ InStep /\ Kept
-----------------------------------------------------------------------------
LEMMA TimesNat ==
  /\ Times \subseteq Nat /\ Horizon \in Nat /\ Interval \in Nat /\ Interval > 0 /\ Ttl \in Nat
BY SchedulerAssumption DEF Times

LEMMA SpoiledNat ==
  ASSUME stops \in Nat, raises \in Nat
  PROVE  Spoiled \in Nat
BY DEF Spoiled

\* The dropped jobs are finitely many, and with one more they are one more at most.
LEMMA DroppedFinite ==
  /\ IsFiniteSet(Dropped) /\ Cardinality(Dropped) \in Nat
  /\ \A j : IsFiniteSet(Dropped \union {j}) /\ Cardinality(Dropped \union {j}) <= Cardinality(Dropped) + 1
<1>1. IsFiniteSet(Dropped)
  <2>1. Dropped \subseteq Jobs
    BY SchedulerAssumption DEF Dropped
  <2> QED BY <2>1, FS_Subset, SchedulerAssumption
<1>2. Cardinality(Dropped) \in Nat
  BY <1>1, FS_CardinalityType
<1> QED BY <1>1, <1>2, FS_AddElement

LEMMA ScheduleInitHolds == ScheduleInit => ScheduleIInv
<1> SUFFICES ASSUME ScheduleInit PROVE ScheduleIInv
  OBVIOUS
<1>1. 0..Horizon \subseteq Times /\ 0 \in 0..Horizon
  BY SchedulerAssumption DEF Times
<1>2. ASSUME NEW j \in Jobs PROVE \E t \in Times : job[j] = {t}
  BY <1>1 DEF ScheduleInit
<1>3. \A j \in Jobs : Ran(j) = {}
  BY DEF ScheduleInit, Ran
<1>4. ScheduleTypeOK
  <2>1. job \in [Jobs -> {{}} \union {{t} : t \in Times}]
    BY <1>1 DEF ScheduleInit
  <2>2. tick \in TheTick
    BY <1>1 DEF ScheduleInit, Asleep, TheTick
  <2>3. clock \in 0..Horizon /\ runs \in [Jobs -> [Times -> Nat]] /\ stops \in Nat /\ raises \in Nat
        /\ expires \in [Jobs -> Nat]
    BY <1>1, TimesNat DEF ScheduleInit
  <2> QED BY <2>1, <2>2, <2>3 DEF ScheduleTypeOK
<1>5. InHand
  BY DEF ScheduleInit, Asleep, InHand
<1>6. CountedOnce
  BY DEF ScheduleInit, CountedOnce, Spent, Spoiled
<1>7. InStep
  BY <1>2, <1>3 DEF ScheduleInit, Asleep, InStep, Reached
<1>8. Kept
  <2>1. Dropped = {}
    BY <1>2, SchedulerAssumption DEF Dropped
  <2>2. Cardinality(Dropped) = 0
    BY <2>1, FS_EmptySet
  <2> QED BY <1>2, <2>2 DEF Kept, ScheduleInit, Spoiled
<1> QED BY <1>4, <1>5, <1>6, <1>7, <1>8 DEF ScheduleIInv

\* A step that leaves the jobs and what has run, and that does not end a tick at the
\* deletion or the registration unless it is counted, keeps the accounts.
LEMMA AccountsKept ==
  ASSUME ScheduleIInv, UNCHANGED <<job, runs>>,
         Spoiled' \in Nat, Spoiled' >= Spoiled,
         tick'.at \notin {"delete", "register"},
         Spoiled' > Spoiled \/ tick.at \notin {"delete", "register"}
  PROVE  (CountedOnce /\ InStep /\ Kept)'
<1>1. \A j \in Jobs : Ran(j)' = Ran(j)
  BY DEF Ran
<1>2. \A j \in Jobs, t \in Times : runs[j][t] \in Nat
  BY DEF ScheduleIInv, ScheduleTypeOK
<1>3. Spoiled \in Nat
  BY SpoiledNat DEF ScheduleIInv, ScheduleTypeOK
<1>4. CountedOnce'
  <2> SUFFICES ASSUME NEW j \in Jobs, NEW t \in Times
               PROVE  runs'[j][t] <= Spoiled' + (IF Spent(j, t)' THEN 1 ELSE 0)
    BY DEF CountedOnce
  <2>1. runs'[j][t] = runs[j][t] /\ runs[j][t] <= Spoiled + (IF Spent(j, t) THEN 1 ELSE 0)
    BY DEF ScheduleIInv, CountedOnce
  <2>2. CASE Spent(j, t)'
    BY <1>2, <1>3, <2>1, <2>2
  <2>3. CASE ~Spent(j, t)'
    <3>1. CASE ~Spent(j, t)
      BY <1>2, <1>3, <2>1, <2>3, <3>1
    <3>2. CASE Spent(j, t)
      <4>1. Spoiled' > Spoiled
        BY <2>3, <3>2 DEF Spent
      <4> QED BY <1>2, <1>3, <2>1, <2>3, <3>2, <4>1
    <3> QED BY <3>1, <3>2
  <2> QED BY <2>2, <2>3
<1>5. InStep'
  BY <1>1 DEF ScheduleIInv, InStep, Reached
<1>6. Cardinality(Dropped') <= Spoiled'
  <2>1. Cardinality(Dropped) <= Spoiled
    BY DEF ScheduleIInv, Kept
  <2>2. CASE tick.at # "register"
    <3>1. Dropped' = Dropped
      BY <2>2 DEF Dropped
    <3>2. Cardinality(Dropped) \in Nat
      BY DroppedFinite
    <3> QED BY <1>3, <2>1, <3>1, <3>2
  <2>3. CASE tick.at = "register"
    <3>1. PICK j \in Jobs : tick.job = {j}
      BY <2>3 DEF ScheduleIInv, InHand
    <3>2. Dropped' \subseteq Dropped \union {j}
      BY <3>1 DEF Dropped
    <3>3. Cardinality(Dropped') <= Cardinality(Dropped \union {j})
      BY <3>2, DroppedFinite, FS_Subset
    <3>4. Cardinality(Dropped') \in Nat /\ Cardinality(Dropped \union {j}) \in Nat
      BY <3>2, DroppedFinite, FS_Subset, FS_CardinalityType
    <3>5. Cardinality(Dropped) \in Nat /\ Cardinality(Dropped \union {j}) <= Cardinality(Dropped) + 1
      BY DroppedFinite
    <3>6. Spoiled' >= Spoiled + 1
      BY <1>3, <2>3
    <3> QED BY <1>3, <2>1, <3>3, <3>4, <3>5, <3>6
  <2> QED BY <2>2, <2>3
<1>7. Kept'
  BY <1>1, <1>6 DEF ScheduleIInv, Kept
<1> QED BY <1>4, <1>5, <1>7

LEMMA PassHolds ==
  ASSUME ScheduleIInv, Pass
  PROVE  ScheduleIInv'
<1>1. clock' \in 0..Horizon
  BY TimesNat DEF Pass, ScheduleIInv, ScheduleTypeOK
<1>2. UNCHANGED <<job, expires, tick, runs, stops, raises>>
  BY DEF Pass
<1>3. \A j \in Jobs : Ran(j)' = Ran(j)
  BY <1>2 DEF Ran
<1>4. ScheduleTypeOK'
  BY <1>1, <1>2 DEF ScheduleIInv, ScheduleTypeOK
<1>5. InHand' /\ InStep'
  BY <1>2, <1>3 DEF ScheduleIInv, InHand, InStep, Reached
<1>6. Dropped' = Dropped
  BY <1>2 DEF Dropped
<1>7. CountedOnce' /\ Kept'
  BY <1>2, <1>3, <1>6 DEF ScheduleIInv, CountedOnce, Spent, Kept, Spoiled
<1> QED BY <1>4, <1>5, <1>7 DEF ScheduleIInv

LEMMA WakeHolds ==
  ASSUME ScheduleIInv, Wake
  PROVE  ScheduleIInv'
<1>1. PICK keys \in SUBSET Jobs : tick' = [Asleep EXCEPT !.at = "next", !.now = clock, !.keys = keys]
  BY Zenon DEF Wake, InRedis
<1>2. tick.at = "asleep" /\ UNCHANGED <<clock, job, expires, runs, stops, raises>>
  BY DEF Wake
<1>3. tick' \in TheTick /\ tick'.at = "next"
  <2>1. tick' = [at |-> "next", now |-> clock, keys |-> keys, job |-> {}, run_at |-> 0]
    BY <1>1 DEF Asleep
  <2>2. clock \in 0..Horizon /\ 0 \in Times
    BY TimesNat DEF ScheduleIInv, ScheduleTypeOK, Times
  <2> QED BY <2>1, <2>2 DEF TheTick
<1>4. ScheduleTypeOK' /\ InHand'
  BY <1>2, <1>3 DEF ScheduleIInv, ScheduleTypeOK, InHand
<1>5. Spoiled' = Spoiled /\ Spoiled \in Nat
  BY <1>2, SpoiledNat DEF ScheduleIInv, ScheduleTypeOK, Spoiled
<1>6. (CountedOnce /\ InStep /\ Kept)'
  BY <1>2, <1>3, <1>5, AccountsKept
<1> QED BY <1>4, <1>6 DEF ScheduleIInv

LEMMA TakeHolds ==
  ASSUME ScheduleIInv, NEW j \in Jobs, Take(j)
  PROVE  ScheduleIInv'
<1> DEFINE due == {t \in Get(j) : t <= tick.now}
           idle == [tick EXCEPT !.keys = @ \ {j}]
           hand == [tick EXCEPT !.keys = @ \ {j}, !.at = "trigger", !.job = {j},
                                !.run_at = CHOOSE t \in due : TRUE]
<1>1. tick.at = "next" /\ UNCHANGED <<clock, job, expires, runs, stops, raises>>
  BY DEF Take
<1>2. tick' = IF due = {} THEN idle ELSE hand
  BY DEF Take
<1>3. tick \in TheTick /\ job[j] \in {{}} \union {{t} : t \in Times}
  BY DEF ScheduleIInv, ScheduleTypeOK
<1>4. tick' \in TheTick /\ tick'.at \in {"next", "trigger"} /\ InHand'
  <2>1. CASE due = {}
    <3>1. tick' = idle
      BY <1>2, <2>1
    <3>2. tick' \in TheTick /\ tick'.at = "next"
      BY <1>1, <1>3, <3>1 DEF TheTick
    <3> QED BY <3>2 DEF InHand
  <2>2. CASE due # {}
    <3>1. PICK u \in Times : job[j] = {u} /\ Get(j) = {u}
      BY <1>3, <2>2 DEF Get
    <3>2. due = {u} /\ u <= tick.now
      BY <2>2, <3>1
    <3> DEFINE chosen == CHOOSE t \in due : TRUE
    <3>3. chosen = u
      BY <3>2
    <3>4. tick' = [tick EXCEPT !.keys = @ \ {j}, !.at = "trigger", !.job = {j}, !.run_at = u]
      BY <1>2, <2>2, <3>3
    <3>5. u <= Horizon
      BY <1>3, <3>1, <3>2, TimesNat DEF TheTick, Times
    <3>6. tick' \in TheTick /\ tick'.at = "trigger" /\ tick'.job = {j} /\ tick'.run_at = u
      BY <1>3, <3>1, <3>4 DEF TheTick
    <3> QED BY <1>1, <3>1, <3>5, <3>6 DEF InHand
  <2> QED BY <2>1, <2>2
<1>5. ScheduleTypeOK'
  BY <1>1, <1>4 DEF ScheduleIInv, ScheduleTypeOK
<1>6. Spoiled' = Spoiled /\ Spoiled \in Nat
  BY <1>1, SpoiledNat DEF ScheduleIInv, ScheduleTypeOK, Spoiled
<1>7. (CountedOnce /\ InStep /\ Kept)'
  BY <1>1, <1>4, <1>6, AccountsKept
<1> QED BY <1>4, <1>5, <1>7 DEF ScheduleIInv

LEMMA RestHolds ==
  ASSUME ScheduleIInv, Sleep \/ Raise \/ Stop
  PROVE  ScheduleIInv'
<1>1. tick' = Asleep /\ UNCHANGED <<clock, job, expires, runs>>
  BY DEF Sleep, Raise, Stop
<1>2. /\ stops \in Nat /\ raises \in Nat /\ stops' \in Nat /\ raises' \in Nat
      /\ \/ stops' = stops + 1 /\ raises' = raises
         \/ stops' = stops /\ raises' = raises + 1
         \/ stops' = stops /\ raises' = raises /\ tick.at = "next"
  BY DEF Sleep, Raise, Stop, ScheduleIInv, ScheduleTypeOK
<1>3. tick' \in TheTick /\ tick'.at = "asleep"
  BY <1>1, TimesNat DEF Asleep, TheTick, Times
<1>4. ScheduleTypeOK' /\ InHand'
  BY <1>1, <1>2, <1>3 DEF ScheduleIInv, ScheduleTypeOK, InHand
<1>5. /\ Spoiled' \in Nat /\ Spoiled' >= Spoiled
      /\ Spoiled' > Spoiled \/ tick.at = "next"
  <2>1. CASE stops' = stops + 1 /\ raises' = raises
    BY <1>2, <2>1 DEF Spoiled
  <2>2. CASE stops' = stops /\ raises' = raises + 1
    BY <1>2, <2>2 DEF Spoiled
  <2>3. CASE stops' = stops /\ raises' = raises /\ tick.at = "next"
    BY <1>2, <2>3 DEF Spoiled
  <2> QED BY <1>2, <2>1, <2>2, <2>3
<1>6. (CountedOnce /\ InStep /\ Kept)'
  BY <1>1, <1>2, <1>3, <1>5, AccountsKept
<1> QED BY <1>4, <1>6 DEF ScheduleIInv

LEMMA TriggerHolds ==
  ASSUME ScheduleIInv, Trigger
  PROVE  ScheduleIInv'
<1>1. tick.at = "trigger" /\ UNCHANGED <<clock, job, expires, stops, raises>>
  BY DEF Trigger
<1>2. PICK j \in Jobs : tick.job = {j} /\ tick.run_at <= Horizon /\ job[j] = {tick.run_at}
  BY <1>1 DEF ScheduleIInv, InHand
<1>3. tick \in TheTick /\ stops \in Nat /\ raises \in Nat
  BY DEF ScheduleIInv, ScheduleTypeOK
<1> DEFINE u == tick.run_at
<1>4. u \in Times
  BY <1>3 DEF TheTick
<1>5. runs' = [runs EXCEPT ![j][u] = @ + 1] /\ tick' = [tick EXCEPT !.at = "delete"]
  BY <1>2 DEF Trigger
<1>6. runs \in [Jobs -> [Times -> Nat]]
  BY DEF ScheduleIInv, ScheduleTypeOK
<1>7. /\ runs' \in [Jobs -> [Times -> Nat]] /\ runs'[j][u] = runs[j][u] + 1
      /\ \A k \in Jobs, t \in Times : k # j \/ t # u => runs'[k][t] = runs[k][t]
  BY <1>4, <1>5, <1>6
<1>8. tick' \in TheTick /\ tick'.at = "delete" /\ tick'.job = {j} /\ tick'.run_at = u
  BY <1>2, <1>3, <1>5 DEF TheTick
<1>9. \A k \in Jobs : Ran(k)' = IF k = j THEN Ran(k) \union {u} ELSE Ran(k)
  BY <1>4, <1>6, <1>7 DEF Ran
<1>10. ScheduleTypeOK'
  BY <1>1, <1>7, <1>8 DEF ScheduleIInv, ScheduleTypeOK
<1>11. InHand'
  BY <1>1, <1>2, <1>8, <1>9 DEF InHand
<1>12. CountedOnce'
  <2> SUFFICES ASSUME NEW k \in Jobs, NEW t \in Times
               PROVE  runs'[k][t] <= Spoiled + (IF Spent(k, t)' THEN 1 ELSE 0)
    BY <1>1 DEF CountedOnce, Spoiled
  <2>1. runs[k][t] \in Nat /\ runs[k][t] <= Spoiled + (IF Spent(k, t) THEN 1 ELSE 0)
    BY <1>6 DEF ScheduleIInv, CountedOnce
  <2>2. CASE k = j /\ t = u
    BY <1>1, <1>2, <1>3, <1>7, <1>8, <2>1, <2>2 DEF Spent, Spoiled
  <2>3. CASE k # j \/ t # u
    <3>1. Spent(k, t)' <=> Spent(k, t)
      BY <1>1, <1>2, <1>8, <2>3 DEF Spent
    <3> QED BY <1>7, <2>1, <2>3, <3>1
  <2> QED BY <2>2, <2>3
<1>13. InStep'
  <2> SUFFICES ASSUME NEW k \in Jobs
               PROVE  \E last \in Times : Reached(k, last)' /\ job'[k] \subseteq {last}
    BY <1>8 DEF InStep
  <2>1. PICK last \in Times : Reached(k, last) /\ job[k] \subseteq {last}
    BY DEF ScheduleIInv, InStep
  <2>2. k = j => u = last
    BY <1>2, <2>1
  <2>3. Ran(k) \subseteq Ran(k)' /\ Ran(k)' \subseteq Ran(k) \union {last}
    BY <1>9, <2>2
  <2>4. last <= last
    BY TimesNat
  <2>5. Reached(k, last)'
    BY <2>1, <2>3, <2>4 DEF Reached
  <2> QED BY <1>1, <2>1, <2>5
<1>14. Dropped' = Dropped
  BY <1>1, <1>8 DEF Dropped
<1>15. Kept'
  BY <1>1, <1>9, <1>14 DEF ScheduleIInv, Kept, Spoiled
<1> QED BY <1>10, <1>11, <1>12, <1>13, <1>15 DEF ScheduleIInv

LEMMA DeleteHolds ==
  ASSUME ScheduleIInv, Delete
  PROVE  ScheduleIInv'
<1>1. tick.at = "delete" /\ UNCHANGED <<clock, expires, runs, stops, raises>>
  BY DEF Delete
<1>2. PICK j \in Jobs : tick.job = {j} /\ tick.run_at <= Horizon /\ tick.run_at \in Ran(j)
                         /\ job[j] = {tick.run_at}
  BY <1>1 DEF ScheduleIInv, InHand
<1>3. tick \in TheTick /\ job \in [Jobs -> {{}} \union {{t} : t \in Times}]
  BY DEF ScheduleIInv, ScheduleTypeOK
<1>4. job' = [job EXCEPT ![j] = {}]
  BY <1>2, <1>3 DEF Delete
<1>5. /\ tick' \in TheTick /\ tick'.job = {j} /\ tick'.run_at = tick.run_at
      /\ tick'.at = IF j \in Recurring THEN "register" ELSE "next"
  BY <1>2, <1>3 DEF Delete, TheTick
<1>6. \A k \in Jobs : Ran(k)' = Ran(k)
  BY <1>1 DEF Ran
<1>7. ScheduleTypeOK'
  BY <1>1, <1>3, <1>4, <1>5 DEF ScheduleIInv, ScheduleTypeOK
<1>8. InHand'
  BY <1>2, <1>3, <1>4, <1>5, <1>6 DEF InHand
<1>9. CountedOnce'
  <2> SUFFICES ASSUME NEW k \in Jobs, NEW t \in Times
               PROVE  runs[k][t] <= Spoiled + (IF Spent(k, t)' THEN 1 ELSE 0)
    BY <1>1 DEF CountedOnce, Spoiled
  <2>1. Spent(k, t)' <=> Spent(k, t)
    BY <1>1, <1>2, <1>3, <1>4, <1>5 DEF Spent
  <2> QED BY <2>1 DEF ScheduleIInv, CountedOnce
<1>10. InStep'
  <2> SUFFICES ASSUME NEW k \in Jobs
               PROVE  \E last \in Times :
                        /\ Reached(k, last)' /\ job'[k] \subseteq {last}
                        /\ k = j => last = tick.run_at
    BY <1>5 DEF InStep
  <2>1. PICK last \in Times : Reached(k, last) /\ job[k] \subseteq {last}
    BY DEF ScheduleIInv, InStep
  <2>2. Reached(k, last)'
    BY <1>6, <2>1 DEF Reached
  <2>3. job'[k] \subseteq {last} /\ (k = j => last = tick.run_at)
    BY <1>2, <1>3, <1>4, <2>1
  <2> QED BY <2>2, <2>3
<1>11. Dropped' = Dropped
  <2>1. ASSUME NEW k \in Recurring PROVE k \in Dropped' <=> k \in Dropped
    <3>1. k \in Jobs
      BY SchedulerAssumption
    <3>2. CASE k = j
      BY <1>1, <1>2, <1>5, <3>2 DEF Dropped
    <3>3. CASE k # j
      BY <1>1, <1>3, <1>4, <1>5, <3>1, <3>3 DEF Dropped
    <3> QED BY <3>2, <3>3
  <2>2. Dropped \subseteq Recurring /\ Dropped' \subseteq Recurring
    BY DEF Dropped
  <2> QED BY <2>1, <2>2
<1>12. Kept'
  BY <1>1, <1>2, <1>3, <1>4, <1>6, <1>11 DEF ScheduleIInv, Kept, Spoiled
<1> QED BY <1>7, <1>8, <1>9, <1>10, <1>12 DEF ScheduleIInv

LEMMA RegisterHolds ==
  ASSUME ScheduleIInv, Register
  PROVE  ScheduleIInv'
<1>1. tick.at = "register" /\ UNCHANGED <<clock, runs, stops, raises>>
  BY DEF Register
<1> DEFINE u == tick.run_at
<1>2. PICK j \in Jobs : tick.job = {j} /\ u <= Horizon /\ u \in Ran(j) /\ job[j] = {}
  BY <1>1 DEF ScheduleIInv, InHand
<1>3. /\ tick \in TheTick /\ job \in [Jobs -> {{}} \union {{t} : t \in Times}]
      /\ runs \in [Jobs -> [Times -> Nat]] /\ stops \in Nat /\ raises \in Nat
  BY DEF ScheduleIInv, ScheduleTypeOK
<1>4. PICK next \in Times : u \in Times /\ next = u + Interval
  <2>1. u \in Times /\ u + Interval \in Times
    BY <1>2, <1>3, TimesNat DEF TheTick, Times
  <2> QED BY <2>1
<1>5. job' = [job EXCEPT ![j] = {next}]
  BY <1>2, <1>3, <1>4 DEF Register
<1>6. tick' \in TheTick /\ tick'.at = "next" /\ expires' \in [Jobs -> Nat]
  <2>1. tick' \in TheTick /\ tick'.at = "next"
    BY <1>3 DEF Register, TheTick
  <2>2. clock \in Nat /\ expires \in [Jobs -> Nat]
    BY TimesNat DEF ScheduleIInv, ScheduleTypeOK
  <2>3. expires' \in [Jobs -> Nat]
    BY <2>2, TimesNat DEF Register
  <2> QED BY <2>1, <2>3
<1>7. \A k \in Jobs : Ran(k)' = Ran(k)
  BY <1>1 DEF Ran
<1>8. ScheduleTypeOK' /\ InHand'
  BY <1>1, <1>3, <1>4, <1>5, <1>6 DEF ScheduleIInv, ScheduleTypeOK, InHand
<1>9. PICK last \in Times : Reached(j, last) /\ last = u
  BY <1>1, <1>2 DEF ScheduleIInv, InStep
<1>10. CountedOnce'
  <2> SUFFICES ASSUME NEW k \in Jobs, NEW t \in Times
               PROVE  runs[k][t] <= Spoiled + (IF Spent(k, t)' THEN 1 ELSE 0)
    BY <1>1 DEF CountedOnce, Spoiled
  <2>1. runs[k][t] \in Nat /\ runs[k][t] <= Spoiled + (IF Spent(k, t) THEN 1 ELSE 0)
    BY <1>3 DEF ScheduleIInv, CountedOnce
  <2>2. CASE k = j /\ t = next
    <3>1. t \notin Ran(j)
      <4>1. PICK v \in Nat : v = u
        BY <1>4, TimesNat
      <4>2. t = v + Interval /\ ~(t <= v)
        BY <1>4, <2>2, <4>1, TimesNat
      <4>3. ~(t <= u)
        BY <4>1, <4>2
      <4> QED BY <1>9, <4>3 DEF Reached
    <3> QED BY <1>3, <2>1, <2>2, <3>1 DEF Ran, Spoiled
  <2>3. CASE k # j \/ t # next
    <3>1. Spent(k, t) => Spent(k, t)'
      BY <1>1, <1>3, <1>5, <2>3 DEF Spent
    <3> QED BY <1>3, <2>1, <3>1, SpoiledNat
  <2> QED BY <2>2, <2>3
<1>11. InStep'
  <2> SUFFICES ASSUME NEW k \in Jobs
               PROVE  \E end \in Times : Reached(k, end)' /\ job'[k] \subseteq {end}
    BY <1>6 DEF InStep
  <2>1. CASE k = j
    <3>1. ASSUME NEW t \in Ran(j)
          PROVE  t <= next /\ (t = next \/ t + Interval = next \/ t + Interval \in Ran(j))
      <4>1. t \in Times /\ t <= u /\ (t = u \/ t + Interval = u \/ t + Interval \in Ran(j))
        BY <1>9 DEF Reached, Ran
      <4>2. t \in Nat /\ u \in Nat /\ Interval \in Nat
        BY <1>4, <4>1, TimesNat
      <4>3. t <= next
        BY <1>4, <4>1, <4>2
      <4> QED BY <1>2, <1>4, <4>1, <4>3
    <3>2. Ran(k)' = Ran(j) /\ job'[k] = {next}
      BY <1>3, <1>5, <1>7, <2>1
    <3>3. Reached(k, next)'
      BY <3>1, <3>2 DEF Reached
    <3> QED BY <1>4, <3>2, <3>3
  <2>2. CASE k # j
    <3>1. PICK end \in Times : Reached(k, end) /\ job[k] \subseteq {end}
      BY DEF ScheduleIInv, InStep
    <3> QED BY <1>3, <1>5, <1>7, <2>2, <3>1 DEF Reached
  <2> QED BY <2>1, <2>2
<1>12. Dropped' \subseteq Dropped
  <2> SUFFICES ASSUME NEW k \in Dropped' PROVE k \in Dropped
    OBVIOUS
  <2>1. k \in Recurring /\ k \in Jobs /\ job'[k] = {}
    BY SchedulerAssumption DEF Dropped
  <2>2. k # j /\ job[k] = {}
    BY <1>3, <1>5, <2>1
  <2> QED BY <1>2, <2>1, <2>2 DEF Dropped
<1>13. Cardinality(Dropped') <= Cardinality(Dropped) /\ Cardinality(Dropped') \in Nat
  BY <1>12, DroppedFinite, FS_Subset, FS_CardinalityType
<1>14. Kept'
  <2>1. Cardinality(Dropped) <= Spoiled
    BY DEF ScheduleIInv, Kept
  <2>2. Cardinality(Dropped') <= Spoiled'
    BY <1>1, <1>3, <1>13, <2>1, DroppedFinite, SpoiledNat DEF Spoiled
  <2>3. \A k \in Jobs : job'[k] = {} => Ran(k)' # {}
    BY <1>3, <1>5, <1>7 DEF ScheduleIInv, Kept
  <2> QED BY <2>2, <2>3 DEF Kept
<1> QED BY <1>8, <1>10, <1>11, <1>14 DEF ScheduleIInv
-----------------------------------------------------------------------------
LEMMA ScheduleNextHolds == ScheduleIInv /\ [ScheduleNext]_scheduleVars => ScheduleIInv'
<1> SUFFICES ASSUME ScheduleIInv, [ScheduleNext]_scheduleVars PROVE ScheduleIInv'
  OBVIOUS
<1>1. CASE UNCHANGED scheduleVars
  <2>1. \A j \in Jobs : Ran(j)' = Ran(j)
    BY <1>1 DEF scheduleVars, Ran
  <2>2. ScheduleTypeOK' /\ InHand' /\ CountedOnce'
    BY <1>1, <2>1 DEF scheduleVars, ScheduleIInv, ScheduleTypeOK, InHand, CountedOnce, Spent, Spoiled
  <2>3. InStep' /\ Kept'
    <3>1. Dropped' = Dropped
      BY <1>1 DEF scheduleVars, Dropped
    <3> QED BY <1>1, <2>1, <3>1 DEF scheduleVars, ScheduleIInv, InStep, Reached, Kept, Spoiled
  <2> QED BY <2>2, <2>3 DEF ScheduleIInv
<1>2. CASE ScheduleNext
  BY <1>2, PassHolds, WakeHolds, TakeHolds, RestHolds, TriggerHolds, DeleteHolds, RegisterHolds
  DEF ScheduleNext, Step
<1> QED BY <1>1, <1>2

(* At every moment the loop's place, the jobs in Redis and what has run    *)
(* agree (WorkflowScheduler._tick and register_job).                       *)
THEOREM ScheduleInvariant == ScheduleSpec => []ScheduleIInv
<1>1. ScheduleInit => ScheduleIInv
  BY ScheduleInitHolds
<1>2. ScheduleIInv /\ [ScheduleNext]_scheduleVars => ScheduleIInv'
  BY ScheduleNextHolds
<1> QED BY <1>1, <1>2, PTL DEF ScheduleSpec

(* The clock, the jobs, the tick and the counts keep their types, and a    *)
(* job never has two times.                                                *)
THEOREM ScheduleTypeCorrect == ScheduleSpec => []ScheduleTypeOK
<1>1. ScheduleIInv => ScheduleTypeOK
  BY DEF ScheduleIInv
<1> QED BY <1>1, ScheduleInvariant, PTL

(* A job leaves Redis only after its workflow was started, or when its key *)
(* has lived its time; and each end of the process and each call that      *)
(* raises keep one recurring job at most from coming back (_tick).         *)
THEOREM JobKeptHolds == ScheduleSpec => []JobKept
<1>1. ScheduleIInv => JobKept
  <2> SUFFICES ASSUME ScheduleIInv PROVE JobKept
    OBVIOUS
  <2>1. ASSUME NEW j \in Jobs, Get(j) = {}, ~Lapsed(j) PROVE Ran(j) # {}
    <3>1. clock \in Nat /\ expires[j] \in Nat
      BY TimesNat DEF ScheduleIInv, ScheduleTypeOK
    <3>2. job[j] = {}
      BY <2>1, <3>1 DEF Get, Lapsed
    <3> QED BY <3>2 DEF ScheduleIInv, Kept
  <2>2. Cardinality(Dropped) <= Spoiled
    BY DEF ScheduleIInv, Kept
  <2> QED BY <2>1, <2>2 DEF JobKept, Spoiled
<1> QED BY <1>1, ScheduleInvariant, PTL

(* No time of a job is served more often than once and once for each       *)
(* restart and each call that raised, and a recurring job never skips one, *)
(* however late its ticks (register_job counts from the time that was      *)
(* due).                                                                   *)
THEOREM ServedOnceHolds == ScheduleSpec => []ServedOnce
<1>1. ScheduleIInv => ServedOnce
  <2> SUFFICES ASSUME ScheduleIInv PROVE ServedOnce
    OBVIOUS
  <2>1. ASSUME NEW j \in Jobs, NEW t \in Times PROVE runs[j][t] <= 1 + stops + raises
    <3>1. runs[j][t] \in Nat /\ stops \in Nat /\ raises \in Nat
      BY DEF ScheduleIInv, ScheduleTypeOK
    <3>2. runs[j][t] <= Spoiled + (IF Spent(j, t) THEN 1 ELSE 0)
      BY DEF ScheduleIInv, CountedOnce
    <3> QED BY <3>1, <3>2 DEF Spoiled
  <2>2. ASSUME NEW j \in Recurring, NEW t \in Ran(j), NEW v \in Ran(j), t + Interval <= v
        PROVE  t + Interval \in Ran(j)
    <3>1. j \in Jobs /\ t \in Times /\ v \in Times
      BY SchedulerAssumption DEF Ran
    <3>2. PICK last \in Times : Reached(j, last)
      BY <3>1 DEF ScheduleIInv, InStep
    <3>3. v <= last /\ (t = last \/ t + Interval = last \/ t + Interval \in Ran(j))
      BY <3>2 DEF Reached
    <3>4. CASE t + Interval = last
      <4>1. v = last
        BY <2>2, <3>1, <3>3, <3>4, TimesNat
      <4> QED BY <3>4, <4>1
    <3>5. t # last
      BY <2>2, <3>1, <3>3, TimesNat
    <3> QED BY <3>3, <3>4, <3>5
  <2> QED BY <2>1, <2>2 DEF ServedOnce
<1> QED BY <1>1, ScheduleInvariant, PTL
=============================================================================
