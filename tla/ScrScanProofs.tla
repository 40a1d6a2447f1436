--------------------------- MODULE ScrScanProofs ---------------------------
(***************************************************************************)
(* Theorems about ScrScan: a batch in the checkpoint has been scanned and  *)
(* stored, and a COMPLETED report is complete, for any number of workers,  *)
(* batches, crashes and rebalances.                                        *)
(***************************************************************************)
EXTENDS ScrScan, TLAPS

(***************************************************************************)
(* The inductive invariant.  It follows a finding that must not be lost    *)
(* from the scanner's answer through a worker's locals into memory, as a   *)
(* copy of stage 1: that is the copy ranking never drops.                  *)
(***************************************************************************)
First(f, copies) == \E c \in copies : c.of = f /\ c.stage = 1

OfRepo    == {f \in Findings : f.scanner \in RepoScanners /\ Certain(f)}
OfBatch(b) == {f \in Findings : f.batch = b /\ f.scanner \in BatchScanners /\ Certain(f)}

Honest(b)  == b \in scanned /\ \A f \in OfBatch(b) : First(f, stored)
AllHonest  == \A b \in Batches : Honest(b)

Processing == {"resumed", "stamp", "add", "append", "files", "load", "save"}
Collecting == {"stamp", "add", "append"}
Stored     == {"files", "load", "save"}
Looping    == {"checkpoint", "guard"} \union Processing
Enriching  == {"ai", "aiAppend", "intel", "intelAppend", "rank"}

\* What a worker remembers of the batches is true.
MemoryOK(w) ==
  /\ \A b \in local[w].checkpoint : Honest(b)
  /\ \A b \in local[w].done : Honest(b)
  /\ \A b \in Batches : b < local[w].batch => Honest(b)

\* What the repository scanners found is pending, then stored.
RepoOK(w) ==
  /\ at[w] = "repo" =>
       \A f \in OfRepo : First(f, local[w].pending) \/ First(f, stored)
  /\ at[w] \in Looping \union Enriching => \A f \in OfRepo : First(f, stored)

\* What was found in the batch at hand is on its way, then stored.
BatchOK(w) ==
  /\ at[w] \in Processing => local[w].batch \in Batches
  /\ at[w] # "add" => local[w].adding = {}
  /\ at[w] = "append" => local[w].unstamped = {}
  /\ at[w] \in Collecting =>
       \A f \in OfBatch(local[w].batch) :
         \/ f \in local[w].unstamped \/ f \in local[w].adding
         \/ First(f, local[w].pending) \/ First(f, stored)
  /\ at[w] \in Stored => \A f \in OfBatch(local[w].batch) : First(f, stored)
  /\ at[w] \in {"load", "save"} => local[w].batch \in scanned

\* Whoever leaves the loop has seen every batch, unless it was stopped.
ReportOK(w) ==
  /\ at[w] \in Enriching => stop \/ AllHonest
  /\ at[w] = "assemble" =>
       \/ stop
       \/ /\ Batches \subseteq scanned
          /\ \A f \in Findings : Certain(f) => Among(f, local[w].report)

WorkerOK(w) == MemoryOK(w) /\ RepoOK(w) /\ BatchOK(w) /\ ReportOK(w)

CompletedOK == \A b \in completed : Honest(b)

IInv ==
  /\ TypeOK
  /\ CompletedOK
  /\ \A w \in Workers : WorkerOK(w)
  /\ ReportComplete

-----------------------------------------------------------------------------
(* Lemmas.                                                                 *)

\* What no step takes back: findings, scanned files, the stop signal.
Grows == stored \subseteq stored' /\ scanned \subseteq scanned' /\ (stop => stop')

LEMMA HonestStays ==
  ASSUME Grows, NEW b, Honest(b)
  PROVE  Honest(b)'
  BY DEF Grows, Honest, First

\* A worker that does not move keeps its invariant, whatever another one adds.
LEMMA OthersKeep ==
  ASSUME NEW w \in Workers, WorkerOK(w), Grows, at'[w] = at[w], local'[w] = local[w]
  PROVE  WorkerOK(w)'
<1>1. MemoryOK(w)'
  BY HonestStays DEF WorkerOK, MemoryOK
<1>2. RepoOK(w)'
  BY DEF WorkerOK, RepoOK, Grows, First
<1>3. BatchOK(w)'
  BY DEF WorkerOK, BatchOK, Grows, First
<1>4. ReportOK(w)'
  <2>1. AllHonest => AllHonest'
    BY HonestStays DEF AllHonest
  <2>2. at'[w] \in Enriching => stop' \/ AllHonest'
    BY <2>1 DEF WorkerOK, ReportOK, Grows
  <2>3. QED
    BY <2>2 DEF WorkerOK, ReportOK, Grows
<1>5. QED
  BY <1>1, <1>2, <1>3, <1>4 DEF WorkerOK

\* What is left to show of a step of worker w that does not touch the checkpoint.
LEMMA Frame ==
  ASSUME IInv, NEW w \in Workers, Grows, TypeOK', WorkerOK(w)',
         \A v \in Workers \ {w} : at'[v] = at[v] /\ local'[v] = local[v],
         completed' = completed \/ CompletedOK',
         out' = out \/ ReportComplete'
  PROVE  IInv'
<1>1. \A v \in Workers : WorkerOK(v)'
  BY OthersKeep DEF IInv
<1>2. CompletedOK'
  BY HonestStays DEF IInv, CompletedOK
<1>3. ReportComplete'
  BY DEF IInv, ReportComplete, Grows
<1>4. QED
  BY <1>1, <1>2, <1>3 DEF IInv

LEMMA InitOK == Init => IInv
<1>1. Init => TypeOK
  <2>1. Fresh \in Local
    BY ScrScanAssumption DEF Fresh, Local, Batches
  <2>2. Init => local \in [Workers -> Local] /\ at \in [Workers -> Points]
    BY <2>1 DEF Init, Points
  <2>3. Init => prints \in SUBSET (Findings \X Fingerprint) /\ out.status = "NONE"
    BY DEF Init, NoReport
  <2>4. Init => out \in [status : {"NONE", "COMPLETED", "FAILED"}, findings : SUBSET Copies,
                          files : SUBSET Batches]
    BY DEF Init, NoReport
  <2>5. Init => rebalances \in Nat /\ crashes \in Nat
    BY DEF Init
  <2>6. QED
    BY <2>2, <2>3, <2>4, <2>5, Zenon DEF Init, TypeOK
<1>2. Init => CompletedOK /\ ReportComplete
  BY DEF Init, CompletedOK, ReportComplete, NoReport
<1>3. ASSUME Init, NEW w \in Workers PROVE WorkerOK(w)
  BY <1>3, ScrScanAssumption DEF Init, WorkerOK, MemoryOK, RepoOK, BatchOK, ReportOK, Fresh, Batches,
     Processing, Collecting, Stored, Looping, Enriching
<1>4. QED
  BY <1>1, <1>2, <1>3 DEF IInv

\* Points at which a worker owes nothing but the truth of what it remembers.
Free == {"idle", "start", "acquire", "publish", "complete", "commit", "error", "errorSave",
         "fail"}

LEMMA FreeOK ==
  ASSUME NEW w \in Workers, at'[w] \in Free, MemoryOK(w)', local'[w].adding = {}
  PROVE  WorkerOK(w)'
  BY DEF WorkerOK, Free, RepoOK, BatchOK, ReportOK, Processing, Collecting, Stored, Looping,
     Enriching

LEMMA MemoryKeeps ==
  ASSUME NEW w \in Workers, MemoryOK(w), Grows,
         local'[w].checkpoint = local[w].checkpoint, local'[w].done = local[w].done,
         local'[w].batch = local[w].batch
  PROVE  MemoryOK(w)'
  BY HonestStays DEF MemoryOK

LEMMA FreshOK ==
  ASSUME NEW w \in Workers, local'[w] = Fresh
  PROVE  MemoryOK(w)' /\ local'[w].adding = {}
  BY DEF MemoryOK, Fresh, Batches

\* A step that only moves worker w, to a point where nothing is owed.
LEMMA MovesFreely ==
  ASSUME IInv, NEW w \in Workers, NEW p \in Free, TypeOK', Goto(w, p), local' = local,
         at[w] # "add", Grows, completed' = completed, out' = out
  PROVE  IInv'
<1>1. at'[w] = p /\ \A v \in Workers \ {w} : at'[v] = at[v] /\ local'[v] = local[v]
  BY DEF IInv, TypeOK, Goto
<1>2. MemoryOK(w)'
  BY MemoryKeeps DEF IInv, WorkerOK
<1>3. local'[w].adding = {}
  BY DEF IInv, WorkerOK, BatchOK
<1>4. WorkerOK(w)'
  BY <1>1, <1>2, <1>3, FreeOK
<1>5. QED
  BY <1>1, <1>4, Frame

-----------------------------------------------------------------------------
(* The record.                                                             *)

LEMMA DeliverKeeps ==
  ASSUME IInv, NEW w \in Workers, Deliver(w)
  PROVE  IInv'
<1>1. TypeOK'
  BY DEF IInv, Deliver, TypeOK, Goto, Points, personal, result, faults
<1>2. Grows /\ local' = local /\ completed' = completed /\ out' = out
  BY DEF Deliver, Grows, personal, result
<1>3. "start" \in Free /\ Goto(w, "start") /\ at[w] # "add"
  BY DEF Free, Deliver
<1>4. QED
  BY <1>1, <1>2, <1>3, MovesFreely

LEMMA RebalanceKeeps ==
  ASSUME IInv, NEW w \in Workers, Rebalance(w)
  PROVE  IInv'
<1>1. TypeOK'
  BY DEF IInv, Rebalance, TypeOK, personal, result, faults
<1>2. Grows /\ local' = local /\ at' = at /\ completed' = completed /\ out' = out
  BY DEF Rebalance, Grows, personal, result
<1>3. WorkerOK(w)'
  BY <1>2, OthersKeep DEF IInv
<1>4. QED
  BY <1>1, <1>2, <1>3, Frame

LEMMA CrashKeeps ==
  ASSUME IInv, NEW w \in Workers, Crash(w)
  PROVE  IInv'
<1>1. Fresh \in Local
  BY ScrScanAssumption DEF Fresh, Local, Batches
<1>2. at'[w] = "idle" /\ local'[w] = Fresh
      /\ \A v \in Workers \ {w} : at'[v] = at[v] /\ local'[v] = local[v]
  BY DEF IInv, TypeOK, Crash, Goto, Forget
<1>3. TypeOK'
  <2>1. at' \in [Workers -> Points] /\ local' \in [Workers -> Local]
    BY <1>1 DEF IInv, TypeOK, Crash, Goto, Forget, Points
  <2>2. QED
    BY <2>1 DEF IInv, TypeOK, Crash, personal, result
<1>4. Grows /\ completed' = completed /\ out' = out
  BY DEF Crash, Grows, personal, result
<1>5. WorkerOK(w)'
  BY <1>2, FreshOK, FreeOK DEF Free
<1>6. QED
  BY <1>2, <1>3, <1>4, <1>5, Frame

LEMMA CommitKeeps ==
  ASSUME IInv, NEW w \in Workers, Commit(w)
  PROVE  IInv'
<1>1. TypeOK'
  BY DEF IInv, Commit, TypeOK, Goto, Points, personal, result, faults
<1>2. Grows /\ local' = local /\ completed' = completed /\ out' = out
  BY DEF Commit, Grows, personal, result
<1>3. "idle" \in Free /\ Goto(w, "idle") /\ at[w] # "add"
  BY DEF Free, Commit
<1>4. QED
  BY <1>1, <1>2, <1>3, MovesFreely

LEMMA StopKeeps ==
  ASSUME IInv, Stop
  PROVE  IInv'
<1>1. TypeOK'
  BY DEF IInv, Stop, TypeOK, result, faults
<1>2. Grows /\ local' = local /\ at' = at /\ completed' = completed /\ out' = out
  BY DEF Stop, Grows, result
<1>3. ASSUME NEW w \in Workers PROVE WorkerOK(w)'
  BY <1>2, OthersKeep DEF IInv
<1>4. CompletedOK' /\ ReportComplete'
  BY <1>2, HonestStays DEF IInv, CompletedOK, ReportComplete, Stop
<1>5. QED
  BY <1>1, <1>3, <1>4 DEF IInv

-----------------------------------------------------------------------------
(* Stages 1 to 3.                                                          *)

LEMMA StartKeeps ==
  ASSUME IInv, NEW w \in Workers, Start(w)
  PROVE  IInv'
<1>1. TypeOK'
  BY DEF IInv, Start, TypeOK, Goto, Points, personal, result, faults
<1>2. Grows /\ local' = local /\ completed' = completed /\ out' = out
  BY DEF Start, Grows, personal, result
<1>3. "acquire" \in Free /\ Goto(w, "acquire") /\ at[w] # "add"
  BY DEF Free, Start
<1>4. QED
  BY <1>1, <1>2, <1>3, MovesFreely

LEMMA AcquireKeeps ==
  ASSUME IInv, NEW w \in Workers, Acquire(w)
  PROVE  IInv'
<1>1. PICK failed \in SUBSET (FaultyScanners \intersect RepoScanners) :
        local' = [local EXCEPT ![w].pending =
          {Copy(f, IF IsCode(f) THEN "analysis" ELSE "none") :
             f \in {g \in Findings : g.scanner \in RepoScanners \ failed}}]
  BY DEF Acquire
<1> DEFINE P == {Copy(f, IF IsCode(f) THEN "analysis" ELSE "none") :
                   f \in {g \in Findings : g.scanner \in RepoScanners \ failed}}
<1>2. P \subseteq Copies
  BY DEF Copies, Copy, Fingerprint
<1>3. local'[w] = [local[w] EXCEPT !.pending = P] /\ at'[w] = "repo"
      /\ \A v \in Workers \ {w} : at'[v] = at[v] /\ local'[v] = local[v]
  BY <1>1 DEF IInv, TypeOK, Acquire, Goto
<1>4. [local[w] EXCEPT !.pending = P] \in Local
  BY <1>2 DEF IInv, TypeOK, Local
<1>5. TypeOK'
  <2>1. local' \in [Workers -> Local]
    BY <1>1, <1>4 DEF IInv, TypeOK
  <2>2. at' \in [Workers -> Points]
    BY DEF IInv, TypeOK, Acquire, Goto, Points
  <2>3. QED
    BY <2>1, <2>2 DEF IInv, TypeOK, Acquire, personal, result, faults
<1>6. Grows /\ completed' = completed /\ out' = out
  BY DEF Acquire, Grows, personal, result
<1>7. local[w] \in Local /\ local'[w].pending = P
      /\ local'[w].adding = local[w].adding /\ local'[w].checkpoint = local[w].checkpoint
      /\ local'[w].done = local[w].done /\ local'[w].batch = local[w].batch
  BY <1>3 DEF IInv, TypeOK, Local
<1>8. MemoryOK(w)'
  BY <1>6, <1>7, MemoryKeeps DEF IInv, WorkerOK
<1>9. ASSUME NEW f \in OfRepo PROVE First(f, P)
  <2>1. f \in Findings /\ f.scanner \in RepoScanners \ failed
    BY DEF OfRepo, Certain
  <2>2. Copy(f, IF IsCode(f) THEN "analysis" ELSE "none") \in P
    BY <2>1
  <2>3. QED
    BY <2>2 DEF First, Copy
<1>10. WorkerOK(w)'
  <2>1. RepoOK(w)'
    BY <1>3, <1>7, <1>9 DEF RepoOK, Looping, Processing, Enriching
  <2>2. BatchOK(w)'
    BY <1>3, <1>7 DEF IInv, WorkerOK, BatchOK, Acquire, Processing, Collecting, Stored
  <2>3. ReportOK(w)'
    BY <1>3 DEF ReportOK, Enriching
  <2>4. QED
    BY <1>8, <2>1, <2>2, <2>3 DEF WorkerOK
<1>11. QED
  BY <1>3, <1>5, <1>6, <1>10, Frame

LEMMA PushKeeps ==
  ASSUME IInv, NEW w \in Workers, Push(w)
  PROVE  IInv'
<1>1. PICK c \in local[w].pending :
        /\ stored' = stored \union {c}
        /\ local' = [local EXCEPT ![w].pending = @ \ {c}]
  BY DEF Push
<1>2. /\ local'[w] = [local[w] EXCEPT !.pending = @ \ {c}] /\ at' = at
      /\ \A v \in Workers \ {w} : local'[v] = local[v]
      /\ local[w] \in Local /\ c \in Copies
      /\ completed' = completed /\ out' = out
  BY <1>1 DEF IInv, TypeOK, Push, result, Local
<1>3. [local[w] EXCEPT !.pending = @ \ {c}] \in Local
  BY <1>2 DEF Local
<1>4. TypeOK'
  <2>1. local' \in [Workers -> Local]
    BY <1>1, <1>3 DEF IInv, TypeOK
  <2>2. QED
    BY <1>1, <1>2, <2>1 DEF IInv, TypeOK, Push, result, faults
<1>5. Grows
  BY <1>1 DEF Push, Grows
<1>6. /\ local'[w].pending = local[w].pending \ {c}
      /\ local'[w].adding = local[w].adding /\ local'[w].unstamped = local[w].unstamped
      /\ local'[w].checkpoint = local[w].checkpoint /\ local'[w].done = local[w].done
      /\ local'[w].batch = local[w].batch /\ local'[w].report = local[w].report
  BY <1>2 DEF Local
<1>7. ASSUME NEW f, First(f, local[w].pending) \/ First(f, stored)
      PROVE  First(f, local'[w].pending) \/ First(f, stored')
  BY <1>1, <1>6, <1>7 DEF First
<1>8. MemoryOK(w)'
  BY <1>5, <1>6, MemoryKeeps DEF IInv, WorkerOK
<1>9. RepoOK(w)'
  BY <1>2, <1>5, <1>7 DEF IInv, WorkerOK, RepoOK, Grows, First
<1>10. BatchOK(w)'
  BY <1>2, <1>6, <1>7 DEF IInv, WorkerOK, BatchOK, Stored, Processing, Push, Appending
<1>11. ReportOK(w)'
  <2>1. AllHonest => AllHonest'
    BY <1>5, HonestStays DEF AllHonest
  <2>2. QED
    BY <1>2, <1>5, <2>1 DEF IInv, WorkerOK, ReportOK, Grows
<1>12. WorkerOK(w)'
  BY <1>8, <1>9, <1>10, <1>11 DEF WorkerOK
<1>13. QED
  BY <1>2, <1>4, <1>5, <1>12, Frame

LEMMA AppendedKeeps ==
  ASSUME IInv, NEW w \in Workers, Appended(w)
  PROVE  IInv'
<1>1. at[w] \in {"repo", "append", "aiAppend", "intelAppend"}
      /\ AfterAppend(at[w]) \in {"checkpoint", "files", "intel", "rank"}
  BY DEF Appended, Appending, AfterAppend
<1>2. /\ at'[w] = AfterAppend(at[w]) /\ \A v \in Workers \ {w} : at'[v] = at[v]
      /\ local' = local /\ completed' = completed /\ out' = out /\ stored' = stored
      /\ scanned' = scanned /\ stop' = stop
  BY DEF IInv, TypeOK, Appended, Goto, personal, result
<1>3. TypeOK'
  <2>1. at' \in [Workers -> Points]
    BY <1>1 DEF IInv, TypeOK, Appended, Goto, Points
  <2>2. QED
    BY <2>1 DEF IInv, TypeOK, Appended, personal, result, faults
<1>4. Grows
  BY <1>2 DEF Grows
<1>5. MemoryOK(w)'
  BY <1>2, <1>4, MemoryKeeps DEF IInv, WorkerOK
<1>6. local[w].pending = {} /\ \A f : ~First(f, local[w].pending)
  BY DEF Appended, First
<1>7. RepoOK(w)'
  BY <1>1, <1>2, <1>6 DEF IInv, WorkerOK, RepoOK, Looping, Processing, Enriching, AfterAppend
<1>8. BatchOK(w)'
  <2>1. CASE at[w] = "append"
    <3>1. at'[w] = "files"
      BY <1>2, <2>1 DEF AfterAppend
    <3>2. local[w].adding = {} /\ local[w].unstamped = {} /\ local[w].batch \in Batches
          /\ \A f \in OfBatch(local[w].batch) : First(f, stored)
      BY <1>6, <2>1 DEF IInv, WorkerOK, BatchOK, Processing, Collecting
    <3>3. QED
      BY <1>2, <3>1, <3>2 DEF BatchOK, Processing, Collecting, Stored
  <2>2. CASE at[w] # "append"
    <3>1. at'[w] \in {"checkpoint", "intel", "rank"}
      BY <1>1, <1>2, <2>2 DEF AfterAppend
    <3>2. local[w].adding = {}
      BY <1>1 DEF IInv, WorkerOK, BatchOK
    <3>3. QED
      BY <1>2, <3>1, <3>2 DEF BatchOK, Processing, Collecting, Stored
  <2>3. QED
    BY <2>1, <2>2
<1>9. ReportOK(w)'
  BY <1>1, <1>2 DEF IInv, WorkerOK, ReportOK, Enriching, AfterAppend, AllHonest, Honest
<1>10. WorkerOK(w)'
  BY <1>5, <1>7, <1>8, <1>9 DEF WorkerOK
<1>11. QED
  BY <1>2, <1>3, <1>4, <1>10, Frame

-----------------------------------------------------------------------------
(* The batch loop.                                                         *)

LEMMA LoadCheckpointKeeps ==
  ASSUME IInv, NEW w \in Workers, LoadCheckpoint(w)
  PROVE  IInv'
<1>1. /\ at'[w] = "guard" /\ local'[w] = [local[w] EXCEPT !.checkpoint = completed]
      /\ \A v \in Workers \ {w} : at'[v] = at[v] /\ local'[v] = local[v]
      /\ completed' = completed /\ out' = out /\ stored' = stored
      /\ scanned' = scanned /\ stop' = stop
      /\ local[w] \in Local /\ completed \subseteq Batches
  BY DEF IInv, TypeOK, LoadCheckpoint, Goto, personal, result
<1>2. TypeOK'
  <2>1. [local[w] EXCEPT !.checkpoint = completed] \in Local
    BY <1>1 DEF Local
  <2>2. local' \in [Workers -> Local] /\ at' \in [Workers -> Points]
    BY <2>1 DEF IInv, TypeOK, LoadCheckpoint, Goto, Points
  <2>3. QED
    BY <2>2 DEF IInv, TypeOK, LoadCheckpoint, personal, result, faults
<1>3. Grows
  BY <1>1 DEF Grows
<1>4. /\ local'[w].checkpoint = completed /\ local'[w].done = local[w].done
      /\ local'[w].batch = local[w].batch /\ local'[w].adding = local[w].adding
  BY <1>1 DEF Local
<1>5. MemoryOK(w)'
  BY <1>3, <1>4, HonestStays DEF IInv, WorkerOK, MemoryOK, CompletedOK
<1>6. WorkerOK(w)'
  <2>1. RepoOK(w)'
    BY <1>1 DEF IInv, WorkerOK, RepoOK, LoadCheckpoint, Looping
  <2>2. BatchOK(w)' /\ ReportOK(w)'
    BY <1>1, <1>4 DEF IInv, WorkerOK, BatchOK, ReportOK, LoadCheckpoint, Processing, Collecting,
       Stored, Enriching
  <2>3. QED
    BY <1>5, <2>1, <2>2 DEF WorkerOK
<1>7. QED
  BY <1>1, <1>2, <1>3, <1>6, Frame

\* The loop passes to the next batch: this one was honest.
LEMMA NextBatch ==
  ASSUME IInv, NEW w \in Workers, Grows, at[w] \in {"guard", "resumed", "save"},
         local[w].batch \in Batches, Honest(local[w].batch),
         local' = [local EXCEPT ![w].batch = @ + 1] \/
           local' = [local EXCEPT ![w].batch = @ + 1, ![w].done = {}],
         at'[w] = "guard", at' = [at EXCEPT ![w] = "guard"],
         stored' = stored
  PROVE  /\ local' \in [Workers -> Local] /\ at' \in [Workers -> Points]
         /\ WorkerOK(w)'
         /\ \A v \in Workers \ {w} : at'[v] = at[v] /\ local'[v] = local[v]
<1>1. /\ local[w] \in Local /\ local[w].batch \in 1..NumBatches
  BY DEF IInv, TypeOK, Batches
<1>2. /\ local'[w] = [local[w] EXCEPT !.batch = @ + 1]
         \/ local'[w] = [local[w] EXCEPT !.batch = @ + 1, !.done = {}]
      /\ \A v \in Workers \ {w} : at'[v] = at[v] /\ local'[v] = local[v]
  BY DEF IInv, TypeOK
<1>3. /\ local'[w].batch = local[w].batch + 1 /\ local'[w].checkpoint = local[w].checkpoint
      /\ local'[w].done \subseteq local[w].done /\ local'[w].adding = local[w].adding
      /\ local'[w] \in Local
  <2>1. local[w].batch + 1 \in 1..NumBatches + 1
    BY <1>1, ScrScanAssumption
  <2>2. CASE local'[w] = [local[w] EXCEPT !.batch = @ + 1]
    BY <1>1, <2>1, <2>2 DEF Local
  <2>3. CASE local'[w] = [local[w] EXCEPT !.batch = @ + 1, !.done = {}]
    BY <1>1, <2>1, <2>3 DEF Local
  <2>4. QED
    BY <1>2, <2>2, <2>3
<1>4. local' \in [Workers -> Local] /\ at' \in [Workers -> Points]
  BY <1>3 DEF IInv, TypeOK, Points
<1>5. MemoryOK(w)'
  <2>1. \A b \in local'[w].checkpoint \union local'[w].done : Honest(b)'
    BY <1>3, HonestStays DEF IInv, WorkerOK, MemoryOK
  <2>2. ASSUME NEW b \in Batches, b < local'[w].batch PROVE Honest(b)'
    <3>1. b < local[w].batch \/ b = local[w].batch
      BY <1>1, <1>3, <2>2, ScrScanAssumption DEF Batches
    <3>2. QED
      BY <3>1, HonestStays DEF IInv, WorkerOK, MemoryOK
  <2>3. QED
    BY <2>1, <2>2 DEF MemoryOK
<1>6. RepoOK(w)'
  BY DEF IInv, WorkerOK, RepoOK, Looping, Processing
<1>7. BatchOK(w)' /\ ReportOK(w)'
  BY <1>3 DEF IInv, WorkerOK, BatchOK, ReportOK, Processing, Collecting, Stored, Enriching
<1>8. QED
  BY <1>2, <1>4, <1>5, <1>6, <1>7 DEF WorkerOK

LEMMA SkipBatchKeeps ==
  ASSUME IInv, NEW w \in Workers, SkipBatch(w)
  PROVE  IInv'
<1>1. Grows /\ completed' = completed /\ out' = out /\ stored' = stored
  BY DEF SkipBatch, Grows, personal, result
<1>2. local[w].batch \in Batches /\ Honest(local[w].batch)
  BY DEF IInv, TypeOK, Local, SkipBatch, WorkerOK, MemoryOK
<1>3. at'[w] = "guard" /\ at' = [at EXCEPT ![w] = "guard"]
  BY DEF IInv, TypeOK, SkipBatch
<1>4. /\ local' \in [Workers -> Local] /\ at' \in [Workers -> Points] /\ WorkerOK(w)'
      /\ \A v \in Workers \ {w} : at'[v] = at[v] /\ local'[v] = local[v]
  BY <1>1, <1>2, <1>3, NextBatch DEF SkipBatch
<1>5. TypeOK'
  BY <1>4 DEF IInv, TypeOK, SkipBatch, personal, result, faults
<1>6. QED
  BY <1>1, <1>4, <1>5, Frame

LEMMA SkipProcessedKeeps ==
  ASSUME IInv, NEW w \in Workers, SkipProcessed(w)
  PROVE  IInv'
<1>1. Grows /\ completed' = completed /\ out' = out /\ stored' = stored
  BY DEF SkipProcessed, Grows, personal, result
<1>2. local[w].batch \in Batches /\ Honest(local[w].batch)
  BY DEF IInv, TypeOK, SkipProcessed, CompletedOK
<1>3. at'[w] = "guard" /\ at' = [at EXCEPT ![w] = "guard"]
  BY DEF IInv, TypeOK, SkipProcessed, Goto
<1>4. /\ local' \in [Workers -> Local] /\ at' \in [Workers -> Points] /\ WorkerOK(w)'
      /\ \A v \in Workers \ {w} : at'[v] = at[v] /\ local'[v] = local[v]
  BY <1>1, <1>2, <1>3, NextBatch DEF SkipProcessed
<1>5. TypeOK'
  BY <1>4 DEF IInv, TypeOK, SkipProcessed, personal, result, faults
<1>6. QED
  BY <1>1, <1>4, <1>5, Frame

LEMMA SaveProgressKeeps ==
  ASSUME IInv, NEW w \in Workers, SaveProgress(w)
  PROVE  IInv'
<1>1. Grows /\ completed' = local[w].done /\ out' = out /\ stored' = stored
  BY DEF SaveProgress, Grows, result
<1>2. local[w].batch \in Batches /\ Honest(local[w].batch)
  BY DEF IInv, WorkerOK, BatchOK, SaveProgress, Processing, Stored, Honest
<1>3. at'[w] = "guard" /\ at' = [at EXCEPT ![w] = "guard"]
  BY DEF IInv, TypeOK, SaveProgress, Goto
<1>4. /\ local' \in [Workers -> Local] /\ at' \in [Workers -> Points] /\ WorkerOK(w)'
      /\ \A v \in Workers \ {w} : at'[v] = at[v] /\ local'[v] = local[v]
  BY <1>1, <1>2, <1>3, NextBatch DEF SaveProgress
<1>5. TypeOK'
  <2>1. local[w].done \subseteq Batches
    BY DEF IInv, TypeOK, Local
  <2>2. QED
    BY <1>1, <1>4, <2>1 DEF IInv, TypeOK, SaveProgress, result, faults
<1>6. CompletedOK'
  BY <1>1, HonestStays DEF IInv, WorkerOK, MemoryOK, CompletedOK
<1>7. QED
  BY <1>1, <1>4, <1>5, <1>6, Frame

\* The loop is left, with every batch honest or the stop signal set.
LEMMA LeavesLoop ==
  ASSUME IInv, NEW w \in Workers, at[w] = "guard", Goto(w, "ai"), Forget(w), stop \/ AllHonest,
         UNCHANGED <<record, personal, result, faults>>
  PROVE  IInv'
<1>1. Fresh \in Local
  BY ScrScanAssumption DEF Fresh, Local, Batches
<1>2. at'[w] = "ai" /\ local'[w] = Fresh
      /\ \A v \in Workers \ {w} : at'[v] = at[v] /\ local'[v] = local[v]
  BY DEF IInv, TypeOK, Goto, Forget
<1>3. completed' = completed /\ out' = out /\ stored' = stored /\ scanned' = scanned
      /\ stop' = stop /\ Grows
  BY DEF personal, result, Grows
<1>4. TypeOK'
  <2>1. at' \in [Workers -> Points] /\ local' \in [Workers -> Local]
    BY <1>1 DEF IInv, TypeOK, Goto, Forget, Points
  <2>2. QED
    BY <2>1 DEF IInv, TypeOK, personal, result, faults
<1>5. MemoryOK(w)' /\ local'[w].adding = {}
  BY <1>2, FreshOK
<1>6. RepoOK(w)'
  BY <1>2, <1>3 DEF IInv, WorkerOK, RepoOK, Looping
<1>7. BatchOK(w)'
  BY <1>2, <1>5 DEF BatchOK, Processing, Collecting, Stored
<1>8. ReportOK(w)'
  BY <1>2, <1>3 DEF ReportOK, AllHonest, Honest
<1>9. WorkerOK(w)'
  BY <1>5, <1>6, <1>7, <1>8 DEF WorkerOK
<1>10. QED
  BY <1>2, <1>3, <1>4, <1>9, Frame

LEMMA GuardKeeps ==
  ASSUME IInv, NEW w \in Workers, Guard(w)
  PROVE  IInv'
<1>1. CASE stop
  BY <1>1, LeavesLoop DEF Guard
<1>2. CASE ~stop
  <2>1. at'[w] = "resumed" /\ \A v \in Workers \ {w} : at'[v] = at[v]
    BY <1>2 DEF IInv, TypeOK, Guard, Goto
  <2>2. local' = local /\ completed' = completed /\ out' = out /\ stored' = stored
        /\ scanned' = scanned /\ stop' = stop /\ Grows /\ local[w].batch \in Batches
    BY <1>2 DEF Guard, personal, result, Grows
  <2>3. TypeOK'
    BY <1>2 DEF IInv, TypeOK, Guard, Goto, Points, personal, result, faults
  <2>4. MemoryOK(w)'
    BY <2>2, MemoryKeeps DEF IInv, WorkerOK
  <2>5. RepoOK(w)'
    BY <2>1, <2>2 DEF IInv, WorkerOK, RepoOK, Guard, Looping
  <2>6. BatchOK(w)' /\ ReportOK(w)'
    BY <2>1, <2>2 DEF IInv, WorkerOK, BatchOK, ReportOK, Guard, Collecting, Stored, Enriching
  <2>7. WorkerOK(w)'
    BY <2>4, <2>5, <2>6 DEF WorkerOK
  <2>8. QED
    BY <2>1, <2>2, <2>3, <2>7, Frame
<1>3. QED
  BY <1>1, <1>2

LEMMA BatchesEndKeeps ==
  ASSUME IInv, NEW w \in Workers, BatchesEnd(w)
  PROVE  IInv'
<1>1. \A b \in Batches : b < local[w].batch
  BY ScrScanAssumption DEF BatchesEnd, Batches
<1>2. AllHonest
  BY <1>1 DEF IInv, WorkerOK, MemoryOK, AllHonest
<1>3. QED
  BY <1>2, LeavesLoop DEF BatchesEnd

LEMMA ProcessBatchKeeps ==
  ASSUME IInv, NEW w \in Workers, ProcessBatch(w)
  PROVE  IInv'
<1>1. PICK failed \in SUBSET (FaultyScanners \intersect BatchScanners) :
        LET found == {f \in Findings : /\ f.batch = local[w].batch
                                       /\ Through(f) \in BatchScanners \ failed}
        IN  local' = [local EXCEPT
              ![w].unstamped = {f \in found : IsCode(f) /\ ~f.excluded},
              ![w].pending   = {Copy(f, "none") : f \in {g \in found : ~IsCode(g)}}]
  BY DEF ProcessBatch
<1> DEFINE found == {f \in Findings : /\ f.batch = local[w].batch
                                      /\ Through(f) \in BatchScanners \ failed}
           U == {f \in found : IsCode(f) /\ ~f.excluded}
           P == {Copy(f, "none") : f \in {g \in found : ~IsCode(g)}}
<1>2. P \subseteq Copies /\ U \subseteq Findings
  BY DEF Copies, Copy, Fingerprint
<1>3. local' = [local EXCEPT ![w].unstamped = U, ![w].pending = P]
  BY <1>1
<1> HIDE DEF P, U
<1>4. /\ local'[w] = [local[w] EXCEPT !.unstamped = U, !.pending = P] /\ at'[w] = "stamp"
      /\ \A v \in Workers \ {w} : at'[v] = at[v] /\ local'[v] = local[v]
      /\ completed' = completed /\ out' = out /\ stored' = stored /\ scanned' = scanned
      /\ stop' = stop /\ Grows /\ local[w] \in Local
  BY <1>3 DEF IInv, TypeOK, ProcessBatch, Goto, personal, result, Grows
<1>5. /\ local'[w].unstamped = U /\ local'[w].pending = P
      /\ local'[w].adding = local[w].adding /\ local'[w].checkpoint = local[w].checkpoint
      /\ local'[w].done = local[w].done /\ local'[w].batch = local[w].batch
      /\ local'[w] \in Local
  BY <1>2, <1>4 DEF Local
<1>6. TypeOK'
  <2>1. local' \in [Workers -> Local] /\ at' \in [Workers -> Points]
    BY <1>3, <1>4, <1>5 DEF IInv, TypeOK, ProcessBatch, Goto, Points
  <2>2. QED
    BY <2>1 DEF IInv, TypeOK, ProcessBatch, personal, result, faults
<1>7. ASSUME NEW f \in OfBatch(local[w].batch) PROVE f \in U \/ First(f, P)
  <2>1. f \in Findings /\ f.batch = local[w].batch /\ f.scanner \in BatchScanners \ failed
        /\ ~f.excluded
    BY DEF OfBatch, Certain
  <2>2. f \in found
    BY <2>1 DEF Through, BatchScanners
  <2>3. CASE IsCode(f)
    BY <2>1, <2>2, <2>3 DEF U
  <2>4. CASE ~IsCode(f)
    <3>1. Copy(f, "none") \in P
      BY <2>2, <2>4 DEF P
    <3>2. QED
      BY <3>1 DEF First, Copy
  <2>5. QED
    BY <2>3, <2>4
<1>8. MemoryOK(w)'
  BY <1>4, <1>5, MemoryKeeps DEF IInv, WorkerOK
<1>9. RepoOK(w)'
  BY <1>4 DEF IInv, WorkerOK, RepoOK, ProcessBatch, Looping, Processing
<1>10. BatchOK(w)'
  BY <1>4, <1>5, <1>7 DEF IInv, WorkerOK, BatchOK, ProcessBatch, Processing, Stored
<1>11. ReportOK(w)'
  BY <1>4 DEF ReportOK, Enriching
<1>12. WorkerOK(w)'
  BY <1>8, <1>9, <1>10, <1>11 DEF WorkerOK
<1>13. QED
  BY <1>4, <1>6, <1>12, Frame

\* A step of stamping moves findings between the worker's locals and loses none.
LEMMA StampingKeeps ==
  ASSUME IInv, NEW w \in Workers, Grows, at[w] \in {"stamp", "add"},
         NEW L \in Local, local' = [local EXCEPT ![w] = L],
         NEW p \in {"stamp", "add"}, at' = [at EXCEPT ![w] = p],
         completed' = completed, out' = out, stored' = stored, scanned' = scanned, stop' = stop,
         L.checkpoint = local[w].checkpoint, L.done = local[w].done, L.batch = local[w].batch,
         p = "add" \/ L.adding = {},
         \A f \in Findings :
           f \in local[w].unstamped \/ f \in local[w].adding
           => f \in L.unstamped \/ f \in L.adding \/ First(f, L.pending),
         \A f \in Findings : First(f, local[w].pending) => First(f, L.pending),
         TypeOK'
  PROVE  IInv'
<1>1. /\ local'[w] = L /\ at'[w] = p
      /\ \A v \in Workers \ {w} : at'[v] = at[v] /\ local'[v] = local[v]
  BY DEF IInv, TypeOK
<1>2. MemoryOK(w)'
  BY <1>1, MemoryKeeps DEF IInv, WorkerOK
<1>3. RepoOK(w)'
  BY <1>1 DEF IInv, WorkerOK, RepoOK, Looping, Processing
<1>4. BatchOK(w)'
  BY <1>1 DEF IInv, WorkerOK, BatchOK, OfBatch, Processing, Collecting, Stored
<1>5. ReportOK(w)'
  BY <1>1 DEF ReportOK, Enriching
<1>6. WorkerOK(w)'
  BY <1>2, <1>3, <1>4, <1>5 DEF WorkerOK
<1>7. QED
  BY <1>1, <1>6, Frame

LEMMA SeenKeeps ==
  ASSUME IInv, NEW w \in Workers, Seen(w)
  PROVE  IInv'
<1>1. Grows /\ completed' = completed /\ out' = out /\ stored' = stored /\ scanned' = scanned
      /\ stop' = stop /\ at[w] = "stamp" /\ local[w] \in Local
  BY DEF IInv, TypeOK, Seen, personal, result, Grows
<1>2. PICK f \in local[w].unstamped :
        \/ /\ local' = [local EXCEPT ![w].unstamped = @ \ {f},
                                     ![w].pending   = @ \union {Copy(f, "analysis")}]
           /\ at' = at
        \/ /\ local' = [local EXCEPT ![w].unstamped = @ \ {f}, ![w].adding = {f}]
           /\ at' = [at EXCEPT ![w] = "add"]
  BY DEF Seen, Goto
<1>3. f \in Findings /\ Copy(f, "analysis") \in Copies /\ Copy(f, "analysis").of = f
      /\ Copy(f, "analysis").stage = 1
  BY <1>1 DEF Local, Copies, Copy, Fingerprint
<1>4. local[w].adding = {}
  BY <1>1 DEF IInv, WorkerOK, BatchOK
<1>5. CASE /\ local' = [local EXCEPT ![w].unstamped = @ \ {f},
                                     ![w].pending   = @ \union {Copy(f, "analysis")}]
           /\ at' = at
  <2> DEFINE L == [local[w] EXCEPT !.unstamped = @ \ {f},
                                   !.pending   = @ \union {Copy(f, "analysis")}]
  <2>1. L \in Local /\ local' = [local EXCEPT ![w] = L] /\ at' = [at EXCEPT ![w] = "stamp"]
    BY <1>1, <1>3, <1>5 DEF IInv, TypeOK, Local
  <2>2. /\ L.checkpoint = local[w].checkpoint /\ L.done = local[w].done
        /\ L.batch = local[w].batch /\ L.adding = {}
        /\ L.unstamped = local[w].unstamped \ {f}
        /\ L.pending = local[w].pending \union {Copy(f, "analysis")}
    BY <1>1, <1>4 DEF Local
  <2>3. TypeOK'
    BY <1>5, <2>1 DEF IInv, TypeOK, Seen, personal, result, faults
  <2> HIDE DEF L
  <2>4. First(f, L.pending) /\ \A g : First(g, local[w].pending) => First(g, L.pending)
    BY <1>3, <2>2 DEF First
  <2>5. QED
    BY <1>1, <1>4, <2>1, <2>2, <2>3, <2>4, StampingKeeps
<1>6. CASE /\ local' = [local EXCEPT ![w].unstamped = @ \ {f}, ![w].adding = {f}]
           /\ at' = [at EXCEPT ![w] = "add"]
  <2> DEFINE L == [local[w] EXCEPT !.unstamped = @ \ {f}, !.adding = {f}]
  <2>1. L \in Local /\ local' = [local EXCEPT ![w] = L]
    BY <1>1, <1>3, <1>6 DEF IInv, TypeOK, Local
  <2>2. /\ L.checkpoint = local[w].checkpoint /\ L.done = local[w].done
        /\ L.batch = local[w].batch /\ L.adding = {f}
        /\ L.unstamped = local[w].unstamped \ {f}
        /\ L.pending = local[w].pending
    BY <1>1 DEF Local
  <2>3. TypeOK'
    <3>1. local' \in [Workers -> Local] /\ at' \in [Workers -> Points]
      BY <1>6, <2>1 DEF IInv, TypeOK, Points
    <3>2. QED
      BY <3>1 DEF IInv, TypeOK, Seen, personal, result, faults
  <2> HIDE DEF L
  <2>4. QED
    BY <1>1, <1>4, <1>6, <2>1, <2>2, <2>3, StampingKeeps
<1>7. QED
  BY <1>2, <1>5, <1>6

LEMMA AddFingerprintKeeps ==
  ASSUME IInv, NEW w \in Workers, AddFingerprint(w)
  PROVE  IInv'
<1>1. Grows /\ completed' = completed /\ out' = out /\ stored' = stored /\ scanned' = scanned
      /\ stop' = stop /\ at[w] = "add" /\ local[w] \in Local
  BY DEF IInv, TypeOK, AddFingerprint, result, Grows
<1> DEFINE C == {Copy(f, "runner") : f \in local[w].adding}
           L == [local[w] EXCEPT !.pending = @ \union C, !.adding = {}]
<1>2. C \subseteq Copies /\ \A f \in local[w].adding : First(f, C)
  <2>1. C \subseteq Copies
    BY <1>1 DEF Copies, Copy, Fingerprint, Local
  <2>2. ASSUME NEW f \in local[w].adding PROVE First(f, C)
    <3>1. Copy(f, "runner") \in C /\ Copy(f, "runner").of = f /\ Copy(f, "runner").stage = 1
      BY DEF Copy
    <3>2. QED
      BY <3>1 DEF First
  <2>3. QED
    BY <2>1, <2>2
<1>3. local' = [local EXCEPT ![w] = L] /\ at' = [at EXCEPT ![w] = "stamp"]
  BY DEF IInv, TypeOK, AddFingerprint, Goto
<1> HIDE DEF C
<1>4. /\ L \in Local
      /\ L.checkpoint = local[w].checkpoint /\ L.done = local[w].done
      /\ L.batch = local[w].batch /\ L.adding = {} /\ L.unstamped = local[w].unstamped
      /\ L.pending = local[w].pending \union C
  BY <1>1, <1>2 DEF Local
<1> HIDE DEF L
<1>5. TypeOK'
  <2>1. local' \in [Workers -> Local] /\ at' \in [Workers -> Points]
    BY <1>3, <1>4 DEF IInv, TypeOK, Points
  <2>2. prints' \in SUBSET (Findings \X Fingerprint)
    BY <1>1 DEF IInv, TypeOK, AddFingerprint, Local, Fingerprint
  <2>3. QED
    BY <2>1, <2>2 DEF IInv, TypeOK, AddFingerprint, result, faults
<1>6. \A g : First(g, local[w].pending) \/ First(g, C) => First(g, L.pending)
  BY <1>4 DEF First
<1>7. QED
  BY <1>1, <1>2, <1>3, <1>4, <1>5, <1>6, StampingKeeps

LEMMA StampedKeeps ==
  ASSUME IInv, NEW w \in Workers, Stamped(w)
  PROVE  IInv'
<1>1. /\ at'[w] = "append" /\ \A v \in Workers \ {w} : at'[v] = at[v]
      /\ local' = local /\ completed' = completed /\ out' = out /\ stored' = stored
      /\ scanned' = scanned /\ stop' = stop /\ Grows
  BY DEF IInv, TypeOK, Stamped, Goto, personal, result, Grows
<1>2. TypeOK'
  BY DEF IInv, TypeOK, Stamped, Goto, Points, personal, result, faults
<1>3. MemoryOK(w)'
  BY <1>1, MemoryKeeps DEF IInv, WorkerOK
<1>4. RepoOK(w)'
  BY <1>1 DEF IInv, WorkerOK, RepoOK, Stamped, Looping, Processing
<1>5. BatchOK(w)'
  BY <1>1 DEF IInv, WorkerOK, BatchOK, Stamped, Processing, Collecting, Stored
<1>6. ReportOK(w)'
  BY <1>1 DEF ReportOK, Enriching
<1>7. WorkerOK(w)'
  BY <1>3, <1>4, <1>5, <1>6 DEF WorkerOK
<1>8. QED
  BY <1>1, <1>2, <1>7, Frame

LEMMA SaveFilesKeeps ==
  ASSUME IInv, NEW w \in Workers, SaveFiles(w)
  PROVE  IInv'
<1>1. /\ at'[w] = "load" /\ \A v \in Workers \ {w} : at'[v] = at[v]
      /\ local' = local /\ completed' = completed /\ out' = out /\ stored' = stored
      /\ scanned' = scanned \union {local[w].batch} /\ stop' = stop /\ Grows
      /\ local[w].batch \in Batches
  BY DEF IInv, TypeOK, SaveFiles, Goto, result, Grows, WorkerOK, BatchOK, Processing
<1>2. TypeOK'
  BY <1>1 DEF IInv, TypeOK, SaveFiles, Goto, Points, result, faults
<1>3. MemoryOK(w)'
  BY <1>1, MemoryKeeps DEF IInv, WorkerOK
<1>4. RepoOK(w)'
  BY <1>1 DEF IInv, WorkerOK, RepoOK, SaveFiles, Looping, Processing
<1>5. BatchOK(w)'
  BY <1>1 DEF IInv, WorkerOK, BatchOK, SaveFiles, Processing, Collecting, Stored
<1>6. ReportOK(w)'
  BY <1>1 DEF ReportOK, Enriching
<1>7. WorkerOK(w)'
  BY <1>3, <1>4, <1>5, <1>6 DEF WorkerOK
<1>8. QED
  BY <1>1, <1>2, <1>7, Frame

LEMMA LoadProgressKeeps ==
  ASSUME IInv, NEW w \in Workers, LoadProgress(w)
  PROVE  IInv'
<1> DEFINE D == completed \union {local[w].batch}
<1>1. /\ at'[w] = "save" /\ local'[w] = [local[w] EXCEPT !.done = D]
      /\ \A v \in Workers \ {w} : at'[v] = at[v] /\ local'[v] = local[v]
      /\ completed' = completed /\ out' = out /\ stored' = stored /\ scanned' = scanned
      /\ stop' = stop /\ Grows /\ local[w] \in Local
  BY DEF IInv, TypeOK, LoadProgress, Goto, personal, result, Grows
<1>2. Honest(local[w].batch) /\ local[w].batch \in Batches
  BY DEF IInv, WorkerOK, BatchOK, LoadProgress, Processing, Stored, Honest
<1>3. D \subseteq Batches /\ \A b \in D : Honest(b)
  BY <1>2 DEF IInv, TypeOK, CompletedOK
<1> HIDE DEF D
<1>4. /\ local'[w] \in Local /\ local'[w].done = D
      /\ local'[w].checkpoint = local[w].checkpoint /\ local'[w].batch = local[w].batch
      /\ local'[w].adding = local[w].adding
  BY <1>1, <1>3 DEF Local
<1>5. TypeOK'
  <2>1. local' \in [Workers -> Local] /\ at' \in [Workers -> Points]
    BY <1>1, <1>4 DEF IInv, TypeOK, LoadProgress, Goto, Points
  <2>2. QED
    BY <2>1 DEF IInv, TypeOK, LoadProgress, personal, result, faults
<1>6. MemoryOK(w)'
  BY <1>1, <1>3, <1>4, HonestStays DEF IInv, WorkerOK, MemoryOK
<1>7. RepoOK(w)'
  BY <1>1 DEF IInv, WorkerOK, RepoOK, LoadProgress, Looping, Processing
<1>8. BatchOK(w)'
  BY <1>1, <1>4 DEF IInv, WorkerOK, BatchOK, LoadProgress, Processing, Collecting, Stored
<1>9. ReportOK(w)'
  BY <1>1 DEF ReportOK, Enriching
<1>10. WorkerOK(w)'
  BY <1>6, <1>7, <1>8, <1>9 DEF WorkerOK
<1>11. QED
  BY <1>1, <1>5, <1>10, Frame

-----------------------------------------------------------------------------
(* Stages 7 to 10.                                                         *)

\* A stage that only changes what is pending passes the findings on.
LEMMA EnrichKeeps ==
  ASSUME IInv, NEW w \in Workers, at[w] \in {"ai", "intel"}, NEW L \in Local,
         NEW p \in {"aiAppend", "intelAppend"}, Goto(w, p), local' = [local EXCEPT ![w] = L],
         L.checkpoint = local[w].checkpoint, L.done = local[w].done, L.batch = local[w].batch,
         L.adding = local[w].adding, UNCHANGED <<record, personal, result, faults>>
  PROVE  IInv'
<1>1. /\ at'[w] = p /\ local'[w] = L
      /\ \A v \in Workers \ {w} : at'[v] = at[v] /\ local'[v] = local[v]
      /\ completed' = completed /\ out' = out /\ stored' = stored /\ scanned' = scanned
      /\ stop' = stop /\ Grows
  BY DEF IInv, TypeOK, Goto, personal, result, Grows
<1>2. TypeOK'
  <2>1. local' \in [Workers -> Local] /\ at' \in [Workers -> Points]
    BY DEF IInv, TypeOK, Goto, Points
  <2>2. QED
    BY <2>1 DEF IInv, TypeOK, personal, result, faults
<1>3. MemoryOK(w)'
  BY <1>1, MemoryKeeps DEF IInv, WorkerOK
<1>4. RepoOK(w)'
  BY <1>1 DEF IInv, WorkerOK, RepoOK, Enriching
<1>5. BatchOK(w)'
  BY <1>1 DEF IInv, WorkerOK, BatchOK, Processing, Collecting, Stored
<1>6. ReportOK(w)'
  BY <1>1 DEF IInv, WorkerOK, ReportOK, Enriching, AllHonest, Honest
<1>7. WorkerOK(w)'
  BY <1>3, <1>4, <1>5, <1>6 DEF WorkerOK
<1>8. QED
  BY <1>1, <1>2, <1>7, Frame

LEMMA EnrichAIKeeps ==
  ASSUME IInv, NEW w \in Workers, EnrichAI(w)
  PROVE  IInv'
<1> DEFINE high == {c \in stored : IsCode(c.of) /\ c.of.severe}
<1>1. PICK kept \in SUBSET high :
        local' = [local EXCEPT ![w].pending    = {Enriched(c, 2) : c \in kept},
                               ![w].suppressed = {c.of : c \in high \ kept}]
  BY DEF EnrichAI
<1> DEFINE P == {Enriched(c, 2) : c \in kept}
           S == {c.of : c \in high \ kept}
           L == [local[w] EXCEPT !.pending = P, !.suppressed = S]
<1>2. P \subseteq Copies /\ S \subseteq Findings
  BY DEF IInv, TypeOK, Copies, Enriched
<1>3. local[w] \in Local /\ local' = [local EXCEPT ![w] = L]
  BY <1>1 DEF IInv, TypeOK
<1> HIDE DEF P, S
<1>4. /\ L \in Local /\ L.checkpoint = local[w].checkpoint /\ L.done = local[w].done
      /\ L.batch = local[w].batch /\ L.adding = local[w].adding
  BY <1>2, <1>3 DEF Local
<1> HIDE DEF L
<1>5. at[w] = "ai" /\ Goto(w, "aiAppend") /\ UNCHANGED <<record, personal, result, faults>>
  BY DEF EnrichAI
<1>6. QED
  BY <1>3, <1>4, <1>5, EnrichKeeps

LEMMA EnrichIntelKeeps ==
  ASSUME IInv, NEW w \in Workers, EnrichIntel(w)
  PROVE  IInv'
<1> DEFINE P == {Enriched(c, 3) : c \in {d \in stored : IsCode(d.of)}}
           L == [local[w] EXCEPT !.pending = P]
<1>1. P \subseteq Copies
  BY DEF IInv, TypeOK, Copies, Enriched
<1>2. local[w] \in Local /\ local' = [local EXCEPT ![w] = L]
  BY DEF IInv, TypeOK, EnrichIntel
<1> HIDE DEF P
<1>3. /\ L \in Local /\ L.checkpoint = local[w].checkpoint /\ L.done = local[w].done
      /\ L.batch = local[w].batch /\ L.adding = local[w].adding
  BY <1>1, <1>2 DEF Local
<1> HIDE DEF L
<1>4. at[w] = "intel" /\ Goto(w, "intelAppend") /\ UNCHANGED <<record, personal, result, faults>>
  BY DEF EnrichIntel
<1>5. QED
  BY <1>2, <1>3, <1>4, EnrichKeeps

(* Ranking keeps the copy a finding was first stored as, so what must be   *)
(* found and is in memory is in the report (stage9_ranking.py:22-54).      *)
LEMMA RankedKeepsFirst ==
  ASSUME NEW f, ~IsDependency(f), NEW memory \in SUBSET Copies, First(f, memory)
  PROVE  Among(f, Ranked(memory))
<1>1. PICK c \in memory : c.of = f /\ c.stage = 1
  BY DEF First
<1>2. \A d \in memory : ~(d.stage < 1)
  BY DEF Copies
<1>3. c \in Ranked(memory)
  BY <1>1, <1>2 DEF Ranked
<1>4. QED
  BY <1>1, <1>3 DEF Among

LEMMA RankKeeps ==
  ASSUME IInv, NEW w \in Workers, Rank(w)
  PROVE  IInv'
<1> DEFINE R == Ranked(stored)
           L == [local[w] EXCEPT !.report = R]
<1>1. R \subseteq Copies /\ local[w] \in Local /\ local' = [local EXCEPT ![w] = L]
  BY DEF IInv, TypeOK, Rank, Ranked
<1>2. prints' \in SUBSET (Findings \X Fingerprint)
  BY <1>1 DEF IInv, TypeOK, Rank, Copies
<1>3. ASSUME NEW f \in Findings, Certain(f), ~stop PROVE Among(f, R)
  <2>1. AllHonest /\ \A g \in OfRepo : First(g, stored)
    BY <1>3 DEF IInv, WorkerOK, ReportOK, RepoOK, Rank, Enriching
  <2>2. f.batch \in Batches /\ f.scanner \in RepoScanners \union BatchScanners
    BY ScrScanAssumption DEF Scanners
  <2>3. First(f, stored)
    BY <1>3, <2>1, <2>2 DEF AllHonest, Honest, OfRepo, OfBatch
  <2>4. stored \in SUBSET Copies /\ ~IsDependency(f)
    BY <1>3 DEF IInv, TypeOK, Certain
  <2>5. QED
    BY <2>3, <2>4, RankedKeepsFirst
<1>4. stop \/ Batches \subseteq scanned
  BY DEF IInv, WorkerOK, ReportOK, Rank, Enriching, AllHonest, Honest
<1> HIDE DEF R
<1>5. /\ L \in Local /\ L.checkpoint = local[w].checkpoint /\ L.done = local[w].done
      /\ L.batch = local[w].batch /\ L.adding = local[w].adding /\ L.report = R
  BY <1>1 DEF Local
<1> HIDE DEF L
<1>6. /\ at'[w] = "assemble" /\ local'[w] = L
      /\ \A v \in Workers \ {w} : at'[v] = at[v] /\ local'[v] = local[v]
      /\ completed' = completed /\ out' = out /\ stored' = stored /\ scanned' = scanned
      /\ stop' = stop /\ Grows
  BY <1>1 DEF IInv, TypeOK, Rank, Goto, result, Grows
<1>7. TypeOK'
  <2>1. local' \in [Workers -> Local] /\ at' \in [Workers -> Points]
    BY <1>1, <1>5 DEF IInv, TypeOK, Rank, Goto, Points
  <2>2. QED
    BY <1>2, <2>1 DEF IInv, TypeOK, Rank, result, faults
<1>8. MemoryOK(w)'
  BY <1>5, <1>6, MemoryKeeps DEF IInv, WorkerOK
<1>9. RepoOK(w)' /\ BatchOK(w)'
  BY <1>5, <1>6 DEF IInv, WorkerOK, RepoOK, BatchOK, Rank, Processing, Collecting, Stored, Looping,
     Enriching
<1>10. ReportOK(w)'
  BY <1>3, <1>4, <1>5, <1>6 DEF ReportOK, Enriching
<1>11. WorkerOK(w)'
  BY <1>8, <1>9, <1>10 DEF WorkerOK
<1>12. QED
  BY <1>6, <1>7, <1>11, Frame

LEMMA AssembleKeeps ==
  ASSUME IInv, NEW w \in Workers, Assemble(w)
  PROVE  IInv'
<1>1. /\ at'[w] = "publish" /\ \A v \in Workers \ {w} : at'[v] = at[v]
      /\ local' = local /\ completed' = completed /\ stored' = stored /\ scanned' = scanned
      /\ stop' = stop /\ Grows
      /\ out' = [status |-> "COMPLETED", findings |-> local[w].report, files |-> scanned]
      /\ local[w].report \subseteq Copies /\ scanned \subseteq Batches
  BY DEF IInv, TypeOK, Local, Assemble, Goto, personal, Grows
<1>2. TypeOK'
  BY <1>1 DEF IInv, TypeOK, Assemble, Goto, Points, personal, faults
<1>3. WorkerOK(w)'
  <2>1. MemoryOK(w)' /\ local'[w].adding = {}
    BY <1>1, MemoryKeeps DEF IInv, WorkerOK, BatchOK, Assemble
  <2>2. QED
    BY <1>1, <2>1, FreeOK DEF Free
<1>4. ReportComplete'
  <2>1. out'.findings = local[w].report /\ out'.files = scanned
    BY <1>1
  <2>2. stop \/ /\ Batches \subseteq scanned
                /\ \A f \in Findings : Certain(f) => Among(f, local[w].report)
    BY DEF IInv, WorkerOK, ReportOK, Assemble
  <2>3. scanned \subseteq Batches /\ stop' = stop
    BY <1>1
  <2>4. stop \/ scanned = Batches
    BY <2>2, <2>3
  <2>5. QED
    BY <2>1, <2>2, <2>3, <2>4 DEF ReportComplete
<1>5. QED
  BY <1>1, <1>2, <1>3, <1>4, Frame

\* A step after which worker w remembers nothing and owes nothing.
LEMMA ForgetsFreely ==
  ASSUME IInv, NEW w \in Workers, NEW p \in Free, Goto(w, p), Forget(w), Grows,
         completed' = completed \/ CompletedOK', out' = out \/ ReportComplete',
         at' \in [Workers -> Points] /\ local' \in [Workers -> Local] => TypeOK'
  PROVE  IInv'
<1>1. Fresh \in Local /\ p \in Points
  BY ScrScanAssumption DEF Fresh, Local, Batches, Free, Points
<1>2. /\ at'[w] = p /\ local'[w] = Fresh
      /\ \A v \in Workers \ {w} : at'[v] = at[v] /\ local'[v] = local[v]
      /\ at' \in [Workers -> Points] /\ local' \in [Workers -> Local]
  BY <1>1 DEF IInv, TypeOK, Goto, Forget
<1>3. WorkerOK(w)'
  BY <1>2, FreshOK, FreeOK
<1>4. QED
  BY <1>2, <1>3, Frame

LEMMA PublishKeeps ==
  ASSUME IInv, NEW w \in Workers, Publish(w)
  PROVE  IInv'
<1>1. "complete" \in Free /\ Goto(w, "complete") /\ Forget(w) /\ Grows
      /\ completed' = completed /\ out' = out
  BY DEF Free, Publish, Grows, personal
<1>2. at' \in [Workers -> Points] /\ local' \in [Workers -> Local] => TypeOK'
  BY DEF IInv, TypeOK, Publish, personal, faults
<1>3. QED
  BY <1>1, <1>2, ForgetsFreely

LEMMA CompleteKeeps ==
  ASSUME IInv, NEW w \in Workers, Complete(w)
  PROVE  IInv'
<1>1. TypeOK'
  BY DEF IInv, Complete, TypeOK, Goto, Points, personal, result, faults
<1>2. Grows /\ local' = local /\ completed' = completed /\ out' = out
  BY DEF Complete, Grows, personal, result
<1>3. "commit" \in Free /\ Goto(w, "commit") /\ at[w] # "add"
  BY DEF Free, Complete
<1>4. QED
  BY <1>1, <1>2, <1>3, MovesFreely

-----------------------------------------------------------------------------
(* An exception.                                                           *)

LEMMA RaiseKeeps ==
  ASSUME IInv, NEW w \in Workers, Raise(w)
  PROVE  IInv'
<1>1. PICK p \in {"error", "fail"} : Goto(w, p)
  BY DEF Raise
<1>2. TypeOK'
  BY <1>1 DEF IInv, Raise, TypeOK, Goto, Points, personal, result, faults
<1>3. Grows /\ local' = local /\ completed' = completed /\ out' = out
  BY DEF Raise, Grows, personal, result
<1>4. p \in Free /\ at[w] # "add"
  BY ScrScanAssumption DEF Free, Raise, Places
<1>5. QED
  BY <1>1, <1>2, <1>3, <1>4, MovesFreely

LEMMA ErrorLoadKeeps ==
  ASSUME IInv, NEW w \in Workers, ErrorLoad(w)
  PROVE  IInv'
<1>1. /\ at'[w] = "errorSave" /\ local'[w] = [local[w] EXCEPT !.done = completed]
      /\ \A v \in Workers \ {w} : at'[v] = at[v] /\ local'[v] = local[v]
      /\ completed' = completed /\ out' = out /\ stored' = stored /\ scanned' = scanned
      /\ stop' = stop /\ Grows /\ local[w] \in Local /\ completed \subseteq Batches
  BY DEF IInv, TypeOK, ErrorLoad, Goto, personal, result, Grows
<1>2. /\ local'[w] \in Local /\ local'[w].done = completed
      /\ local'[w].checkpoint = local[w].checkpoint /\ local'[w].batch = local[w].batch
      /\ local'[w].adding = local[w].adding
  BY <1>1 DEF Local
<1>3. TypeOK'
  <2>1. local' \in [Workers -> Local] /\ at' \in [Workers -> Points]
    BY <1>1, <1>2 DEF IInv, TypeOK, ErrorLoad, Goto, Points
  <2>2. QED
    BY <2>1 DEF IInv, TypeOK, ErrorLoad, personal, result, faults
<1>4. MemoryOK(w)'
  BY <1>1, <1>2, HonestStays DEF IInv, WorkerOK, MemoryOK, CompletedOK
<1>5. local'[w].adding = {}
  BY <1>2 DEF IInv, WorkerOK, BatchOK, ErrorLoad
<1>6. WorkerOK(w)'
  BY <1>1, <1>4, <1>5, FreeOK DEF Free
<1>7. QED
  BY <1>1, <1>3, <1>6, Frame

LEMMA ErrorSaveKeeps ==
  ASSUME IInv, NEW w \in Workers, ErrorSave(w)
  PROVE  IInv'
<1>1. "fail" \in Free /\ Goto(w, "fail") /\ Forget(w) /\ Grows
      /\ completed' = local[w].done /\ out' = out
  BY DEF Free, ErrorSave, Grows, result
<1>2. CompletedOK'
  BY <1>1, HonestStays DEF IInv, WorkerOK, MemoryOK, CompletedOK
<1>3. local[w].done \subseteq Batches
  BY DEF IInv, TypeOK, Local
<1>4. at' \in [Workers -> Points] /\ local' \in [Workers -> Local] => TypeOK'
  BY <1>3 DEF IInv, TypeOK, ErrorSave, result, faults
<1>5. QED
  BY <1>1, <1>2, <1>4, ForgetsFreely

LEMMA WriteFailedKeeps ==
  ASSUME IInv, NEW w \in Workers, WriteFailed(w)
  PROVE  IInv'
<1>1. "idle" \in Free /\ Goto(w, "idle") /\ Forget(w) /\ Grows /\ completed' = completed
  BY DEF Free, WriteFailed, Grows, personal
<1>2. out' = [status |-> "FAILED", findings |-> {}, files |-> {}]
  BY DEF WriteFailed, NoReport
<1>3. ReportComplete'
  BY <1>2 DEF ReportComplete
<1>4. at' \in [Workers -> Points] /\ local' \in [Workers -> Local] => TypeOK'
  <2>1. out' \in [status : {"NONE", "COMPLETED", "FAILED"}, findings : SUBSET Copies,
                 files : SUBSET Batches]
    BY <1>2
  <2>2. record' \in {"due", "skipped", "done"} \union Workers
    BY DEF IInv, TypeOK, WriteFailed
  <2>3. QED
    BY <2>1, <2>2 DEF IInv, TypeOK, WriteFailed, personal, faults
<1>5. QED
  BY <1>1, <1>3, <1>4, ForgetsFreely

-----------------------------------------------------------------------------
(* Theorems.                                                               *)

LEMMA StepKeeps ==
  ASSUME IInv, NEW w \in Workers, Step(w)
  PROVE  IInv'
  BY StartKeeps, AcquireKeeps, PushKeeps, AppendedKeeps, LoadCheckpointKeeps, SkipBatchKeeps,
     GuardKeeps, BatchesEndKeeps, SkipProcessedKeeps, ProcessBatchKeeps, SeenKeeps,
     AddFingerprintKeeps, StampedKeeps, SaveFilesKeeps, LoadProgressKeeps, SaveProgressKeeps,
     EnrichAIKeeps, EnrichIntelKeeps, RankKeeps, AssembleKeeps, PublishKeeps, CompleteKeeps,
     CommitKeeps, ErrorLoadKeeps, ErrorSaveKeeps, WriteFailedKeeps DEF Step

LEMMA NextKeeps == IInv /\ [Next]_vars => IInv'
<1> SUFFICES ASSUME IInv, [Next]_vars PROVE IInv'
  OBVIOUS
<1>1. ASSUME NEW w \in Workers, Deliver(w) \/ Step(w) \/ Raise(w) \/ Rebalance(w) \/ Crash(w)
      PROVE  IInv'
  BY <1>1, DeliverKeeps, StepKeeps, RaiseKeeps, RebalanceKeeps, CrashKeeps
<1>2. CASE Stop
  BY <1>2, StopKeeps
<1>3. CASE UNCHANGED vars
  <2>1. Grows /\ at' = at /\ local' = local /\ completed' = completed /\ out' = out
    BY <1>3 DEF vars, personal, result, Grows
  <2>2. TypeOK'
    BY <1>3 DEF IInv, TypeOK, vars, personal, result, faults
  <2>3. CompletedOK' /\ ReportComplete'
    BY <1>3, <2>1, HonestStays DEF IInv, CompletedOK, ReportComplete, vars, personal
  <2>4. \A w \in Workers : WorkerOK(w)'
    BY <2>1, OthersKeep DEF IInv
  <2>5. QED
    BY <2>2, <2>3, <2>4 DEF IInv
<1>4. QED
  BY <1>1, <1>2, <1>3 DEF Next

(* The invariant holds whatever crashes, whoever takes the scan over and   *)
(* however the workers' steps interleave (scr_tool_host.py:102-260).       *)
THEOREM ScanInvariant == Spec => []IInv
  BY InitOK, NextKeeps, PTL DEF Spec

(* Every variable keeps its type, for all constants.                       *)
THEOREM ScanTypeCorrect == Spec => []TypeOK
<1>1. IInv => TypeOK
  BY DEF IInv
<1>2. QED
  BY ScanInvariant, <1>1, PTL

(* A completed batch has its files counted and its findings stored         *)
(* (scr_tool_host.py:248-260).                                             *)
THEOREM CheckpointHonestHolds == Spec => []CheckpointHonest
<1>1. IInv => CheckpointHonest
  BY DEF IInv, CompletedOK, Honest, OfBatch, First, CheckpointHonest, Among
<1>2. QED
  BY ScanInvariant, <1>1, PTL

(* A COMPLETED report that was not stopped covers every file and every     *)
(* finding that had to be found (scr_tool_host.py:207-260,                 *)
(* stage9_ranking.py:22-54).                                               *)
THEOREM ReportCompleteHolds == Spec => []ReportComplete
<1>1. IInv => ReportComplete
  BY DEF IInv
<1>2. QED
  BY ScanInvariant, <1>1, PTL
=============================================================================
