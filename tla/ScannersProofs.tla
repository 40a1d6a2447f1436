---------------------------- MODULE ScannersProofs ---------------------------
(***************************************************************************)
(* What a scan lists and leaves behind, for any files, findings, hosts and *)
(* faults.  Custody says where the directory, the ref and the cleanup are  *)
(* at every step; the theorems follow from it.                             *)
(***************************************************************************)
EXTENDS Scanners, FiniteSetTheorems, TLAPS

Early    == {"tools", "clone", "again", "tarball"}
Acquired == {"detect", "repo", "tools of the repo", "batch", "score"}
Points   == Early \cup {"list", "save", "cleanup", "over"} \cup Acquired

(* The cleanup is at hand from the moment the list is saved: a list that   *)
(* could not be saved leaves a temporary directory without one, and mode   *)
(* "local" one whose cleanup nobody calls.                                 *)
CleanupAtHand ==
  /\ at \in Points
  /\ dir.temp \in BOOLEAN
  /\ at = "tools" => ~dir.temp
  /\ at \in Early \cup {"list", "save"} => ~acquired
  /\ at \in Acquired => acquired
  /\ at = "cleanup" /\ ~acquired /\ dir.temp => error = "save"
  /\ at = "over" /\ dir.temp => error = "save" \/ (host.mode = "local" /\ acquired)

(* The archive of the caller is what it was.                               *)
ArchiveKept ==
  input.kind = "archive" =>
    at \notin {"clone", "again", "tarball"} /\ ~dir.temp /\ dir.trees = input.trees

Custody == CleanupAtHand /\ ArchiveKept

(* A directory is [temp, trees, git], so that what EXCEPT leaves is known. *)
DirOK == dir = [temp |-> dir.temp, trees |-> dir.trees, git |-> dir.git]

LEMMA CustodyInit == Init => Custody /\ DirOK
<1> SUFFICES ASSUME Init PROVE Custody /\ DirOK
  OBVIOUS
<1>1. at = "tools" /\ ~acquired
  BY DEF Init
<1>2. /\ dir.temp = FALSE /\ DirOK
      /\ input.kind = "archive" => dir.trees = input.trees
  <2>1. CASE input.kind = "archive"
    <3>1. dir = [temp |-> FALSE, trees |-> input.trees, git |-> input.git]
      BY <2>1 DEF Init, NoDir
    <3> QED BY <3>1 DEF DirOK
  <2>2. CASE input.kind # "archive"
    <3>1. dir = [temp |-> FALSE, trees |-> {}, git |-> "none"]
      BY <2>2 DEF Init, NoDir
    <3> QED BY <2>2, <3>1 DEF DirOK
  <2> QED BY <2>1, <2>2
<1> QED BY <1>1, <1>2 DEF Custody, CleanupAtHand, ArchiveKept, Points, Early, Acquired

(* The steps that run programs and analyzers touch neither.                *)
LEMMA CustodyLater ==
  ASSUME Custody, DirOK, StartTools \/ Program \/ Gather \/ AnalyzeBatch \/ Score \/ StoreBatch
  PROVE  (Custody /\ DirOK)'
<1> USE DEF Custody, CleanupAtHand, ArchiveKept, DirOK, Points, Early, Acquired, source, tree, scan, batch
<1>1. CASE StartTools
  BY <1>1 DEF StartTools, Goto
<1>2. CASE Program
  <2>1. UNCHANGED <<at, error, source, tree, scan, memory, batch>>
    BY <1>2 DEF Program, Semgrep, Bandit, Gosec, ESLint, Checkov, Gitleaks, GitleaksLog, Syft, Grype, Trivy,
                PipAudit, NpmAudit, Run, Return, RaiseIn, Unmoved
  <2> QED BY <2>1
<1>3. CASE Gather
  BY <1>3 DEF Gather, Goto, Raise
<1>4. CASE AnalyzeBatch
  BY <1>4 DEF AnalyzeBatch, Goto
<1>5. CASE Score
  BY <1>5 DEF Score
<1>6. CASE StoreBatch
  BY <1>6 DEF StoreBatch, Goto
<1> QED BY <1>1, <1>2, <1>3, <1>4, <1>5, <1>6

LEMMA CustodyStep ==
  ASSUME Custody, DirOK, [Next]_vars
  PROVE  (Custody /\ DirOK)'
<1> USE DEF Custody, CleanupAtHand, ArchiveKept, DirOK, Points, Early, Acquired, source, tree, scan, batch
<1>1. CASE CheckTools
  BY <1>1 DEF CheckTools, Goto, Raise
<1>2. CASE CloneRef
  <2>1. /\ at = "clone" /\ at' \in {"list", "again"}
        /\ dir'.temp = TRUE /\ DirOK'
        /\ UNCHANGED <<input, acquired>>
    BY <1>2 DEF CloneRef, Holds, Goto
  <2> QED BY <2>1
<1>3. CASE CloneDefault
  <2>1. /\ at = "again" /\ at' \in {"list", "tarball"}
        /\ dir'.temp = TRUE /\ DirOK'
        /\ UNCHANGED <<input, acquired>>
    BY <1>3 DEF CloneDefault, Holds, Goto
  <2> QED BY <2>1
<1>4. CASE DownloadTarball
  <2>1. /\ at = "tarball"
        /\ \/ at' = "list" /\ dir'.temp = TRUE /\ DirOK'
           \/ at' = "cleanup" /\ dir'.temp = FALSE /\ DirOK'
        /\ UNCHANGED <<input, acquired>>
    BY <1>4 DEF DownloadTarball, Holds, Goto, Raise, NoDir
  <2> QED BY <2>1
<1>5. CASE ListFiles
  BY <1>5 DEF ListFiles, Goto
<1>6. CASE SaveFileList
  BY <1>6 DEF SaveFileList, Goto, Raise
<1>7. CASE Detect
  BY <1>7 DEF Detect, Goto, Raise
<1>8. CASE StartTools \/ Program \/ Gather \/ AnalyzeBatch \/ Score \/ StoreBatch
  BY <1>8, CustodyLater
<1>9. CASE Cleanup
  BY <1>9 DEF Cleanup, Goto, NoDir
<1>10. CASE UNCHANGED vars
  BY <1>10 DEF vars
<1> QED BY <1>1, <1>2, <1>3, <1>4, <1>5, <1>6, <1>7, <1>8, <1>9, <1>10 DEF Next

LEMMA CustodyHolds == Spec => [](Custody /\ DirOK)
<1>1. Init => Custody /\ DirOK
  BY CustodyInit
<1>2. Custody /\ DirOK /\ [Next]_vars => (Custody /\ DirOK)'
  BY CustodyStep
<1> QED BY <1>1, <1>2, PTL DEF Spec

(* Whatever raises, and wherever: an ended scan has removed its temporary  *)
(* directory, or could not save its list, or ran in mode "local"; and it   *)
(* has left the archive alone.                                             *)
THEOREM TempGoneHolds == Spec => []TempGone
<1>1. Custody => TempGone
  BY DEF Custody, CleanupAtHand, ArchiveKept, TempGone
<1> QED BY <1>1, CustodyHolds, PTL
----------------------------------------------------------------------------
(* What is listed. *)

(* A cut is the whole, or there was more than max_files.                   *)
LEMMA CutOf ==
  ASSUME NEW fs \in SUBSET Files, NEW s \in Cut(fs)
  PROVE  s \subseteq fs /\ (s = fs \/ Cardinality(fs) > MaxFiles)
<1>1. Cardinality(fs) \in Nat /\ MaxFiles \in Nat
  BY ScannersAssumption, FS_Subset, FS_CardinalityType
<1> QED BY <1>1 DEF Cut, kSubset

(* ListFiles, and nothing else, chooses the files of a repository scan.    *)
LEMMA ListedChange ==
  ASSUME [Next]_vars
  PROVE  /\ listed' = listed \/ ListFiles
         /\ dir' = dir \/ at \in {"clone", "again", "tarball", "cleanup"}
         /\ input' = input
<1> USE DEF source, tree, scan, batch, tools
<1>1. CASE Program
  BY <1>1 DEF Program, Semgrep, Bandit, Gosec, ESLint, Checkov, Gitleaks, GitleaksLog, Syft, Grype, Trivy,
              PipAudit, NpmAudit, Run, Return, RaiseIn, Unmoved
<1>2. CASE CheckTools \/ CloneRef \/ CloneDefault \/ DownloadTarball
  BY <1>2 DEF CheckTools, CloneRef, CloneDefault, DownloadTarball
<1>3. CASE SaveFileList \/ Detect \/ StartTools \/ Gather
  BY <1>3 DEF SaveFileList, Detect, StartTools, Gather
<1>4. CASE AnalyzeBatch \/ Score \/ StoreBatch \/ Cleanup
  BY <1>4 DEF AnalyzeBatch, Score, StoreBatch, Cleanup
<1>5. CASE ListFiles
  BY <1>5 DEF ListFiles
<1>6. CASE UNCHANGED vars
  BY <1>6 DEF vars
<1> QED BY <1>1, <1>2, <1>3, <1>4, <1>5, <1>6 DEF Next

(* Where "save", "detect" and "repo" are reached from.                     *)
LEMMA Entering ==
  ASSUME [Next]_vars
  PROVE  /\ at' = "save" => at = "save" \/ ListFiles
         /\ at' = "detect" => at \in {"save", "detect"}
         /\ at' = "repo" => at \in {"detect", "repo"}
<1> USE DEF Goto, Raise
<1>1. CASE Program
  <2>1. at' = at
    BY <1>1 DEF Program, Semgrep, Bandit, Gosec, ESLint, Checkov, Gitleaks, GitleaksLog, Syft, Grype, Trivy,
                PipAudit, NpmAudit, Run, Return, RaiseIn, Unmoved
  <2> QED BY <2>1
<1>2. CASE CheckTools \/ CloneRef \/ CloneDefault \/ DownloadTarball
  BY <1>2 DEF CheckTools, CloneRef, CloneDefault, DownloadTarball
<1>3. CASE SaveFileList \/ Detect \/ StartTools \/ Gather
  BY <1>3 DEF SaveFileList, Detect, StartTools, Gather
<1>4. CASE AnalyzeBatch \/ Score \/ StoreBatch \/ Cleanup
  BY <1>4 DEF AnalyzeBatch, Score, StoreBatch, Cleanup
<1>5. CASE UNCHANGED vars
  BY <1>5 DEF vars
<1> QED BY <1>1, <1>2, <1>3, <1>4, <1>5 DEF Next, ListFiles

LEMMA ChangedScannedStep ==
  ASSUME ChangedScanned, [Next]_vars
  PROVE  ChangedScanned'
<1> SUFFICES ASSUME input.kind = "repo", input.incremental, at' \in {"save", "detect", "repo"}
             PROVE  \/ {x \in Filtered(Walked)' : x.changed} \subseteq listed'
                    \/ Cardinality(Filtered(Walked)') > MaxFiles
  BY ListedChange DEF ChangedScanned
<1>1. CASE ListFiles
  <2>1. PICK fs \in Cut(Filtered(Walked)) : listed' = Changed(fs)
    BY <1>1 DEF ListFiles
  <2>2. UNCHANGED dir
    BY <1>1 DEF ListFiles, tree
  <2>3. Filtered(Walked) \in SUBSET Files /\ Filtered(Walked)' = Filtered(Walked)
    BY <2>2 DEF Filtered, Walked, OnDisk
  <2>4. fs = Filtered(Walked) \/ Cardinality(Filtered(Walked)) > MaxFiles
    BY <2>1, <2>3, CutOf
  <2>5. {x \in fs : x.changed} \subseteq Changed(fs) \/ ~(fs \subseteq Files)
    BY DEF Changed, GitDiff
  <2> QED BY <2>1, <2>3, <2>4, <2>5
<1>2. CASE ~ListFiles
  <2>1. at \in {"save", "detect", "repo"}
    BY <1>2, Entering
  <2>2. UNCHANGED <<listed, dir>>
    BY <1>2, <2>1, ListedChange
  <2>3. Filtered(Walked)' = Filtered(Walked)
    BY <2>2 DEF Filtered, Walked, OnDisk
  <2> QED BY <2>1, <2>2, <2>3 DEF ChangedScanned
<1> QED BY <1>1, <1>2

(* An incremental scan leaves no changed file out, but for the walk's cut. *)
THEOREM ChangedScannedHolds == Spec => []ChangedScanned
<1>1. Init => ChangedScanned
  BY DEF Init, ChangedScanned
<1>2. ChangedScanned /\ [Next]_vars => ChangedScanned'
  BY ChangedScannedStep
<1> QED BY <1>1, <1>2, PTL DEF Spec
----------------------------------------------------------------------------
(* The ref. *)

(* What the directory of a repository scan holds: a failed clone leaves    *)
(* nothing without a .git, and the ref is there when files are listed.     *)
RefAtHand ==
  input.kind = "repo" /\ error = "none" =>
    /\ at = "tarball" /\ dir.git = "none" => dir.trees = {}
    /\ at \in Early \cup {"list"} => listed = {}
    /\ at \notin Early \cup {"over"} =>
         /\ "ref" \in dir.trees
         /\ dir.trees = {"ref"} \/ (got = "tarball" /\ dir.git # "none")
         /\ \A x \in listed : x.tree \in dir.trees

LEMMA RefAtHandStep ==
  ASSUME RefAtHand, Custody, DirOK, [Next]_vars
  PROVE  RefAtHand'
<1> SUFFICES ASSUME input'.kind = "repo", error' = "none"
             PROVE  /\ at' = "tarball" /\ dir'.git = "none" => dir'.trees = {}
                    /\ at' \in Early \cup {"list"} => listed' = {}
                    /\ at' \notin Early \cup {"over"} =>
                         /\ "ref" \in dir'.trees
                         /\ dir'.trees = {"ref"} \/ (got' = "tarball" /\ dir'.git # "none")
                         /\ \A x \in listed' : x.tree \in dir'.trees
  BY DEF RefAtHand
<1>k. input.kind = "repo" /\ at \in Points
  BY ListedChange DEF Custody, CleanupAtHand
<1> USE DEF Early, source, tree, scan, batch, Goto, Raise
<1>1. CASE CheckTools
  BY <1>1, <1>k DEF CheckTools, RefAtHand
<1>2. CASE CloneRef
  <2>1. at = "clone" /\ error = "none" /\ UNCHANGED listed
    BY <1>2 DEF CloneRef
  <2>2. \/ at' = "list" /\ dir'.trees = {"ref"}
        \/ at' = "again"
    BY <1>2 DEF CloneRef, Holds
  <2> QED BY <1>k, <2>1, <2>2 DEF RefAtHand
<1>3. CASE CloneDefault
  <2>1. at = "again" /\ error = "none" /\ UNCHANGED listed
    BY <1>3 DEF CloneDefault
  <2>2. \/ at' = "list" /\ dir'.trees = {"ref"}
        \/ at' = "tarball" /\ dir'.git # "none"
        \/ at' = "tarball" /\ dir'.trees = {}
    BY <1>3 DEF CloneDefault, Holds
  <2> QED BY <1>k, <2>1, <2>2 DEF RefAtHand
<1>4. CASE DownloadTarball
  <2>1. /\ at = "tarball" /\ at' = "list" /\ error = "none" /\ UNCHANGED listed
        /\ dir'.trees = dir.trees \cup {"ref"} /\ dir'.git = dir.git /\ got' = "tarball"
    BY <1>4 DEF DownloadTarball, Holds
  <2>2. /\ dir.git = "none" => dir.trees = {}
        /\ listed = {}
    BY <1>k, <2>1 DEF RefAtHand
  <2> QED BY <2>1, <2>2
<1>5. CASE ListFiles
  <2>1. PICK fs \in Cut(Filtered(Walked)) : listed' \subseteq fs
    BY <1>5, <1>k DEF ListFiles, Changed
  <2>2. \A x \in fs : x.tree \in dir.trees
    <3>1. Filtered(Walked) \in SUBSET Files /\ \A x \in Filtered(Walked) : x.tree \in dir.trees
      BY DEF Filtered, Walked, OnDisk
    <3> QED BY <3>1, CutOf
  <2>3. at = "list" /\ at' = "save" /\ error = "none" /\ UNCHANGED tree
    BY <1>5 DEF ListFiles
  <2> QED BY <1>k, <2>1, <2>2, <2>3 DEF RefAtHand
<1>6. CASE SaveFileList \/ Detect \/ StartTools \/ Gather
  <2>1. /\ at \in {"save", "detect", "repo", "tools of the repo"} /\ error = "none"
        /\ at' \in {"detect", "repo", "tools of the repo", "batch"}
        /\ UNCHANGED <<listed, dir, got>>
    BY <1>6 DEF SaveFileList, Detect, StartTools, Gather
  <2> QED BY <1>k, <2>1 DEF RefAtHand
<1>7. CASE AnalyzeBatch \/ Score \/ StoreBatch
  <2>1. /\ at \in {"batch", "score"} /\ error = "none"
        /\ at' \in {"score", "batch", "cleanup"}
        /\ UNCHANGED <<listed, dir, got>>
    BY <1>7 DEF AnalyzeBatch, Score, StoreBatch
  <2> QED BY <1>k, <2>1 DEF RefAtHand
<1>8. CASE Program \/ UNCHANGED vars
  <2>1. UNCHANGED <<at, error, source, tree, scan>>
    BY <1>8 DEF vars, Program, Semgrep, Bandit, Gosec, ESLint, Checkov, Gitleaks, GitleaksLog, Syft, Grype,
                Trivy, PipAudit, NpmAudit, Run, Return, RaiseIn, Unmoved
  <2> QED BY <1>k, <2>1 DEF RefAtHand
<1>9. CASE Cleanup
  BY <1>9 DEF Cleanup
<1> QED BY <1>1, <1>2, <1>3, <1>4, <1>5, <1>6, <1>7, <1>8, <1>9 DEF Next

(* The files of another commit are listed only when a tarball was unpacked *)
(* over the clone of the default branch.                                   *)
THEOREM ScansTheRefHolds == Spec => []ScansTheRef
<1>1. Init => RefAtHand
  BY DEF Init, RefAtHand, Early
<1>2. RefAtHand /\ Custody /\ DirOK /\ [Next]_vars => RefAtHand'
  BY RefAtHandStep
<1>3. RefAtHand => ScansTheRef
  BY DEF RefAtHand, ScansTheRef, Early
<1> QED BY <1>1, <1>2, <1>3, CustodyHolds, PTL DEF Spec
----------------------------------------------------------------------------
(* What the programs found. *)

(* Of a set of ranks there is a least one.                                 *)
LEMMA LeastRank ==
  ASSUME NEW R \in SUBSET (1..7), R # {}
  PROVE  \E m \in R : \A n \in R : m <= n
<1>1. CASE 1 \in R
  BY <1>1
<1>2. CASE 1 \notin R /\ 2 \in R
  BY <1>2
<1>3. CASE 1 \notin R /\ 2 \notin R /\ 3 \in R
  BY <1>3
<1>4. CASE 1 \notin R /\ 2 \notin R /\ 3 \notin R /\ 4 \in R
  BY <1>4
<1>5. CASE R \subseteq 5..7 /\ 5 \in R
  BY <1>5
<1>6. CASE R \subseteq 6..7 /\ 6 \in R
  BY <1>6
<1>7. CASE R \subseteq {7} /\ 7 \in R
  BY <1>7
<1>8. CASE \A n \in 1..7 : n \notin R
  BY <1>8
<1> QED BY <1>1, <1>2, <1>3, <1>4, <1>5, <1>6, <1>7, <1>8

(* Every spot of a list has a finding in the list without its duplicates.  *)
LEMMA DedupedKeepsSpots ==
  ASSUME NEW fs \in SUBSET Findings, NEW f \in fs
  PROVE  \E g \in Deduped(fs) : SameSpot(f, g)
<1>1. \A g \in Findings : Rank[g.tool] \in 1..7
  BY ScannersAssumption DEF Rank, Tools, Analyzers, SastTools, SecretTools, SbomTools
<1> DEFINE twins == {g \in fs : SameSpot(f, g)}
           R     == {Rank[g.tool] : g \in twins}
<1>2. f \in twins /\ R \subseteq 1..7 /\ R # {}
  BY <1>1 DEF SameSpot
<1>3. PICK m \in R : \A n \in R : m <= n
  BY <1>2, LeastRank
<1>4. PICK g \in twins : Rank[g.tool] = m
  OBVIOUS
<1>5. \A h \in fs : SameSpot(g, h) => ~(Rank[h.tool] < Rank[g.tool])
  <2> SUFFICES ASSUME NEW h \in fs, SameSpot(g, h)
               PROVE  ~(Rank[h.tool] < Rank[g.tool])
    OBVIOUS
  <2>1. h \in twins
    BY <1>4 DEF SameSpot
  <2>2. m <= Rank[h.tool] /\ m \in 1..7 /\ Rank[h.tool] \in 1..7
    BY <2>1, <1>1, <1>2, <1>3
  <2> QED BY <2>2, <1>4
<1> QED BY <1>4, <1>5 DEF Deduped

(* A program returns findings of its own.                                  *)
FoundOK == found \in [Tools -> SUBSET Findings]

LEMMA FoundStep ==
  ASSUME FoundOK, [Next]_vars
  PROVE  /\ FoundOK'
         /\ \/ UNCHANGED <<task, found>>
            \/ at \in {"repo", "tools of the repo"} /\ at' = "tools of the repo"
<1> USE DEF FoundOK, tools, batch, scan
<1>1. CASE Program
  <2>1. ASSUME NEW t \in Tools, NEW S \in SUBSET Findings, NEW next, Return(t, S, next)
        PROVE  FoundOK' /\ UNCHANGED at
    BY <2>1 DEF Return, Unmoved
  <2>2. ASSUME NEW t, RaiseIn(t)
        PROVE  FoundOK' /\ UNCHANGED at
    BY <2>2 DEF RaiseIn, Unmoved
  <2>3. ASSUME NEW t \in Tools, NEW prog, NEW S \in SUBSET Findings, NEW next, Run(t, prog, S, next)
        PROVE  FoundOK' /\ UNCHANGED at /\ at = "tools of the repo"
    <3>1. (IF prog \in host.programs THEN S ELSE {}) \in SUBSET Findings /\ {} \in SUBSET Findings
      OBVIOUS
    <3> QED BY <2>1, <2>2, <2>3, <3>1 DEF Run, Running
  <2>4. \A t : InTree(t) \in SUBSET Findings /\ In({"ref", "head"}, t) \in SUBSET Findings
    BY DEF InTree, In
  <2>5. \A fs \in SUBSET Findings : HighCvss(fs) \in SUBSET Findings
    BY DEF HighCvss
  <2> USE DEF Tools, SastTools, SecretTools, SbomTools
  <2>6. CASE Semgrep
    BY <2>6, <2>3, <2>4 DEF Semgrep
  <2>7. CASE Bandit
    BY <2>7, <2>3, <2>4 DEF Bandit
  <2>8. CASE Gosec
    BY <2>8, <2>3, <2>4 DEF Gosec
  <2>9. CASE ESLint
    BY <2>9, <2>3, <2>4 DEF ESLint
  <2>10. CASE Checkov
    BY <2>10, <2>3, <2>4 DEF Checkov
  <2>11. CASE Gitleaks
    BY <2>11, <2>3, <2>4 DEF Gitleaks
  <2>12. CASE GitleaksLog
    BY <2>12, <2>3, <2>4 DEF GitleaksLog
  <2>13. CASE Syft
    <3>1. Manifests \in SUBSET Findings
      BY <2>4 DEF Manifests
    <3> QED BY <2>13, <3>1, <2>1, <2>2, <2>4 DEF Syft, Running
  <2>14. CASE Grype
    <3>1. HighCvss(InTree("grype")) \in SUBSET Findings /\ {} \in SUBSET Findings
      BY <2>4, <2>5
    <3> QED BY <2>14, <3>1, <2>1, <2>2 DEF Grype, Running
  <2>15. CASE Trivy
    <3>1. HighCvss(InTree("trivy")) \in SUBSET Findings
      BY <2>4, <2>5
    <3> QED BY <2>15, <3>1, <2>3 DEF Trivy
  <2>16. CASE PipAudit
    <3>1. Audited \in SUBSET Findings /\ {} \in SUBSET Findings
      BY <2>4 DEF Audited
    <3>2. CASE Return("pipAudit", Audited, {"npmAudit"}) \/ Return("pipAudit", {}, {"npmAudit"})
      BY <2>16, <3>1, <3>2, <2>1 DEF PipAudit, Running
    <3>3. CASE Unmoved /\ UNCHANGED found
      BY <2>16, <3>3 DEF PipAudit, Running, Unmoved
    <3> QED BY <2>16, <3>2, <3>3 DEF PipAudit
  <2>17. CASE NpmAudit
    <3>1. (IF AtRoot("package.json") THEN HighCvss(InTree("npmAudit")) ELSE {}) \in SUBSET Findings
      BY <2>4, <2>5
    <3> QED BY <2>17, <3>1, <2>3 DEF NpmAudit
  <2> QED BY <1>1, <2>6, <2>7, <2>8, <2>9, <2>10, <2>11, <2>12, <2>13, <2>14, <2>15, <2>16, <2>17 DEF Program
<1>2. CASE StartTools
  BY <1>2 DEF StartTools, Goto
<1>3. CASE CheckTools \/ CloneRef \/ CloneDefault \/ DownloadTarball \/ ListFiles
  <2>1. UNCHANGED <<task, found>>
    BY <1>3 DEF CheckTools, CloneRef, CloneDefault, DownloadTarball, ListFiles
  <2> QED BY <2>1
<1>4. CASE SaveFileList \/ Detect \/ Gather
  <2>1. UNCHANGED <<task, found>>
    BY <1>4 DEF SaveFileList, Detect, Gather
  <2> QED BY <2>1
<1>5. CASE AnalyzeBatch \/ Score \/ StoreBatch \/ Cleanup
  <2>1. UNCHANGED <<task, found>>
    BY <1>5 DEF AnalyzeBatch, Score, StoreBatch, Cleanup
  <2> QED BY <2>1
<1>6. CASE UNCHANGED vars
  <2>1. UNCHANGED <<task, found>>
    BY <1>6 DEF vars
  <2> QED BY <2>1
<1> QED BY <1>1, <1>2, <1>3, <1>4, <1>5, <1>6 DEF Next
(* From the gathering on, what was found is in memory.                     *)
RepoStored ==
  at \in {"batch", "score"} \/ (at \in {"cleanup", "over"} /\ error = "none") => RepoFound \subseteq memory

LEMMA RepoStoredStep ==
  ASSUME RepoStored, FoundOK, [Next]_vars
  PROVE  RepoStored'
<1> SUFFICES ASSUME at' \in {"batch", "score"} \/ (at' \in {"cleanup", "over"} /\ error' = "none")
             PROVE  RepoFound' \subseteq memory'
  BY DEF RepoStored
<1>1. RepoFound' = RepoFound
  <2>1. UNCHANGED <<task, found>>
    BY FoundStep
  <2> QED BY <2>1 DEF RepoFound, CodeFound, SecretFound, SbomFound, Deduped, Raised, Returned
<1> USE DEF Goto, Raise, RepoStored
<1>2. CASE CheckTools \/ CloneRef \/ CloneDefault \/ DownloadTarball \/ ListFiles \/ SaveFileList \/ Detect
  BY <1>2 DEF CheckTools, CloneRef, CloneDefault, DownloadTarball, ListFiles, SaveFileList, Detect
<1>3. CASE StartTools \/ Gather
  BY <1>1, <1>3 DEF StartTools, Gather
<1>4. CASE Program
  <2>1. at' = "tools of the repo"
    BY <1>4 DEF Program, Semgrep, Bandit, Gosec, ESLint, Checkov, Gitleaks, GitleaksLog, Syft, Grype, Trivy,
                PipAudit, NpmAudit, Run, Return, RaiseIn, Unmoved, Running
  <2> QED BY <2>1
<1>5. CASE AnalyzeBatch
  <2>1. at = "batch" /\ memory \subseteq memory'
    BY <1>5 DEF AnalyzeBatch
  <2> QED BY <1>1, <2>1
<1>6. CASE Score
  <2>1. at = "score" /\ memory' = memory
    BY <1>6 DEF Score
  <2> QED BY <1>1, <2>1
<1>7. CASE StoreBatch
  <2>1. at = "score" /\ memory \subseteq memory'
    BY <1>7 DEF StoreBatch
  <2> QED BY <1>1, <2>1
<1>8. CASE Cleanup
  <2>1. at = "cleanup" /\ error' = error /\ at' = "over" /\ memory' = memory
    BY <1>8 DEF Cleanup
  <2> QED BY <1>1, <2>1
<1>9. CASE UNCHANGED vars
  <2>1. UNCHANGED <<at, error, memory>>
    BY <1>9 DEF vars
  <2> QED BY <1>1, <2>1
<1> QED BY <1>2, <1>3, <1>4, <1>5, <1>6, <1>7, <1>8, <1>9 DEF Next

(* Each program's findings, or twins of them, are among what is gathered.  *)
LEMMA GatheredKeeps ==
  ASSUME FoundOK, NEW t \in Tools, NEW f \in found[t]
  PROVE  \/ t \in SecretTools /\ (Raised(SecretTools) \/ SpareSecret(f))
         \/ t \in SbomTools /\ Raised(SbomTools)
         \/ \E g \in RepoFound : SameSpot(f, g)
<1>1. \A ts \in SUBSET Tools : Returned(ts) \in SUBSET Findings /\ (t \in ts => f \in Returned(ts))
  BY DEF FoundOK, Returned
<1> USE DEF Tools
<1>2. CASE t \in SastTools
  <2>1. \E g \in CodeFound : SameSpot(f, g)
    BY <1>1, <1>2, DedupedKeepsSpots DEF CodeFound
  <2> QED BY <2>1 DEF RepoFound
<1>3. CASE t \in SecretTools /\ ~Raised(SecretTools) /\ ~SpareSecret(f)
  <2>1. PICK g \in Deduped(Returned(SecretTools)) : SameSpot(f, g)
    BY <1>1, <1>3, DedupedKeepsSpots
  <2>2. ~SpareSecret(g)
    BY <1>3, <2>1 DEF SpareSecret, SameSpot
  <2> QED BY <1>3, <2>1, <2>2 DEF SecretFound, RepoFound
<1>4. CASE t \in SbomTools /\ ~Raised(SbomTools)
  BY <1>1, <1>4 DEF SbomFound, RepoFound, SameSpot
<1> QED BY <1>2, <1>3, <1>4

(* A program that fails costs no other program's findings, but those of    *)
(* its label.                                                              *)
THEOREM FindingsKeptHolds == Spec => []FindingsKept
<1>1. Init => FoundOK /\ RepoStored
  BY DEF Init, FoundOK, RepoStored
<1>2. FoundOK /\ RepoStored /\ [Next]_vars => (FoundOK /\ RepoStored)'
  BY FoundStep, RepoStoredStep
<1>3. FoundOK /\ RepoStored => FindingsKept
  <2> SUFFICES ASSUME FoundOK, RepoStored, at = "over", error = "none", NEW t \in Tools, NEW f \in found[t]
               PROVE  \/ t \in SecretTools /\ (Raised(SecretTools) \/ SpareSecret(f))
                      \/ t \in SbomTools /\ Raised(SbomTools)
                      \/ \E g \in memory : SameSpot(f, g)
    BY DEF FindingsKept
  <2>1. RepoFound \subseteq memory
    BY DEF RepoStored
  <2> QED BY <2>1, GatheredKeeps
<1> QED BY <1>1, <1>2, <1>3, PTL DEF Spec
----------------------------------------------------------------------------
(* The accounts of the filter. *)

(* Where the findings of a scan are: a code finding of a batch is counted, *)
(* waits in open or was let through, and is in one place only; one whose   *)
(* scoring failed was let through.                                         *)
Accounts ==
  /\ stats.total \in Nat /\ stats.hard \in Nat /\ stats.ai \in Nat /\ stats.kept \in Nat /\ stats.failed \in Nat
  /\ stats = [total |-> stats.total, hard |-> stats.hard, ai |-> stats.ai,
              kept |-> stats.kept, failed |-> stats.failed]
  /\ open \in SUBSET Findings /\ kept \in SUBSET Findings /\ open \cap kept = {}
  /\ at # "score" => open = {} /\ kept = {}
  /\ stats.total = stats.hard + stats.ai + stats.kept + Cardinality(open) + Cardinality(kept)
  /\ stats.failed <= stats.kept + Cardinality(kept)

LEMMA FiniteFindings ==
  ASSUME NEW S \in SUBSET Findings
  PROVE  IsFiniteSet(S) /\ Cardinality(S) \in Nat
BY ScannersAssumption, FS_Subset, FS_CardinalityType

LEMMA AccountsInit == Init => Accounts
<1> SUFFICES ASSUME Init PROVE Accounts
  OBVIOUS
<1>1. stats = [total |-> 0, hard |-> 0, ai |-> 0, kept |-> 0, failed |-> 0] /\ open = {} /\ kept = {}
  BY DEF Init, NoStats
<1>2. Cardinality({}) = 0
  BY FS_EmptySet
<1> QED BY <1>1, <1>2 DEF Accounts

(* What a batch gives the filter are findings, and an exclusion is a part. *)
LEMMA BatchCodeType ==
  ASSUME FoundOK, NEW b, NEW lost
  PROVE  /\ BatchCode(b, lost) \in SUBSET Findings
         /\ HardExcluded(BatchCode(b, lost)) \subseteq BatchCode(b, lost)
<1>1. CodeFound \subseteq Findings
  <2>1. Returned(SastTools) \subseteq Findings
    BY DEF Returned, FoundOK, Tools
  <2> QED BY <2>1 DEF CodeFound, Deduped
<1>2. Heuristics(b) \subseteq Findings /\ Dataflow(b) \subseteq Findings
  BY DEF Heuristics, Dataflow, Of
<1>3. BatchSast(b) \subseteq Findings
  BY <1>1, <1>2 DEF BatchSast, Deduped
<1> QED BY <1>2, <1>3 DEF BatchCode, HardExcluded

(* The four parts of the account move as one: the counters of a batch.     *)
LEMMA AnalyzeAccounts ==
  ASSUME Accounts, FoundOK, AnalyzeBatch
  PROVE  Accounts'
<1>1. PICK b \in Batches, lost \in SUBSET (host.flaky \cap Analyzers) :
        /\ open' = BatchCode(b, lost) \ HardExcluded(BatchCode(b, lost))
        /\ stats' = [stats EXCEPT !.total = @ + Cardinality(BatchCode(b, lost)),
                                  !.hard  = @ + Cardinality(HardExcluded(BatchCode(b, lost)))]
  BY DEF AnalyzeBatch
<1>2. PICK code : code = BatchCode(b, lost)
  OBVIOUS
<1>3. PICK noise : noise = HardExcluded(code)
  OBVIOUS
<1>4. code \in SUBSET Findings /\ noise \subseteq code
  BY <1>2, <1>3, BatchCodeType
<1>5. /\ Cardinality(code) \in Nat /\ Cardinality(noise) \in Nat /\ Cardinality(code \ noise) \in Nat
      /\ Cardinality(code \ noise) = Cardinality(code) - Cardinality(noise)
  <2>1. IsFiniteSet(code) /\ code \cap noise = noise /\ code \ noise \in SUBSET Findings /\ noise \in SUBSET Findings
    BY <1>4, FiniteFindings
  <2>2. Cardinality(code \ noise) = Cardinality(code) - Cardinality(code \cap noise)
    BY <2>1, FS_Difference
  <2> QED BY <1>4, <2>1, <2>2, FiniteFindings
<1>6. at = "batch" /\ at' = "score" /\ open = {} /\ kept = {} /\ kept' = {} /\ Cardinality({}) = 0
  BY FS_EmptySet DEF AnalyzeBatch, Accounts, Goto
<1>7. /\ stats' = [total |-> stats.total + Cardinality(code), hard |-> stats.hard + Cardinality(noise),
                   ai |-> stats.ai, kept |-> stats.kept, failed |-> stats.failed]
      /\ open' = code \ noise
  BY <1>1, <1>2, <1>3 DEF Accounts
<1>8. /\ stats'.total = stats.total + Cardinality(code) /\ stats'.hard = stats.hard + Cardinality(noise)
      /\ stats'.ai = stats.ai /\ stats'.kept = stats.kept /\ stats'.failed = stats.failed
  BY <1>7
<1>9. stats.total = stats.hard + stats.ai + stats.kept /\ stats.failed <= stats.kept
  BY <1>6 DEF Accounts
<1>10. /\ stats'.total \in Nat /\ stats'.hard \in Nat /\ stats'.ai \in Nat /\ stats'.kept \in Nat /\ stats'.failed \in Nat
       /\ stats'.total = stats'.hard + stats'.ai + stats'.kept + Cardinality(code \ noise) + 0
       /\ stats'.failed <= stats'.kept + 0
  BY <1>5, <1>8, <1>9 DEF Accounts
<1> QED BY <1>4, <1>6, <1>7, <1>8, <1>10 DEF Accounts

LEMMA ScoreAccounts ==
  ASSUME Accounts, Score
  PROVE  Accounts'
<1>1. PICK f \in open : open' = open \ {f} /\ (Pass(f, 0) \/ Drop(f) \/ Pass(f, 1))
  BY DEF Score
<1>2. at = "score" /\ at' = "score"
  BY DEF Score
<1>3. /\ Cardinality(open) \in Nat /\ Cardinality(kept) \in Nat
      /\ Cardinality(open \ {f}) = Cardinality(open) - 1
      /\ Cardinality(open \ {f}) \in Nat
      /\ Cardinality(kept \cup {f}) = Cardinality(kept) + 1
  <2>1. IsFiniteSet(open) /\ IsFiniteSet(kept) /\ open \ {f} \in SUBSET Findings /\ f \notin kept
    BY FiniteFindings DEF Accounts
  <2>2. Cardinality(open) \in Nat /\ Cardinality(kept) \in Nat /\ Cardinality(open \ {f}) \in Nat
    BY <2>1, FiniteFindings DEF Accounts
  <2> QED BY <2>1, <2>2, FS_AddElement, FS_RemoveElement
<1>4. /\ stats.total \in Nat /\ stats.hard \in Nat /\ stats.ai \in Nat /\ stats.kept \in Nat /\ stats.failed \in Nat
      /\ stats.total = stats.hard + stats.ai + stats.kept + Cardinality(open) + Cardinality(kept)
      /\ stats.failed <= stats.kept + Cardinality(kept)
  BY DEF Accounts
<1>5. ASSUME NEW failed \in {0, 1}, Pass(f, failed)
      PROVE  Accounts'
  <2>1. /\ stats' = [total |-> stats.total, hard |-> stats.hard, ai |-> stats.ai,
                     kept |-> stats.kept, failed |-> stats.failed + failed]
        /\ kept' = kept \cup {f}
    BY <1>5 DEF Pass, Accounts
  <2>2. /\ stats'.total = stats.total /\ stats'.hard = stats.hard /\ stats'.ai = stats.ai
        /\ stats'.kept = stats.kept /\ stats'.failed = stats.failed + failed
    BY <2>1
  <2>3. /\ stats'.failed \in Nat
        /\ stats'.total = stats'.hard + stats'.ai + stats'.kept + Cardinality(open \ {f}) + Cardinality(kept \cup {f})
        /\ stats'.failed <= stats'.kept + Cardinality(kept \cup {f})
    BY <1>3, <1>4, <2>2
  <2> QED BY <1>1, <1>2, <1>4, <2>1, <2>2, <2>3 DEF Accounts
<1>6. CASE Drop(f)
  <2>1. /\ stats' = [total |-> stats.total, hard |-> stats.hard, ai |-> stats.ai + 1,
                     kept |-> stats.kept, failed |-> stats.failed]
        /\ kept' = kept
    BY <1>6 DEF Drop, Accounts
  <2>2. /\ stats'.total = stats.total /\ stats'.hard = stats.hard /\ stats'.ai = stats.ai + 1
        /\ stats'.kept = stats.kept /\ stats'.failed = stats.failed
    BY <2>1
  <2>3. /\ stats'.ai \in Nat
        /\ stats'.total = stats'.hard + stats'.ai + stats'.kept + Cardinality(open \ {f}) + Cardinality(kept)
        /\ stats'.failed <= stats'.kept + Cardinality(kept)
    BY <1>3, <1>4, <2>2
  <2> QED BY <1>1, <1>2, <1>4, <2>1, <2>2, <2>3 DEF Accounts
<1> QED BY <1>1, <1>5, <1>6

LEMMA StoreAccounts ==
  ASSUME Accounts, StoreBatch
  PROVE  Accounts'
<1>1. /\ stats' = [stats EXCEPT !.kept = @ + Cardinality(kept \cup open)]
      /\ open' = {} /\ kept' = {} /\ Cardinality({}) = 0
  BY FS_EmptySet DEF StoreBatch
<1>2. /\ Cardinality(open) \in Nat /\ Cardinality(kept) \in Nat
      /\ Cardinality(kept \cup open) = Cardinality(kept) + Cardinality(open)
  <2>1. IsFiniteSet(open) /\ IsFiniteSet(kept) /\ kept \cap open = {}
    BY FiniteFindings DEF Accounts
  <2>2. Cardinality(open) \in Nat /\ Cardinality(kept) \in Nat
    BY FiniteFindings DEF Accounts
  <2>3. Cardinality(kept \cup open) = Cardinality(kept) + Cardinality(open) - Cardinality(kept \cap open)
    BY <2>1, FS_Union
  <2>4. Cardinality(kept \cap open) = 0
    BY <1>1, <2>1
  <2> QED BY <2>2, <2>3, <2>4
<1>3. /\ stats.total \in Nat /\ stats.hard \in Nat /\ stats.ai \in Nat /\ stats.kept \in Nat /\ stats.failed \in Nat
      /\ stats.total = stats.hard + stats.ai + stats.kept + Cardinality(open) + Cardinality(kept)
      /\ stats.failed <= stats.kept + Cardinality(kept)
  BY DEF Accounts
<1>4. stats' = [total |-> stats.total, hard |-> stats.hard, ai |-> stats.ai,
                kept |-> stats.kept + Cardinality(kept \cup open), failed |-> stats.failed]
  BY <1>1 DEF Accounts
<1>5. /\ stats'.total = stats.total /\ stats'.hard = stats.hard /\ stats'.ai = stats.ai
      /\ stats'.kept = stats.kept + Cardinality(kept \cup open) /\ stats'.failed = stats.failed
  BY <1>4
<1>6. /\ stats'.kept \in Nat
      /\ stats'.total = stats'.hard + stats'.ai + stats'.kept + 0 + 0
      /\ stats'.failed <= stats'.kept + 0
  BY <1>2, <1>3, <1>5
<1> QED BY <1>1, <1>3, <1>4, <1>5, <1>6 DEF Accounts

LEMMA AccountsStep ==
  ASSUME Accounts, FoundOK, [Next]_vars
  PROVE  Accounts'
<1> USE DEF source, tree, scan, batch, tools
<1>1. ASSUME UNCHANGED <<open, kept, stats>>, at # "score" \/ at' = at
      PROVE  Accounts'
  BY <1>1 DEF Accounts
<1>2. CASE CheckTools \/ CloneRef \/ CloneDefault \/ DownloadTarball \/ ListFiles
  <2>1. UNCHANGED <<open, kept, stats>> /\ at # "score"
    BY <1>2 DEF CheckTools, CloneRef, CloneDefault, DownloadTarball, ListFiles
  <2> QED BY <1>1, <2>1
<1>3. CASE SaveFileList \/ Detect \/ StartTools \/ Gather \/ Cleanup
  <2>1. UNCHANGED <<open, kept, stats>> /\ at # "score"
    BY <1>3 DEF SaveFileList, Detect, StartTools, Gather, Cleanup
  <2> QED BY <1>1, <2>1
<1>4. CASE Program
  <2>1. UNCHANGED <<at, open, kept, stats>>
    BY <1>4 DEF Program, Semgrep, Bandit, Gosec, ESLint, Checkov, Gitleaks, GitleaksLog, Syft, Grype, Trivy,
                PipAudit, NpmAudit, Run, Return, RaiseIn, Unmoved
  <2> QED BY <1>1, <2>1
<1>5. CASE UNCHANGED vars
  <2>1. UNCHANGED <<at, open, kept, stats>>
    BY <1>5 DEF vars
  <2> QED BY <1>1, <2>1
<1>6. CASE AnalyzeBatch
  BY <1>6, AnalyzeAccounts
<1>7. CASE Score
  BY <1>7, ScoreAccounts
<1>8. CASE StoreBatch
  BY <1>8, StoreAccounts
<1> QED BY <1>2, <1>3, <1>4, <1>5, <1>6, <1>7, <1>8 DEF Next

LEMMA AccountsHold == Spec => [](FoundOK /\ Accounts)
<1>1. Init => FoundOK /\ Accounts
  BY AccountsInit DEF Init, FoundOK
<1>2. FoundOK /\ Accounts /\ [Next]_vars => (FoundOK /\ Accounts)'
  BY FoundStep, AccountsStep
<1> QED BY <1>1, <1>2, PTL DEF Spec

(* Over all batches the counters of the filter add up, and no finding is   *)
(* lost to a call of the model that failed.                                *)
THEOREM FilterAccountsHolds == Spec => []FilterAccounts
<1>1. Accounts => FilterAccounts
  <2> SUFFICES ASSUME Accounts, at = "over"
               PROVE  /\ stats.total = stats.hard + stats.ai + stats.kept
                      /\ stats.failed <= stats.kept
    BY DEF FilterAccounts
  <2>1. open = {} /\ kept = {} /\ Cardinality({}) = 0
    BY FS_EmptySet DEF Accounts
  <2> QED BY <2>1 DEF Accounts
<1> QED BY <1>1, AccountsHold, PTL
----------------------------------------------------------------------------
(* Types. *)

(* Nothing is put in a batch before the files are listed.                  *)
Unbatched == at \in Early \cup {"list"} => left = {}

(* The directory, and how its trees came there.                            *)
PlaceOK ==
  /\ error \in {"none", "tools", "acquire", "save", "empty", "detect", "append"}
  /\ dir \in [temp : BOOLEAN, trees : SUBSET {"head", "ref"}, git : {"none", "shallow", "full"}]
  /\ got \in {"none", "git", "tarball"}

(* The files, the tasks of the programs and what was stored of it all.     *)
FilesOK == listed \in SUBSET Files /\ left \subseteq listed /\ acquired \in BOOLEAN /\ Unbatched
TasksOK ==
  /\ task \in [Tools -> {"off", "running", "done", "raised"}]
  /\ (\E t \in Tools : task[t] = "running") => at = "tools of the repo"
MemoryOK == memory \in SUBSET Findings

LEMMA PlaceStep ==
  ASSUME PlaceOK, [Next]_vars
  PROVE  PlaceOK'
<1> USE DEF PlaceOK, Goto, Raise, source, tree, scan, batch
<1>1. CASE CheckTools
  BY <1>1 DEF CheckTools
<1>a. ASSUME NEW trees \in SUBSET {"head", "ref"}, NEW git \in {"none", "shallow", "full"},
             NEW how \in {"none", "git", "tarball"}, Holds(trees, git, how),
             error' \in {error, "acquire"}
      PROVE  PlaceOK'
  BY <1>a DEF Holds
<1>2. CASE CloneRef
  <2>1. \/ Holds({"ref"}, "shallow", "git")
        \/ Holds({}, "none", "none")
    BY <1>2 DEF CloneRef
  <2>2. error' = error
    BY <1>2 DEF CloneRef
  <2> QED BY <1>a, <2>1, <2>2
<1>3. CASE CloneDefault
  <2> DEFINE git == IF input.ref = "commit" THEN "full" ELSE "shallow"
  <2>1. \/ Holds({"ref"}, git, "git")
        \/ Holds({"head"}, git, "none")
        \/ Holds({}, "none", "none")
    BY <1>3 DEF CloneDefault
  <2>2. error' = error
    BY <1>3 DEF CloneDefault
  <2>3. git \in {"none", "shallow", "full"}
    OBVIOUS
  <2> HIDE DEF git
  <2> QED BY <1>a, <2>1, <2>2, <2>3
<1>4. CASE DownloadTarball
  <2>1. CASE Holds(dir.trees \cup {"ref"}, dir.git, "tarball") /\ error' = error
    <3>1. dir.trees \cup {"ref"} \in SUBSET {"head", "ref"} /\ dir.git \in {"none", "shallow", "full"}
      OBVIOUS
    <3> QED BY <1>a, <2>1, <3>1
  <2>2. CASE dir' = NoDir /\ got' = got /\ error' = "acquire"
    BY <2>2 DEF NoDir
  <2> QED BY <1>4, <2>1, <2>2 DEF DownloadTarball
<1>5. CASE ListFiles \/ SaveFileList \/ Detect
  BY <1>5 DEF ListFiles, SaveFileList, Detect
<1>6. CASE Program
  <2>1. UNCHANGED <<error, dir, got>>
    BY <1>6 DEF Program, Semgrep, Bandit, Gosec, ESLint, Checkov, Gitleaks, GitleaksLog, Syft, Grype, Trivy,
                PipAudit, NpmAudit, Run, Return, RaiseIn, Unmoved
  <2> QED BY <2>1
<1>7. CASE StartTools \/ Gather
  BY <1>7 DEF StartTools, Gather
<1>8. CASE AnalyzeBatch \/ Score \/ StoreBatch
  <2>1. UNCHANGED <<error, dir, got>>
    BY <1>8 DEF AnalyzeBatch, Score, StoreBatch
  <2> QED BY <2>1
<1>9. CASE Cleanup
  BY <1>9 DEF Cleanup, NoDir
<1>10. CASE UNCHANGED vars
  BY <1>10 DEF vars
<1> QED BY <1>1, <1>2, <1>3, <1>4, <1>5, <1>6, <1>7, <1>8, <1>9, <1>10 DEF Next

LEMMA FilesStep ==
  ASSUME FilesOK, [Next]_vars
  PROVE  FilesOK'
<1> USE DEF FilesOK, Unbatched, Early, Goto, Raise, source, tree, scan, batch
<1>1. CASE CheckTools \/ CloneRef \/ CloneDefault \/ DownloadTarball
  <2>1. UNCHANGED <<listed, left, acquired>> /\ at \in Early
    BY <1>1 DEF CheckTools, CloneRef, CloneDefault, DownloadTarball
  <2> QED BY <2>1
<1>2. CASE ListFiles
  <2>1. /\ at = "list" /\ at' = "save" /\ left' = left /\ acquired' = acquired
        /\ \E fs \in SUBSET Files : \E s \in Cut(fs) : listed' \subseteq s
    <3>1. Filtered(Walked) \in SUBSET Files /\ Filtered({x \in Files : x.name \in input.names}) \in SUBSET Files
      BY DEF Filtered, Walked, OnDisk
    <3>2. \A fs : Changed(fs) \subseteq fs
      BY DEF Changed
    <3> QED BY <1>2, <3>1, <3>2 DEF ListFiles
  <2>2. listed' \in SUBSET Files
    BY <2>1, CutOf
  <2> QED BY <2>1, <2>2
<1>3. CASE SaveFileList \/ Detect \/ StartTools
  BY <1>3 DEF SaveFileList, Detect, StartTools
<1>4. CASE Program
  <2>1. UNCHANGED <<at, listed, left, acquired>>
    BY <1>4 DEF Program, Semgrep, Bandit, Gosec, ESLint, Checkov, Gitleaks, GitleaksLog, Syft, Grype, Trivy,
                PipAudit, NpmAudit, Run, Return, RaiseIn, Unmoved
  <2> QED BY <2>1
<1>5. CASE Gather
  BY <1>5 DEF Gather
<1>6. CASE AnalyzeBatch
  <2>1. left' \subseteq left /\ UNCHANGED <<listed, acquired>> /\ at' = "score"
    BY <1>6 DEF AnalyzeBatch
  <2> QED BY <2>1
<1>7. CASE Score \/ StoreBatch \/ Cleanup
  <2>1. UNCHANGED <<left, listed, acquired>> /\ at' \notin Early \cup {"list"}
    BY <1>7 DEF Score, StoreBatch, Cleanup
  <2> QED BY <2>1
<1>8. CASE UNCHANGED vars
  BY <1>8 DEF vars
<1> QED BY <1>1, <1>2, <1>3, <1>4, <1>5, <1>6, <1>7, <1>8 DEF Next

(* A program that returns or raises is one that ran.                       *)
LEMMA TasksProgram ==
  ASSUME TasksOK, Program
  PROVE  TasksOK'
<1> USE DEF Tools, SastTools, SecretTools, SbomTools
<1>1. at = "tools of the repo" /\ at' = at
  BY DEF Program, Semgrep, Bandit, Gosec, ESLint, Checkov, Gitleaks, GitleaksLog, Syft, Grype, Trivy,
         PipAudit, NpmAudit, Run, Return, RaiseIn, Unmoved, Running
<1>2. ASSUME NEW t \in Tools, NEW S, NEW next, Return(t, S, next) PROVE TasksOK'
  BY <1>1, <1>2 DEF Return, TasksOK
<1>3. ASSUME NEW t \in Tools, task' = [task EXCEPT ![t] = "raised"] PROVE TasksOK'
  BY <1>1, <1>3 DEF TasksOK
<1>4. ASSUME NEW t \in Tools, NEW program, NEW S, NEW next, Run(t, program, S, next) PROVE TasksOK'
  BY <1>2, <1>3, <1>4 DEF Run, RaiseIn
<1>5. CASE Semgrep \/ Bandit \/ Gosec \/ ESLint \/ Checkov
  BY <1>4, <1>5 DEF Semgrep, Bandit, Gosec, ESLint, Checkov
<1>6. CASE Gitleaks \/ GitleaksLog \/ Trivy \/ NpmAudit
  BY <1>4, <1>6 DEF Gitleaks, GitleaksLog, Trivy, NpmAudit
<1>7. CASE Syft \/ Grype \/ PipAudit
  BY <1>2, <1>3, <1>7 DEF Syft, Grype, PipAudit, RaiseIn
<1> QED BY <1>5, <1>6, <1>7 DEF Program

LEMMA TasksStep ==
  ASSUME TasksOK, [Next]_vars
  PROVE  TasksOK'
<1> USE DEF TasksOK, source, tree, scan, tools, batch
<1>1. ASSUME task' = task, at # "tools of the repo" \/ at' = at PROVE TasksOK'
  BY <1>1
<1>2. CASE Program
  BY <1>2, TasksProgram
<1>3. CASE StartTools
  BY <1>3 DEF StartTools, Goto
<1>4. CASE Gather
  <2>1. task' = task /\ \A t \in Tools : task[t] # "running"
    BY <1>4 DEF Gather
  <2> QED BY <2>1
<1>5. CASE CheckTools \/ CloneRef \/ CloneDefault \/ DownloadTarball \/ ListFiles
  <2>1. task' = task /\ at # "tools of the repo"
    BY <1>5 DEF CheckTools, CloneRef, CloneDefault, DownloadTarball, ListFiles
  <2> QED BY <1>1, <2>1
<1>6. CASE SaveFileList \/ Detect \/ AnalyzeBatch \/ Score \/ StoreBatch \/ Cleanup
  <2>1. task' = task /\ at # "tools of the repo"
    BY <1>6 DEF SaveFileList, Detect, AnalyzeBatch, Score, StoreBatch, Cleanup
  <2> QED BY <1>1, <2>1
<1>7. CASE UNCHANGED vars
  BY <1>7 DEF vars
<1> QED BY <1>2, <1>3, <1>4, <1>5, <1>6, <1>7 DEF Next

(* Only findings are appended to the memory.                               *)
LEMMA MemoryStep ==
  ASSUME MemoryOK, FoundOK, Accounts, [Next]_vars
  PROVE  MemoryOK'
<1> USE DEF MemoryOK, source, tree, scan, tools, batch
<1>1. \A ts \in SUBSET Tools : Returned(ts) \in SUBSET Findings
  BY DEF Returned, FoundOK
<1>2. RepoFound \in SUBSET Findings
  BY <1>1 DEF RepoFound, CodeFound, SecretFound, SbomFound, Deduped, Tools
<1>3. CASE Gather
  BY <1>2, <1>3 DEF Gather
<1>4. CASE AnalyzeBatch
  <2>1. \A b : BatchSecrets(b) \in SUBSET Findings
    BY <1>2 DEF BatchSecrets, Deduped, Patterns, Of, RepoFound
  <2> QED BY <1>4, <2>1 DEF AnalyzeBatch
<1>5. CASE StoreBatch
  BY <1>5 DEF StoreBatch, Accounts
<1>6. CASE CheckTools \/ CloneRef \/ CloneDefault \/ DownloadTarball \/ ListFiles \/ SaveFileList
  <2>1. memory' = memory
    BY <1>6 DEF CheckTools, CloneRef, CloneDefault, DownloadTarball, ListFiles, SaveFileList
  <2> QED BY <2>1
<1>7. CASE Detect \/ StartTools \/ Score \/ Cleanup
  <2>1. memory' = memory
    BY <1>7 DEF Detect, StartTools, Score, Cleanup
  <2> QED BY <2>1
<1>8. CASE Program
  <2>1. memory' = memory
    BY <1>8 DEF Program, Semgrep, Bandit, Gosec, ESLint, Checkov, Gitleaks, GitleaksLog, Syft, Grype, Trivy,
                PipAudit, NpmAudit, Run, Return, RaiseIn, Unmoved
  <2> QED BY <2>1
<1>9. CASE UNCHANGED vars
  BY <1>9 DEF vars
<1> QED BY <1>3, <1>4, <1>5, <1>6, <1>7, <1>8, <1>9 DEF Next

(* Every variable keeps its type, in particular a batch is of listed files *)
(* and no program runs but while the repository's are gathered.            *)
THEOREM ScannersTypeCorrect == Spec => []TypeOK
<1> DEFINE I == PlaceOK /\ FilesOK /\ TasksOK /\ MemoryOK
<1>1. Init => I
  <2> SUFFICES ASSUME Init PROVE I
    OBVIOUS
  <2>1. PlaceOK
    BY ScannersAssumption DEF Init, NoDir, PlaceOK
  <2>2. FilesOK /\ TasksOK /\ MemoryOK
    BY DEF Init, FilesOK, Unbatched, TasksOK, MemoryOK
  <2> QED BY <2>1, <2>2
<1>2. I /\ FoundOK /\ Accounts /\ [Next]_vars => I'
  BY PlaceStep, FilesStep, TasksStep, MemoryStep
<1>3. I /\ FoundOK /\ Accounts => TypeOK
  BY DEF PlaceOK, FilesOK, TasksOK, MemoryOK, FoundOK, Accounts, TypeOK
<1> QED BY <1>1, <1>2, <1>3, AccountsHold, PTL DEF Spec
=============================================================================
