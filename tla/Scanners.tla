------------------------------ MODULE Scanners -------------------------------
(***************************************************************************)
(* The first four tools of a scan and the programs they run: the files are *)
(* acquired (clone, tarball, archive or list), languages and frameworks    *)
(* are detected, the repository is given to the scanners that are          *)
(* installed, and its batches to the analyzers and to the filter.          *)
(*                                                                         *)
(* The order of a list matters only where the list is cut: lists are sets, *)
(* and a cut takes any part of the right size.  A file is in a tree, that  *)
(* of the requested ref or that of the default branch; what a program      *)
(* finds in it is given, and that it may print nothing or make its caller  *)
(* raise.                                                                  *)
(***************************************************************************)
EXTENDS Naturals, FiniteSetsExt

CONSTANTS
  Files,           \* the files of both trees
  Findings,        \* what the programs and the analyzers can find in them
  Inputs,          \* the scans that may be asked for
  Hosts,           \* the programs on the PATH; scanners that may print nothing usable or raise;
                   \* and scr_execution_mode
  Faults,          \* calls of the pipeline that may fail
  UseAI,           \* FindingsFilter.use_ai_filtering
  MaxFiles,        \* SCRAgentInput.max_files
  MaxRead,         \* files read for frameworks: 200
  BatchSize        \* scr_batch_size

SastTools   == {"semgrep", "bandit", "gosec", "eslint", "checkov"}
SecretTools == {"gitleaks", "gitleaksLog"}
SbomTools   == {"syft", "grype", "trivy", "pipAudit", "npmAudit"}
Tools       == SastTools \cup SecretTools \cup SbomTools
Analyzers   == {"dataflow", "heuristics", "patterns"}
Required    == {"gitleaks", "syft", "grype"}

\* The order results are put together in, which decides between two findings at a spot.
Rank == [semgrep |-> 1, bandit |-> 2, gosec |-> 3, eslint |-> 4, checkov |-> 5, heuristics |-> 6,
         dataflow |-> 7, gitleaks |-> 1, gitleaksLog |-> 2, patterns |-> 3,
         syft |-> 1, grype |-> 1, trivy |-> 1, pipAudit |-> 2, npmAudit |-> 3]

ASSUME ScannersAssumption ==
  /\ IsFiniteSet(Files) /\ IsFiniteSet(Findings)
  /\ \A f \in Findings : f.tool \in Tools \cup Analyzers
  /\ \A f, g \in Findings : f.tool = g.tool /\ f.file = g.file /\ f.spot = g.spot => f = g
  /\ \A h \in Hosts : h.flaky \subseteq Tools \cup Analyzers /\ h.mode \in {"skill", "hybrid", "local"}
  /\ \A i \in Inputs : i.kind = "archive" =>
       i.trees \subseteq {"head", "ref"} /\ i.git \in {"none", "shallow", "full"}
  /\ MaxFiles \in Nat \ {0} /\ MaxRead \in Nat \ {0} /\ BatchSize \in Nat \ {0}
  /\ UseAI \in BOOLEAN

VARIABLES
  at, error,     \* the next step, and what raised
  input, host,   \* the scan, and where it runs
  dir,           \* the directory scanned: is it temporary, which trees and which git are in it
  got,           \* how the trees came there
  listed,        \* the files of the scan
  acquired,      \* is ctx.acquisition set?
  detected,      \* languages and frameworks
  task, found,   \* the repository scanners and what they returned
  memory,        \* the findings appended to personal memory
  left,          \* files in no batch yet
  open,          \* code findings of the batch that the model has not scored
  kept,          \* and those the filter lets through
  stats          \* FilterStats of the scan

source == <<input, host>>
tree   == <<dir, got>>
scan   == <<listed, acquired, detected>>
tools  == <<task, found>>
batch  == <<left, open, kept, stats>>
vars   == <<at, error, source, tree, scan, tools, memory, batch>>

NoDir   == [temp |-> FALSE, trees |-> {}, git |-> "none"]
NoStats == [total |-> 0, hard |-> 0, ai |-> 0, kept |-> 0, failed |-> 0]

Init ==
  /\ at = "tools" /\ error = "none"
  /\ input \in Inputs /\ host \in Hosts
  /\ dir = IF input.kind = "archive" THEN [NoDir EXCEPT !.trees = input.trees, !.git = input.git] ELSE NoDir
  /\ got = "none"
  /\ listed = {} /\ acquired = FALSE
  /\ detected = [languages |-> {}, frameworks |-> {}]
  /\ task = [t \in Tools |-> "off"] /\ found = [t \in Tools |-> {}]
  /\ memory = {} /\ left = {} /\ open = {} /\ kept = {} /\ stats = NoStats

Goto(p)  == at' = p /\ error' = error
Raise(e) == at' = "cleanup" /\ error' = e

----------------------------------------------------------------------------
(* Acquisition. *)

\* "if len(files) >= max_files" and files[: max_files]: any part, when there are more.
Cut(fs) == IF Cardinality(fs) <= MaxFiles THEN {fs} ELSE kSubset(MaxFiles, fs)

OnDisk   == {x \in Files : x.tree \in dir.trees}
Walked   == {x \in OnDisk : x.scannable /\ x.fits}
Filtered(fs) == {x \in fs : x.wanted}

CheckTools ==
  /\ at = "tools"
  /\ IF input.strict /\ Required \ host.programs # {}
       THEN Raise("tools")
       ELSE Goto(IF input.kind = "repo" THEN "clone" ELSE "list")
  /\ UNCHANGED <<source, tree, scan, tools, memory, batch>>

\* the directory of mkdtemp
Holds(trees, git, how) == dir' = [temp |-> TRUE, trees |-> trees, git |-> git] /\ got' = how

\* clone --branch; of a commit a shallow clone, a fetch and a checkout.  What is left of
\* a failure is removed, by git or by _clone_commit.
CloneRef ==
  /\ at = "clone"
  /\ \/ input.ref # "other" /\ Holds({"ref"}, "shallow", "git") /\ Goto("list")
     \/ /\ input.ref = "other" \/ "clone" \in Faults
        /\ Holds({}, "none", "none")
        /\ Goto("again")
  /\ UNCHANGED <<source, scan, tools, memory, batch>>

\* mutant: the checkout is not looked at
CloneDefaultUnchecked ==
  /\ at = "again"
  /\ Holds({"head"}, "shallow", "git") /\ Goto("list")
  /\ UNCHANGED <<source, scan, tools, memory, batch>>

\* The default branch, whole for a commit, and a checkout of the ref in it.
CloneDefault ==
  /\ at = "again"
  /\ LET git == IF input.ref = "commit" THEN "full" ELSE "shallow"
     IN  \/ Holds({"ref"}, git, "git") /\ Goto("list")
         \/ Holds({"head"}, git, "none") /\ Goto("tarball")      \* the checkout fails
         \/ "clone" \in Faults /\ Holds({}, "none", "none") /\ Goto("tarball")
  /\ UNCHANGED <<source, scan, tools, memory, batch>>

\* The fallback of _materialize_repo, into the same directory.
DownloadTarball ==
  /\ at = "tarball"
  /\ \/ Holds(dir.trees \cup {"ref"}, dir.git, "tarball") /\ Goto("list")
     \/ "tarball" \in Faults /\ dir' = NoDir /\ UNCHANGED got /\ Raise("acquire")
  /\ UNCHANGED <<source, scan, tools, memory, batch>>

\* git diff needs both refs; [] stands for a failure as well.
GitDiff == IF dir.git = "full" THEN {x \in Files : x.changed} ELSE {}

\* mutant: a diff that cannot be had is taken for one without changes
ChangedOnly(fs) == fs \cap GitDiff

Changed(fs) == IF GitDiff = {} THEN fs ELSE fs \cap GitDiff

\* AcquisitionStage.run for the list of the caller, its archive, or the repository.
ListFiles ==
  /\ at = "list"
  /\ \/ /\ input.kind = "paths"
        /\ listed' \in Cut(Filtered({x \in Files : x.name \in input.names}))
     \/ /\ input.kind = "archive"
        /\ listed' \in Cut(Filtered(Walked))
     \/ /\ input.kind = "repo"
        /\ \E fs \in Cut(Filtered(Walked)) :
             listed' = IF input.incremental THEN Changed(fs) ELSE fs
  /\ Goto("save")
  /\ UNCHANGED <<source, tree, acquired, detected, tools, memory, batch>>

\* save_file_list comes before the result, and so its cleanup, is returned.
SaveFileList ==
  /\ at = "save"
  /\ \/ "save" \in Faults /\ Raise("save") /\ UNCHANGED acquired
     \/ /\ acquired' = TRUE
        /\ IF input.kind = "repo" /\ listed = {} THEN Raise("empty") ELSE Goto("detect")
  /\ UNCHANGED <<source, tree, listed, detected, tools, memory, batch>>

----------------------------------------------------------------------------
(* Detection. *)

Readable == input.kind # "paths"       \* a path is read below the archive

\* A tarball is unpacked into a directory of its own, the root unless a clone was left there.
Topmost(x) == dir.trees = {"head", "ref"} => x.tree = "head"
AtRoot(m)  == \E x \in OnDisk : x.manifest = m /\ Topmost(x)

\* The first MaxRead of the list and, after it, of the manifests, Dockerfiles, *.tf and *.yaml.
ReadForFrameworks ==
  LET more == {x \in OnDisk : x.manifest = "config" \/ (x.manifest # "no" /\ Topmost(x))} \ listed
  IN  IF Cardinality(listed) >= MaxRead
        THEN kSubset(MaxRead, listed)
        ELSE LET room == MaxRead - Cardinality(listed)
             IN  {listed \cup s : s \in IF Cardinality(more) <= room THEN {more} ELSE kSubset(room, more)}

Languages(fs) == {x.language : x \in fs} \ {"unknown"}

Detect ==
  /\ at = "detect"
  /\ \/ "detect" \in Faults /\ Raise("detect") /\ UNCHANGED detected
     \/ /\ \E read \in ReadForFrameworks :
             LET fw == IF Readable THEN UNION {x.marks : x \in read} ELSE {}
             IN  detected' = [languages  |-> Languages(listed) \cup (fw \cap {"docker", "kubernetes"}),
                              frameworks |-> fw]
        /\ Goto("repo")
  /\ UNCHANGED <<source, tree, listed, acquired, tools, memory, batch>>

SemgrepConfigs ==
  {"default"} \cup detected.languages
  \cup (detected.frameworks \cap {"django", "terraform", "docker", "kubernetes"})
  \cup (IF detected.frameworks \cap {"express", "nestjs"} # {} THEN {"nodejs"} ELSE {})

----------------------------------------------------------------------------
(* The programs.  Each is run once on the directory, those of a label one  *)
(* after the other except SAST's, whose five run at once.                  *)

Wanted ==
  LET languages == detected.languages
      all == languages \cup detected.frameworks
  IN  {"semgrep", "gitleaks", "syft"}
      \cup (IF "python" \in languages THEN {"bandit"} ELSE {})
      \cup (IF "go" \in languages THEN {"gosec"} ELSE {})
      \cup (IF languages \cap {"javascript", "typescript"} # {} \/ "express" \in detected.frameworks
              THEN {"eslint"} ELSE {})
      \cup (IF all \cap {"terraform", "docker", "kubernetes"} # {} THEN {"checkov"} ELSE {})

\* process_repo: nothing without a directory
StartTools ==
  /\ at = "repo"
  /\ task' = [t \in Tools |-> IF Readable /\ t \in Wanted THEN "running" ELSE "off"]
  /\ Goto("tools of the repo")
  /\ UNCHANGED <<source, tree, scan, found, memory, batch>>

Running(t) == at = "tools of the repo" /\ task[t] = "running"
Unmoved    == UNCHANGED <<at, error, source, tree, scan, memory, batch>>

Return(t, S, next) ==
  /\ found' = [found EXCEPT ![t] = S]
  /\ task' = [u \in Tools |-> IF u = t THEN "done" ELSE IF u \in next THEN "running" ELSE task[u]]
  /\ Unmoved

RaiseIn(t) ==
  /\ t \in host.flaky
  /\ task' = [task EXCEPT ![t] = "raised"]
  /\ Unmoved /\ UNCHANGED found

\* What t finds in the trees: a finding is of one tool and one file.
In(trees, t) == {f \in Findings : f.tool = t /\ \E x \in Files : x.name = f.file /\ x.tree \in trees}
InTree(t)    == In(dir.trees, t)

\* A program that is not installed, one that times out and one whose output does
\* not parse all return nothing; the exit code does not matter.
Run(t, program, S, next) ==
  /\ Running(t)
  /\ \/ Return(t, IF program \in host.programs THEN S ELSE {}, next)
     \/ t \in host.flaky /\ Return(t, {}, next)
     \/ RaiseIn(t)

Semgrep == Run("semgrep", "semgrep", {f \in InTree("semgrep") : f.rules \in SemgrepConfigs}, {})
Bandit  == Run("bandit", "bandit", InTree("bandit"), {})
Gosec   == Run("gosec", "gosec", InTree("gosec"), {})
\* warnings are left out unless their rule is one of security
ESLint  == Run("eslint", "npx", IF AtRoot("package.json")
                                  THEN {f \in InTree("eslint") : f.rules = "security" \/ f.score >= 2}
                                  ELSE {}, {})
Checkov == Run("checkov", "checkov", InTree("checkov"), {})

\* The second pass, over the history, needs a .git; it sees every tree.
Gitleaks    == Run("gitleaks", "gitleaks", InTree("gitleaks"),
                   IF dir.git # "none" /\ "gitleaks" \in host.programs THEN {"gitleaksLog"} ELSE {})
GitleaksLog == Run("gitleaksLog", "gitleaks", In({"ref", "head"}, "gitleaksLog"), {})

Manifests   == {f \in InTree("syft") : f.rules = "manifest"}
\* run_syft_sbom falls back to the manifests, and run_grype_vulnerabilities follows.
Syft ==
  /\ Running("syft")
  /\ \/ "syft" \in host.programs /\ InTree("syft") # {} /\ Return("syft", InTree("syft"), {"grype"})
     \/ /\ "syft" \notin host.programs \/ "syft" \in host.flaky \/ InTree("syft") = {}
        /\ Return("syft", Manifests, {"grype"})
     \/ RaiseIn("syft")

\* _severity_to_cvss stands in for a score that is missing (0).
Cvss(f)      == IF f.score > 0 THEN f.score
                ELSE CASE f.rules = "CRITICAL" -> 9 [] f.rules = "HIGH" -> 8 [] OTHER -> 5
HighCvss(fs) == {f \in fs : Cvss(f) >= 7}

\* Parsed output is returned, findings or none; without it trivy and the audits run.
Grype ==
  /\ Running("grype")
  /\ \/ "grype" \in host.programs /\ Return("grype", HighCvss(InTree("grype")), {})
     \/ ("grype" \notin host.programs \/ "grype" \in host.flaky) /\ Return("grype", {}, {"trivy"})
     \/ RaiseIn("grype")

Trivy == Run("trivy", "trivy", HighCvss(InTree("trivy")), {"pipAudit"})

Audited == IF AtRoot("requirements.txt") /\ "pip-audit" \in host.programs THEN InTree("pipAudit") ELSE {}

\* _osv_enrich takes the CVSS_V3 vector of an advisory for a number, which raises;
\* an OSV that does not answer leaves the score at 7.5.
Vectors == {f \in Audited : f.rules = "vector" /\ "osv" \notin Faults}
PipAudit ==
  /\ Running("pipAudit")
  /\ \/ Vectors = {} /\ Return("pipAudit", Audited, {"npmAudit"})
     \/ "pipAudit" \in host.flaky /\ Return("pipAudit", {}, {"npmAudit"})
     \/ /\ Vectors # {}
        /\ task' = [task EXCEPT !["pipAudit"] = "raised"]
        /\ Unmoved /\ UNCHANGED found

NpmAudit == Run("npmAudit", "npm", IF AtRoot("package.json") THEN HighCvss(InTree("npmAudit")) ELSE {}, {})

Program == \/ Semgrep \/ Bandit \/ Gosec \/ ESLint \/ Checkov \/ Gitleaks \/ GitleaksLog
           \/ Syft \/ Grype \/ Trivy \/ PipAudit \/ NpmAudit

----------------------------------------------------------------------------
(* The results. *)

SameSpot(f, g) == f.file = g.file /\ f.spot = g.spot
Deduped(fs)    == {f \in fs : ~ \E g \in fs : SameSpot(f, g) /\ Rank[g.tool] < Rank[f.tool]}

Raised(ts)     == \E t \in ts : task[t] = "raised"
Returned(ts)   == UNION {found[t] : t \in ts}

SpareSecret(f) == \E x \in Files : x.name = f.file /\ x.test   \* is_excluded_secret_path

\* mutant: gather without return_exceptions
CodeFoundIfAll == IF Raised(SastTools) THEN {} ELSE Deduped(Returned(SastTools))

\* A SAST program that raises is left out; in the other labels all is lost.
CodeFound   == Deduped(Returned(SastTools))
SecretFound == IF Raised(SecretTools) THEN {}
               ELSE {f \in Deduped(Returned(SecretTools)) : ~SpareSecret(f)}
SbomFound   == IF Raised(SbomTools) THEN {} ELSE Returned(SbomTools)
RepoFound   == CodeFound \cup SecretFound \cup SbomFound

Gather ==
  /\ at = "tools of the repo"
  /\ \A t \in Tools : task[t] # "running"
  /\ \/ "append" \in Faults /\ Raise("append") /\ UNCHANGED memory
     \/ memory' = memory \cup RepoFound /\ Goto("batch")
  /\ left' = listed
  /\ UNCHANGED <<source, tree, scan, tools, open, kept, stats>>

----------------------------------------------------------------------------
(* The batches. *)

Names(fs) == {x.name : x \in fs}
Of(t, fs) == {f \in Findings : f.tool = t /\ f.file \in Names(fs)}

\* _sort_by_priority, cut in batches
Batches ==
  {b \in kSubset(IF Cardinality(left) < BatchSize THEN Cardinality(left) ELSE BatchSize, left) :
     \A x \in b, y \in left \ b : x.weight >= y.weight}

\* A file without content has only the hints of its path, and a stub for the data flow.
Heuristics(b) == {f \in Of("heuristics", b) : Readable \/ f.rules = "path"}
Dataflow(b)   == {f \in Of("dataflow", b) : Readable \/ f.rules = "path"}
Patterns(b)   == {f \in Of("patterns", b) : (Readable \/ f.rules = "path") /\ ~SpareSecret(f)}

\* Each of the three raises alone; SAST's also carries what the programs found in the batch.
BatchSast(b)    == Deduped({f \in CodeFound : f.file \in Names(b) /\ f.placed} \cup Heuristics(b))
BatchSecrets(b) == Deduped(Patterns(b)) \cup {f \in SecretFound : f.file \in Names(b)}
BatchCode(b, lost) ==
  (IF "dataflow" \in lost THEN {} ELSE Dataflow(b)) \cup (IF "heuristics" \in lost THEN {} ELSE BatchSast(b))

HardExcluded(fs) == {f \in fs : f.noise}

AnalyzeBatch ==
  /\ at = "batch"
  /\ \E b \in Batches, lost \in SUBSET (host.flaky \cap Analyzers) :
       LET code == BatchCode(b, lost)
       IN  /\ left' = left \ b
           /\ open' = code \ HardExcluded(code)
           /\ memory' = memory \cup (IF "patterns" \in lost THEN {} ELSE BatchSecrets(b))
           /\ stats' = [stats EXCEPT !.total = @ + Cardinality(code),
                                     !.hard  = @ + Cardinality(HardExcluded(code))]
  /\ kept' = {}
  /\ Goto("score")
  /\ UNCHANGED <<source, tree, scan, tools>>

\* mutant: a finding whose scoring failed is counted and dropped
PassUnlessFailed(f, failed) ==
  kept' = (IF failed = 1 THEN kept ELSE kept \cup {f}) /\ stats' = [stats EXCEPT !.failed = @ + failed]
Pass(f, failed) == kept' = kept \cup {f} /\ stats' = [stats EXCEPT !.failed = @ + failed]
Drop(f)         == kept' = kept /\ stats' = [stats EXCEPT !.ai = @ + 1]

\* score_one: an unavailable provider keeps the finding, and so does any exception.
Score ==
  /\ at = "score" /\ UseAI
  /\ \E f \in open :
       /\ open' = open \ {f}
       /\ Pass(f, 0) \/ Drop(f) \/ Pass(f, 1)
  /\ UNCHANGED <<at, error, source, tree, scan, tools, memory, left>>

StoreBatch ==
  /\ at = "score"
  /\ UseAI => open = {}
  /\ LET through == kept \cup open
     IN  /\ memory' = memory \cup through
         /\ stats' = [stats EXCEPT !.kept = @ + Cardinality(through)]
  /\ open' = {} /\ kept' = {}
  /\ Goto(IF left = {} THEN "cleanup" ELSE "batch")
  /\ UNCHANGED <<source, tree, scan, tools, left>>

\* mutant: the cleanup is the last call of the sequence
CleanupOnSuccess ==
  /\ at = "cleanup"
  /\ Goto("over")
  /\ dir' = IF error = "none" /\ host.mode # "local" /\ dir.temp THEN NoDir ELSE dir
  /\ UNCHANGED <<source, got, scan, tools, memory, batch>>

\* The finally of SCRSkillExecutor.run, which mode "local" does without: SCRRunner.run
\* then awaits the sequence itself.  acquire_repo_files cleans up after its own failure.
Cleanup ==
  /\ at = "cleanup"
  /\ Goto("over")
  /\ dir' = IF acquired /\ host.mode # "local" /\ dir.temp THEN NoDir ELSE dir
  /\ UNCHANGED <<source, got, scan, tools, memory, batch>>

Next == \/ CheckTools \/ CloneRef \/ CloneDefault \/ DownloadTarball \/ ListFiles \/ SaveFileList
        \/ Detect \/ StartTools \/ Program \/ Gather \/ AnalyzeBatch \/ Score \/ StoreBatch \/ Cleanup

Spec == Init /\ [][Next]_vars

----------------------------------------------------------------------------
(* Properties. *)

(* The variables have their types; tools run only while they are gathered. *)
TypeOK ==
  /\ error \in {"none", "tools", "acquire", "save", "empty", "detect", "append"}
  /\ dir \in [temp : BOOLEAN, trees : SUBSET {"head", "ref"}, git : {"none", "shallow", "full"}]
  /\ got \in {"none", "git", "tarball"}
  /\ listed \in SUBSET Files /\ left \subseteq listed /\ acquired \in BOOLEAN
  /\ task \in [Tools -> {"off", "running", "done", "raised"}]
  /\ found \in [Tools -> SUBSET Findings]
  /\ memory \in SUBSET Findings /\ open \in SUBSET Findings /\ kept \in SUBSET Findings
  /\ stats \in [{"total", "hard", "ai", "kept", "failed"} -> Nat]
  /\ (\E t \in Tools : task[t] = "running") => at = "tools of the repo"

(* A repository scan that goes on has the requested ref before it, and     *)
(* lists a file of the default branch only when the tarball of the ref was *)
(* unpacked over a clone whose checkout had failed (_materialize_repo      *)
(* downloads into the directory git left behind).                          *)
ScansTheRef ==
  input.kind = "repo" /\ error = "none" /\ at \notin {"tools", "clone", "again", "tarball", "over"} =>
    /\ "ref" \in dir.trees
    /\ (\E x \in listed : x.tree = "head") => got = "tarball" /\ dir.git # "none"

(* An incremental scan lists every changed file the patterns admit, unless *)
(* there were more files than the walk takes: when the history is not      *)
(* there to compare, all files are scanned (git_diff_changed_files).       *)
ChangedScanned ==
  input.kind = "repo" /\ input.incremental /\ at \in {"save", "detect", "repo"} =>
    \/ {x \in Filtered(Walked) : x.changed} \subseteq listed
    \/ Cardinality(Filtered(Walked)) > MaxFiles

(* When a scan through the skill executor is over its temporary directory  *)
(* is gone, whatever raised, but for a list of files that could not be     *)
(* saved: then the result that holds the cleanup was never returned.  In   *)
(* mode "local" nobody calls the cleanup and the directory of a clone      *)
(* stays; one whose download failed is gone there too.  A given archive is *)
(* left alone in every mode.                                               *)
TempGone ==
  at = "over" => /\ dir.temp => error = "save" \/ (host.mode = "local" /\ acquired)
                 /\ input.kind = "archive" => dir.trees = input.trees

(* A program that fails costs its own findings, of SAST, or those of its   *)
(* label: everything else a program returned is in memory, or a finding of *)
(* the same spot is; secrets of test files are spared.                     *)
FindingsKept ==
  at = "over" /\ error = "none" =>
    \A t \in Tools : \A f \in found[t] :
      \/ t \in SecretTools /\ (Raised(SecretTools) \/ SpareSecret(f))
      \/ t \in SbomTools /\ Raised(SbomTools)
      \/ \E g \in memory : SameSpot(f, g)

(* Every code finding of a batch is counted once over all batches, as      *)
(* excluded by a rule, rejected by the model, or kept; one whose scoring   *)
(* failed is among the kept.                                               *)
FilterAccounts ==
  at = "over" /\ error = "none" =>
    /\ stats.total = stats.hard + stats.ai + stats.kept
    /\ stats.failed <= stats.kept
=============================================================================
