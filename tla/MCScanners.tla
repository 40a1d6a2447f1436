----------------------------- MODULE MCScanners ------------------------------
EXTENDS Scanners

File(name, language, manifest, marks) ==
  [name |-> name, tree |-> "ref", language |-> language, manifest |-> manifest, marks |-> marks,
   scannable |-> TRUE, fits |-> TRUE, wanted |-> TRUE, changed |-> FALSE, test |-> FALSE, weight |-> 0]

MCFiles ==
  {[File("pay.py", "python", "no", {"django"}) EXCEPT !.weight = 60, !.changed = TRUE],
   File("main.go", "go", "no", {}),
   File("main.tf", "terraform", "config", {"terraform"}),
   [File("package.json", "unknown", "package.json", {"express"}) EXCEPT !.test = TRUE],
   [File("requirements.txt", "unknown", "requirements.txt", {}) EXCEPT !.scannable = FALSE],
   [File("old.py", "python", "no", {}) EXCEPT !.tree = "head", !.changed = TRUE]}

Found(tool, file, spot, rules, score) ==
  [tool |-> tool, file |-> file, spot |-> spot, rules |-> rules, score |-> score,
   placed |-> tool # "checkov", noise |-> FALSE]

MCFindings ==
  {Found("semgrep", "pay.py", 1, "python", 0), Found("bandit", "pay.py", 1, "any", 0),
   Found("gosec", "main.go", 1, "any", 0), Found("eslint", "package.json", 1, "security", 1),
   Found("checkov", "main.tf", 1, "any", 0),
   Found("gitleaks", "pay.py", 9, "any", 0), Found("gitleaksLog", "pay.py", 9, "any", 0),
   Found("gitleaksLog", "package.json", 9, "any", 0),
   Found("syft", "requirements.txt", 20, "manifest", 0), Found("syft", "requirements.txt", 21, "any", 0),
   Found("grype", "requirements.txt", 30, "HIGH", 0), Found("trivy", "requirements.txt", 30, "MEDIUM", 7),
   Found("pipAudit", "requirements.txt", 31, "vector", 0), Found("npmAudit", "package.json", 32, "LOW", 0),
   [Found("heuristics", "pay.py", 1, "any", 0) EXCEPT !.noise = TRUE],
   [Found("heuristics", "main.go", 2, "path", 0) EXCEPT !.noise = TRUE],
   Found("dataflow", "pay.py", 3, "any", 0), Found("patterns", "pay.py", 9, "path", 0)}

Scan(kind, ref, incremental, trees, names) ==
  [kind |-> kind, ref |-> ref, incremental |-> incremental, trees |-> trees, git |-> "none",
   names |-> names, strict |-> TRUE]

MCInputs ==
  {Scan("repo", r, i, {}, {}) : r \in {"branch", "commit", "other"}, i \in BOOLEAN}
  \cup {Scan("archive", "branch", FALSE, t, {}) : t \in {{"ref"}, {}}}
  \cup {Scan("paths", "branch", FALSE, {}, {"pay.py", "main.go"})}

MCHosts ==
  LET all == {"semgrep", "bandit", "gosec", "npx", "checkov", "gitleaks", "syft", "grype", "trivy",
              "pip-audit", "npm"}
  IN  {[programs |-> all, flaky |-> f, mode |-> "skill"] :
         f \in {{"bandit", "gitleaks"}, {"syft", "grype", "pipAudit"}, {"grype", "heuristics"}}}
      \cup {[programs |-> p, flaky |-> {}, mode |-> m] :
              p \in {{"gitleaks", "syft", "grype"}, {"semgrep", "syft", "grype"}},
              m \in {"hybrid", "local"}}
=============================================================================
