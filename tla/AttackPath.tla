------------------------------ MODULE AttackPath -----------------------------
(***************************************************************************)
(* AttackPathService.analyze: sources are read as routes, functions and    *)
(* calls (ASTExtractor), those and the findings of a scan become a graph   *)
(* (AttackPathGraphBuilder), the graph is stored in Neo4j call by call,    *)
(* and its simple paths are scored (AttackPathAnalyzer, STRIDEAnalyzer).   *)
(*                                                                         *)
(* A source is the sequence of its functions: each has at most one route   *)
(* decorator on the line above it and its calls on the lines below it.     *)
(***************************************************************************)
EXTENDS Integers, FiniteSetsExt, SequencesExt

CONSTANTS
  Inputs,          \* what analyze may be given
  AuthFiles, ApiFiles,  \* the files with "auth", with "api" in their names
  Sanitizers,      \* called names that contain one of SANITIZER_NAMES
  SinkTypes,       \* called name -> sink type, SINK_CALL_PATTERNS
  SinkCategories,  \* SINK_CATEGORIES and the categories with "inject"
  MaxDepth, Limit, Shown, MaxChokepoints,  \* 15, 100, 50 and 10
  MaxScans

\* What the code has for a name it lacks.
Empty == ""

\* Any string: STRING alone does not tell a prover that the code's own are among them.
Text == STRING \cup {Empty, "None", "entry", "get", "data", "login", "execute", "fetch", "handler",
                     "get_data", "_scr_context", "_scr_stub"}

\* A decorator is {} or {[on, verb, route]}: "known" objects are app, router, api and bp.
DecoratorType == [on : {"known", "other"}, verb : Text, route : Text \ {Empty}]
FunctionType  == [name : Text, decorator : SUBSET DecoratorType, calls : Seq(Text)]
SourceType    == [parses : BOOLEAN, defs : Seq(FunctionType)]
FindingType   == [file : Text, line : Nat, name : Text, category : Text, snippet : Text]

Readable(in) ==
  /\ in = [kind |-> in.kind, sources |-> in.sources, jewels |-> in.jewels, findings |-> in.findings]
  /\ in.findings \in Seq(FindingType)
  /\ IsFiniteSet(DOMAIN in.sources) /\ DOMAIN in.sources \subseteq Text
  /\ in.sources \in [DOMAIN in.sources -> SourceType]

\* No route is empty, for the patterns and for what stands in for a missing argument, and
\* no name that is taken for a sanitizer's is that of the entry a file is given.
ASSUME AttackPathAssumption ==
  /\ \A in \in Inputs : Readable(in)
  /\ SinkTypes \in [DOMAIN SinkTypes -> Text]
  /\ "entry" \notin Sanitizers
  /\ MaxDepth \in Nat /\ MaxDepth >= 2
  /\ Limit \in Nat /\ MaxChokepoints \in Nat

VARIABLES at, scan, input, nodes, edges, todo, stored, report

vars == <<at, scan, input, nodes, edges, todo, stored, report>>

----------------------------------------------------------------------------
(* Reading a source. *)

DecoratorLine(k) == 4 * k - 3
DefLine(k)       == 4 * k - 2
CallLine(k, i)   == DefLine(k) + i

Entry(source, k, line) ==
  LET d == CHOOSE d \in source.defs[k].decorator : TRUE
  IN  [name |-> source.defs[k].name, line |-> line, route |-> d.route]

TreeEntries(source) ==
  FlattenSeq([k \in 1..Len(source.defs) |->
    IF source.defs[k].decorator # {} THEN <<Entry(source, k, DefLine(k))>> ELSE << >>])

\* A line with a verb matches the first pattern, one with .route both.
LineEntries(source) ==
  FlattenSeq([k \in 1..Len(source.defs) |->
    IF \E d \in source.defs[k].decorator : d.on = "known"
      THEN LET e == Entry(source, k, DecoratorLine(k))
           IN  IF \E d \in source.defs[k].decorator : d.verb = "route" THEN <<e, e>> ELSE <<e>>
      ELSE << >>])

Called(source) ==
  UNION {{[name |-> source.defs[k].calls[i], line |-> CallLine(k, i), caller |-> source.defs[k].name] :
            i \in DOMAIN source.defs[k].calls} : k \in DOMAIN source.defs}

\* The regular expression takes a def line for a call as well.
CalledOrDefined(source) ==
  Called(source) \cup {[name |-> source.defs[k].name, line |-> DefLine(k), caller |-> "None"] :
                         k \in DOMAIN source.defs}

SinksAmong(calls) == {c \in calls : c.name \in DOMAIN SinkTypes}
SanitizersAmong(calls) == {c.name : c \in calls} \cap Sanitizers

\* Python that parses: of two functions of one name the later is kept.
ExtractTree(source) ==
  [entries    |-> TreeEntries(source) \o LineEntries(source),
   functions  |-> {[name |-> source.defs[k].name, line |-> DefLine(k)] :
                     k \in {k \in DOMAIN source.defs :
                              \A m \in DOMAIN source.defs :
                                m > k => source.defs[m].name # source.defs[k].name}},
   first      |-> {source.defs[k].name : k \in DOMAIN source.defs \cap {1}},
   calls      |-> Called(source),
   sanitizers |-> SanitizersAmong(Called(source)),
   sinks      |-> SinksAmong(Called(source))]

ExtractViaRegex(source) ==
  [entries    |-> LineEntries(source),
   functions  |-> {[name |-> source.defs[k].name, line |-> DefLine(k)] : k \in DOMAIN source.defs},
   first      |-> {source.defs[k].name : k \in DOMAIN source.defs \cap {1}},
   calls      |-> {},
   sanitizers |-> SanitizersAmong(CalledOrDefined(source)),
   sinks      |-> SinksAmong(CalledOrDefined(source))]

ExtractFile(source) == IF source.parses THEN ExtractTree(source) ELSE ExtractViaRegex(source)

\* What stands in for a file that was not read: its snippets, or else a stub by its name.
\* A route stub before the wrapped snippets is a function without a body.
Function(name, decorator, calls) == [name |-> name, decorator |-> decorator, calls |-> calls]
Get(route) == {[on |-> "known", verb |-> "get", route |-> route]}

WrapSnippets(f, snippets) ==
  IF f \in ApiFiles
    THEN [parses |-> FALSE, defs |-> <<Function("handler", Get("data"), << >>),
                                       Function("_scr_context", {}, snippets)>>]
    ELSE [parses |-> TRUE, defs |-> <<Function("_scr_context", {}, snippets)>>]

SyntheticStub(f) ==
  [parses |-> TRUE,
   defs   |-> CASE f \in AuthFiles -> <<Function("login", Get("login"), <<"execute">>)>>
                [] f \in ApiFiles \ AuthFiles -> <<Function("get_data", Get("data"), <<"fetch">>)>>
                [] OTHER -> <<Function("_scr_stub", {}, << >>)>>]

BuildSource(in, f) ==
  LET quoted == FlattenSeq([i \in 1..Len(in.findings) |->
                  LET x == in.findings[i]
                  IN  IF x.file = f /\ x.snippet # Empty THEN <<x.snippet>> ELSE << >>])
  IN  IF quoted = << >> THEN SyntheticStub(f) ELSE WrapSnippets(f, quoted)

\* A payload's functions and call edges are dropped.  Without payloads: every finding's file.
FileAsts(in) ==
  IF in.kind = "payload" /\ in.sources # << >>
    THEN [f \in DOMAIN in.sources |->
            [ExtractFile(in.sources[f]) EXCEPT !.functions = {}, !.first = {}, !.calls = {}]]
    ELSE [f \in {in.findings[i].file : i \in DOMAIN in.findings} \cup DOMAIN in.sources |->
            ExtractFile(IF f \in DOMAIN in.sources THEN in.sources[f] ELSE BuildSource(in, f))]

----------------------------------------------------------------------------
(* The graph: nodes in the order they are listed, edges as pairs of ids. *)

NodeId(f, line, name, route) == <<f, line, name, route>>
Node(id, type, f, jewel, auth, sink) ==
  [id |-> id, type |-> type, file |-> f, jewel |-> jewel, auth |-> auth, sink |-> sink]

\* The attributes a node ends up with: those of the last of its id.
Ids(ns) == {ns[i].id : i \in DOMAIN ns}
NodeOf(ns, id) == ns[CHOOSE i \in DOMAIN ns : /\ ns[i].id = id
                                              /\ \A j \in DOMAIN ns : ns[j].id = id => j <= i]
Typed(ns, type) == {id \in Ids(ns) : NodeOf(ns, id).type = type}

FileNodes(f, ast, jewels) ==
  [i \in 1..Len(ast.entries) |->
     LET e == ast.entries[i]
     IN  Node(NodeId(f, e.line, e.name, e.route), "entry", f, f \in jewels, e.route = "login", Empty)]
  \o SetToSeq({Node(NodeId(f, x.line, x.name, Empty), "function", f, f \in jewels, FALSE, Empty) :
                 x \in ast.functions})
  \o SetToSeq({Node(NodeId(f, 0, s, Empty), "sanitizer", f, FALSE, FALSE, Empty) : s \in ast.sanitizers})
  \o SetToSeq({Node(NodeId(f, c.line, c.name, Empty), "sink", f, f \in jewels, FALSE, SinkTypes[c.name]) :
                 c \in ast.sinks})

\* Calls and the sinks' edges are looked up at line 0, where only the sanitizers are.
FileEdges(f, ast, known) ==
  {<<NodeId(f, 0, c.caller, Empty), NodeId(f, 0, c.name, Empty)>> : c \in
     {c \in ast.calls : {NodeId(f, 0, c.caller, Empty), NodeId(f, 0, c.name, Empty)} \subseteq known}}
  \cup {<<NodeId(f, e.line, e.name, e.route), NodeId(f, e.line, e.name, Empty)>> : e \in
     {e \in ToSet(ast.entries) : NodeId(f, e.line, e.name, Empty) \in known}}
  \cup {<<NodeId(f, 0, p[1], Empty), NodeId(f, p[2].line, p[2].name, Empty)>> : p \in
     {p \in ast.first \X ast.sinks : NodeId(f, 0, p[1], Empty) \in known}}

EntriesOf(ns, f) == {i \in DOMAIN ns : ns[i].type = "entry" /\ ns[i].file = f}
LastEntry(ns, f) == ns[Max(EntriesOf(ns, f))].id

FindingId(x) == NodeId(x.file, x.line, x.name, Empty)
IsSink(x) == x.category \in SinkCategories

\* An entry for a file that has none, then the finding's own node unless its id is taken.
WithEntry(ns, x) ==
  IF EntriesOf(ns, x.file) # {} THEN ns
  ELSE Append(ns, Node(NodeId(x.file, 0, "entry", Empty), "entry", x.file, FALSE, x.file \in AuthFiles, Empty))
WithSink(ns, x) ==
  IF FindingId(x) \in Ids(ns) THEN ns
  ELSE Append(ns, Node(FindingId(x), "sink", x.file, x.file \in input.jewels, FALSE, x.category))

\* Mutant of FindingEdges: without the step from the entry to the function.
FindingEdgesFromFunction(ns, x) ==
  LET entry == LastEntry(ns, x.file)
      fn    == NodeId(x.file, 0, x.name, Empty)
  IN  IF x.name # "None" /\ fn \in Ids(ns)
        THEN {<<fn, FindingId(x)>>}
        ELSE {<<entry, FindingId(x)>>}

\* From the file's last entry, through the finding's function when that is known at line 0.
FindingEdges(ns, x) ==
  LET entry == LastEntry(ns, x.file)
      fn    == NodeId(x.file, 0, x.name, Empty)
  IN  IF x.name # "None" /\ fn \in Ids(ns)
        THEN {<<entry, fn>>, <<fn, FindingId(x)>>}
        ELSE {<<entry, FindingId(x)>>}

----------------------------------------------------------------------------
(* The paths and what is said about them. *)

\* Simple paths along es from an entry to a sink, of at most MaxDepth edges.
PathsIn(entries, sinks, es) ==
  LET walks[n \in 0..MaxDepth] ==
        IF n = 0 THEN {<<id>> : id \in entries}
        ELSE UNION {{Append(w, e[2]) : e \in {e \in es : e[1] = Last(w) /\ e[2] \notin ToSet(w)}} :
                      w \in walks[n - 1]}
  IN  {w \in UNION {walks[n] : n \in 1..MaxDepth} : Last(w) \in sinks}
AllPaths == PathsIn(Typed(nodes, "entry"), Typed(nodes, "sink"), edges)

On(p) == {NodeOf(nodes, id) : id \in ToSet(p)}
HasSanitizer(p) == \E n \in On(p) : n.type = "sanitizer"
ReachesJewel(p) == \E n \in On(p) : n.jewel
JewelOf(p) == SelectSeq(p, LAMBDA id : NodeOf(nodes, id).jewel)[1]
SinkOf(p) == NodeOf(nodes, Last(p)).sink

Severe(category) ==
  CASE category \in {"injection", "command_injection", "code_execution", "sql_injection"} -> 10
    [] category = "deserialization" -> 9
    [] category = "path_traversal"  -> 7
    [] category = "ssrf"            -> 6
    [] OTHER                        -> 5

\* Three times the code's score, which divides the length by 15.
Risk(p) ==
  (IF ReachesJewel(p) THEN 120 ELSE 0) + (IF HasSanitizer(p) THEN 0 ELSE 90)
  + (IF Len(p) - 1 < 15 THEN 60 - 4 * (Len(p) - 1) ELSE 0) + 3 * Severe(SinkOf(p))

SinkToStride(category) ==
  CASE category \in {"sql_injection", "injection"} -> {"tampering", "information_disclosure"}
    [] category \in {"command_injection", "deserialization", "code_execution"} ->
         {"elevation_of_privilege", "tampering"}
    [] OTHER -> {}

Stride(p) ==
  SinkToStride(SinkOf(p))
  \cup (IF HasSanitizer(p) THEN {} ELSE {"tampering"})
  \cup (IF ReachesJewel(p) THEN {"information_disclosure", "elevation_of_privilege"} ELSE {})
  \cup (IF \E n \in On(p) : n.type = "entry" /\ n.auth THEN {"spoofing"} ELSE {})

Inner(p) == {p[i] : i \in 2..(Len(p) - 1)}
Through(ps, id) == Cardinality({p \in ps : id \in Inner(p)})

\* Mutant of Chokepoints: counts the ends of a path as well.
ChokepointsOnPath(ps) ==
  {[id |-> id, blocked |-> Cardinality({p \in ps : id \in ToSet(p)}), of |-> Max({1, Cardinality(ps)})] :
     id \in UNION {Inner(p) : p \in ps}}

\* most_common: any MaxChokepoints of the inner nodes that none of the others exceeds.
Chokepoints(ps) ==
  LET inner == UNION {Inner(p) : p \in ps}
      some  == CHOOSE s \in SUBSET inner :
                 /\ Cardinality(s) = Min({MaxChokepoints, Cardinality(inner)})
                 /\ \A a \in s, b \in inner \ s : Through(ps, a) >= Through(ps, b)
  IN  {[id |-> id, blocked |-> Through(ps, id), of |-> Max({1, Cardinality(ps)})] : id \in some}

\* One for every entry that has a path, as a set: the code's list repeats that of an entry
\* listed twice.
Radius(e, ps) ==
  LET reached == {Last(p) : p \in ps}
      jewels  == {JewelOf(p) : p \in {p \in ps : ReachesJewel(p)}}
  IN  [entry |-> e.id, sinks |-> reached, total |-> Cardinality(ps),
       score |-> Min({100, 10 * Cardinality(reached) + 25 * Cardinality(jewels)
                             + 2 * Max({Len(p) - 1 : p \in ps})})]

RadiiBy(of) == {Radius(e, of[e]) : e \in {n \in ToSet(nodes) : n.type = "entry" /\ of[n] # {}}}

\* Mutant of BlastRadii: the paths of the entry's file.
BlastRadiiOfFile(ps) == RadiiBy([e \in ToSet(nodes) |-> {p \in ps : p[1][1] = e.file}])

BlastRadii(ps) == RadiiBy([e \in ToSet(nodes) |-> {p \in ps : p[1] = e.id}])

----------------------------------------------------------------------------
(* One analysis after another, on one Neo4j database. *)

NoReport == [paths |-> {}, shown |-> {}, stride |-> << >>, chokepoints |-> {}, radii |-> {}]

Init ==
  /\ at = "built" /\ scan = 1
  /\ input \in Inputs
  /\ nodes = << >> /\ edges = {} /\ todo = {}
  /\ stored = [nodes |-> << >>, links |-> {}]
  /\ report = NoReport

Build ==
  /\ at = "built"
  /\ LET asts  == FileAsts(input)
         files == SetToSeq(DOMAIN asts)
         all   == FlattenSeq([i \in 1..Len(files) |->
                                FileNodes(files[i], asts[files[i]], input.jewels)])
     IN  /\ nodes' = all
         /\ edges' = UNION {FileEdges(f, asts[f], Ids(all)) : f \in DOMAIN asts}
  /\ at' = "findings"
  /\ todo' = {i \in DOMAIN input.findings : IsSink(input.findings[i])}
  /\ UNCHANGED <<scan, input, stored, report>>

AddFinding ==
  /\ at = "findings" /\ todo # {}
  /\ LET x  == input.findings[Min(todo)]
         ns == WithSink(WithEntry(nodes, x), x)
     IN  /\ nodes' = ns
         /\ edges' = edges \cup FindingEdges(ns, x)
  /\ todo' = todo \ {Min(todo)}
  /\ UNCHANGED <<at, scan, input, stored, report>>

\* Without a password nothing is stored; a call that raises ends the storing.
Skip ==
  /\ \/ at = "findings" /\ todo = {}
     \/ at \in {"write", "link"}
  /\ at' = "find"
  /\ UNCHANGED <<scan, input, nodes, edges, todo, stored, report>>

DeleteStored ==
  /\ at = "findings" /\ todo = {}
  /\ LET kept == {id \in DOMAIN stored.nodes : stored.nodes[id] # scan}
     IN  stored' = [nodes |-> [id \in kept |-> stored.nodes[id]],
                    links |-> {e \in stored.links : {e[1], e[2]} \subseteq kept}]
  /\ at' = "write"
  /\ UNCHANGED <<scan, input, nodes, edges, todo, report>>

\* Mutant of MergeNodes: ON CREATE SET.
MergeNew ==
  /\ at = "write"
  /\ stored' = [stored EXCEPT !.nodes =
                  [id \in Ids(nodes) \cup DOMAIN stored.nodes |->
                     IF id \in DOMAIN stored.nodes THEN stored.nodes[id] ELSE scan]]
  /\ at' = "link"
  /\ UNCHANGED <<scan, input, nodes, edges, todo, report>>

\* MERGE by node id alone: a node another analysis stored becomes this one's.
MergeNodes ==
  /\ at = "write"
  /\ stored' = [stored EXCEPT !.nodes =
                  [id \in Ids(nodes) \cup DOMAIN stored.nodes |->
                     IF id \in Ids(nodes) THEN scan ELSE stored.nodes[id]]]
  /\ at' = "link"
  /\ UNCHANGED <<scan, input, nodes, edges, todo, report>>

LinkNodes ==
  /\ at = "link"
  /\ stored' = [stored EXCEPT !.links = @ \cup {e \in edges : {e[1], e[2]} \subseteq DOMAIN stored.nodes}]
  /\ at' = "persisted"
  /\ UNCHANGED <<scan, input, nodes, edges, todo, report>>

\* The search stops at Limit paths, in the graph's order, and sorts what it has.
Analyze ==
  /\ at \in {"find", "persisted"}
  /\ \E ps \in {AllPaths} :
     \E found \in kSubset(Min({Limit, Cardinality(ps)}), ps) :
       LET sorted == SetToSortSeq(found, LAMBDA p, q : Risk(p) > Risk(q))
       IN  report' = [paths |-> found,
                      shown |-> ToSet(SubSeq(sorted, 1, Min({Shown, Len(sorted)}))),
                      stride |-> [p \in found |-> Stride(p)],
                      chokepoints |-> Chokepoints(found),
                      radii |-> BlastRadii(found)]
  /\ at' = IF at = "persisted" THEN "done and stored" ELSE "done"
  /\ UNCHANGED <<scan, input, nodes, edges, todo, stored>>

\* The repository is scanned again and fewer findings are left, or a scan is analysed again.
ScanAgain ==
  /\ at \in {"done", "done and stored"} /\ scan < MaxScans
  /\ scan' \in {scan, MaxScans}
  /\ \E n \in 0..(Len(input.findings) - 1) : input' = [input EXCEPT !.findings = SubSeq(@, 1, n)]
  /\ at' = "built"
  /\ nodes' = << >> /\ edges' = {} /\ todo' = {} /\ report' = NoReport
  /\ UNCHANGED stored

Next ==
  \/ Build \/ AddFinding \/ Skip \/ DeleteStored \/ MergeNodes \/ LinkNodes
  \/ Analyze \/ ScanAgain

Spec == Init /\ [][Next]_vars

----------------------------------------------------------------------------
Done == at \in {"done", "done and stored"}
AllFound == Cardinality(report.paths) < Limit

(* Every finding in a sink category ends a reported path, whatever the      *)
(* sources gave, unless its id was taken by a function or a sanitizer       *)
(* (build_from_scan_results, find_all_paths).                               *)
FindingsReached ==
  Done /\ AllFound =>
    \A i \in DOMAIN input.findings :
      LET x == input.findings[i]
      IN  IsSink(x) /\ NodeOf(nodes, FindingId(x)).type = "sink" =>
            \E p \in report.paths : Last(p) = FindingId(x)

(* A chokepoint blocks what it says: without the node the graph has that    *)
(* many paths less, and less those that end in it when it is a finding      *)
(* itself (find_chokepoints' paths_blocked).                                *)
ChokepointBlocks ==
  Done /\ AllFound =>
    \A c \in report.chokepoints :
      LET left == PathsIn(Typed(nodes, "entry") \ {c.id}, Typed(nodes, "sink") \ {c.id},
                          {e \in edges : c.id \notin {e[1], e[2]}})
          ending == {p \in report.paths : Last(p) = c.id}
      IN  Cardinality(left) + c.blocked + Cardinality(ending) = Cardinality(report.paths)

(* The blast radii account for every path: each is in the radius of its     *)
(* entry, with its sink, and no radius counts another entry's               *)
(* (compute_blast_radii).                                                   *)
RadiiAccount ==
  Done =>
    /\ \A p \in report.paths : \E r \in report.radii : r.entry = p[1] /\ Last(p) \in r.sinks
    /\ MapThenSumSet(LAMBDA r : r.total, report.radii) = Cardinality(report.paths)

(* An analysis that stored its graph without an error owns all of it,       *)
(* whatever earlier analyses left (_persist_to_neo4j).                      *)
StoredWhole ==
  at = "done and stored" =>
    /\ \A id \in Ids(nodes) : id \in DOMAIN stored.nodes /\ stored.nodes[id] = scan
    /\ edges \subseteq stored.links
    /\ \A id \in DOMAIN stored.nodes : stored.nodes[id] = scan => id \in Ids(nodes)
=============================================================================
