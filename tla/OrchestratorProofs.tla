------------------------- MODULE OrchestratorProofs -------------------------
(***************************************************************************)
(* Theorems about Orchestrator, for every choice of its constants: the     *)
(* type invariant, and that no race, exception or restart brings the       *)
(* workflow to COMPLETED or to its gate with nothing in the database.      *)
(* Then, where no agent raises and nobody restarts: that the human gate    *)
(* holds, that no output is lost, and that OutputCustody is implemented.   *)
(***************************************************************************)
EXTENDS Orchestrator, TLAPS, SequenceTheorems, WellFoundedInduction

\* The background task triggers SCR, the consumer every other agent.
Triggers(p, who) ==
  IF p = "background" THEN who = {"scr"} ELSE p = "consumer" /\ "scr" \notin who

\* What the actions rely on about an operation they find at the head.
ValidOp(p, o) ==
  /\ o.do = "catch" => o.x \in Handlers
  /\ o.do \in {"load", "save"} => o.x \in Kinds
  /\ o.do = "emit" => o.x \in Topics
  /\ o.do = "output" => o.x \in ScanLevels \union {"FAILED"}
  /\ o.do = "write" => p # "scr"
  /\ o.do = "notify" => p \in Agents
  /\ o.do \in {"gather", "await"} => Triggers(p, o.who)
  /\ o.do \in {"surface", "checkscr", "plan", "next"} => p = "consumer"

\* An update that lets the workflow rest on its row.
Resting(o) == o.do \in {"load", "save"} /\ o.x \in {"complete", "pause"}

\* Such an update comes after an upsert with no handler between them, unless
\* the row is written already (w).
Backed(ops, w) ==
  \A i \in 1..Len(ops) : Resting(ops[i]) =>
    \/ w
    \/ \E j \in 1..Len(ops) :
         /\ j < i
         /\ ops[j].do = "upsert"
         /\ \A k \in 1..Len(ops) : j < k /\ k < i => ops[k].do # "catch"

Good(p, ops, w) ==
  /\ ops \in Seq(Operation)
  /\ \A i \in 1..Len(ops) : ValidOp(p, ops[i])
  /\ Backed(ops, w)

Sound(s, w) == s.status = "COMPLETED" \/ s.paused => w

ProcsOK(td, lc, w) ==
  /\ td \in [Procs -> Seq(Operation)]
  /\ lc \in [Procs -> Locals]
  /\ \A p \in Procs : /\ Good(p, td[p], w)
                      /\ Sound(lc[p].view, w)
                      /\ Sound(lc[p].copy, w)

-----------------------------------------------------------------------------
(* Sequences of operations.                                                *)

\* A nonempty set of numbers has a least element.
LEMMA Least ==
  ASSUME NEW S, S \subseteq Nat, S # {}
  PROVE  \E i \in S : \A j \in S : i <= j
<1> DEFINE R == {ss \in Nat \X Nat : ss[1] < ss[2]}
<1>1. IsWellFoundedOn(R, Nat)
  BY NatLessThanWellFounded DEF OpToRel
<1>2. PICK x \in S : \A y \in S : ~ (<<y, x>> \in R)
  BY <1>1, WFMin
<1>3. ASSUME NEW y \in S PROVE x <= y
  <2>1. x \in Nat /\ y \in Nat
    OBVIOUS
  <2>2. ~ (<<y, x>> \in R)
    BY <1>2
  <2>3. y < x => <<y, x>> \in R
    BY <2>1
  <2> QED BY <2>1, <2>2, <2>3
<1> QED BY <1>3

\* The tail of a good sequence is good when its head is not what backs it.
LEMMA GoodTail ==
  ASSUME NEW p, NEW w, NEW ops, Good(p, ops, w), ops # <<>>,
         Head(ops).do # "upsert" \/ w
  PROVE  Good(p, Tail(ops), w)
<1> DEFINE rest == Tail(ops)
<1>1. /\ ops \in Seq(Operation)
      /\ rest \in Seq(Operation)
      /\ Len(ops) \in Nat \ {0}
      /\ Len(rest) = Len(ops) - 1
      /\ \A i \in 1..Len(rest) : rest[i] = ops[i + 1]
      /\ Head(ops) = ops[1]
  BY HeadTailProperties DEF Good
<1> HIDE DEF rest
<1>2. \A i \in 1..Len(rest) : ValidOp(p, rest[i])
  BY <1>1 DEF Good
<1>3. ASSUME NEW i \in 1..Len(rest), Resting(rest[i]), ~w
      PROVE  \E j \in 1..Len(rest) :
               /\ j < i
               /\ rest[j].do = "upsert"
               /\ \A k \in 1..Len(rest) : j < k /\ k < i => rest[k].do # "catch"
  <2>1. i + 1 \in 1..Len(ops) /\ Resting(ops[i + 1])
    BY <1>1, <1>3
  <2>2. PICK j \in 1..Len(ops) :
          /\ j < i + 1
          /\ ops[j].do = "upsert"
          /\ \A k \in 1..Len(ops) : j < k /\ k < i + 1 => ops[k].do # "catch"
    BY <2>1, <1>3 DEF Good, Backed
  <2>3. j # 1
    BY <2>2, <1>1, <1>3
  <2>4. j - 1 \in 1..Len(rest) /\ j - 1 < i /\ rest[j - 1].do = "upsert"
    BY <2>2, <2>3, <1>1, SMTT(30)
  <2>5. ASSUME NEW k \in 1..Len(rest), j - 1 < k, k < i PROVE rest[k].do # "catch"
    <3>1. k + 1 \in 1..Len(ops) /\ j < k + 1 /\ k + 1 < i + 1
      BY <2>5, <1>1
    <3>2. rest[k] = ops[k + 1]
      BY <1>1
    <3> QED BY <2>2, <3>1, <3>2
  <2> QED BY <2>4, <2>5
<1> QED BY <1>1, <1>2, <1>3 DEF Good, Backed, rest

\* Good sequences compose.
LEMMA GoodConcat ==
  ASSUME NEW p, NEW w, NEW a, NEW b, Good(p, a, w), Good(p, b, w)
  PROVE  Good(p, a \o b, w)
<1> DEFINE s == a \o b
<1>1. /\ a \in Seq(Operation) /\ b \in Seq(Operation) /\ s \in Seq(Operation)
      /\ Len(a) \in Nat /\ Len(b) \in Nat
      /\ Len(s) = Len(a) + Len(b)
      /\ \A i \in 1..Len(s) : s[i] = IF i <= Len(a) THEN a[i] ELSE b[i - Len(a)]
  <2>1. a \in Seq(Operation) /\ b \in Seq(Operation)
    BY DEF Good
  <2>2. /\ s \in Seq(Operation)
        /\ Len(s) = Len(a) + Len(b)
        /\ \A i \in 1..Len(a) + Len(b) : s[i] = IF i <= Len(a) THEN a[i] ELSE b[i - Len(a)]
    BY <2>1, ConcatProperties
  <2> QED BY <2>1, <2>2, LenProperties
<1> HIDE DEF s
<1>2. ASSUME NEW i \in 1..Len(s) PROVE ValidOp(p, s[i])
  <2>1. CASE i <= Len(a)
    BY <1>1, <2>1 DEF Good
  <2>2. CASE i > Len(a)
    <3>1. i - Len(a) \in 1..Len(b) /\ s[i] = b[i - Len(a)]
      BY <1>1, <2>2
    <3> QED BY <3>1 DEF Good
  <2> QED BY <1>1, <2>1, <2>2
<1>3. ASSUME NEW i \in 1..Len(s), Resting(s[i]), ~w
      PROVE  \E j \in 1..Len(s) :
               /\ j < i
               /\ s[j].do = "upsert"
               /\ \A k \in 1..Len(s) : j < k /\ k < i => s[k].do # "catch"
  <2>1. CASE i <= Len(a)
    <3>1. PICK j \in 1..Len(a) :
            /\ j < i
            /\ a[j].do = "upsert"
            /\ \A k \in 1..Len(a) : j < k /\ k < i => a[k].do # "catch"
      BY <1>1, <1>3, <2>1, SMTT(30) DEF Good, Backed
    <3>2. j \in 1..Len(s) /\ s[j].do = "upsert"
      BY <1>1, <3>1
    <3>3. ASSUME NEW k \in 1..Len(s), j < k, k < i PROVE s[k].do # "catch"
      BY <1>1, <3>1, <3>3, <2>1
    <3> QED BY <3>1, <3>2, <3>3
  <2>2. CASE i > Len(a)
    <3>1. i - Len(a) \in 1..Len(b) /\ s[i] = b[i - Len(a)]
      BY <1>1, <2>2
    <3>2. PICK j \in 1..Len(b) :
            /\ j < i - Len(a)
            /\ b[j].do = "upsert"
            /\ \A k \in 1..Len(b) : j < k /\ k < i - Len(a) => b[k].do # "catch"
      BY <1>3, <3>1 DEF Good, Backed
    <3>3. j + Len(a) \in 1..Len(s) /\ j + Len(a) < i /\ s[j + Len(a)].do = "upsert"
      BY <1>1, <3>2
    <3>4. ASSUME NEW k \in 1..Len(s), j + Len(a) < k, k < i PROVE s[k].do # "catch"
      <4>1. k - Len(a) \in 1..Len(b) /\ j < k - Len(a) /\ k - Len(a) < i - Len(a)
        BY <1>1, <3>4
      <4>2. s[k] = b[k - Len(a)]
        BY <1>1, <4>1
      <4> QED BY <3>2, <4>1, <4>2
    <3> QED BY <3>3, <3>4
  <2> QED BY <1>1, <2>1, <2>2
<1> QED BY <1>1, <1>2, <1>3 DEF Good, Backed, s

\* What is left behind the operations before i is good when none of them but
\* the last can back anything, and the last is a handler.
LEMMA GoodSuffix ==
  ASSUME NEW p, NEW w, NEW ops, Good(p, ops, w), NEW i \in 1..Len(ops) + 1,
         \/ \A j \in 1..Len(ops) : j < i => ops[j].do = "catch"
         \/ i > 1 /\ ops[i - 1].do = "catch"
  PROVE  Good(p, SubSeq(ops, i, Len(ops)), w)
<1> DEFINE n == Len(ops)
           s == SubSeq(ops, i, n)
<1>1. /\ ops \in Seq(Operation) /\ s \in Seq(Operation)
      /\ n \in Nat
      /\ Len(s) = n - i + 1
      /\ \A k \in 1..Len(s) : s[k] = ops[k + i - 1]
  <2>1. ops \in Seq(Operation) /\ n \in Nat /\ i \in Int
    BY LenProperties DEF Good
  <2>2. \A k \in i..n : ops[k] \in Operation
    BY <2>1, ElementOfSeq
  <2>3. /\ s \in Seq(Operation)
        /\ Len(s) = IF i <= n THEN n - i + 1 ELSE 0
        /\ \A k \in 1..n - i + 1 : s[k] = ops[i + k - 1]
    BY <2>1, <2>2, SubSeqProperties
  <2> QED BY <2>1, <2>3
<1> HIDE DEF s, n
<1>2. \A k \in 1..Len(s) : k + i - 1 \in 1..n
  BY <1>1 DEF n
<1>3. \A k \in 1..Len(s) : ValidOp(p, s[k])
  BY <1>1, <1>2 DEF Good, n
<1>4. ASSUME NEW k \in 1..Len(s), Resting(s[k]), ~w
      PROVE  \E j \in 1..Len(s) :
               /\ j < k
               /\ s[j].do = "upsert"
               /\ \A l \in 1..Len(s) : j < l /\ l < k => s[l].do # "catch"
  <2> DEFINE h == k + i - 1
  <2>1. h \in 1..n /\ Resting(ops[h])
    BY <1>1, <1>2, <1>4
  <2>2. PICK j \in 1..n :
          /\ j < h
          /\ ops[j].do = "upsert"
          /\ \A l \in 1..n : j < l /\ l < h => ops[l].do # "catch"
    BY <2>1, <1>4 DEF Good, Backed, n
  <2>3. j >= i
    BY <2>2, <1>1 DEF n
  <2>4. j - i + 1 \in 1..Len(s) /\ j - i + 1 < k /\ s[j - i + 1].do = "upsert"
    BY <2>2, <2>3, <1>1
  <2>5. ASSUME NEW l \in 1..Len(s), j - i + 1 < l, l < k PROVE s[l].do # "catch"
    <3>1. l + i - 1 \in 1..n /\ j < l + i - 1 /\ l + i - 1 < h
      BY <2>5, <1>1, <1>2
    <3> QED BY <3>1, <2>2, <1>1
  <2> QED BY <2>4, <2>5
<1> QED BY <1>1, <1>3, <1>4 DEF Good, Backed, s, n

\* Nothing is left of a good sequence but what is good.
LEMMA GoodEmpty ==
  ASSUME NEW p, NEW w
  PROVE  Good(p, <<>>, w)
BY EmptySeq DEF Good, Backed

LEMMA GoodSettle ==
  ASSUME NEW p, NEW w, NEW ops, Good(p, ops, w)
  PROVE  Good(p, Settle(ops), w)
<1> DEFINE rest == {i \in DOMAIN ops : ops[i].do # "catch"}
<1>1. DOMAIN ops = 1..Len(ops) /\ Len(ops) \in Nat
  BY LenProperties DEF Good
<1>2. CASE rest = {}
  BY <1>2, GoodEmpty DEF Settle
<1>3. CASE rest # {}
  <2> DEFINE i == CHOOSE i \in rest : \A j \in rest : i <= j
  <2>0. rest \subseteq Nat
    BY <1>1
  <2>1. i \in rest /\ \A j \in rest : i <= j
    <3>1. \E x \in rest : \A j \in rest : x <= j
      BY <1>3, <2>0, Least
    <3> QED BY <3>1
  <2>2. Settle(ops) = SubSeq(ops, i, Len(ops))
    BY <1>3 DEF Settle
  <2> HIDE DEF i
  <2>3. i \in 1..Len(ops) + 1 /\ \A j \in 1..Len(ops) : j < i => ops[j].do = "catch"
    BY <1>1, <2>1
  <2> QED BY <2>2, <2>3, GoodSuffix
<1> QED BY <1>2, <1>3

LEMMA GoodUnwind ==
  ASSUME NEW p, NEW w, NEW ops, Good(p, ops, w),
         \A h \in Handlers : Good(p, Handler(h), w)
  PROVE  Good(p, Unwind(ops), w)
<1> DEFINE marks == {i \in DOMAIN ops : ops[i].do = "catch"}
<1>1. DOMAIN ops = 1..Len(ops) /\ Len(ops) \in Nat
  BY LenProperties DEF Good
<1>2. CASE marks = {}
  BY <1>2, GoodEmpty DEF Unwind
<1>3. CASE marks # {}
  <2> DEFINE i == CHOOSE i \in marks : \A j \in marks : i <= j
             rest == SubSeq(ops, i + 1, Len(ops))
  <2>0. marks \subseteq Nat
    BY <1>1
  <2>1. i \in marks
    <3>1. \E x \in marks : \A j \in marks : x <= j
      BY <1>3, <2>0, Least
    <3> QED BY <3>1
  <2>2. Unwind(ops) = Settle(Handler(ops[i].x) \o rest)
    BY <1>3 DEF Unwind
  <2> HIDE DEF i
  <2>3. /\ i + 1 \in 1..Len(ops) + 1 /\ i + 1 > 1
        /\ ops[(i + 1) - 1].do = "catch"
        /\ ops[i].x \in Handlers
    BY <1>1, <2>1 DEF Good, ValidOp
  <2>4. Good(p, rest, w)
    BY <2>3, GoodSuffix
  <2>5. Good(p, Handler(ops[i].x), w)
    BY <2>3
  <2> QED BY <2>2, <2>4, <2>5, GoodConcat, GoodSettle
<1> QED BY <1>2, <1>3
-----------------------------------------------------------------------------
(* The calls the functions are made of.                                    *)

\* Operations that neither pause nor complete back themselves.
LEMMA GoodPlain ==
  ASSUME NEW p, NEW w, NEW ops \in Seq(Operation),
         \A i \in 1..Len(ops) : ValidOp(p, ops[i]) /\ ~Resting(ops[i])
  PROVE  Good(p, ops, w)
BY DEF Good, Backed

\* What follows an upsert is good when no handler comes before its updates.
LEMMA GoodAfterUpsert ==
  ASSUME NEW p, NEW w, NEW a, NEW b, Good(p, a, w), b \in Seq(Operation),
         NEW u \in 1..Len(a), a[u].do = "upsert",
         \A k \in 1..Len(a) : u < k => a[k].do # "catch",
         \A i \in 1..Len(b) :
           /\ ValidOp(p, b[i])
           /\ Resting(b[i]) => \A k \in 1..Len(b) : k < i => b[k].do # "catch"
  PROVE  Good(p, a \o b, w)
<1> DEFINE s == a \o b
<1>1. /\ a \in Seq(Operation) /\ s \in Seq(Operation)
      /\ Len(a) \in Nat /\ Len(b) \in Nat
      /\ Len(s) = Len(a) + Len(b)
      /\ \A i \in 1..Len(s) : s[i] = IF i <= Len(a) THEN a[i] ELSE b[i - Len(a)]
  <2>1. a \in Seq(Operation)
    BY DEF Good
  <2>2. /\ s \in Seq(Operation)
        /\ Len(s) = Len(a) + Len(b)
        /\ \A i \in 1..Len(a) + Len(b) : s[i] = IF i <= Len(a) THEN a[i] ELSE b[i - Len(a)]
    BY <2>1, ConcatProperties
  <2> QED BY <2>1, <2>2, LenProperties
<1> HIDE DEF s
<1>2. ASSUME NEW i \in 1..Len(s), i > Len(a)
      PROVE  i - Len(a) \in 1..Len(b) /\ s[i] = b[i - Len(a)]
  BY <1>1, <1>2
<1>3. ASSUME NEW i \in 1..Len(s) PROVE ValidOp(p, s[i])
  <2>1. CASE i <= Len(a)
    BY <1>1, <2>1, SMTT(30) DEF Good
  <2>2. CASE i > Len(a)
    BY <1>2, <2>2
  <2> QED BY <1>1, <2>1, <2>2
<1>4. ASSUME NEW i \in 1..Len(s), Resting(s[i]), ~w
      PROVE  \E j \in 1..Len(s) :
               /\ j < i
               /\ s[j].do = "upsert"
               /\ \A k \in 1..Len(s) : j < k /\ k < i => s[k].do # "catch"
  <2>1. CASE i <= Len(a)
    <3>1. PICK j \in 1..Len(a) :
            /\ j < i
            /\ a[j].do = "upsert"
            /\ \A k \in 1..Len(a) : j < k /\ k < i => a[k].do # "catch"
      BY <1>1, <1>4, <2>1 DEF Good, Backed
    <3>2. j \in 1..Len(s) /\ s[j].do = "upsert"
      BY <1>1, <3>1
    <3>3. ASSUME NEW k \in 1..Len(s), j < k, k < i PROVE s[k].do # "catch"
      BY <1>1, <3>1, <3>3, <2>1, SMTT(30)
    <3> QED BY <3>1, <3>2, <3>3
  <2>2. CASE i > Len(a)
    <3>1. u \in 1..Len(s) /\ u < i
      BY <1>1, <2>2
    <3>a. s[u].do = "upsert"
      BY <1>1, <3>1
    <3>2. ASSUME NEW k \in 1..Len(s), u < k, k < i PROVE s[k].do # "catch"
      <4>1. CASE k <= Len(a)
        BY <1>1, <3>2, <4>1
      <4>2. CASE k > Len(a)
        <5>1. k - Len(a) \in 1..Len(b) /\ s[k] = b[k - Len(a)]
          BY <1>2, <4>2
        <5>2. i - Len(a) \in 1..Len(b) /\ Resting(b[i - Len(a)])
          BY <1>2, <1>4, <2>2
        <5>3. k - Len(a) < i - Len(a)
          BY <1>1, <3>2
        <5> QED BY <5>1, <5>2, <5>3
      <4> QED BY <1>1, <4>1, <4>2
    <3> QED BY <3>1, <3>a, <3>2
  <2> QED BY <1>1, <2>1, <2>2
<1> QED BY <1>1, <1>3, <1>4 DEF Good, Backed, s

\* Finalize marks the workflow COMPLETED after the upsert of Persist, and the gate
\* pauses it after the upsert of Persist.
LEMMA GoodPersist ==
  ASSUME NEW p, NEW w
  PROVE  /\ Good(p, Persist, w)
         /\ Good(p, Finalize, w)
         /\ Good(p, Persist \o HumanGate, w)
<1>1. /\ Persist \in Seq(Operation) /\ Len(Persist) = 3
      /\ Persist[1].do = "scan" /\ Persist[2].do = "upsert" /\ Persist[3].do = "verify"
  <2>1. /\ Do("scan") \in Operation /\ Do("scan").do = "scan"
        /\ Do("upsert") \in Operation /\ Do("upsert").do = "upsert"
        /\ Do("verify") \in Operation /\ Do("verify").do = "verify"
    BY DEF Do, Op, Operation, Calls, Arguments
  <2> QED BY <2>1 DEF Persist
<1>2. Good(p, Persist, w)
  BY <1>1, GoodPlain DEF ValidOp, Resting
<1>3. Good(p, Finalize, w)
  <2> DEFINE s == <<Do("clearscan"), Do("delete"), Op("emit", "workflow.completed", {}),
                    Update("complete", {}), Catch("finalizeFailed")>>
  <2>1. /\ Do("clearscan") \in Operation /\ Do("clearscan").do = "clearscan"
        /\ Do("delete") \in Operation /\ Do("delete").do = "delete"
        /\ Op("emit", "workflow.completed", {}) \in Operation
        /\ Op("emit", "workflow.completed", {}).do = "emit"
        /\ Op("emit", "workflow.completed", {}).x = "workflow.completed"
        /\ Update("complete", {}) \in Operation
        /\ Update("complete", {}).do = "load" /\ Update("complete", {}).x = "complete"
        /\ Catch("finalizeFailed") \in Operation
        /\ Catch("finalizeFailed").do = "catch" /\ Catch("finalizeFailed").x = "finalizeFailed"
    BY DEF Do, Op, Update, Catch, Operation, Calls, Arguments, Kinds, Topics, Handlers
  <2>2. /\ s \in Seq(Operation) /\ Len(s) = 5
        /\ s[1].do = "clearscan" /\ s[2].do = "delete"
        /\ s[3].do = "emit" /\ s[3].x = "workflow.completed"
        /\ s[4].do = "load" /\ s[4].x = "complete"
        /\ s[5].do = "catch" /\ s[5].x = "finalizeFailed"
    BY <2>1
  <2>3. Finalize = Persist \o s
    BY DEF Finalize
  <2> HIDE DEF s
  <2>4. \A i \in 1..Len(s) :
          /\ ValidOp(p, s[i])
          /\ Resting(s[i]) => \A k \in 1..Len(s) : k < i => s[k].do # "catch"
    BY <2>2 DEF ValidOp, Resting, Topics, Kinds, Handlers
  <2>5. 2 \in 1..Len(Persist) /\ \A k \in 1..Len(Persist) : 2 < k => Persist[k].do # "catch"
    BY <1>1
  <2> QED BY <1>1, <1>2, <2>2, <2>3, <2>4, <2>5, GoodAfterUpsert
<1>4. Good(p, Persist \o HumanGate, w)
  <2>1. /\ Update("pause", {}) \in Operation
        /\ Update("pause", {}).do = "load" /\ Update("pause", {}).x = "pause"
        /\ Op("emit", "workflow.human_gate", {}) \in Operation
        /\ Op("emit", "workflow.human_gate", {}).do = "emit"
        /\ Op("emit", "workflow.human_gate", {}).x = "workflow.human_gate"
    BY DEF Op, Update, Operation, Calls, Arguments, Kinds, Topics
  <2>2. /\ HumanGate \in Seq(Operation) /\ Len(HumanGate) = 2
        /\ HumanGate[1].do = "load" /\ HumanGate[1].x = "pause"
        /\ HumanGate[2].do = "emit" /\ HumanGate[2].x = "workflow.human_gate"
    BY <2>1 DEF HumanGate
  <2>3. \A i \in 1..Len(HumanGate) :
          /\ ValidOp(p, HumanGate[i])
          /\ Resting(HumanGate[i]) => \A k \in 1..Len(HumanGate) : k < i => HumanGate[k].do # "catch"
    BY <2>2 DEF ValidOp, Resting, Topics, Kinds
  <2>4. 2 \in 1..Len(Persist) /\ \A k \in 1..Len(Persist) : 2 < k => Persist[k].do # "catch"
    BY <1>1
  <2> QED BY <1>1, <1>2, <2>2, <2>3, <2>4, GoodAfterUpsert
<1> QED BY <1>2, <1>3, <1>4
Special == {"catch", "load", "save", "emit", "output", "write", "notify", "gather", "await",
            "surface", "checkscr", "plan", "next"}
PlainCalls == Calls \ Special
Plain(p) == {o \in Operation : ValidOp(p, o) /\ ~Resting(o)}

LEMMA PlainSequence ==
  ASSUME NEW p, NEW w, NEW ops \in Seq(Plain(p))
  PROVE  Good(p, ops, w)
<1>1. \A i \in 1..Len(ops) : ops[i] \in Plain(p)
  BY ElementOfSeq
<1>2. \A i \in 1..Len(ops) : ops[i] \in Operation
  BY <1>1 DEF Plain
<1>3. ops \in Seq(Operation)
  BY <1>2, LenProperties, IsASeq
<1> QED BY <1>1, <1>3, GoodPlain DEF Plain

LEMMA PlainTuple ==
  ASSUME NEW p, NEW w
  PROVE  /\ \A a \in Plain(p) : Good(p, <<a>>, w)
         /\ \A a, b \in Plain(p) : Good(p, <<a, b>>, w)
         /\ \A a, b, c \in Plain(p) : Good(p, <<a, b, c>>, w)
         /\ \A a, b, c, d, e \in Plain(p) : Good(p, <<a, b, c, d, e>>, w)
<1>1. ASSUME NEW a \in Plain(p) PROVE Good(p, <<a>>, w)
  <2>1. <<a>> \in Seq(Plain(p))
    OBVIOUS
  <2> QED BY <2>1, PlainSequence
<1>2. ASSUME NEW a \in Plain(p), NEW b \in Plain(p) PROVE Good(p, <<a, b>>, w)
  <2>1. <<a, b>> \in Seq(Plain(p))
    OBVIOUS
  <2> QED BY <2>1, PlainSequence
<1>3. ASSUME NEW a \in Plain(p), NEW b \in Plain(p), NEW c \in Plain(p)
      PROVE  Good(p, <<a, b, c>>, w)
  <2>1. <<a, b, c>> \in Seq(Plain(p))
    OBVIOUS
  <2> QED BY <2>1, PlainSequence
<1>4. ASSUME NEW a \in Plain(p), NEW b \in Plain(p), NEW c \in Plain(p), NEW d \in Plain(p),
             NEW e \in Plain(p)
      PROVE  Good(p, <<a, b, c, d, e>>, w)
  <2>1. <<a, b, c, d, e>> \in Seq(Plain(p))
    OBVIOUS
  <2> QED BY <2>1, PlainSequence
<1> QED BY <1>1, <1>2, <1>3, <1>4

LEMMA PlainOperations ==
  ASSUME NEW p
  PROVE  /\ \A c \in PlainCalls, who \in SUBSET Agents : Op(c, "", who) \in Plain(p)
         /\ \A c \in PlainCalls : Do(c) \in Plain(p)
         /\ \A c \in PlainCalls, a \in Agents : For(c, a) \in Plain(p)
         /\ \A k \in Kinds \ {"complete", "pause"}, who \in SUBSET Agents :
              Update(k, who) \in Plain(p)
         /\ \A h \in Handlers : Catch(h) \in Plain(p)
         /\ \A t \in Topics : Op("emit", t, {}) \in Plain(p)
         /\ \A l \in ScanLevels \union {"FAILED"} : Op("output", l, {}) \in Plain(p)
         /\ \A c \in {"gather", "await"}, who \in SUBSET Agents :
              Triggers(p, who) => Op(c, "", who) \in Plain(p)
         /\ p = "consumer" => \A c \in {"surface", "checkscr", "plan"}, a \in Agents :
              For(c, a) \in Plain(p)
<1>1. ASSUME NEW c \in PlainCalls, NEW who \in SUBSET Agents
      PROVE  Op(c, "", who) \in Plain(p)
  <2> DEFINE o == Op(c, "", who)
  <2>1. o.do = c /\ o \in Operation
    BY DEF Op, PlainCalls, Arguments, Operation
  <2>2. c \notin Special
    BY DEF PlainCalls
  <2> HIDE DEF o
  <2>3. ValidOp(p, o) /\ ~Resting(o)
    BY <2>1, <2>2 DEF Special, ValidOp, Resting
  <2>4. o \in Plain(p)
    BY <2>1, <2>3 DEF Plain
  <2> QED BY <2>4 DEF o
<1>2. \A c \in PlainCalls : Do(c) \in Plain(p)
  BY <1>1 DEF Do
<1>3. \A c \in PlainCalls, a \in Agents : For(c, a) \in Plain(p)
  BY <1>1 DEF For
<1>4. ASSUME NEW k \in Kinds \ {"complete", "pause"}, NEW who \in SUBSET Agents
      PROVE  Update(k, who) \in Plain(p)
  BY DEF Update, Op, Plain, Calls, Arguments, Kinds, Operation, ValidOp, Resting
<1>5. ASSUME NEW h \in Handlers PROVE Catch(h) \in Plain(p)
  BY DEF Catch, Op, Plain, Calls, Arguments, Handlers, Operation, ValidOp, Resting
<1>6. ASSUME NEW t \in Topics PROVE Op("emit", t, {}) \in Plain(p)
  BY DEF Op, Plain, Calls, Arguments, Topics, Operation, ValidOp, Resting
<1>7. ASSUME NEW l \in ScanLevels \union {"FAILED"} PROVE Op("output", l, {}) \in Plain(p)
  BY DEF Op, Plain, Calls, Arguments, ScanLevels, Operation, ValidOp, Resting
<1>8. ASSUME NEW c \in {"gather", "await"}, NEW who \in SUBSET Agents, Triggers(p, who)
      PROVE  Op(c, "", who) \in Plain(p)
  BY <1>8 DEF Op, Plain, Calls, Arguments, Operation, ValidOp, Resting
<1>9. ASSUME p = "consumer", NEW c \in {"surface", "checkscr", "plan"}, NEW a \in Agents
      PROVE  For(c, a) \in Plain(p)
  BY <1>9 DEF For, Op, Plain, Calls, Arguments, Operation, ValidOp, Resting
<1> QED BY <1>1, <1>2, <1>3, <1>4, <1>5, <1>6, <1>7, <1>8, <1>9

\* A handler that runs after an exception is good on its own.
LEMMA GoodHandlers ==
  ASSUME NEW p, NEW w
  PROVE  Good(p, Fail, w) /\ \A h \in Handlers : Good(p, Handler(h), w)
<1>1. Good(p, Fail, w)
  <2>1. Update("fail", {}) \in Plain(p)
    BY PlainOperations DEF Kinds
  <2> QED BY <2>1, PlainTuple DEF Fail
<1>2. Good(p, Finalize, w)
  BY GoodPersist
<1>3. Good(p, <<Do("raise")>>, w) /\ Good(p, <<Do("ifrunning")>>, w)
      /\ Good(p, <<Catch("skip"), Do("raise")>>, w)
  <2>1. Do("raise") \in Plain(p) /\ Do("ifrunning") \in Plain(p) /\ Catch("skip") \in Plain(p)
    BY PlainOperations DEF PlainCalls, Special, Calls, Handlers
  <2> QED BY <2>1, PlainTuple
<1>4. Good(p, Handler("finalizeFailed"), w)
  BY <1>1, <1>3, GoodConcat DEF Handler
<1>5. Good(p, Handler("stepFailed"), w)
  BY <1>1, <1>2, <1>3, GoodConcat DEF Handler
<1>6. Good(p, Handler("executeFailed"), w)
  BY <1>1, <1>2, <1>3, GoodConcat DEF Handler
<1>7. Good(p, Handler("background"), w)
  BY <1>3 DEF Handler
<1>8. Good(p, Handler("progressFailed"), w)
  BY <1>1, <1>2, GoodConcat DEF Handler
<1>9. Good(p, Handler("skip"), w)
  BY GoodEmpty DEF Handler
<1> QED BY <1>1, <1>4, <1>5, <1>6, <1>7, <1>8, <1>9 DEF Handlers

\* The bodies of the tasks.
LEMMA GoodTasks ==
  ASSUME NEW p, NEW w
  PROVE  /\ Good("background", RunInBackground, w)
         /\ Good(p, ApproveWorkflow, w)
         /\ \A a \in Agents : Good("consumer", OnAgentComplete(a), w)
         /\ \A a \in Agents : Good("consumer", Progress(a), w)
         /\ \A who \in SUBSET Agents : Triggers(p, who) => Good(p, TriggerAgents(who), w)
<1>1. ASSUME NEW q, NEW who \in SUBSET Agents, Triggers(q, who)
      PROVE  Good(q, TriggerAgents(who), w)
  <2>1. Op("gather", "", who) \in Plain(q) /\ Catch("stepFailed") \in Plain(q)
    BY <1>1, PlainOperations DEF Handlers
  <2> QED BY <2>1, PlainTuple DEF TriggerAgents
<1>2. Good("background", RunInBackground, w)
  <2> DEFINE q == "background"
  <2>1. Do("view") \in Plain(q) /\ Catch("executeFailed") \in Plain(q)
        /\ Catch("background") \in Plain(q)
    BY PlainOperations DEF PlainCalls, Special, Calls, Handlers
  <2>2. Good(q, <<Do("view")>>, w) /\ Good(q, <<Catch("executeFailed"), Catch("background")>>, w)
    BY <2>1, PlainTuple
  <2>3. Good(q, TriggerAgents({"scr"}), w)
    BY <1>1 DEF Agents, Triggers
  <2> QED BY <2>2, <2>3, GoodConcat DEF RunInBackground
<1>3. Good(p, ApproveWorkflow, w)
  <2>1. Update("resume", {}) \in Plain(p)
    BY PlainOperations DEF Kinds
  <2>2. Good(p, <<Update("resume", {})>>, w)
    BY <2>1, PlainTuple
  <2> QED BY <2>2, GoodPersist, GoodConcat DEF ApproveWorkflow
<1>4. ASSUME NEW a \in Agents PROVE Good("consumer", OnAgentComplete(a), w)
  <2> DEFINE q == "consumer"
  <2>1. /\ Update("done", {a}) \in Plain(q) /\ Do("view") \in Plain(q)
        /\ For("surface", a) \in Plain(q) /\ Do("commit") \in Plain(q)
        /\ Catch("skip") \in Plain(q)
    BY PlainOperations DEF PlainCalls, Special, Calls, Handlers, Kinds
  <2> QED BY <2>1, PlainTuple DEF OnAgentComplete
<1>5. ASSUME NEW a \in Agents PROVE Good("consumer", Progress(a), w)
  <2> DEFINE q == "consumer"
  <2>1. For("plan", a) \in Plain(q) /\ Catch("progressFailed") \in Plain(q)
    BY PlainOperations DEF Handlers
  <2> QED BY <2>1, PlainTuple DEF Progress
<1> QED BY <1>1, <1>2, <1>3, <1>4, <1>5

\* The run of an agent belongs to that agent: SCR never writes a section by "write".
LEMMA GoodAgentRun ==
  ASSUME NEW a \in Agents, NEW w
  PROVE  Good(a, AgentRun(a), w)
<1>1. /\ Update("running", {a}) \in Plain(a)
      /\ For("placeholder", a) \in Plain(a) /\ For("pipeline", a) \in Plain(a)
      /\ For("readscr", a) \in Plain(a) /\ For("readcma", a) \in Plain(a)
  BY PlainOperations DEF PlainCalls, Special, Calls, Kinds
<1>2. For("notify", a) \in Plain(a) /\ (a # "scr" => For("write", a) \in Plain(a))
  BY DEF For, Op, Plain, Calls, Arguments, Operation, ValidOp, Resting
<1>3. Good(a, <<Update("running", {a})>>, w) /\ Good(a, <<For("notify", a)>>, w)
  BY <1>1, <1>2, PlainTuple
<1>4. CASE a = "scr"
  <2>1. Good(a, <<For("placeholder", a), For("pipeline", a)>>, w)
    BY <1>1, PlainTuple
  <2> QED BY <1>3, <1>4, <2>1, GoodConcat DEF AgentRun
<1>5. CASE a = "cma"
  <2>1. Good(a, <<For("readscr", a), For("write", a)>>, w)
    BY <1>1, <1>2, <1>5, PlainTuple
  <2> QED BY <1>3, <1>5, <2>1, GoodConcat DEF AgentRun
<1>6. CASE a = "reporting"
  <2>1. Good(a, <<For("readscr", a), For("readcma", a), For("write", a)>>, w)
    BY <1>1, <1>2, <1>6, PlainTuple
  <2> QED BY <1>3, <1>6, <2>1, GoodConcat DEF AgentRun
<1>7. CASE a \notin {"scr", "cma", "reporting"}
  <2>1. Good(a, <<For("write", a)>>, w)
    BY <1>1, <1>2, <1>7, PlainTuple
  <2> QED BY <1>3, <1>7, <2>1, GoodConcat DEF AgentRun
<1> QED BY <1>4, <1>5, <1>6, <1>7
-----------------------------------------------------------------------------
(* Records: the workflow state, the outputs, the plan.                     *)

LEMMA DefinitionsTyped ==
  ASSUME NEW n \in AllNames
  PROVE  /\ WORKFLOW_DEFINITIONS[n] \in Seq(SUBSET Agents)
         /\ Len(WORKFLOW_DEFINITIONS[n]) \in 2..4
         /\ \A i \in 2..Len(WORKFLOW_DEFINITIONS[n]) :
              WORKFLOW_DEFINITIONS[n][i] \in SUBSET (Agents \ {"scr"})
<1>1. /\ {"scr"} \in SUBSET Agents /\ {"cma"} \in SUBSET Agents
      /\ {"reporting"} \in SUBSET Agents /\ Dynamic \in SUBSET Agents
  BY DEF Agents
<1>a. /\ {"cma"} \in SUBSET (Agents \ {"scr"}) /\ {"reporting"} \in SUBSET (Agents \ {"scr"})
      /\ Dynamic \in SUBSET (Agents \ {"scr"})
  BY DEF Agents, Dynamic
<1>2. CASE n = "incident-response"
  <2>1. WORKFLOW_DEFINITIONS[n] = <<{"scr"}, Dynamic, {"cma"}, {"reporting"}>>
    BY <1>2 DEF WORKFLOW_DEFINITIONS, AllNames
  <2> QED BY <1>1, <2>1, <1>a
<1>3. CASE n = "incremental-pr-scan"
  <2>1. WORKFLOW_DEFINITIONS[n] = <<{"scr"}, {"reporting"}>>
    BY <1>3 DEF WORKFLOW_DEFINITIONS, AllNames, SCR_REQUIRED_WORKFLOWS
  <2> QED BY <1>1, <2>1, <1>a
<1>4. CASE n \notin {"incident-response", "incremental-pr-scan"}
  <2>1. WORKFLOW_DEFINITIONS[n] = <<{"scr"}, {"cma"}, {"reporting"}>>
    BY <1>4 DEF WORKFLOW_DEFINITIONS, AllNames
  <2> QED BY <1>1, <2>1, <1>a
<1> QED BY <1>2, <1>3, <1>4

LEMMA ChangedTyped ==
  ASSUME NEW k \in Kinds, NEW who \in SUBSET Agents, NEW s \in WorkflowState, NEW w,
         Sound(s, w), k \in {"complete", "pause"} => w
  PROVE  Changed(k, who, s) \in WorkflowState /\ Sound(Changed(k, who, s), w)
<1>1. CASE k \in {"running", "done", "failed"}
  BY <1>1 DEF Changed, WorkflowState, AgentState, Sound
<1>2. CASE k \in {"pause", "resume", "complete", "fail"}
  BY <1>2 DEF Changed, WorkflowState, Sound
<1>3. CASE k \in {"escalate", "gateEscalated"}
  BY <1>3 DEF Changed, WorkflowState, Sound
<1> QED BY <1>1, <1>2, <1>3 DEF Kinds

LEMMA OutTyped ==
  /\ NoOutput \in Output /\ EmptyOutput \in Output
  /\ NoSnapshot \in Snapshot
  /\ \A st \in {"RUNNING", "COMPLETED", "FAILED"},
        l \in ScanLevels \union {"correlated"}, h \in BOOLEAN : Out(st, l, h) \in Output
BY DEF NoOutput, EmptyOutput, NoSnapshot, Snapshot, Out, Output, ScanLevels

LEMMA NewStateTyped ==
  ASSUME NEW n \in AllNames, NEW f \in {"fixed", "dynamic"}, NEW i \in BOOLEAN, NEW w
  PROVE  NewState(n, f, i) \in WorkflowState /\ Sound(NewState(n, f, i), w)
<1> DEFINE s == NewState(n, f, i)
<1>1. Len(WORKFLOW_DEFINITIONS[n]) \in 2..4
  BY DefinitionsTyped
<1>2. 1 <= Len(WORKFLOW_DEFINITIONS[n])
  BY <1>1
<1>3. s.name = n /\ s.step = 1 /\ s.status = "RUNNING" /\ s.paused = FALSE
  BY DEF NewState
<1>4. s \in [name : AllNames, incident : BOOLEAN, flow : {"fixed", "dynamic"},
              agents : [Agents -> AgentState], step : 1..4, paused : BOOLEAN,
              approved : BOOLEAN, gateEscalated : BOOLEAN,
              status : {"RUNNING", "PAUSED", "COMPLETED", "FAILED"}]
  BY DEF NewState, AgentState
<1>5. s \in WorkflowState
  BY <1>2, <1>3, <1>4 DEF WorkflowState
<1> QED BY <1>3, <1>5 DEF Sound

LEMMA NoLocalsTyped ==
  ASSUME NEW w
  PROVE  /\ NoState \in WorkflowState /\ Sound(NoState, w)
         /\ NoLocals \in Locals /\ NoLocals.view = NoState /\ NoLocals.copy = NoState
<1>1. NoState \in WorkflowState /\ Sound(NoState, w)
  BY NewStateTyped DEF NoState, AllNames, SCR_REQUIRED_WORKFLOWS
<1> QED BY <1>1, OutTyped DEF NoLocals, Locals

LEMMA NextAgentsTyped ==
  ASSUME NEW a \in Agents, NEW s \in WorkflowState, NEW o
  PROVE  NextAgents(a, s, o) \in SUBSET (Agents \ {"scr"})
<1>1. Evaluate(a, s, o) \in SUBSET (Agents \ {"scr"})
  BY DEF Evaluate, Agents, Dynamic
<1>2. CASE Advances(s)
  <2>1. s.name \in AllNames /\ s.step \in 1..4 /\ s.step < Len(WORKFLOW_DEFINITIONS[s.name])
    BY <1>2 DEF Advances, WorkflowState
  <2>2. /\ WORKFLOW_DEFINITIONS[s.name] \in Seq(SUBSET Agents)
        /\ Len(WORKFLOW_DEFINITIONS[s.name]) \in 2..4
    BY <2>1, DefinitionsTyped
  <2>4. s.step + 1 \in 2..Len(WORKFLOW_DEFINITIONS[s.name])
    BY <2>1, <2>2
  <2>5. WORKFLOW_DEFINITIONS[s.name][s.step + 1] \in SUBSET (Agents \ {"scr"})
    BY <2>1, <2>4, DefinitionsTyped
  <2> QED BY <1>1, <1>2, <2>5 DEF NextAgents
<1> QED BY <1>1, <1>2 DEF NextAgents

\* Whatever a handler plans next is good on its own.
LEMMA GoodProgression ==
  ASSUME NEW w, NEW a \in Agents, NEW s \in WorkflowState, NEW o, NEW paused
  PROVE  Good("consumer", Progression(a, s, o, paused), w)
<1> DEFINE p == "consumer"
           who == NextAgents(a, s, o)
<1>1. Good(p, Finish(a, o), w)
  BY GoodPersist DEF Finish
<1>2. who \in SUBSET Agents /\ Triggers(p, who)
  BY NextAgentsTyped DEF Triggers
<1>3. Good(p, IF Advances(s) THEN <<Do("saveview")>> ELSE <<>>, w)
  <2>1. Do("saveview") \in Plain(p)
    BY PlainOperations DEF PlainCalls, Special, Calls
  <2> QED BY <2>1, PlainTuple, GoodEmpty
<1>4. Good(p, IF paused THEN <<>> ELSE TriggerAgents(who), w)
  BY <1>2, GoodTasks, GoodEmpty
<1> QED BY <1>1, <1>3, <1>4, GoodConcat DEF Progression

-----------------------------------------------------------------------------
(* The inductive invariant.                                                *)

LocalsOK(l, w) == l \in Locals /\ Sound(l.view, w) /\ Sound(l.copy, w)

StoresOK ==
  /\ wf \in WorkflowState /\ Sound(wf, row.written)
  /\ shared \in Snapshot
  /\ row \in [written : BOOLEAN, snap : Snapshot]
  /\ emitted \subseteq Topics
BusOK == topic \in Seq(Agents) /\ position \in 0..Len(topic) /\ committed \in 0..position
ControlOK ==
  /\ todo \in [Procs -> Seq(Operation)]
  /\ local \in [Procs -> Locals]
  /\ raised \in [Procs -> BOOLEAN]
  /\ \A p \in Procs : Good(p, todo[p], row.written) /\ LocalsOK(local[p], row.written)
EnvOK == called \subseteq Approvers /\ crashes \in 0..MaxCrashes

\* Whatever a task still has to do, it brings the workflow to rest only behind
\* an upsert, and no record anybody holds rests on a row that is not there.
IInv == StoresOK /\ BusOK /\ ControlOK /\ EnvOK

-----------------------------------------------------------------------------
(* How a task moves.                                                       *)

\* A row written backs more.
LEMMA GoodMore ==
  ASSUME NEW p, NEW ops, NEW w, NEW w2, Good(p, ops, w), w => w2
  PROVE  Good(p, ops, w2)
BY DEF Good, Backed

LEMMA GoodOne ==
  ASSUME NEW p, NEW w, NEW o \in Operation, ValidOp(p, o), Resting(o) => w
  PROVE  Good(p, <<o>>, w)
BY DEF Good, Backed

\* The head of what a task has to do, and what is left behind it.
LEMMA GoodHead ==
  ASSUME NEW p, NEW w, NEW ops, Good(p, ops, w), ops # <<>>
  PROVE  /\ Head(ops) \in Operation
         /\ ValidOp(p, Head(ops))
         /\ Resting(Head(ops)) => w
         /\ Head(ops).do # "upsert" \/ w => Good(p, Tail(ops), w)
<1>1. ops \in Seq(Operation) /\ Len(ops) \in Nat \ {0} /\ Head(ops) = ops[1]
  BY HeadTailProperties DEF Good
<1>2. ops[1] \in Operation /\ ValidOp(p, ops[1])
  BY <1>1, ElementOfSeq DEF Good
<1>3. Resting(ops[1]) => w
  <2>1. ~(\E j \in 1..Len(ops) : j < 1)
    BY <1>1
  <2> QED BY <1>1, <2>1 DEF Good, Backed
<1> QED BY <1>1, <1>2, <1>3, GoodTail

\* A task goes on with good operations and sound records.
LEMMA ContinueStep ==
  ASSUME ControlOK, NEW p \in Procs, NEW ops, NEW locals, Continue(p, ops, locals),
         row.written => row'.written,
         Good(p, ops, row'.written), LocalsOK(locals, row'.written)
  PROVE  ControlOK'
<1> DEFINE w == row.written
           w2 == row'.written
<1>1. Good(p, Settle(ops), w2)
  BY GoodSettle
<1>2. Settle(ops) \in Seq(Operation)
  BY <1>1 DEF Good
<1>3. LocalsOK(NoLocals, w2)
  BY NoLocalsTyped DEF LocalsOK
<1>4. /\ todo' = [todo EXCEPT ![p] = Settle(ops)]
      /\ local' = [local EXCEPT ![p] = IF Settle(ops) = <<>> THEN NoLocals ELSE locals]
      /\ raised' = raised
  BY DEF Continue
<1>5. todo' \in [Procs -> Seq(Operation)] /\ local' \in [Procs -> Locals]
      /\ raised' \in [Procs -> BOOLEAN]
  BY <1>2, <1>3, <1>4 DEF ControlOK, LocalsOK
<1>6. ASSUME NEW q \in Procs PROVE Good(q, todo'[q], w2) /\ LocalsOK(local'[q], w2)
  <2>1. CASE q = p
    BY <1>1, <1>3, <1>4, <2>1 DEF ControlOK
  <2>2. CASE q # p
    <3>1. todo'[q] = todo[q] /\ local'[q] = local[q]
      BY <1>4, <2>2 DEF ControlOK
    <3>2. Good(q, todo[q], w2)
      BY GoodMore DEF ControlOK
    <3>3. LocalsOK(local[q], w2)
      BY DEF ControlOK, LocalsOK, Sound
    <3> QED BY <3>1, <3>2, <3>3
  <2> QED BY <2>1, <2>2
<1> QED BY <1>5, <1>6 DEF ControlOK

\* A task raises.
LEMMA ThrowStep ==
  ASSUME ControlOK, NEW p \in Procs, Throw(p), row' = row
  PROVE  ControlOK'
<1> DEFINE w == row.written
           ops == Unwind(todo[p])
           locals == [local[p] EXCEPT !.snap = NoSnapshot, !.keys = {}]
<1>1. Good(p, ops, w)
  <2>1. Good(p, todo[p], w)
    BY DEF ControlOK
  <2> QED BY <2>1, GoodHandlers, GoodUnwind
<1>2. ops \in Seq(Operation)
  BY <1>1 DEF Good
<1>3. LocalsOK(NoLocals, w)
  BY NoLocalsTyped DEF LocalsOK
<1>4. LocalsOK(locals, w)
  BY OutTyped DEF ControlOK, LocalsOK, Locals
<1> DEFINE bare == \A i \in DOMAIN todo[p] : todo[p][i].do # "catch"
<1>5. /\ todo' = [todo EXCEPT ![p] = ops]
      /\ local' = [local EXCEPT ![p] = IF ops = <<>> THEN NoLocals ELSE locals]
      /\ raised' = [raised EXCEPT ![p] = bare]
  BY DEF Throw, ControlOK
<1>6. bare \in BOOLEAN
  OBVIOUS
<1> HIDE DEF bare, ops, locals
<1>7. todo' \in [Procs -> Seq(Operation)] /\ local' \in [Procs -> Locals]
      /\ raised' \in [Procs -> BOOLEAN]
  BY <1>2, <1>3, <1>4, <1>5, <1>6 DEF ControlOK, LocalsOK
<1>8. ASSUME NEW q \in Procs PROVE Good(q, todo'[q], w) /\ LocalsOK(local'[q], w)
  <2>1. CASE q = p
    BY <1>1, <1>3, <1>4, <1>5, <2>1 DEF ControlOK
  <2>2. CASE q # p
    BY <1>5, <2>2 DEF ControlOK
  <2> QED BY <2>1, <2>2
<1> QED BY <1>7, <1>8 DEF ControlOK

\* The update that has loaded is the same update with its save to come.
LEMMA SaveOp ==
  ASSUME NEW p, NEW w, NEW o \in Operation, ValidOp(p, o), o.do = "load", Resting(o) => w
  PROVE  Good(p, <<[o EXCEPT !.do = "save"]>>, w)
<1> DEFINE s == [o EXCEPT !.do = "save"]
<1>1. s \in Operation /\ s.do = "save" /\ s.x = o.x
  BY DEF Operation, Calls
<1> HIDE DEF s
<1>2. ValidOp(p, s) /\ (Resting(s) => w)
  BY <1>1 DEF ValidOp, Resting
<1>3. Good(p, <<s>>, w)
  BY <1>1, <1>2, GoodOne
<1> QED BY <1>3 DEF s

\* What the save of a valid update is asked to change.
LEMMA SaveArguments ==
  ASSUME NEW p, NEW w, NEW o \in Operation, ValidOp(p, o), o.do = "save", Resting(o) => w
  PROVE  o.x \in Kinds /\ o.who \in SUBSET Agents /\ (o.x \in {"complete", "pause"} => w)
BY DEF Operation, ValidOp, Resting

\* What a task finds at its head, and that it is free to go on behind it.
LEMMA AtHead ==
  ASSUME ControlOK, NEW p \in Procs, todo[p] # <<>>
  PROVE  /\ This(p) \in Operation
         /\ ValidOp(p, This(p))
         /\ Resting(This(p)) => row.written
         /\ This(p).do # "upsert" => Good(p, Rest(p), row.written)
         /\ Good(p, Rest(p), TRUE)
         /\ LocalsOK(local[p], row.written)
<1>1. Good(p, todo[p], row.written) /\ LocalsOK(local[p], row.written)
  BY DEF ControlOK
<1>2. Good(p, todo[p], TRUE)
  BY <1>1, GoodMore
<1>3. /\ Head(todo[p]) \in Operation
      /\ ValidOp(p, Head(todo[p]))
      /\ Resting(Head(todo[p])) => row.written
      /\ Head(todo[p]).do # "upsert" \/ row.written => Good(p, Tail(todo[p]), row.written)
  <2> HIDE DEF ControlOK
  <2> QED BY <1>1, GoodHead
<1>4. Good(p, Rest(p), TRUE)
  BY <1>2, GoodHead DEF Rest
<1> QED BY <1>1, <1>3, <1>4 DEF This, Rest

-----------------------------------------------------------------------------
(* One lemma per group of actions: each keeps the inductive invariant.     *)

LEMMA RecordSteps ==
  ASSUME IInv, NEW p \in Procs, Load(p) \/ Save(p) \/ View(p) \/ SaveView(p)
  PROVE  IInv'
<1> USE DEF IInv
<1>0. todo[p] # <<>> /\ ControlOK /\ row.written \in BOOLEAN
  BY DEF Load, Save, View, SaveView, At, StoresOK
<1>1. /\ This(p) \in Operation /\ ValidOp(p, This(p))
      /\ Resting(This(p)) => row.written
      /\ This(p).do # "upsert" => Good(p, Rest(p), row.written)
      /\ LocalsOK(local[p], row.written)
  BY <1>0, AtHead
<1>2. CASE Load(p)
  <2> DEFINE o == [This(p) EXCEPT !.do = "save"]
             l == [local[p] EXCEPT !.copy = wf]
  <2>1. This(p).do = "load"
    BY <1>2 DEF Load, At, This
  <2>4. Good(p, <<o>>, row.written)
    BY <1>1, <2>1, SaveOp
  <2>5. Good(p, <<o>> \o Rest(p), row.written)
    BY <1>1, <2>1, <2>4, GoodConcat
  <2>6. LocalsOK(l, row.written)
    BY <1>1 DEF LocalsOK, Locals, StoresOK
  <2>7. Continue(p, <<o>> \o Rest(p), l) /\ UNCHANGED <<stores, bus, env>>
    BY <1>2 DEF Load
  <2>8. ControlOK'
    BY <1>0, <2>5, <2>6, <2>7, ContinueStep DEF stores
  <2> QED BY <2>7, <2>8 DEF stores, bus, env, StoresOK, BusOK, EnvOK
<1>3. CASE Save(p)
  <2> DEFINE k == This(p).x
             who == This(p).who
             l == [local[p] EXCEPT !.copy = NoState]
  <2>1. This(p).do = "save"
    BY <1>3 DEF Save, At, This
  <2>2. k \in Kinds /\ who \in SUBSET Agents /\ (k \in {"complete", "pause"} => row.written)
    BY <1>1, <2>1, SaveArguments
  <2>3. local[p].copy \in WorkflowState /\ Sound(local[p].copy, row.written)
    BY <1>1 DEF LocalsOK, Locals
  <2>4. /\ Changed(k, who, local[p].copy) \in WorkflowState
        /\ Sound(Changed(k, who, local[p].copy), row.written)
    BY <2>2, <2>3, ChangedTyped
  <2>5. LocalsOK(l, row.written)
    BY <1>1, NoLocalsTyped DEF LocalsOK, Locals
  <2>6. /\ wf' = Changed(k, who, local[p].copy)
        /\ Continue(p, Rest(p), l)
        /\ UNCHANGED <<shared, row, emitted, bus, env>>
    BY <1>3 DEF Save
  <2>7. ControlOK'
    BY <1>0, <1>1, <2>1, <2>5, <2>6, ContinueStep
  <2> QED BY <2>4, <2>6, <2>7 DEF bus, env, StoresOK, BusOK, EnvOK
<1>4. CASE View(p)
  <2> DEFINE l == [local[p] EXCEPT !.view = wf]
  <2>1. This(p).do = "view" /\ Continue(p, Rest(p), l) /\ UNCHANGED <<stores, bus, env>>
    BY <1>4 DEF View, At, This
  <2>2. LocalsOK(l, row.written)
    BY <1>1 DEF LocalsOK, Locals, StoresOK
  <2>3. ControlOK'
    BY <1>0, <1>1, <2>1, <2>2, ContinueStep DEF stores
  <2> QED BY <2>1, <2>3 DEF stores, bus, env, StoresOK, BusOK, EnvOK
<1>5. CASE SaveView(p)
  <2>1. /\ This(p).do = "saveview" /\ wf' = local[p].view
        /\ Continue(p, Rest(p), local[p]) /\ UNCHANGED <<shared, row, emitted, bus, env>>
    BY <1>5 DEF SaveView, At, This
  <2>2. wf' \in WorkflowState /\ Sound(wf', row.written)
    BY <1>1, <2>1 DEF LocalsOK, Locals
  <2>3. ControlOK'
    BY <1>0, <1>1, <2>1, ContinueStep
  <2> QED BY <2>1, <2>2, <2>3 DEF bus, env, StoresOK, BusOK, EnvOK
<1> QED BY <1>2, <1>3, <1>4, <1>5

\* A step that leaves the stores alone and goes on, or raises.
LEMMA QuietStep ==
  ASSUME IInv, NEW p \in Procs, UNCHANGED <<stores, bus, env>>,
         \/ Throw(p)
         \/ \E ops, locals : /\ Continue(p, ops, locals)
                             /\ Good(p, ops, row.written)
                             /\ LocalsOK(locals, row.written)
  PROVE  IInv'
<1>1. ControlOK /\ row' = row
  BY DEF IInv, stores
<1>2. ControlOK'
  BY <1>1, ContinueStep, ThrowStep
<1> QED BY <1>2 DEF IInv, stores, bus, env, StoresOK, BusOK, EnvOK

LEMMA FinalizerSteps ==
  ASSUME IInv, NEW p \in Procs,
         \/ Scan(p) \/ Read(p) \/ Upsert(p) \/ Verify(p) \/ ClearScan(p) \/ Delete(p)
         \/ Emit(p)
  PROVE  IInv'
<1>0. todo[p] # <<>> /\ ControlOK /\ row.written \in BOOLEAN
  BY DEF Scan, Read, Upsert, Verify, ClearScan, Delete, Emit, At, StoresOK, IInv
<1>1. /\ This(p) \in Operation /\ ValidOp(p, This(p))
      /\ This(p).do # "upsert" => Good(p, Rest(p), row.written)
      /\ Good(p, Rest(p), TRUE)
      /\ LocalsOK(local[p], row.written)
  BY <1>0, AtHead
<1>2. /\ local[p] \in Locals /\ shared \in Snapshot
      /\ Sound(local[p].view, row.written) /\ Sound(local[p].copy, row.written)
  BY <1>1 DEF LocalsOK, IInv, StoresOK
<1>3. CASE Scan(p)
  <2> DEFINE keys == {a \in Agents : Present(shared[a])}
             l == [local[p] EXCEPT !.keys = keys, !.snap = NoSnapshot]
  <2>1. This(p).do = "scan" /\ UNCHANGED <<stores, bus, env>>
    BY <1>3 DEF Scan, At, This
  <2>2. keys \subseteq Agents
    OBVIOUS
  <2>3. Throw(p) \/ Continue(p, Rest(p), l) \/ Continue(p, <<Do("read")>> \o Rest(p), l)
    BY <1>3 DEF Scan, Prepared
  <2> HIDE DEF keys
  <2>4. LocalsOK(l, row.written)
    BY <1>2, <2>2, OutTyped DEF LocalsOK, Locals
  <2>5. Good(p, Rest(p), row.written)
    BY <1>1, <2>1
  <2>6. Good(p, <<Do("read")>> \o Rest(p), row.written)
    <3>1. Do("read") \in Plain(p)
      BY PlainOperations DEF PlainCalls, Special, Calls
    <3> QED BY <2>5, <3>1, PlainTuple, GoodConcat
  <2> HIDE DEF l
  <2> QED BY <2>1, <2>3, <2>4, <2>5, <2>6, QuietStep
<1>4. CASE Read(p)
  <2>1. PICK a \in local[p].keys :
          LET seen == IF Present(shared[a]) THEN shared[a] ELSE EmptyOutput
              l == [local[p] EXCEPT !.keys = @ \ {a}, !.snap[a] = seen]
          IN  IF l.keys = {} THEN Prepared(p, Rest(p), l) ELSE Continue(p, todo[p], l)
    BY <1>4 DEF Read
  <2> DEFINE seen == IF Present(shared[a]) THEN shared[a] ELSE EmptyOutput
             l == [local[p] EXCEPT !.keys = @ \ {a}, !.snap[a] = seen]
  <2>2. This(p).do = "read" /\ UNCHANGED <<stores, bus, env>>
    BY <1>4 DEF Read, At, This
  <2>3. Throw(p) \/ Continue(p, Rest(p), l) \/ Continue(p, todo[p], l)
    BY <2>1 DEF Prepared
  <2>4. seen \in Output
    BY <1>2, OutTyped DEF Snapshot, Locals
  <2> HIDE DEF seen
  <2>5. LocalsOK(l, row.written)
    BY <1>2, <2>4 DEF LocalsOK, Locals, Snapshot
  <2>6. Good(p, Rest(p), row.written) /\ Good(p, todo[p], row.written)
    BY <1>0, <1>1, <2>2 DEF ControlOK
  <2> HIDE DEF l
  <2> QED BY <2>2, <2>3, <2>5, <2>6, QuietStep
<1>5. CASE Upsert(p)
  <2>1. /\ row' = [written |-> TRUE, snap |-> local[p].snap]
        /\ Continue(p, Rest(p), local[p]) /\ UNCHANGED <<wf, shared, emitted, bus, env>>
    BY <1>5 DEF Upsert
  <2>2. row' \in [written : BOOLEAN, snap : Snapshot] /\ row'.written = TRUE
    BY <1>2, <2>1 DEF Locals
  <2>3. LocalsOK(local[p], row'.written) /\ Sound(wf, row'.written)
    BY <1>2, <2>2 DEF LocalsOK, Sound
  <2>4. ControlOK'
    BY <1>0, <1>1, <2>1, <2>2, <2>3, ContinueStep
  <2> QED BY <2>1, <2>2, <2>3, <2>4 DEF IInv, bus, env, StoresOK, BusOK, EnvOK
<1>6. CASE Verify(p)
  <2>1. /\ This(p).do = "verify" /\ UNCHANGED <<stores, bus, env>>
        /\ Throw(p) \/ Continue(p, Rest(p), local[p])
    BY <1>6 DEF Verify, At, This
  <2>2. Good(p, Rest(p), row.written)
    BY <1>1, <2>1
  <2> QED BY <1>1, <2>1, <2>2, QuietStep
<1>7. CASE ClearScan(p)
  <2> DEFINE keys == {a \in Agents : Present(shared[a])}
             l == [local[p] EXCEPT !.keys = keys]
  <2>1. /\ This(p).do = "clearscan" /\ UNCHANGED <<stores, bus, env>>
        /\ Continue(p, Rest(p), l)
    BY <1>7 DEF ClearScan, At, This
  <2>2. keys \subseteq Agents
    OBVIOUS
  <2> HIDE DEF keys
  <2>3. LocalsOK(l, row.written)
    BY <1>2, <2>2 DEF LocalsOK, Locals
  <2>4. Good(p, Rest(p), row.written)
    BY <1>1, <2>1
  <2> HIDE DEF l
  <2> QED BY <2>1, <2>3, <2>4, QuietStep
<1>8. CASE Delete(p)
  <2> DEFINE l == [local[p] EXCEPT !.keys = {}, !.snap = NoSnapshot]
  <2>1. /\ This(p).do = "delete" /\ UNCHANGED <<wf, row, emitted, bus, env>>
        /\ shared' = [a \in Agents |-> IF a \in local[p].keys THEN NoOutput ELSE shared[a]]
        /\ Continue(p, Rest(p), l)
    BY <1>8 DEF Delete, At, This
  <2>2. shared' \in Snapshot
    BY <1>2, <2>1, OutTyped DEF Snapshot
  <2>3. LocalsOK(l, row.written)
    BY <1>2, OutTyped DEF LocalsOK, Locals
  <2>4. Good(p, Rest(p), row.written)
    BY <1>1, <2>1
  <2> HIDE DEF l
  <2>5. ControlOK'
    BY <1>0, <2>1, <2>3, <2>4, ContinueStep
  <2> QED BY <2>1, <2>2, <2>5 DEF IInv, bus, env, StoresOK, BusOK, EnvOK
<1>9. CASE Emit(p)
  <2>1. /\ This(p).do = "emit" /\ UNCHANGED <<wf, shared, row, bus, env>>
        /\ emitted' = emitted \union {This(p).x}
        /\ Continue(p, Rest(p), local[p])
    BY <1>9 DEF Emit, At, This
  <2>2. This(p).x \in Topics /\ Good(p, Rest(p), row.written)
    BY <1>1, <2>1 DEF ValidOp
  <2>3. ControlOK'
    BY <1>0, <1>1, <2>1, <2>2, ContinueStep
  <2> QED BY <2>1, <2>2, <2>3 DEF IInv, bus, env, StoresOK, BusOK, EnvOK
<1> QED BY <1>3, <1>4, <1>5, <1>6, <1>7, <1>8, <1>9

\* What a plain operation may be put before.
LEMMA GoodBefore ==
  ASSUME NEW p, NEW w, NEW a, NEW b, Good(p, a, w) \/ a = <<>>, Good(p, b, w)
  PROVE  Good(p, a \o b, w)
BY GoodEmpty, GoodConcat

\* Moving to the next step keeps the index within the plan.
LEMMA AdvanceTyped ==
  ASSUME NEW s \in WorkflowState, NEW w, Sound(s, w)
  PROVE  LET m == [s EXCEPT !.step = IF Advances(s) THEN @ + 1 ELSE @]
         IN  m \in WorkflowState /\ Sound(m, w)
<1> DEFINE n == IF Advances(s) THEN s.step + 1 ELSE s.step
           m == [s EXCEPT !.step = n]
<1>1. s.name \in AllNames /\ s.step \in 1..4 /\ s.step <= Len(WORKFLOW_DEFINITIONS[s.name])
  BY DEF WorkflowState
<1> DEFINE len == Len(WORKFLOW_DEFINITIONS[s.name])
<1>2. len \in 2..4
  BY <1>1, DefinitionsTyped
<1>3. Advances(s) => s.step < len
  BY DEF Advances
<1> HIDE DEF len
<1>a. s.step \in 1..4 /\ s.step <= len
  BY <1>1 DEF len
<1>4. n \in 1..4 /\ n <= len
  <2>1. CASE Advances(s)
    BY <1>2, <1>3, <1>a, <2>1
  <2>2. CASE ~Advances(s)
    BY <1>2, <1>a, <2>2
  <2> QED BY <2>1, <2>2
<1> HIDE DEF n
<1>5. m.name = s.name /\ m.step = n /\ m.status = s.status /\ m.paused = s.paused
  BY DEF WorkflowState
<1>6. m \in WorkflowState
  BY <1>4, <1>5 DEF WorkflowState, len
<1> QED BY <1>5, <1>6 DEF Sound, n

LEMMA PlanSteps ==
  ASSUME IInv, NEW p \in Procs, Surface(p) \/ CheckScr(p) \/ Plan(p)
  PROVE  IInv'
<1>0. todo[p] # <<>> /\ ControlOK
  BY DEF Surface, CheckScr, Plan, At, IInv
<1> DEFINE w == row.written
<1>1. /\ This(p) \in Operation
      /\ This(p).do # "upsert" => Good(p, Rest(p), w)
      /\ LocalsOK(local[p], w)
  BY <1>0, AtHead
<1>2. /\ local[p] \in Locals /\ shared \in Snapshot
      /\ Sound(local[p].view, w) /\ Sound(local[p].copy, w)
      /\ This(p).who \subseteq Agents
  BY <1>1 DEF LocalsOK, IInv, StoresOK, Operation
<1>p. p = "consumer"
  BY <1>0, AtHead DEF Surface, CheckScr, Plan, At, This, ValidOp
<1>3. /\ Update("escalate", {}) \in Plain(p) /\ Do("view") \in Plain(p)
      /\ \A a \in Agents : For("checkscr", a) \in Plain(p)
  BY <1>p, PlainOperations DEF PlainCalls, Special, Calls, Kinds
<1>4. CASE Surface(p)
  <2>1. PICK a \in This(p).who :
          LET o == shared[a]
              s == local[p].view
              next == IF ~Present(o) THEN <<>>
                      ELSE IF MustEscalate(s, o)
                      THEN <<Update("escalate", {}), Do("view")>> \o Progress(a)
                      ELSE IF s.flow = "fixed" /\ s.name \in SCR_REQUIRED_WORKFLOWS /\ a = "scr"
                      THEN <<For("checkscr", a)>>
                      ELSE Progress(a)
          IN  Continue(p, next \o Rest(p), [local[p] EXCEPT !.surface = o])
    BY <1>4 DEF Surface
  <2> DEFINE l == [local[p] EXCEPT !.surface = shared[a]]
             n == <<Update("escalate", {}), Do("view")>> \o Progress(a)
  <2>2. This(p).do = "surface" /\ UNCHANGED <<stores, bus, env>> /\ a \in Agents
    BY <1>2, <1>4 DEF Surface, At, This
  <2>3. /\ Good(p, Progress(a), w) /\ Good(p, n, w) /\ Good(p, <<For("checkscr", a)>>, w)
        /\ Good(p, <<>>, w) /\ Good(p, Rest(p), w)
    <3>1. Good(p, Progress(a), w)
      BY <1>p, <2>2, GoodTasks
    <3>2. Good(p, <<Update("escalate", {}), Do("view")>>, w)
      BY <1>3, PlainTuple
    <3>3. Good(p, <<For("checkscr", a)>>, w)
      BY <1>3, <2>2, PlainTuple
    <3> QED BY <1>1, <2>2, <3>1, <3>2, <3>3, GoodConcat, GoodEmpty
  <2>4. LocalsOK(l, w)
    BY <1>2, <2>2 DEF LocalsOK, Locals, Snapshot
  <2>5. \/ Continue(p, <<>> \o Rest(p), l) \/ Continue(p, n \o Rest(p), l)
        \/ Continue(p, <<For("checkscr", a)>> \o Rest(p), l)
        \/ Continue(p, Progress(a) \o Rest(p), l)
    BY <2>1
  <2> HIDE DEF n, l
  <2>6. \E ops, locals : Continue(p, ops, locals) /\ Good(p, ops, w) /\ LocalsOK(locals, w)
    BY <2>3, <2>4, <2>5, GoodConcat
  <2> QED BY <2>2, <2>6, QuietStep
<1>5. CASE CheckScr(p)
  <2>1. /\ This(p).do = "checkscr" /\ UNCHANGED <<stores, bus, env>>
        /\ \/ Continue(p, Progress("scr") \o Rest(p), local[p])
           \/ Continue(p, (Fail \o Finalize) \o Rest(p), local[p])
    BY <1>5 DEF CheckScr, At, This
  <2>2. Good(p, Progress("scr"), w) /\ Good(p, Rest(p), w)
    BY <1>1, <1>p, <2>1, GoodTasks DEF Agents
  <2>3. Good(p, Fail \o Finalize, w)
    BY GoodHandlers, GoodPersist, GoodConcat
  <2>4. \E ops, locals : Continue(p, ops, locals) /\ Good(p, ops, w) /\ LocalsOK(locals, w)
    BY <1>1, <2>1, <2>2, <2>3, GoodConcat
  <2> QED BY <2>1, <2>4, QuietStep
<1>6. CASE Plan(p)
  <2> DEFINE s == local[p].view
             o == local[p].surface
             paused == IF At(p, "plan") THEN s.paused ELSE This(p).x = "paused"
             again(a) == Op("next", IF paused THEN "paused" ELSE "", {a})
             l == [local[p] EXCEPT !.view.step = IF Advances(s) THEN @ + 1 ELSE @]
  <2>1. PICK a \in This(p).who :
          IF At(p, "plan") /\ MustEscalate(s, o)
          THEN Continue(p, <<Update("escalate", {}), Do("view"), again(a)>> \o Rest(p), local[p])
          ELSE Continue(p, Progression(a, s, o, paused) \o Rest(p), l)
    BY <1>6 DEF Plan
  <2>2. /\ This(p).do \in {"plan", "next"} /\ UNCHANGED <<stores, bus, env>> /\ a \in Agents
    BY <1>2, <1>6 DEF Plan, At, This
  <2>3. s \in WorkflowState
    BY <1>2 DEF Locals
  <2> DEFINE m == [s EXCEPT !.step = IF Advances(s) THEN @ + 1 ELSE @]
  <2>4. m \in WorkflowState /\ Sound(m, w)
    BY <1>2, <2>3, AdvanceTyped
  <2>5. l = [local[p] EXCEPT !.view = m]
    BY <1>2 DEF Locals
  <2> HIDE DEF l, m
  <2>6. LocalsOK(l, w)
    BY <1>2, <2>4, <2>5 DEF LocalsOK, Locals
  <2>7. again(a) \in Plain(p)
    BY <1>p, <2>2 DEF Op, Plain, Calls, Arguments, Operation, ValidOp, Resting
  <2> HIDE DEF again, paused
  <2>8. Good(p, <<Update("escalate", {}), Do("view"), again(a)>>, w)
    BY <1>3, <2>7, PlainTuple
  <2>9. Good(p, Progression(a, s, o, paused), w)
    BY <1>p, <2>2, <2>3, GoodProgression
  <2>10. \E ops, locals : Continue(p, ops, locals) /\ Good(p, ops, w) /\ LocalsOK(locals, w)
    <3>1. Good(p, Rest(p), w)
      BY <1>1, <2>2
    <3>2. /\ Good(p, <<Update("escalate", {}), Do("view"), again(a)>> \o Rest(p), w)
          /\ Good(p, Progression(a, s, o, paused) \o Rest(p), w)
      BY <2>8, <2>9, <3>1, GoodConcat
    <3> QED BY <1>1, <2>1, <2>6, <3>2
  <2> QED BY <2>2, <2>10, QuietStep
<1> QED BY <1>4, <1>5, <1>6

LEMMA TaskSteps ==
  ASSUME IInv, NEW p \in Procs, Gather(p) \/ Await(p) \/ Raise(p) \/ IfRunning(p)
  PROVE  IInv'
<1>0. todo[p] # <<>> /\ ControlOK
  BY DEF Gather, Await, Raise, IfRunning, At, IInv
<1> DEFINE w == row.written
<1>1. /\ This(p) \in Operation
      /\ This(p).do # "upsert" => Good(p, Rest(p), w)
      /\ LocalsOK(local[p], w)
  BY <1>0, AtHead
<1> DEFINE who == This(p).who
<1>2. who \in SUBSET Agents
  BY <1>1 DEF Operation
<1> HIDE DEF who
<1>3. CASE Gather(p)
  <2> DEFINE wait == <<Op("await", "", who)>> \o Rest(p)
  <2>1. /\ This(p).do = "gather" /\ UNCHANGED <<local, stores, bus, env>>
        /\ todo' = [q \in Procs |-> IF q = p THEN wait
                                       ELSE IF q \in who THEN AgentRun(q) ELSE todo[q]]
        /\ raised' = [q \in Procs |-> IF q \in who THEN FALSE ELSE raised[q]]
    BY <1>3 DEF Gather, At, This, who
  <2>2. Good(p, wait, w)
    <3>a. Triggers(p, who)
      BY <1>0, <2>1, AtHead DEF ValidOp, who
    <3>1. Op("await", "", who) \in Plain(p)
      BY <1>2, <3>a, PlainOperations
    <3> QED BY <1>1, <2>1, <3>1, PlainTuple, GoodConcat
  <2> HIDE DEF wait
  <2>3. ASSUME NEW q \in Procs PROVE Good(q, todo'[q], w)
    <3>1. CASE q = p
      BY <2>1, <2>2, <3>1
    <3>2. CASE q # p /\ q \in who
      <4>1. todo'[q] = AgentRun(q) /\ q \in Agents
        BY <1>2, <2>1, <3>2
      <4> QED BY <4>1, GoodAgentRun
    <3>3. CASE q # p /\ q \notin who
      <4>1. todo'[q] = todo[q]
        BY <2>1, <3>3
      <4> QED BY <1>0, <4>1 DEF ControlOK
    <3> QED BY <3>1, <3>2, <3>3
  <2>4. todo' \in [Procs -> Seq(Operation)]
    <3>1. \A q \in Procs : todo'[q] \in Seq(Operation)
      BY <2>3 DEF Good
    <3>2. DOMAIN todo' = Procs /\ todo' = [q \in Procs |-> todo'[q]]
      BY <2>1
    <3> QED BY <3>1, <3>2
  <2>5. raised' \in [Procs -> BOOLEAN]
    BY <1>0, <2>1 DEF ControlOK
  <2>6. ControlOK'
    BY <1>0, <2>1, <2>3, <2>4, <2>5 DEF ControlOK, stores
  <2> QED BY <2>1, <2>6 DEF IInv, stores, bus, env, StoresOK, BusOK, EnvOK
<1>4. CASE Await(p)
  <2> DEFINE failed == {q \in who : raised[q]}
             first == IF "web" \in failed THEN {"web"}
                      ELSE IF "asm" \in failed THEN {"asm"} ELSE failed
             ops == <<Update("failed", first), Do("raise")>>
  <2>1. /\ This(p).do = "await" /\ UNCHANGED <<stores, bus, env>>
        /\ Continue(p, Rest(p), local[p]) \/ Continue(p, ops \o Rest(p), local[p])
    BY <1>4 DEF Await, At, This, who
  <2>2. first \in SUBSET Agents
    BY <1>2
  <2> HIDE DEF first
  <2>3. Good(p, ops, w)
    <3>1. Update("failed", first) \in Plain(p) /\ Do("raise") \in Plain(p)
      BY <2>2, PlainOperations DEF PlainCalls, Special, Calls, Kinds
    <3> QED BY <3>1, PlainTuple
  <2> HIDE DEF ops
  <2>4. \E oo, locals : Continue(p, oo, locals) /\ Good(p, oo, w) /\ LocalsOK(locals, w)
    BY <1>1, <2>1, <2>3, GoodConcat
  <2> QED BY <2>1, <2>4, QuietStep
<1>5. CASE Raise(p)
  BY <1>5, QuietStep DEF Raise
<1>6. CASE IfRunning(p)
  <2> DEFINE ops == Fail \o Finalize \o <<Catch("skip")>>
  <2>1. /\ UNCHANGED <<stores, bus, env>>
        /\ Continue(p, ops, local[p]) \/ Continue(p, <<>>, local[p])
    BY <1>6 DEF IfRunning
  <2>2. Good(p, ops, w)
    <3>1. Catch("skip") \in Plain(p)
      BY PlainOperations DEF Handlers
    <3>2. Good(p, <<Catch("skip")>>, w)
      BY <3>1, PlainTuple
    <3> QED BY <3>2, GoodHandlers, GoodPersist, GoodConcat
  <2> HIDE DEF ops
  <2>3. \E oo, locals : Continue(p, oo, locals) /\ Good(p, oo, w) /\ LocalsOK(locals, w)
    BY <1>1, <2>1, <2>2, GoodEmpty
  <2> QED BY <2>1, <2>3, QuietStep
<1> QED BY <1>3, <1>4, <1>5, <1>6

\* A step that writes one section of the shared memory and goes on.
LEMMA WritingStep ==
  ASSUME IInv, NEW p \in Procs, shared' \in Snapshot,
         UNCHANGED <<wf, row, emitted, bus, env>>,
         \/ Throw(p)
         \/ Continue(p, Rest(p), local[p]) /\ todo[p] # <<>> /\ This(p).do # "upsert"
  PROVE  IInv'
<1>1. ControlOK'
  <2>1. CASE Throw(p)
    BY <2>1, ThrowStep DEF IInv
  <2>2. CASE Continue(p, Rest(p), local[p]) /\ todo[p] # <<>> /\ This(p).do # "upsert"
    BY <2>2, AtHead, ContinueStep DEF IInv
  <2> QED BY <2>1, <2>2
<1> QED BY <1>1 DEF IInv, bus, env, StoresOK, BusOK, EnvOK

\* An agent writes an output of the shape the others read.
LEMMA AgentOutputTyped ==
  ASSUME NEW p, p \in {"cma", "reporting"} \union Dynamic, local[p] \in Locals
  PROVE  AgentOutput(p) \in Output
<1>1. /\ local[p].scr \in Output /\ local[p].cma \in Output
  BY DEF Locals
<1> DEFINE scr == local[p].scr
           cma == local[p].cma
           level == IF "critical" \in {scr.level, cma.level} THEN "critical" ELSE scr.level
<1>2. /\ scr.level \in ScanLevels \union {"correlated"}
      /\ level \in ScanLevels \union {"correlated"}
      /\ scr.human \in BOOLEAN /\ cma.human \in BOOLEAN
  BY <1>1 DEF Output, ScanLevels
<1>3. CASE p = "cma"
  <2>1. AgentOutput(p) = Out("COMPLETED", scr.level, scr.level \in {"secrets", "critical"})
    BY <1>3 DEF AgentOutput, Dynamic
  <2> QED BY <1>2, <2>1 DEF Out, Output
<1>4. CASE p = "reporting"
  <2>1. AgentOutput(p) =
          Out("COMPLETED", level, scr.human \/ cma.human \/ level = "critical")
    BY <1>4 DEF AgentOutput, Dynamic
  <2> HIDE DEF level
  <2> QED BY <1>2, <2>1 DEF Out, Output
<1>5. CASE p \in Dynamic
  <2>1. AgentOutput(p) = Out("COMPLETED", "correlated", FALSE)
    BY <1>5 DEF AgentOutput, Dynamic
  <2> QED BY <2>1 DEF Out, Output
<1> QED BY <1>3, <1>4, <1>5

LEMMA WriteTyped ==
  ASSUME shared \in Snapshot, NEW p, NEW a, NEW o \in Output, Write(p, a, o)
  PROVE  shared' \in Snapshot
BY DEF Write, Snapshot

LEMMA OutputSteps ==
  ASSUME IInv, NEW p \in Procs,
         Placeholder(p) \/ ScrOutput(p) \/ WriteOutput(p) \/ WriteDefault(p)
  PROVE  IInv'
<1>0. todo[p] # <<>> /\ ControlOK /\ shared \in Snapshot
  BY DEF Placeholder, ScrOutput, WriteOutput, WriteDefault, At, IInv, StoresOK
<1>1. ValidOp(p, This(p)) /\ LocalsOK(local[p], row.written)
  BY <1>0, AtHead
<1>2. CASE Placeholder(p)
  <2>1. /\ This(p).do = "placeholder" /\ Write(p, "scr", Out("RUNNING", "low", FALSE))
        /\ Continue(p, Rest(p), local[p]) /\ UNCHANGED <<wf, row, emitted, bus, env>>
    BY <1>2 DEF Placeholder, At, This
  <2>2. Out("RUNNING", "low", FALSE) \in Output
    BY OutTyped DEF ScanLevels
  <2>3. shared' \in Snapshot
    BY <1>0, <2>1, <2>2, WriteTyped
  <2> QED BY <1>0, <2>1, <2>3, WritingStep
<1>3. CASE ScrOutput(p)
  <2> DEFINE x == This(p).x
             o == IF x = "FAILED" THEN Out("FAILED", "low", FALSE)
                  ELSE Out("COMPLETED", x, x = "critical")
  <2>1. /\ This(p).do = "output" /\ Write(p, "scr", o)
        /\ Continue(p, Rest(p), local[p]) /\ UNCHANGED <<wf, row, emitted, bus, env>>
    BY <1>3 DEF ScrOutput, At, This
  <2>2. x \in ScanLevels \union {"FAILED"}
    BY <1>1, <2>1 DEF ValidOp
  <2>3. o \in Output
    BY <2>2 DEF Out, Output, ScanLevels
  <2> HIDE DEF o
  <2>4. shared' \in Snapshot
    BY <1>0, <2>1, <2>3, WriteTyped
  <2> QED BY <1>0, <2>1, <2>4, WritingStep
<1>4. CASE WriteOutput(p)
  <2>1. /\ This(p).do = "write" /\ UNCHANGED <<wf, row, emitted, bus, env>>
        /\ \/ Write(p, p, AgentOutput(p)) /\ Continue(p, Rest(p), local[p])
           \/ Throw(p) /\ UNCHANGED shared
    BY <1>4 DEF WriteOutput, At, This
  <2>2. shared' \in Snapshot
    <3>1. CASE Write(p, p, AgentOutput(p)) /\ p \in Agents
      <4>1. p \in {"cma", "reporting"} \union Dynamic
        BY <1>1, <2>1, <3>1 DEF ValidOp, Agents
      <4>2. AgentOutput(p) \in Output
        BY <1>1, <4>1, AgentOutputTyped DEF LocalsOK
      <4> QED BY <1>0, <3>1, <4>2, WriteTyped
    <3>2. CASE Write(p, p, AgentOutput(p)) /\ p \notin Agents
      BY <1>0, <3>2 DEF Write, Snapshot
    <3>3. CASE UNCHANGED shared
      BY <1>0, <3>3
    <3> QED BY <2>1, <3>1, <3>2, <3>3
  <2> QED BY <1>0, <2>1, <2>2, WritingStep
<1>5. CASE WriteDefault(p)
  <2>1. /\ This(p).do = "default" /\ Write(p, p, Out("COMPLETED", "low", FALSE))
        /\ Continue(p, Rest(p), local[p]) /\ UNCHANGED <<wf, row, emitted, bus, env>>
    BY <1>5 DEF WriteDefault, At, This
  <2>2. Out("COMPLETED", "low", FALSE) \in Output
    BY OutTyped DEF ScanLevels
  <2>3. shared' \in Snapshot
    BY <1>0, <2>1, <2>2, WriteTyped
  <2> QED BY <1>0, <2>1, <2>3, WritingStep
<1> QED BY <1>2, <1>3, <1>4, <1>5

LEMMA AgentSteps ==
  ASSUME IInv, NEW p \in Procs,
         Pipeline(p) \/ Late(p) \/ ReadScr(p) \/ ReadCma(p) \/ Notify(p)
  PROVE  IInv'
<1>0. todo[p] # <<>> /\ ControlOK /\ shared \in Snapshot
  BY DEF Pipeline, Late, ReadScr, ReadCma, Notify, At, IInv, StoresOK
<1> DEFINE w == row.written
<1>1. /\ LocalsOK(local[p], w) /\ UNCHANGED <<stores, bus, env>>
      /\ Good(p, Rest(p), w)
  BY <1>0, AtHead DEF Pipeline, Late, ReadScr, ReadCma, Notify, At, This
<1>2. ASSUME NEW l \in ScanLevels \union {"FAILED"} PROVE Op("output", l, {}) \in Plain(p)
  BY PlainOperations
<1>3. /\ Do("late") \in Plain(p) /\ Do("raise") \in Plain(p) /\ Do("default") \in Plain(p)
      /\ \A a \in Agents : For("publish", a) \in Plain(p)
      /\ Update("failed", {"scr"}) \in Plain(p)
  BY PlainOperations DEF PlainCalls, Special, Calls, Kinds, Agents
<1> DEFINE failed == <<Op("output", "FAILED", {}), Do("raise")>>
<1>4. Good(p, failed \o Rest(p), w)
  <2>1. Good(p, failed, w)
    BY <1>2, <1>3, PlainTuple
  <2> QED BY <1>1, <2>1, GoodConcat
<1>5. CASE Pipeline(p)
  <2> DEFINE ops(l) == <<Op("output", l, {}), For("publish", "scr"), Do("late")>>
  <2>1. \/ \E l \in Levels : Continue(p, ops(l) \o Rest(p), local[p])
        \/ Continue(p, failed \o Rest(p), local[p])
        \/ Throw(p)
    BY <1>5 DEF Pipeline
  <2>2. ASSUME NEW l \in Levels PROVE Good(p, ops(l) \o Rest(p), w)
    <3>1. l \in ScanLevels
      BY OrchestratorAssumption
    <3>2. Op("output", l, {}) \in Plain(p) /\ For("publish", "scr") \in Plain(p)
      BY <1>2, <1>3, <3>1 DEF Agents
    <3>3. Good(p, ops(l), w)
      BY <1>3, <3>2, PlainTuple
    <3> QED BY <1>1, <3>3, GoodConcat
  <2> HIDE DEF ops, failed
  <2> QED BY <1>1, <1>4, <2>1, <2>2, QuietStep
<1>6. CASE Late(p)
  <2>1. Continue(p, Rest(p), local[p]) \/ Continue(p, failed \o Rest(p), local[p])
    BY <1>6 DEF Late
  <2> HIDE DEF failed
  <2> QED BY <1>1, <1>4, <2>1, QuietStep
<1>7. CASE ReadScr(p)
  <2> DEFINE l == [local[p] EXCEPT !.scr = shared["scr"]]
  <2>1. Throw(p) \/ Continue(p, Rest(p), l)
    BY <1>7 DEF ReadScr
  <2>2. LocalsOK(l, w)
    BY <1>0, <1>1 DEF LocalsOK, Locals, Snapshot, Agents
  <2> HIDE DEF l
  <2> QED BY <1>1, <2>1, <2>2, QuietStep
<1>8. CASE ReadCma(p)
  <2> DEFINE l == [local[p] EXCEPT !.cma = shared["cma"]]
  <2>1. Continue(p, Rest(p), l)
    BY <1>8 DEF ReadCma
  <2>2. LocalsOK(l, w)
    BY <1>0, <1>1 DEF LocalsOK, Locals, Snapshot, Agents
  <2> HIDE DEF l
  <2> QED BY <1>1, <2>1, <2>2, QuietStep
<1>9. CASE Notify(p)
  <2> DEFINE bad == shared[p].status \in {"NONE", "RUNNING"}
             ops == CASE p = "scr" -> IF bad THEN <<Update("failed", {"scr"})>> ELSE <<>>
                      [] p \in Dynamic -> <<For("publish", p)>>
                      [] p \in {"cma", "reporting"} ->
                           IF bad THEN <<Do("default"), For("publish", p)>>
                           ELSE <<For("publish", p)>>
  <2>1. Continue(p, ops \o Rest(p), local[p])
    BY <1>9 DEF Notify
  <2>2. p \in Agents
    <3>1. This(p).do = "notify" /\ ValidOp(p, This(p))
      BY <1>0, <1>9, AtHead DEF Notify, At, This
    <3> QED BY <3>1 DEF ValidOp
  <2>3. Good(p, ops, w)
    <3>1. CASE p = "scr"
      BY <1>3, <3>1, PlainTuple, GoodEmpty DEF Dynamic
    <3>2. CASE p # "scr"
      <4>1. Good(p, <<For("publish", p)>>, w) /\ Good(p, <<Do("default"), For("publish", p)>>, w)
        BY <1>3, <2>2, PlainTuple
      <4> QED BY <2>2, <3>2, <4>1 DEF Agents, Dynamic
    <3> QED BY <3>1, <3>2
  <2> HIDE DEF ops
  <2>4. Good(p, ops \o Rest(p), w)
    BY <1>1, <2>3, GoodConcat
  <2> QED BY <1>1, <2>1, <2>4, QuietStep
<1> QED BY <1>5, <1>6, <1>7, <1>8, <1>9

LEMMA BusSteps ==
  ASSUME IInv, NEW p \in Procs, Publish(p) \/ Commit(p)
  PROVE  IInv'
<1>0. todo[p] # <<>> /\ ControlOK
  BY DEF Publish, Commit, At, IInv
<1>1. /\ This(p) \in Operation /\ LocalsOK(local[p], row.written)
      /\ Good(p, Rest(p), row.written)
  BY <1>0, AtHead DEF Publish, Commit, At, This
<1>2. Continue(p, Rest(p), local[p]) /\ UNCHANGED <<stores, env>>
  BY DEF Publish, Commit
<1>3. ControlOK'
  BY <1>0, <1>1, <1>2, ContinueStep DEF stores
<1>4. BusOK'
  <2>1. /\ topic \in Seq(Agents) /\ Len(topic) \in Nat
        /\ position \in 0..Len(topic) /\ committed \in 0..position
    BY LenProperties DEF IInv, BusOK
  <2>2. CASE Publish(p)
    <3>1. PICK a \in This(p).who : topic' = Append(topic, a)
      BY <2>2 DEF Publish
    <3>2. a \in Agents /\ position' = position /\ committed' = committed
      BY <1>1, <2>2 DEF Publish, Operation
    <3>3. topic' \in Seq(Agents) /\ Len(topic') = Len(topic) + 1
      BY <2>1, <3>1, <3>2, AppendProperties
    <3> QED BY <2>1, <3>2, <3>3 DEF BusOK
  <2>3. CASE Commit(p)
    <3>1. committed' = position /\ position' = position /\ topic' = topic
      BY <2>3 DEF Commit
    <3> QED BY <2>1, <3>1 DEF BusOK
  <2> QED BY <2>2, <2>3
<1> QED BY <1>2, <1>3, <1>4 DEF IInv, stores, env, StoresOK, EnvOK

LEMMA ProcsTyped == {"consumer", "watcher", "background"} \subseteq Procs /\ Approvers \subseteq Procs
BY DEF Procs

LEMMA OutsideSteps ==
  ASSUME IInv, Fetch \/ (\E p \in Approvers : Approve(p)) \/ ListExpired \/ Crash
  PROVE  IInv'
<1> DEFINE w == row.written
<1>0. /\ ControlOK /\ StoresOK /\ EnvOK
      /\ topic \in Seq(Agents) /\ Len(topic) \in Nat
      /\ position \in 0..Len(topic) /\ committed \in 0..position
  BY LenProperties DEF IInv, BusOK
<1>1. LocalsOK(NoLocals, w)
  BY NoLocalsTyped DEF LocalsOK
<1>2. CASE Fetch
  <2> DEFINE a == topic[position + 1]
  <2>1. /\ position < Len(topic) /\ position' = position + 1
        /\ Continue("consumer", OnAgentComplete(a), NoLocals)
        /\ UNCHANGED <<stores, topic, committed, env>>
    BY <1>2 DEF Fetch
  <2>2. a \in Agents
    BY <1>0, <2>1, ElementOfSeq
  <2>3. Good("consumer", OnAgentComplete(a), w)
    BY <2>2, GoodTasks
  <2> HIDE DEF a
  <2>4. ControlOK'
    BY <1>0, <1>1, <2>1, <2>3, ProcsTyped, ContinueStep DEF stores
  <2>5. BusOK'
    BY <1>0, <2>1 DEF BusOK
  <2> QED BY <1>0, <2>1, <2>4, <2>5 DEF IInv, stores, env, StoresOK, EnvOK
<1>3. CASE \E p \in Approvers : Approve(p)
  <2>1. PICK p \in Approvers : Approve(p)
    BY <1>3
  <2>2. /\ called' = called \union {p} /\ crashes' = crashes
        /\ Continue(p, ApproveWorkflow, NoLocals) /\ UNCHANGED <<stores, bus>>
    BY <2>1 DEF Approve
  <2>3. Good(p, ApproveWorkflow, w)
    BY GoodTasks
  <2>4. ControlOK'
    BY <1>0, <1>1, <2>2, <2>3, ProcsTyped, ContinueStep DEF stores
  <2> QED BY <1>0, <2>2, <2>4 DEF IInv, stores, bus, StoresOK, BusOK, EnvOK
<1>4. CASE ListExpired
  <2> DEFINE o == Op("save", "gateEscalated", {})
             e == Op("emit", "workflow.human_gate_escalated", {})
             l == [NoLocals EXCEPT !.copy = wf]
  <2>1. Continue("watcher", <<o, e>>, l) /\ UNCHANGED <<stores, bus, env>>
    BY <1>4 DEF ListExpired
  <2>2. Good("watcher", <<o, e>>, w)
    <3>1. o \in Plain("watcher")
      BY DEF Op, Plain, Calls, Arguments, Kinds, Operation, ValidOp, Resting
    <3>2. e \in Plain("watcher")
      BY PlainOperations DEF Topics
    <3> HIDE DEF o, e
    <3> QED BY <3>1, <3>2, PlainTuple
  <2>3. LocalsOK(l, w)
    BY <1>0, <1>1, NoLocalsTyped DEF StoresOK, LocalsOK, Locals
  <2> HIDE DEF o, e, l
  <2> QED BY <2>1, <2>2, <2>3, ProcsTyped, QuietStep
<1>5. CASE Crash
  <2>1. /\ crashes < MaxCrashes /\ crashes' = crashes + 1
        /\ todo' = [p \in Procs |-> <<>>] /\ local' = [p \in Procs |-> NoLocals]
        /\ raised' = [p \in Procs |-> FALSE] /\ position' = committed
        /\ UNCHANGED <<stores, topic, committed, called>>
    BY <1>5 DEF Crash
  <2>2. ControlOK'
    <3>1. <<>> \in Seq(Operation) /\ NoLocals \in Locals
      BY <1>1, EmptySeq DEF LocalsOK
    <3>2. todo' \in [Procs -> Seq(Operation)] /\ local' \in [Procs -> Locals]
          /\ raised' \in [Procs -> BOOLEAN]
      BY <2>1, <3>1
    <3>3. \A q \in Procs : Good(q, todo'[q], w) /\ LocalsOK(local'[q], w)
      BY <1>1, <2>1, GoodEmpty
    <3> QED BY <2>1, <3>2, <3>3 DEF ControlOK, stores
  <2>3. BusOK'
    BY <1>0, <2>1 DEF BusOK
  <2>4. EnvOK'
    BY <1>0, <2>1, OrchestratorAssumption DEF EnvOK
  <2> QED BY <1>0, <2>1, <2>2, <2>3, <2>4 DEF IInv, stores, StoresOK
<1> QED BY <1>2, <1>3, <1>4, <1>5

-----------------------------------------------------------------------------
(* The theorems.                                                           *)

LEMMA InitIInv ==
  ASSUME Init
  PROVE  IInv
<1>1. PICK n \in WorkflowNames, f \in Flows, i \in Incidents : wf = NewState(n, f, i)
  BY DEF Init
<1>2. n \in AllNames /\ f \in {"fixed", "dynamic"} /\ i \in BOOLEAN
  BY OrchestratorAssumption
<1>3. StoresOK
  <2>1. wf \in WorkflowState /\ Sound(wf, FALSE)
    BY <1>1, <1>2, NewStateTyped
  <2> QED BY <2>1, OutTyped DEF Init, StoresOK
<1>4. BusOK
  BY EmptySeq DEF Init, BusOK
<1>5. ControlOK
  <2>1. LocalsOK(NoLocals, row.written)
    BY NoLocalsTyped DEF LocalsOK
  <2>2. ASSUME NEW p \in Procs
        PROVE  Good(p, todo[p], row.written) /\ LocalsOK(local[p], row.written)
    <3>1. (p = "background" /\ todo[p] = RunInBackground) \/ todo[p] = <<>>
      BY DEF Init
    <3>2. Good(p, todo[p], row.written)
      BY <3>1, GoodTasks, GoodEmpty
    <3>3. local[p] = NoLocals
      BY DEF Init
    <3> QED BY <2>1, <3>2, <3>3
  <2>3. todo \in [Procs -> Seq(Operation)]
    <3>1. \A p \in Procs : todo[p] \in Seq(Operation)
      BY <2>2 DEF Good
    <3>2. todo = [p \in Procs |-> todo[p]]
      BY DEF Init
    <3> QED BY <3>1, <3>2
  <2>4. local \in [Procs -> Locals] /\ raised \in [Procs -> BOOLEAN]
    BY <2>1 DEF Init, LocalsOK
  <2> QED BY <2>2, <2>3, <2>4 DEF ControlOK
<1>6. EnvOK
  BY OrchestratorAssumption DEF Init, EnvOK
<1> QED BY <1>3, <1>4, <1>5, <1>6 DEF IInv

LEMMA NextIInv ==
  ASSUME IInv, [Next]_vars
  PROVE  IInv'
<1>1. CASE \E p \in Procs : Step(p)
  <2>1. PICK p \in Procs : Step(p)
    BY <1>1
  <2> QED BY <2>1, RecordSteps, FinalizerSteps, PlanSteps, TaskSteps, OutputSteps,
             AgentSteps, BusSteps DEF Step
<1>2. CASE Fetch \/ (\E p \in Approvers : Approve(p)) \/ ListExpired \/ Crash
  BY <1>2, OutsideSteps
<1>3. CASE UNCHANGED vars
  BY <1>3 DEF vars, stores, bus, control, env, IInv, StoresOK, BusOK, ControlOK, EnvOK,
              Good, LocalsOK, Sound
<1> QED BY <1>1, <1>2, <1>3 DEF Next

\* The invariant of every run, whatever fails, races or restarts.
THEOREM Invariant == Spec => []IInv
<1>1. Init => IInv
  BY InitIInv
<1>2. IInv /\ [Next]_vars => IInv'
  BY NextIInv
<1> QED BY <1>1, <1>2, PTL DEF Spec

\* Every variable keeps its shape: the record that handlers save back from their
\* own copies is always a workflow state, and its step a step of its plan.
THEOREM TypeCorrect == Spec => []TypeOK
<1>1. IInv => TypeOK
  BY DEF IInv, StoresOK, BusOK, ControlOK, EnvOK, TypeOK
<1> QED BY <1>1, Invariant, PTL

\* finalizer.finalize writes the outputs before it completes the workflow, and no
\* exception path, stale save, second finalize or restart completes it otherwise.
THEOREM CompletedHasRowHolds == Spec => []CompletedHasRow
<1>1. IInv => CompletedHasRow
  BY DEF IInv, StoresOK, Sound, CompletedHasRow
<1> QED BY <1>1, Invariant, PTL

\* persist_snapshot writes the outputs before _handle_human_gate pauses the
\* workflow, and no stale save of a paused record comes from a time before it.
THEOREM PausedHasRowHolds == Spec => []PausedHasRow
<1>1. IInv => PausedHasRow
  BY DEF IInv, StoresOK, Sound, PausedHasRow
<1> QED BY <1>1, Invariant, PTL

-----------------------------------------------------------------------------
(* One task per agent.                                                     *)

\* Whose turn it is: SCR runs only while the background task waits for it, any
\* other agent only while the consumer does.
Turns ==
  /\ todo["scr"] # <<>> => At("background", "await")
  /\ \A a \in Agents \ {"scr"} :
       todo[a] # <<>> => At("consumer", "await") /\ a \in This("consumer").who

LEMMA NamesDistinct ==
  /\ "background" \notin Agents /\ "consumer" \notin Agents /\ "watcher" \notin Agents
  /\ Agents \subseteq Procs /\ "scr" \in Agents
  /\ \A p \in Approvers : p \notin Agents /\ p # "background" /\ p # "consumer"
BY OrchestratorAssumption DEF Agents, Dynamic, Procs

\* A task moves on, and its own turn is the only one it ends.
LEMMA TurnMoves ==
  ASSUME IInv, Turns, NEW p \in Procs, NEW ops, todo' = [todo EXCEPT ![p] = ops],
         p \in Agents => todo[p] # <<>>,
         p = "background" => todo["scr"] = <<>>,
         p = "consumer" => \A a \in Agents \ {"scr"} : todo[a] = <<>>
  PROVE  Turns'
<1>1. \A q \in Procs : q # p => todo'[q] = todo[q]
  BY DEF IInv, ControlOK
<1>2. \A q \in Procs : q # p => (At(q, "await"))' = At(q, "await") /\ (This(q))' = This(q)
  BY <1>1 DEF At, This
<1>3. todo'["scr"] # <<>> => (At("background", "await"))'
  <2>1. CASE p = "background"
    BY <1>1, <2>1, NamesDistinct
  <2>2. CASE p # "background"
    <3>1. todo'["scr"] # <<>> => todo["scr"] # <<>>
      BY <1>1, NamesDistinct
    <3> QED BY <1>2, <2>2, <3>1, ProcsTyped DEF Turns
  <2> QED BY <2>1, <2>2
<1>4. ASSUME NEW a \in Agents \ {"scr"}, todo'[a] # <<>>
      PROVE  (At("consumer", "await"))' /\ a \in (This("consumer"))'.who
  <2>1. CASE p = "consumer"
    BY <1>1, <1>4, <2>1, NamesDistinct
  <2>2. CASE p # "consumer"
    <3>1. todo[a] # <<>>
      BY <1>1, <1>4, NamesDistinct
    <3> QED BY <1>2, <2>2, <3>1, ProcsTyped DEF Turns
  <2> QED BY <2>1, <2>2
<1> QED BY <1>3, <1>4 DEF Turns

\* A task that goes on or raises only moves.
LEMMA Moves ==
  ASSUME NEW p, NEW ops, NEW locals, Continue(p, ops, locals) \/ Throw(p)
  PROVE  \E o : todo' = [todo EXCEPT ![p] = o]
BY DEF Continue, Throw

LEMMA StepMoves ==
  ASSUME NEW p \in Procs, Step(p), ~Gather(p)
  PROVE  \E o : todo' = [todo EXCEPT ![p] = o]
BY Moves DEF Step, Load, Save, View, SaveView, Scan, Prepared, Read, Upsert, Verify, ClearScan,
  Delete, Emit, Surface, CheckScr, Plan, Gather, Await, Raise, IfRunning, Placeholder, Pipeline,
  ScrOutput, Late, ReadScr, ReadCma, WriteOutput, Notify, WriteDefault, Publish, Commit

\* Waiting agents are idle once the wait is over, and before it begins.
LEMMA TurnSteps ==
  ASSUME IInv, Turns, NEW p \in Procs, Step(p), ~Gather(p)
  PROVE  Turns'
<1>1. todo[p] # <<>>
  BY Zenon DEF Step, Load, Save, View, SaveView, Scan, Read, Upsert, Verify, ClearScan, Delete, Emit,
    Surface, CheckScr, Plan, Gather, Await, Raise, IfRunning, Placeholder, Pipeline, ScrOutput,
    Late, ReadScr, ReadCma, WriteOutput, Notify, WriteDefault, Publish, Commit, At
<1>2. PICK ops : todo' = [todo EXCEPT ![p] = ops]
  BY StepMoves
<1>3. /\ p = "background" => todo["scr"] = <<>>
      /\ p = "consumer" => \A a \in Agents \ {"scr"} : todo[a] = <<>>
  <2>1. CASE ~At(p, "await")
    BY <2>1 DEF Turns
  <2>2. CASE At(p, "await")
    <3>1. Await(p)
      BY <2>2, Zenon DEF At, Step, Load, Save, View, SaveView, Scan, Read, Upsert, Verify, ClearScan,
        Delete, Emit, Surface, CheckScr, Plan, Gather, Raise, IfRunning, Placeholder, Pipeline,
        ScrOutput, Late, ReadScr, ReadCma, WriteOutput, Notify, WriteDefault, Publish, Commit
    <3>2. \A q \in This(p).who : todo[q] = <<>>
      BY <3>1 DEF Await
    <3>3. Triggers(p, This(p).who)
      BY <1>1, <2>2, AtHead DEF IInv, At, This, ValidOp
    <3> QED BY <3>2, <3>3 DEF Triggers, Turns
  <2> QED BY <2>1, <2>2
<1> QED BY <1>1, <1>2, <1>3, TurnMoves

\* An operation put before others is their head.
LEMMA HeadOf ==
  ASSUME NEW o \in Operation, NEW s \in Seq(Operation)
  PROVE  <<o>> \o s # <<>> /\ Head(<<o>> \o s) = o
<1> DEFINE one == <<o>>
<1>1. one \in Seq(Operation) /\ Len(one) = 1 /\ one[1] = o
  OBVIOUS
<1> HIDE DEF one
<1> DEFINE t == one \o s
<1>2. /\ t \in Seq(Operation) /\ Len(t) = Len(one) + Len(s)
      /\ \A i \in 1..Len(one) + Len(s) : t[i] = IF i <= Len(one) THEN one[i] ELSE s[i - Len(one)]
  BY <1>1, ConcatProperties
<1>3. Len(s) \in Nat
  BY LenProperties
<1>4. 1 \in 1..Len(one) + Len(s) /\ 1 <= Len(one)
  BY <1>1, <1>3
<1> HIDE DEF t
<1>5. t[1] = o
  BY <1>1, <1>2, <1>4
<1>6. t # <<>>
  BY <1>1, <1>2, <1>3, EmptySeq
<1>7. Head(t) = o
  BY <1>2, <1>5, <1>6, HeadTailProperties
<1> QED BY <1>6, <1>7 DEF t, one

\* A gather starts the wait.
LEMMA TurnGather ==
  ASSUME IInv, Turns, NEW p \in Procs, Gather(p)
  PROVE  Turns'
<1> DEFINE who == This(p).who
           wait == <<Op("await", "", who)>> \o Rest(p)
<1>1. /\ todo[p] # <<>> /\ This(p).do = "gather"
      /\ todo' = [q \in Procs |-> IF q = p THEN wait
                                  ELSE IF q \in who THEN AgentRun(q) ELSE todo[q]]
  BY DEF Gather, At, This
<1>2. /\ Triggers(p, who) /\ who \subseteq Agents /\ Rest(p) \in Seq(Operation)
  BY <1>1, AtHead DEF IInv, ValidOp, Good, Operation
<1>3. p \in {"background", "consumer"} /\ p \notin Agents
  BY <1>2, NamesDistinct DEF Triggers
<1>4. ~At(p, "await")
  BY <1>1 DEF At, This
<1>5. wait # <<>> /\ Head(wait) = Op("await", "", who)
  <2>1. Op("await", "", who) \in Operation
    BY <1>2 DEF Op, Operation, Calls, Arguments
  <2> QED BY <1>2, <2>1, HeadOf
<1> HIDE DEF wait
<1>6. todo'[p] = wait
  BY <1>1
<1>7. (At(p, "await"))' /\ (This(p))'.who = who
  <2>1. Op("await", "", who).do = "await" /\ Op("await", "", who).who = who
    BY DEF Op
  <2> HIDE DEF who
  <2>2. todo'[p] # <<>> /\ Head(todo'[p]) = Op("await", "", who)
    BY <1>5, <1>6
  <2> QED BY <2>1, <2>2 DEF At, This
<1>8. \A q \in Procs : q # p /\ q \notin who => todo'[q] = todo[q]
  BY <1>1
<1>9. \A q \in Procs : q # p /\ q \notin Agents =>
        (At(q, "await"))' = At(q, "await") /\ (This(q))' = This(q)
  BY <1>2, <1>8 DEF At, This
<1>10. todo'["scr"] # <<>> => (At("background", "await"))'
  <2>1. CASE p = "background"
    BY <1>7, <2>1
  <2>2. CASE p = "consumer"
    <3>1. todo'["scr"] = todo["scr"]
      BY <1>2, <1>8, <2>2, NamesDistinct DEF Triggers
    <3> QED BY <1>9, <2>2, <3>1, NamesDistinct, ProcsTyped DEF Turns
  <2> QED BY <1>3, <2>1, <2>2
<1>11. ASSUME NEW a \in Agents \ {"scr"}, todo'[a] # <<>>
       PROVE  (At("consumer", "await"))' /\ a \in (This("consumer"))'.who
  <2>1. CASE p = "background"
    <3>1. todo'[a] = todo[a]
      BY <1>2, <1>8, <2>1, NamesDistinct DEF Triggers
    <3> QED BY <1>9, <1>11, <2>1, <3>1, NamesDistinct, ProcsTyped DEF Turns
  <2>2. CASE p = "consumer"
    <3>1. todo[a] = <<>>
      BY <1>4, <2>2 DEF Turns
    <3>2. a \in who
      BY <1>8, <1>11, <2>2, <3>1, NamesDistinct
    <3> QED BY <1>7, <2>2, <3>2
  <2> QED BY <1>3, <2>1, <2>2
<1> QED BY <1>10, <1>11 DEF Turns

LEMMA TurnOutside ==
  ASSUME IInv, Turns, Fetch \/ (\E p \in Approvers : Approve(p)) \/ ListExpired \/ Crash
  PROVE  Turns'
<1>1. CASE Fetch
  <2>1. PICK ops : todo' = [todo EXCEPT !["consumer"] = ops]
    BY <1>1, Moves DEF Fetch
  <2>2. ~At("consumer", "await")
    BY <1>1 DEF Fetch, At
  <2> QED BY <2>1, <2>2, TurnMoves, NamesDistinct, ProcsTyped DEF Turns
<1>2. CASE \E p \in Approvers : Approve(p)
  <2>1. PICK p \in Approvers : Approve(p)
    BY <1>2
  <2>2. PICK ops : todo' = [todo EXCEPT ![p] = ops]
    BY <2>1, Moves DEF Approve
  <2> QED BY <2>2, TurnMoves, NamesDistinct, ProcsTyped
<1>3. CASE ListExpired
  <2>1. PICK ops : todo' = [todo EXCEPT !["watcher"] = ops]
    BY <1>3, Moves DEF ListExpired
  <2> QED BY <2>1, TurnMoves, NamesDistinct, ProcsTyped
<1>4. CASE Crash
  BY <1>4, NamesDistinct DEF Crash, Turns
<1> QED BY <1>1, <1>2, <1>3, <1>4

\* The agents take turns, in every run.
THEOREM TurnsHold == Spec => []Turns
<1>1. Init => Turns
  <2>1. ASSUME Init PROVE \A a \in Agents : todo[a] = <<>>
    BY <2>1, NamesDistinct DEF Init
  <2> QED BY <2>1, NamesDistinct DEF Turns
<1>2. IInv /\ Turns /\ [Next]_vars => Turns'
  <2> SUFFICES ASSUME IInv, Turns, [Next]_vars PROVE Turns'
    OBVIOUS
  <2>1. CASE \E p \in Procs : Step(p)
    BY <2>1, TurnSteps, TurnGather
  <2>2. CASE Fetch \/ (\E p \in Approvers : Approve(p)) \/ ListExpired \/ Crash
    BY <2>2, TurnOutside
  <2>3. CASE UNCHANGED vars
    BY <2>3 DEF vars, control, Turns, At, This
  <2> QED BY <2>1, <2>2, <2>3 DEF Next
<1> QED BY <1>1, <1>2, Invariant, PTL DEF Spec

\* No agent is triggered while a task of it still runs: the consumer handles one
\* agent.complete at a time and awaits whom it triggers, and SCR is nobody's
\* next agent; so it is after a fault and after a restart too.
THEOREM OneTaskPerAgentHolds == Spec => []OneTaskPerAgent
<1>1. IInv /\ Turns => OneTaskPerAgent
  <2> SUFFICES ASSUME IInv, Turns, NEW p \in Procs, At(p, "gather"), NEW a \in This(p).who
               PROVE  todo[a] = <<>>
    BY DEF OneTaskPerAgent
  <2>1. Triggers(p, This(p).who) /\ This(p).who \subseteq Agents
    BY AtHead DEF IInv, At, This, ValidOp, Operation
  <2>2. ~At(p, "await")
    BY DEF At
  <2> QED BY <2>1, <2>2 DEF Triggers, Turns
<1> QED BY <1>1, Invariant, TurnsHold, PTL

-----------------------------------------------------------------------------
(* Undisturbed, and until somebody approves.                               *)

\* No agent raises, SCR raises nothing behind its output, nobody restarts.
Undisturbed == FaultyAgents = {} /\ ~LateScrFault /\ MaxCrashes = 0

\* Where an operation stands among the operations of its task, and how far what
\* it is replaced by may reach.
Rank(o) ==
  IF o.do \in {"load", "save"}
  THEN IF o.x = "failed" THEN 8 ELSE IF o.x = "pause" THEN 9 ELSE IF o.x = "complete" THEN 12 ELSE 1
  ELSE IF o.do \in {"view", "placeholder", "readscr"} THEN 2
  ELSE IF o.do \in {"surface", "checkscr", "plan", "next", "pipeline", "readcma"} THEN 3
  ELSE IF o.do \in {"saveview", "output", "write"} THEN 4
  ELSE IF o.do \in {"gather", "await", "publish"} THEN 5
  ELSE IF o.do \in {"scan", "read", "late"} THEN 6
  ELSE IF o.do \in {"upsert", "notify"} THEN 7
  ELSE IF o.do = "verify" THEN 8
  ELSE IF o.do = "clearscan" THEN 9
  ELSE IF o.do = "delete" THEN 10
  ELSE IF o.do = "emit" THEN 11
  ELSE IF o.do = "commit" THEN 13
  ELSE IF o.do = "catch" THEN 14 ELSE 0
Reach(o) ==
  IF o.do \in {"surface", "checkscr", "plan", "next", "gather", "await"} THEN 12
  ELSE IF o.do = "pipeline" THEN 6
  ELSE IF o.do = "notify" THEN 8 ELSE Rank(o)

\* The save of an update is never behind anything.
Before(o, q) ==
  /\ q.do # "save"
  /\ Reach(o) < Rank(q) \/ (o.do = "catch" /\ q.do \in {"catch", "commit"})
InOrder(ops) == \A i, j \in 1..Len(ops) : i < j => Before(ops[i], ops[j])

\* The operations left to a task, without the marks; what some of them do.
OpsOf(ops) == {ops[i] : i \in {j \in 1..Len(ops) : ops[j].do # "catch"}}
Upd(o, K)  == o.do \in {"load", "save"} /\ o.x \in K
Has(ops, D)  == \E o \in OpsOf(ops) : o.do \in D
Will(ops, K) == \E o \in OpsOf(ops) : Upd(o, K)

Walks   == {"surface", "checkscr", "plan", "next"}
Persists == {"scan", "read", "upsert", "verify", "clearscan", "delete", "emit"}
Expected(p, o) ==
  \/ p = "background" /\ o.do \in {"view", "gather", "await"}
  \/ p = "watcher" /\ (Upd(o, {"gateEscalated"}) \/ o.do = "emit")
  \/ /\ p = "scr"
     /\ \/ o.do \in {"placeholder", "pipeline", "late", "notify"}
        \/ o.do = "output" /\ o.x \in ScanLevels
        \/ o.do = "publish" /\ o.who = {p}
        \/ Upd(o, {"running", "failed"})
  \/ /\ p \in Agents \ {"scr"}
     /\ \/ o.do \in {"readscr", "readcma", "write", "notify"}
        \/ o.do = "publish" /\ o.who = {p}
        \/ Upd(o, {"running"})
  \/ /\ p = "consumer"
     /\ \/ o.do \in Persists \union {"view", "saveview", "gather", "await", "commit"}
        \/ o.do \in Walks /\ \E a \in Agents : o.who = {a}
        \/ Upd(o, {"done", "escalate", "pause", "complete"})
     /\ o.do = "checkscr" => o.who = {"scr"}

Orderly ==
  \A p \in Procs :
    /\ InOrder(todo[p]) /\ raised[p] = FALSE
    /\ todo[p] # <<>> => Head(todo[p]).do # "catch"
    /\ \A o \in OpsOf(todo[p]) : Expected(p, o)

\* The consumer's operations and locals, and SCR's operations.
Handling == todo["consumer"]
Mine     == local["consumer"]
Scanning == todo["scr"]

Def      == WORKFLOW_DEFINITIONS[wf.name]
Fixed    == wf.flow = "fixed"
Ordinary == Fixed /\ wf.name \in SCR_REQUIRED_WORKFLOWS
Finished(memory) == \A a \in Team : memory[a].status = "COMPLETED"

\* The outputs have left the memory; the row they are in asks for nobody.
Cleared == topic # <<>> /\ shared = NoSnapshot
Closed  == /\ Cleared
           /\ ~row.snap["reporting"].human
           /\ Ordinary => Finished(row.snap)

\* What is in memory: SCR's section from its announcement to the clearing, and
\* with it whatever an agent has announced.
Early == {"pipeline", "publish"}
Needs == {"checkscr", "plan", "next", "saveview", "gather", "await", "scan", "read",
          "upsert", "verify", "delete"}
Scans(ops) ==
  /\ ops # <<>> => (topic = <<>> <=> Has(ops, Early))
  /\ Has(ops, {"placeholder", "output"}) \/ Will(ops, {"running"}) => topic = <<>>
  /\ Has(ops, {"publish"}) =>
       /\ ~Has(ops, {"placeholder"})
       /\ Has(ops, {"output"}) \/ shared["scr"].status = "COMPLETED"
  /\ Will(ops, {"failed"}) => Cleared
Memory ==
  /\ Handling # <<>> => topic # <<>>
  /\ Has(todo["background"], {"view", "gather"}) => topic = <<>> /\ Scanning = <<>>
  /\ Scans(Scanning)
  /\ topic = <<>> => wf.step = 1 /\ ~wf.paused
  /\ topic # <<>> => shared = NoSnapshot \/ shared["scr"].status = "COMPLETED"
  /\ Has(Handling, Needs) \/ Will(Handling, {"escalate", "pause"}) => Present(shared["scr"])

Outputs ==
  /\ \A a \in Agents : ~Present(shared[a]) => shared[a] = NoOutput
  /\ \A a \in Agents \ {"scr"} : Present(shared[a]) => shared[a].status = "COMPLETED"
  /\ \A a \in Dynamic : Present(shared[a]) => shared[a].level = "correlated"
  /\ \A a \in Agents \ {"scr"} : todo[a] # <<>> =>
       /\ Has(todo[a], {"write"}) \/ Present(shared[a])
       /\ Has(todo[a], {"publish"}) => ~Has(todo[a], {"notify"})

Told ==
  \A i \in 1..Len(topic) :
    IF shared = NoSnapshot THEN Present(row.snap[topic[i]]) ELSE Present(shared[topic[i]])

\* The row only ever holds what the memory holds, until that is cleared.
Backing ==
  \A a \in Agents : /\ ~Present(row.snap[a]) => row.snap[a] = NoOutput
                    /\ Present(row.snap[a]) => Present(shared[a]) \/ Cleared

Surfaced ==
  \A o \in OpsOf(Handling) : o.do \in {"checkscr", "plan", "next"} =>
    \A a \in o.who : Mine.surface = shared[a] /\ Present(shared[a])

\* The snapshot is the memory, which nobody writes meanwhile.
Snapped ==
  /\ Has(Handling, {"read"}) =>
       \A a \in Agents : IF a \in Mine.keys THEN Present(shared[a]) ELSE Mine.snap[a] = shared[a]
  /\ Has(Handling, {"scan", "read"}) =>
       Has(Handling, {"upsert"}) /\ (Has(Handling, {"delete"}) => Has(Handling, {"clearscan"}))
  /\ Has(Handling, {"upsert"}) => Has(Handling, {"scan", "read"}) \/ Mine.snap = shared
  /\ Has(Handling, {"verify"}) => Has(Handling, {"upsert"}) \/ row.snap = Mine.snap
  /\ Has(Handling, {"delete"}) \/ Will(Handling, {"pause"}) =>
       Has(Handling, {"upsert"}) \/ row.snap = shared
  /\ Has(Handling, {"delete"}) => \/ Has(Handling, {"clearscan"})
                                  \/ \A a \in Agents : a \in Mine.keys <=> Present(shared[a])

\* Only outputs that ask for nobody are cleared, and only the others wait.
Decided ==
  /\ Has(Handling, {"delete"}) =>
       ~shared["reporting"].human /\ (Ordinary => Finished(shared))
  /\ Will(Handling, {"complete"}) => Has(Handling, {"delete"}) \/ Closed
  /\ Will(Handling, {"pause"}) => shared["reporting"].human

Completed(s) == s.status = "COMPLETED"
Rested(s)    == s.status = "PAUSED" => s.paused
Held ==
  /\ Completed(wf) => Closed
  /\ Rested(wf)
  /\ \A p \in Procs :
       /\ Completed(local[p].view) \/ Completed(local[p].copy) => Closed
       /\ Rested(local[p].view) /\ Rested(local[p].copy)

Waiting ==
  /\ wf.paused => row.snap["reporting"].human /\ shared["reporting"].human
                  /\ ~Has(Handling, {"gather", "await"})
  /\ todo["watcher"] # <<>> => wf.paused

\* A record held is the record stored, but for what nobody decides on.
Alike(s, t) == s.name = t.name /\ s.flow = t.flow /\ s.step = t.step /\ s.paused = t.paused
Records ==
  /\ \A p \in Procs : Has(todo[p], {"save"}) => Alike(local[p].copy, wf)
  /\ Has(Handling, Walks) => Has(Handling, {"view"}) \/ Alike(Mine.view, wf)
  /\ Has(Handling, {"saveview"}) =>
       /\ ~Has(Handling, {"view", "await"})
       /\ Fixed /\ ~wf.paused /\ ~Mine.view.paused
       /\ Mine.view.name = wf.name /\ Mine.view.flow = wf.flow /\ Mine.view.step = wf.step + 1
       /\ wf.name \notin SCR_REQUIRED_WORKFLOWS => wf.step = 1
       /\ \A a \in Def[wf.step] : Present(shared[a])
  /\ Will(Handling, {"escalate"}) =>
       Fixed /\ wf.name \notin SCR_REQUIRED_WORKFLOWS /\ Has(Handling, {"view"})
  /\ \A o \in OpsOf(Handling) : o.do = "next" =>
       ((o.x = "paused") <=> wf.paused) /\ (Will(Handling, {"escalate"}) \/ ~Fixed)

\* A fixed flow is at one step: what is announced, handled and triggered is of it.
InStep ==
  Fixed =>
    /\ wf.name \notin SCR_REQUIRED_WORKFLOWS => wf.step <= 2
    /\ wf.paused \/ Will(Handling, {"pause"}) \/ shared["reporting"].human => wf.step = Len(Def)
    /\ \A i \in 1..Len(topic) : i > position => topic[i] \in Def[wf.step]
    /\ \A o \in OpsOf(Handling) :
         /\ o.do \in Walks \union {"await"} => o.who \subseteq Def[wf.step]
         /\ o.do = "gather" =>
              o.who \subseteq Def[IF Has(Handling, {"saveview"}) THEN wf.step + 1 ELSE wf.step]

\* And but for the step of the dynamic agents, of one agent, announced once.
OneToken ==
  Fixed /\ Def[wf.step] \intersect Dynamic = {} =>
    /\ Len(topic) <= position + 1
    /\ \/ Has(Handling, Walks \union {"view", "saveview", "gather"})
       \/ Will(Handling, {"done", "escalate"})
       \/ \E a \in Agents \ {"scr"} : todo[a] # <<>>
       => Len(topic) = position

\* In a workflow that has to be reviewed each step leaves its output behind.
Reviewed ==
  Ordinary /\ ~Cleared =>
    /\ \A i \in 1..wf.step - 1 : \A a \in Def[i] : shared[a].status = "COMPLETED"
    /\ \A o, u \in OpsOf(Handling) : o.do \in Walks /\ Upd(u, {"done"}) =>
         o.who = u.who /\ Has(Handling, {"view"})
    /\ wf.paused \/ Will(Handling, {"done"}) \/
       \A o \in OpsOf(Handling) : o.do \in Walks => \A a \in o.who :
         /\ wf.agents[a] = "DONE"
         /\ Has(Handling, {"view"}) \/ Mine.view.agents[a] = "DONE"
-----------------------------------------------------------------------------
(* Sequences of operations in order.                                       *)

LEMMA RankTyped ==
  ASSUME NEW o
  PROVE  /\ Rank(o) \in 0..14 /\ Reach(o) \in 0..14 /\ Rank(o) <= Reach(o)
         /\ o.do = "catch" => Rank(o) = 14 /\ Reach(o) = 14
         /\ Rank(o) > 12 => o.do \in {"commit", "catch"}
<1>1. Rank(o) \in 0..14 /\ (o.do = "catch" => Rank(o) = 14)
      /\ (Rank(o) > 12 => o.do \in {"commit", "catch"})
  <2>1. CASE o.do = "load" \/ o.do = "save"
    <3>1. Rank(o) \in {1, 8, 9, 12}
      BY <2>1, Zenon DEF Rank
    <3> QED BY <2>1, <3>1
  <2>2. CASE o.do = "commit" \/ o.do = "catch"
    <3>1. o.do = "commit" => Rank(o) = 13
      BY Zenon DEF Rank
    <3>2. o.do = "catch" => Rank(o) = 14
      BY Zenon DEF Rank
    <3> QED BY <2>2, <3>1, <3>2
  <2>3. CASE o.do \notin {"load", "save", "commit", "catch"}
    <3>1. Rank(o) \in {2, 3, 4, 5, 6, 7, 8, 9, 10, 11, 0}
      BY <2>3, Zenon DEF Rank
    <3> QED BY <2>3, <3>1
  <2> QED BY <2>1, <2>2, <2>3
<1>2. Reach(o) \in 0..14 /\ (o.do = "catch" => Reach(o) = Rank(o))
  BY <1>1 DEF Reach
<1>3. Rank(o) <= Reach(o)
  <2>1. CASE o.do \in {"surface", "checkscr", "plan", "next", "gather", "await"}
    BY <2>1 DEF Rank, Reach
  <2>2. CASE o.do \in {"pipeline", "notify"}
    BY <2>2 DEF Rank, Reach
  <2>3. CASE o.do \notin {"surface", "checkscr", "plan", "next", "gather", "await", "pipeline", "notify"}
    BY <1>1, <2>3 DEF Reach
  <2> QED BY <2>1, <2>2, <2>3
<1> QED BY <1>1, <1>2, <1>3

LEMMA LessTrans ==
  ASSUME NEW a \in 0..14, NEW b \in 0..14, NEW c \in 0..14, a <= b, b < c
  PROVE  a < c
OBVIOUS

LEMMA OpsIn ==
  ASSUME NEW ops, NEW o
  PROVE  o \in OpsOf(ops) <=> o.do # "catch" /\ \E i \in 1..Len(ops) : ops[i] = o
BY DEF OpsOf

LEMMA NoOps == OpsOf(<<>>) = {} /\ InOrder(<<>>)
BY DEF OpsOf, InOrder

LEMMA OneOp ==
  ASSUME NEW o \in Operation
  PROVE  /\ <<o>> \in Seq(Operation) /\ InOrder(<<o>>)
         /\ OpsOf(<<o>>) = IF o.do = "catch" THEN {} ELSE {o}
         /\ \A i \in 1..Len(<<o>>) : <<o>>[i] = o
BY DEF OpsOf, InOrder

LEMMA OpsConcat ==
  ASSUME NEW a \in Seq(Operation), NEW b \in Seq(Operation)
  PROVE  /\ a \o b \in Seq(Operation)
         /\ OpsOf(a \o b) = OpsOf(a) \union OpsOf(b)
<1> DEFINE s == a \o b
<1>1. /\ s \in Seq(Operation) /\ Len(s) = Len(a) + Len(b) /\ Len(a) \in Nat /\ Len(b) \in Nat
      /\ \A i \in 1..Len(s) : s[i] = IF i <= Len(a) THEN a[i] ELSE b[i - Len(a)]
  BY ConcatProperties, LenProperties
<1> HIDE DEF s
<1>2. ASSUME NEW o \in OpsOf(s) PROVE o \in OpsOf(a) \union OpsOf(b)
  <2>1. PICK i \in 1..Len(s) : s[i] = o /\ o.do # "catch"
    BY <1>2, OpsIn
  <2>2. CASE i <= Len(a)
    <3>1. i \in 1..Len(a) /\ a[i] = o
      BY <1>1, <2>1, <2>2
    <3> QED BY <2>1, <3>1, OpsIn
  <2>3. CASE i > Len(a)
    <3>1. i - Len(a) \in 1..Len(b) /\ b[i - Len(a)] = o
      BY <1>1, <2>1, <2>3
    <3> QED BY <2>1, <3>1, OpsIn
  <2> QED BY <1>1, <2>2, <2>3
<1>3. ASSUME NEW o \in OpsOf(a) PROVE o \in OpsOf(s)
  <2>1. PICK i \in 1..Len(a) : a[i] = o /\ o.do # "catch"
    BY <1>3, OpsIn
  <2>2. i \in 1..Len(s) /\ s[i] = o
    BY <1>1, <2>1
  <2> QED BY <2>1, <2>2, OpsIn
<1>4. ASSUME NEW o \in OpsOf(b) PROVE o \in OpsOf(s)
  <2>1. PICK i \in 1..Len(b) : b[i] = o /\ o.do # "catch"
    BY <1>4, OpsIn
  <2>2. i + Len(a) \in 1..Len(s) /\ ~(i + Len(a) <= Len(a)) /\ (i + Len(a)) - Len(a) = i
    BY <1>1, <2>1
  <2>3. s[i + Len(a)] = o
    BY <1>1, <2>1, <2>2
  <2> QED BY <2>1, <2>2, <2>3, OpsIn
<1> QED BY <1>1, <1>2, <1>3, <1>4 DEF s

LEMMA OrderConcat ==
  ASSUME NEW a \in Seq(Operation), NEW b \in Seq(Operation), InOrder(a), InOrder(b),
         \A i \in 1..Len(a), j \in 1..Len(b) : Before(a[i], b[j])
  PROVE  InOrder(a \o b)
<1> DEFINE s == a \o b
<1>1. /\ Len(s) = Len(a) + Len(b) /\ Len(a) \in Nat /\ Len(b) \in Nat
      /\ \A i \in 1..Len(s) : s[i] = IF i <= Len(a) THEN a[i] ELSE b[i - Len(a)]
  BY ConcatProperties, LenProperties
<1> HIDE DEF s
<1>2. ASSUME NEW i \in 1..Len(s), NEW j \in 1..Len(s), i < j PROVE Before(s[i], s[j])
  <2>1. CASE j <= Len(a)
    <3>1. i \in 1..Len(a) /\ j \in 1..Len(a) /\ s[i] = a[i] /\ s[j] = a[j]
      BY <1>1, <1>2, <2>1
    <3> QED BY <1>2, <3>1 DEF InOrder
  <2>2. CASE i <= Len(a) /\ j > Len(a)
    <3>1. i \in 1..Len(a) /\ j - Len(a) \in 1..Len(b) /\ s[i] = a[i] /\ s[j] = b[j - Len(a)]
      BY <1>1, <1>2, <2>2
    <3> QED BY <3>1
  <2>3. CASE i > Len(a)
    <3>1. /\ i - Len(a) \in 1..Len(b) /\ j - Len(a) \in 1..Len(b)
          /\ i - Len(a) < j - Len(a)
          /\ s[i] = b[i - Len(a)] /\ s[j] = b[j - Len(a)]
      BY <1>1, <1>2, <2>3
    <3> QED BY <3>1 DEF InOrder
  <2> QED BY <1>1, <2>1, <2>2, <2>3
<1> QED BY <1>2 DEF InOrder, s

\* The head stands before the rest, which is the others.
LEMMA OrderHead ==
  ASSUME NEW ops \in Seq(Operation), ops # <<>>, InOrder(ops), Head(ops).do # "catch"
  PROVE  /\ Tail(ops) \in Seq(Operation) /\ InOrder(Tail(ops))
         /\ \A i \in 1..Len(Tail(ops)) : Before(Head(ops), Tail(ops)[i])
         /\ Head(ops) \in OpsOf(ops)
         /\ OpsOf(Tail(ops)) = OpsOf(ops) \ {Head(ops)}
<1> DEFINE t == Tail(ops)
           h == Head(ops)
<1>1. /\ t \in Seq(Operation) /\ Len(ops) \in Nat \ {0} /\ Len(t) = Len(ops) - 1
      /\ \A i \in 1..Len(t) : t[i] = ops[i + 1]
      /\ h = ops[1]
  BY HeadTailProperties
<1> HIDE DEF t, h
<1>2. \A i \in 1..Len(t) : i + 1 \in 1..Len(ops) /\ 1 < i + 1
  BY <1>1
<1>3. \A i \in 1..Len(t) : Before(h, t[i])
  BY <1>1, <1>2 DEF InOrder
<1>4. InOrder(t)
  <2>1. ASSUME NEW i \in 1..Len(t), NEW j \in 1..Len(t), i < j PROVE Before(t[i], t[j])
    <3>1. i + 1 < j + 1 /\ i + 1 \in 1..Len(ops) /\ j + 1 \in 1..Len(ops)
      BY <1>1, <2>1
    <3>2. t[i] = ops[i + 1] /\ t[j] = ops[j + 1]
      BY <1>1
    <3> QED BY <3>1, <3>2 DEF InOrder
  <2> QED BY <2>1 DEF InOrder
<1>5. h \in OpsOf(ops)
  <2>1. 1 \in 1..Len(ops) /\ h.do # "catch"
    BY <1>1 DEF h
  <2> QED BY <1>1, <2>1, OpsIn
<1>6. ASSUME NEW o \in OpsOf(t) PROVE o \in OpsOf(ops) /\ o # h
  <2>1. PICK i \in 1..Len(t) : t[i] = o /\ o.do # "catch"
    BY <1>6, OpsIn
  <2>2. i + 1 \in 1..Len(ops) /\ ops[i + 1] = o
    BY <1>1, <2>1
  <2>3. Before(h, o)
    BY <1>3, <2>1
  <2>4. ~Before(o, o)
    BY <2>1, RankTyped, SMTT(30) DEF Before
  <2> QED BY <2>1, <2>2, <2>3, <2>4, OpsIn
<1>7. ASSUME NEW o \in OpsOf(ops), o # h PROVE o \in OpsOf(t)
  <2>1. PICK i \in 1..Len(ops) : ops[i] = o /\ o.do # "catch"
    BY <1>7, OpsIn
  <2>2. i # 1
    BY <1>1, <1>7, <2>1
  <2>3. i - 1 \in 1..Len(t) /\ (i - 1) + 1 = i
    BY <1>1, <2>1, <2>2
  <2>4. t[i - 1] = o
    BY <1>1, <2>1, <2>3
  <2> QED BY <2>1, <2>3, <2>4, OpsIn
<1> QED BY <1>1, <1>3, <1>4, <1>5, <1>6, <1>7 DEF t, h

\* Settling drops nothing but marks.
LEMMA OrderSettle ==
  ASSUME NEW ops \in Seq(Operation), InOrder(ops)
  PROVE  /\ InOrder(Settle(ops)) /\ OpsOf(Settle(ops)) = OpsOf(ops)
         /\ Settle(ops) # <<>> => Head(Settle(ops)).do # "catch"
         /\ Settle(ops) = <<>> <=> OpsOf(ops) = {}
<1> DEFINE rest == {i \in DOMAIN ops : ops[i].do # "catch"}
<1>1. DOMAIN ops = 1..Len(ops) /\ Len(ops) \in Nat
  BY LenProperties
<1>2. rest = {} <=> OpsOf(ops) = {}
  BY <1>1 DEF OpsOf
<1>3. CASE rest = {}
  <2>1. Settle(ops) = <<>>
    BY <1>3 DEF Settle
  <2> QED BY <1>2, <1>3, <2>1, NoOps
<1>4. CASE rest # {}
  <2> DEFINE k == CHOOSE i \in rest : \A j \in rest : i <= j
  <2>0. rest \subseteq Nat
    BY <1>1
  <2>1. k \in rest /\ \A j \in rest : k <= j
    <3>1. \E x \in rest : \A j \in rest : x <= j
      BY <1>4, <2>0, Least
    <3> QED BY <3>1
  <2>2. Settle(ops) = SubSeq(ops, k, Len(ops))
    BY <1>4 DEF Settle
  <2> HIDE DEF k
  <2>3. k \in 1..Len(ops) /\ ops[k].do # "catch"
        /\ \A j \in 1..Len(ops) : ops[j].do # "catch" => k <= j
    BY <1>1, <2>1
  <2> HIDE DEF rest
  <2> DEFINE s == SubSeq(ops, k, Len(ops))
  <2>4. /\ Len(s) = Len(ops) - k + 1
        /\ \A j \in 1..Len(s) : s[j] = ops[k + j - 1]
        /\ s \in Seq(Operation)
    <3>1. \A j \in k..Len(ops) : ops[j] \in Operation
      BY <1>1, <2>3, ElementOfSeq
    <3> QED BY <1>1, <2>3, <3>1, SubSeqProperties
  <2> HIDE DEF s
  <2>5. \A j \in 1..Len(s) : k + j - 1 \in 1..Len(ops)
    BY <1>1, <2>3, <2>4
  <2>6. InOrder(s)
    <3>1. ASSUME NEW i \in 1..Len(s), NEW j \in 1..Len(s), i < j PROVE Before(s[i], s[j])
      <4>1. k + i - 1 < k + j - 1
        BY <1>1, <2>3, <3>1
      <4> QED BY <2>4, <2>5, <4>1 DEF InOrder
    <3> QED BY <3>1 DEF InOrder
  <2>7. 1 \in 1..Len(s) /\ s[1] = ops[k]
    BY <1>1, <2>3, <2>4
  <2>8. s # <<>> /\ Head(s).do # "catch"
    BY <2>3, <2>4, <2>7, HeadTailProperties, EmptySeq
  <2>9. \A o : o \in OpsOf(s) => o \in OpsOf(ops)
    BY <2>4, <2>5, OpsIn, SMTT(30)
  <2>10. ASSUME NEW o \in OpsOf(ops) PROVE o \in OpsOf(s)
    <3>1. PICK i \in 1..Len(ops) : ops[i] = o /\ o.do # "catch"
      BY OpsIn
    <3>2. k <= i
      BY <2>3, <3>1
    <3>3. i - k + 1 \in 1..Len(s) /\ k + (i - k + 1) - 1 = i
      BY <1>1, <2>3, <2>4, <3>1, <3>2
    <3>4. s[i - k + 1] = o
      BY <2>4, <3>1, <3>3
    <3> QED BY <3>1, <3>3, <3>4, OpsIn
  <2>11. OpsOf(s) = OpsOf(ops)
    BY <2>9, <2>10
  <2> QED BY <1>2, <1>4, <2>2, <2>6, <2>8, <2>11 DEF s
<1> QED BY <1>3, <1>4

LEMMA Ranks ==
  ASSUME NEW o
  PROVE  /\ o.do \in {"load", "save"} =>
              Reach(o) = Rank(o) /\ Rank(o) = IF o.x = "failed" THEN 8 ELSE IF o.x = "pause" THEN 9
                                              ELSE IF o.x = "complete" THEN 12 ELSE 1
         /\ o.do \in {"view", "placeholder", "readscr"} => Rank(o) = 2 /\ Reach(o) = 2
         /\ o.do \in Walks => Rank(o) = 3 /\ Reach(o) = 12
         /\ o.do = "pipeline" => Rank(o) = 3 /\ Reach(o) = 6
         /\ o.do = "readcma" => Rank(o) = 3 /\ Reach(o) = 3
         /\ o.do \in {"saveview", "output", "write"} => Rank(o) = 4 /\ Reach(o) = 4
         /\ o.do \in {"gather", "await"} => Rank(o) = 5 /\ Reach(o) = 12
         /\ o.do = "publish" => Rank(o) = 5 /\ Reach(o) = 5
         /\ o.do \in {"scan", "read", "late"} => Rank(o) = 6 /\ Reach(o) = 6
         /\ o.do = "upsert" => Rank(o) = 7 /\ Reach(o) = 7
         /\ o.do = "notify" => Rank(o) = 7 /\ Reach(o) = 8
         /\ o.do = "verify" => Rank(o) = 8 /\ Reach(o) = 8
         /\ o.do = "clearscan" => Rank(o) = 9 /\ Reach(o) = 9
         /\ o.do = "delete" => Rank(o) = 10 /\ Reach(o) = 10
         /\ o.do = "emit" => Rank(o) = 11 /\ Reach(o) = 11
         /\ o.do = "commit" => Rank(o) = 13 /\ Reach(o) = 13
         /\ o.do = "catch" => Rank(o) = 14 /\ Reach(o) = 14
<1>1. o.do \in {"load", "save"} =>
        Reach(o) = Rank(o) /\ Rank(o) = IF o.x = "failed" THEN 8 ELSE IF o.x = "pause" THEN 9
                                        ELSE IF o.x = "complete" THEN 12 ELSE 1
  BY Zenon DEF Rank, Reach
<1>2. /\ o.do \in {"view", "placeholder", "readscr"} => Rank(o) = 2 /\ Reach(o) = 2
      /\ o.do \in Walks => Rank(o) = 3 /\ Reach(o) = 12
  BY Zenon DEF Rank, Reach, Walks
<1>3. /\ o.do = "pipeline" => Rank(o) = 3 /\ Reach(o) = 6
      /\ o.do = "readcma" => Rank(o) = 3 /\ Reach(o) = 3
      /\ o.do \in {"saveview", "output", "write"} => Rank(o) = 4 /\ Reach(o) = 4
  BY Zenon DEF Rank, Reach
<1>4. /\ o.do \in {"gather", "await"} => Rank(o) = 5 /\ Reach(o) = 12
      /\ o.do = "publish" => Rank(o) = 5 /\ Reach(o) = 5
      /\ o.do \in {"scan", "read", "late"} => Rank(o) = 6 /\ Reach(o) = 6
  BY Zenon DEF Rank, Reach
<1>5. /\ o.do = "upsert" => Rank(o) = 7 /\ Reach(o) = 7
      /\ o.do = "notify" => Rank(o) = 7 /\ Reach(o) = 8
      /\ o.do = "verify" => Rank(o) = 8 /\ Reach(o) = 8
  BY Zenon DEF Rank, Reach
<1>6. /\ o.do = "clearscan" => Rank(o) = 9 /\ Reach(o) = 9
      /\ o.do = "delete" => Rank(o) = 10 /\ Reach(o) = 10
      /\ o.do = "emit" => Rank(o) = 11 /\ Reach(o) = 11
  BY Zenon DEF Rank, Reach
<1>7. /\ o.do = "commit" => Rank(o) = 13 /\ Reach(o) = 13
      /\ o.do = "catch" => Rank(o) = 14 /\ Reach(o) = 14
  BY Zenon DEF Rank, Reach
<1> QED BY <1>1, <1>2, <1>3, <1>4, <1>5, <1>6, <1>7

\* A task goes on with the operations N in the place of the one it has done.
Goes(p, N, locals) ==
  /\ OpsOf(todo'[p]) = N \union (OpsOf(todo[p]) \ {This(p)})
  /\ todo'[p] = <<>> <=> OpsOf(todo'[p]) = {}
  /\ local'[p] = IF todo'[p] = <<>> THEN NoLocals ELSE locals
  /\ \A q \in Procs : q # p => todo'[q] = todo[q] /\ local'[q] = local[q]
  /\ raised' = raised
  /\ InOrder(todo'[p])
  /\ todo'[p] # <<>> => Head(todo'[p]).do # "catch"

\* The task at work: its operation is of its kind, and stands before the others.
LEMMA AtWork ==
  ASSUME IInv, Orderly, NEW p \in Procs, todo[p] # <<>>
  PROVE  /\ This(p) \in Operation /\ This(p) \in OpsOf(todo[p]) /\ Expected(p, This(p))
         /\ This(p).do # "catch" /\ ValidOp(p, This(p))
         /\ Rest(p) \in Seq(Operation) /\ InOrder(Rest(p))
         /\ OpsOf(Rest(p)) = OpsOf(todo[p]) \ {This(p)}
         /\ \A i \in 1..Len(Rest(p)) : Before(This(p), Rest(p)[i])
         /\ \A o \in OpsOf(todo[p]) \ {This(p)} : o.do # "save" /\ Reach(This(p)) < Rank(o)
<1>1. todo[p] \in Seq(Operation) /\ InOrder(todo[p]) /\ Head(todo[p]).do # "catch"
  BY DEF IInv, ControlOK, Orderly
<1>2. /\ Rest(p) \in Seq(Operation) /\ InOrder(Rest(p))
      /\ \A i \in 1..Len(Rest(p)) : Before(This(p), Rest(p)[i])
      /\ This(p) \in OpsOf(todo[p])
      /\ OpsOf(Rest(p)) = OpsOf(todo[p]) \ {This(p)}
  BY <1>1, OrderHead DEF This, Rest
<1>3. This(p) \in Operation /\ This(p).do # "catch" /\ ValidOp(p, This(p))
  BY <1>1, AtHead DEF This, IInv
<1>4. Expected(p, This(p))
  BY <1>2 DEF Orderly
<1>5. ASSUME NEW o \in OpsOf(todo[p]) \ {This(p)} PROVE o.do # "save" /\ Reach(This(p)) < Rank(o)
  <2>1. PICK i \in 1..Len(Rest(p)) : Rest(p)[i] = o
    BY <1>2, <1>5, OpsIn
  <2> QED BY <1>2, <1>3, <2>1 DEF Before
<1> QED BY <1>2, <1>3, <1>4, <1>5

LEMMA Goes1 ==
  ASSUME IInv, Orderly, NEW p \in Procs, todo[p] # <<>>,
         NEW new \in Seq(Operation), NEW locals, Continue(p, new \o Rest(p), locals),
         InOrder(new),
         \A i \in 1..Len(new) : new[i].do = "catch" => Reach(This(p)) = 12,
         \A i \in 1..Len(new) : new[i].do # "catch" => Reach(new[i]) <= Reach(This(p))
  PROVE  Goes(p, OpsOf(new), locals)
<1> DEFINE ops == new \o Rest(p)
<1>1. /\ Rest(p) \in Seq(Operation) /\ InOrder(Rest(p))
      /\ OpsOf(Rest(p)) = OpsOf(todo[p]) \ {This(p)}
      /\ \A i \in 1..Len(Rest(p)) : Before(This(p), Rest(p)[i])
      /\ This(p).do # "catch"
  BY AtWork
<1>2. ASSUME NEW i \in 1..Len(new), NEW j \in 1..Len(Rest(p)) PROVE Before(new[i], Rest(p)[j])
  <2>1. Rest(p)[j].do # "save" /\ Reach(This(p)) < Rank(Rest(p)[j])
    BY <1>1 DEF Before
  <2>2. CASE new[i].do = "catch"
    <3>1. Rank(Rest(p)[j]) > 12
      BY <2>1, <2>2, RankTyped
    <3>2. Rest(p)[j].do \in {"commit", "catch"}
      BY <3>1, RankTyped
    <3> QED BY <2>1, <2>2, <3>2 DEF Before
  <2>3. CASE new[i].do # "catch"
    <3>1. Reach(new[i]) <= Reach(This(p))
      BY <2>3
    <3>2. Reach(new[i]) \in 0..14 /\ Reach(This(p)) \in 0..14 /\ Rank(Rest(p)[j]) \in 0..14
      BY RankTyped
    <3>3. Reach(new[i]) < Rank(Rest(p)[j])
      BY <2>1, <3>1, <3>2, LessTrans
    <3> QED BY <2>1, <3>3 DEF Before
  <2> QED BY <2>2, <2>3
<1>3. ops \in Seq(Operation) /\ InOrder(ops)
      /\ OpsOf(ops) = OpsOf(new) \union (OpsOf(todo[p]) \ {This(p)})
  BY <1>1, <1>2, OpsConcat, OrderConcat
<1> HIDE DEF ops
<1>4. /\ todo' = [todo EXCEPT ![p] = Settle(ops)]
      /\ local' = [local EXCEPT ![p] = IF Settle(ops) = <<>> THEN NoLocals ELSE locals]
      /\ raised' = raised
  BY DEF Continue, ops
<1>5. /\ todo'[p] = Settle(ops)
      /\ local'[p] = IF todo'[p] = <<>> THEN NoLocals ELSE locals
      /\ \A q \in Procs : q # p => todo'[q] = todo[q] /\ local'[q] = local[q]
  BY <1>4 DEF IInv, ControlOK
<1> QED BY <1>3, <1>4, <1>5, OrderSettle DEF Goes

\* A task only drops the operation it has done, or repeats it.
LEMMA Goes0 ==
  ASSUME IInv, Orderly, NEW p \in Procs, todo[p] # <<>>, NEW locals
  PROVE  /\ Continue(p, Rest(p), locals) => Goes(p, {}, locals)
         /\ Continue(p, todo[p], locals) => Goes(p, {This(p)}, locals)
<1>1. /\ Rest(p) \in Seq(Operation) /\ InOrder(Rest(p))
      /\ OpsOf(Rest(p)) = OpsOf(todo[p]) \ {This(p)} /\ This(p) \in OpsOf(todo[p])
  BY AtWork
<1>2. todo[p] \in Seq(Operation) /\ InOrder(todo[p])
  BY DEF IInv, ControlOK, Orderly
<1>3. ASSUME NEW ops \in {Rest(p), todo[p]}, Continue(p, ops, locals)
      PROVE  /\ OpsOf(todo'[p]) = OpsOf(ops)
             /\ todo'[p] = <<>> <=> OpsOf(todo'[p]) = {}
             /\ local'[p] = IF todo'[p] = <<>> THEN NoLocals ELSE locals
             /\ \A q \in Procs : q # p => todo'[q] = todo[q] /\ local'[q] = local[q]
             /\ raised' = raised
             /\ InOrder(todo'[p])
             /\ todo'[p] # <<>> => Head(todo'[p]).do # "catch"
  <2>1. /\ todo' = [todo EXCEPT ![p] = Settle(ops)]
        /\ local' = [local EXCEPT ![p] = IF Settle(ops) = <<>> THEN NoLocals ELSE locals]
        /\ raised' = raised
    BY <1>3 DEF Continue
  <2>2. /\ todo'[p] = Settle(ops)
        /\ local'[p] = IF todo'[p] = <<>> THEN NoLocals ELSE locals
        /\ \A q \in Procs : q # p => todo'[q] = todo[q] /\ local'[q] = local[q]
    BY <2>1 DEF IInv, ControlOK
  <2> QED BY <1>1, <1>2, <2>1, <2>2, OrderSettle
<1> QED BY <1>1, <1>3 DEF Goes

\* One operation in the place of another.
LEMMA GoesOne ==
  ASSUME IInv, Orderly, NEW p \in Procs, todo[p] # <<>>, NEW o \in Operation, NEW locals,
         Continue(p, <<o>> \o Rest(p), locals), o.do # "catch", Reach(o) <= Reach(This(p))
  PROVE  Goes(p, {o}, locals)
<1> DEFINE new == <<o>>
<1>1. new \in Seq(Operation) /\ InOrder(new) /\ OpsOf(new) = {o}
      /\ \A i \in 1..Len(new) : new[i] = o
  BY OneOp
<1>2. Continue(p, new \o Rest(p), locals)
  OBVIOUS
<1> HIDE DEF new
<1>3. Goes(p, OpsOf(new), locals)
  BY <1>1, <1>2, Goes1
<1> QED BY <1>1, <1>3

\* In order, and each of its kind.
LEMMA GoesOrderly ==
  ASSUME Orderly, NEW p \in Procs, NEW N, NEW locals, Goes(p, N, locals),
         \A o \in N : Expected(p, o)
  PROVE  Orderly'
BY DEF Orderly, Goes
-----------------------------------------------------------------------------
(* The sequences the functions are made of, in order.                      *)

LEMMA Tuples ==
  /\ \A a, b \in Operation : Before(a, b) =>
       /\ <<a, b>> \in Seq(Operation) /\ InOrder(<<a, b>>)
       /\ \A o : o \in OpsOf(<<a, b>>) <=> o.do # "catch" /\ o \in {a, b}
       /\ \A i \in 1..Len(<<a, b>>) : <<a, b>>[i] \in {a, b}
  /\ \A a, b, c \in Operation : Before(a, b) /\ Before(a, c) /\ Before(b, c) =>
       /\ <<a, b, c>> \in Seq(Operation) /\ InOrder(<<a, b, c>>)
       /\ \A o : o \in OpsOf(<<a, b, c>>) <=> o.do # "catch" /\ o \in {a, b, c}
       /\ \A i \in 1..Len(<<a, b, c>>) : <<a, b, c>>[i] \in {a, b, c}
  /\ \A a, b, c, d, e \in Operation :
       /\ Before(a, b) /\ Before(a, c) /\ Before(a, d) /\ Before(a, e) /\ Before(b, c)
       /\ Before(b, d) /\ Before(b, e) /\ Before(c, d) /\ Before(c, e) /\ Before(d, e)
       =>
       /\ <<a, b, c, d, e>> \in Seq(Operation) /\ InOrder(<<a, b, c, d, e>>)
       /\ \A o : o \in OpsOf(<<a, b, c, d, e>>) <=> o.do # "catch" /\ o \in {a, b, c, d, e}
       /\ \A i \in 1..Len(<<a, b, c, d, e>>) : <<a, b, c, d, e>>[i] \in {a, b, c, d, e}
<1>1. ASSUME NEW a \in Operation, NEW b \in Operation, Before(a, b)
      PROVE  /\ <<a, b>> \in Seq(Operation) /\ InOrder(<<a, b>>)
             /\ \A o : o \in OpsOf(<<a, b>>) <=> o.do # "catch" /\ o \in {a, b}
             /\ \A i \in 1..Len(<<a, b>>) : <<a, b>>[i] \in {a, b}
  <2> DEFINE s == <<a, b>>
  <2>1. s \in Seq(Operation) /\ Len(s) = 2 /\ s[1] = a /\ s[2] = b
    OBVIOUS
  <2> HIDE DEF s
  <2>2. \A i \in 1..Len(s) : i = 1 \/ i = 2
    BY <2>1
  <2>3. InOrder(s)
    BY <1>1, <2>1, <2>2 DEF InOrder
  <2>4. \A o : o \in OpsOf(s) <=> o.do # "catch" /\ o \in {a, b}
    BY <2>1, <2>2, OpsIn
  <2>5. \A i \in 1..Len(s) : s[i] \in {a, b}
    BY <2>1, <2>2
  <2> QED BY <2>1, <2>3, <2>4, <2>5 DEF s
<1>2. ASSUME NEW a \in Operation, NEW b \in Operation, NEW c \in Operation,
             Before(a, b), Before(a, c), Before(b, c)
      PROVE  /\ <<a, b, c>> \in Seq(Operation) /\ InOrder(<<a, b, c>>)
             /\ \A o : o \in OpsOf(<<a, b, c>>) <=> o.do # "catch" /\ o \in {a, b, c}
             /\ \A i \in 1..Len(<<a, b, c>>) : <<a, b, c>>[i] \in {a, b, c}
  <2> DEFINE s == <<a, b, c>>
  <2>1. s \in Seq(Operation) /\ Len(s) = 3 /\ s[1] = a /\ s[2] = b /\ s[3] = c
    OBVIOUS
  <2> HIDE DEF s
  <2>2. \A i \in 1..Len(s) : i = 1 \/ i = 2 \/ i = 3
    BY <2>1
  <2>3. InOrder(s)
    BY <1>2, <2>1, <2>2 DEF InOrder
  <2>4. \A o : o \in OpsOf(s) <=> o.do # "catch" /\ o \in {a, b, c}
    BY <2>1, <2>2, OpsIn
  <2>5. \A i \in 1..Len(s) : s[i] \in {a, b, c}
    BY <2>1, <2>2
  <2> QED BY <2>1, <2>3, <2>4, <2>5 DEF s
<1>3. ASSUME NEW a \in Operation, NEW b \in Operation, NEW c \in Operation,
             NEW d \in Operation, NEW e \in Operation,
             Before(a, b), Before(a, c), Before(a, d), Before(a, e), Before(b, c),
             Before(b, d), Before(b, e), Before(c, d), Before(c, e), Before(d, e)
      PROVE  /\ <<a, b, c, d, e>> \in Seq(Operation) /\ InOrder(<<a, b, c, d, e>>)
             /\ \A o : o \in OpsOf(<<a, b, c, d, e>>) <=> o.do # "catch" /\ o \in {a, b, c, d, e}
             /\ \A i \in 1..Len(<<a, b, c, d, e>>) : <<a, b, c, d, e>>[i] \in {a, b, c, d, e}
  <2> DEFINE s == <<a, b, c, d, e>>
  <2>1. /\ s \in Seq(Operation) /\ Len(s) = 5
        /\ s[1] = a /\ s[2] = b /\ s[3] = c /\ s[4] = d /\ s[5] = e
    OBVIOUS
  <2> HIDE DEF s
  <2>2. \A i \in 1..Len(s) : i = 1 \/ i = 2 \/ i = 3 \/ i = 4 \/ i = 5
    BY <2>1
  <2>3. InOrder(s)
    BY <1>3, <2>1, <2>2 DEF InOrder
  <2>4. \A o : o \in OpsOf(s) <=> o.do # "catch" /\ o \in {a, b, c, d, e}
    BY <2>1, <2>2, OpsIn
  <2>5. \A i \in 1..Len(s) : s[i] \in {a, b, c, d, e}
    BY <2>1, <2>2
  <2> QED BY <2>1, <2>3, <2>4, <2>5 DEF s
<1> QED BY <1>1, <1>2, <1>3

\* What an operation says.
LEMMA Parts ==
  /\ \A c \in Calls : Do(c) \in Operation /\ Do(c).do = c /\ Do(c).who = {}
  /\ \A c \in Calls, a \in Agents :
       For(c, a) \in Operation /\ For(c, a).do = c /\ For(c, a).who = {a}
  /\ \A k \in Kinds, who \in SUBSET Agents :
       /\ Update(k, who) \in Operation /\ Update(k, who).do = "load"
       /\ Update(k, who).x = k /\ Update(k, who).who = who
  /\ \A h \in Handlers : Catch(h) \in Operation /\ Catch(h).do = "catch"
  /\ \A c \in Calls, x \in Arguments, who \in SUBSET Agents :
       /\ Op(c, x, who) \in Operation /\ Op(c, x, who).do = c
       /\ Op(c, x, who).x = x /\ Op(c, x, who).who = who
<1>1. ASSUME NEW c \in Calls, NEW x \in Arguments, NEW who \in SUBSET Agents
      PROVE  /\ Op(c, x, who) \in Operation /\ Op(c, x, who).do = c
             /\ Op(c, x, who).x = x /\ Op(c, x, who).who = who
  BY DEF Op, Operation
<1>2. "load" \in Calls /\ "catch" \in Calls /\ "" \in Arguments
      /\ Kinds \subseteq Arguments /\ Handlers \subseteq Arguments
  BY DEF Calls, Arguments
<1>3. {} \in SUBSET Agents /\ \A a \in Agents : {a} \in SUBSET Agents
  OBVIOUS
<1>4. ASSUME NEW c \in Calls PROVE Do(c) \in Operation /\ Do(c).do = c /\ Do(c).who = {}
  BY <1>2, <1>3 DEF Do, Op, Operation
<1>5. ASSUME NEW c \in Calls, NEW a \in Agents
      PROVE  For(c, a) \in Operation /\ For(c, a).do = c /\ For(c, a).who = {a}
  BY <1>2, <1>3 DEF For, Op, Operation
<1>6. ASSUME NEW k \in Kinds, NEW who \in SUBSET Agents
      PROVE  /\ Update(k, who) \in Operation /\ Update(k, who).do = "load"
             /\ Update(k, who).x = k /\ Update(k, who).who = who
  BY <1>2 DEF Update, Op, Operation
<1>7. ASSUME NEW h \in Handlers PROVE Catch(h) \in Operation /\ Catch(h).do = "catch"
  BY <1>2, <1>3 DEF Catch, Op, Operation
<1> QED BY <1>1, <1>4, <1>5, <1>6, <1>7

\* Operations in order, the first of rank l or more and the last reaching no
\* further than m; a mark reaches as far as the planning operations do.
Span(s, l, m) ==
  /\ s \in Seq(Operation) /\ InOrder(s)
  /\ \A i \in 1..Len(s) :
       /\ s[i].do # "save" /\ l <= Rank(s[i])
       /\ IF s[i].do = "catch" THEN m = 12 ELSE Reach(s[i]) <= m

LEMMA SpanConcat ==
  ASSUME NEW a, NEW b, NEW l \in 0..14, NEW m \in 0..11, NEW k \in 0..14, NEW n \in 0..14,
         Span(a, l, m), Span(b, k, n), m < k, l <= k, m <= n
  PROVE  Span(a \o b, l, n) /\ OpsOf(a \o b) = OpsOf(a) \union OpsOf(b)
<1>1. a \in Seq(Operation) /\ b \in Seq(Operation) /\ InOrder(a) /\ InOrder(b)
  BY DEF Span
<1>2. ASSUME NEW i \in 1..Len(a) PROVE a[i].do # "save" /\ a[i].do # "catch" /\ l <= Rank(a[i])
                                     /\ Reach(a[i]) <= m
  BY DEF Span
<1>3. ASSUME NEW j \in 1..Len(b) PROVE b[j].do # "save" /\ k <= Rank(b[j])
                                     /\ IF b[j].do = "catch" THEN n = 12 ELSE Reach(b[j]) <= n
  BY DEF Span
<1>4. ASSUME NEW i \in 1..Len(a), NEW j \in 1..Len(b) PROVE Before(a[i], b[j])
  <2>1. Reach(a[i]) \in 0..14 /\ Rank(b[j]) \in 0..14
    BY RankTyped
  <2>2. Reach(a[i]) <= m /\ k <= Rank(b[j])
    BY <1>2, <1>3
  <2>3. Reach(a[i]) < Rank(b[j])
    <3>1. \A x, y \in 0..14 : x <= m /\ k <= y => x < y
      OBVIOUS
    <3> QED BY <2>1, <2>2, <3>1
  <2> QED BY <1>3, <2>3 DEF Before
<1> DEFINE s == a \o b
<1>5. s \in Seq(Operation) /\ InOrder(s) /\ OpsOf(s) = OpsOf(a) \union OpsOf(b)
  BY <1>1, <1>4, OpsConcat, OrderConcat
<1>6. /\ Len(a) \in Nat /\ Len(b) \in Nat /\ Len(s) = Len(a) + Len(b)
      /\ \A i \in 1..Len(s) : s[i] = IF i <= Len(a) THEN a[i] ELSE b[i - Len(a)]
  BY <1>1, ConcatProperties, LenProperties
<1> HIDE DEF s
<1>7. ASSUME NEW i \in 1..Len(s)
      PROVE  /\ s[i].do # "save" /\ l <= Rank(s[i])
             /\ IF s[i].do = "catch" THEN n = 12 ELSE Reach(s[i]) <= n
  <2>1. CASE i <= Len(a)
    <3>1. i \in 1..Len(a) /\ s[i] = a[i]
      BY <1>6, <2>1
    <3>2. Reach(a[i]) \in 0..14 /\ Reach(a[i]) <= m
      BY <1>2, <3>1, RankTyped
    <3>3. Reach(a[i]) <= n
      <4>1. \A x \in 0..14 : x <= m => x <= n
        OBVIOUS
      <4> QED BY <3>2, <4>1
    <3> QED BY <1>2, <3>1, <3>3
  <2>2. CASE i > Len(a)
    <3>1. i - Len(a) \in 1..Len(b) /\ s[i] = b[i - Len(a)]
      BY <1>6, <2>2
    <3>2. Rank(s[i]) \in 0..14 /\ k <= Rank(s[i])
      BY <1>3, <3>1, RankTyped
    <3>3. l <= Rank(s[i])
      <4>1. \A x \in 0..14 : k <= x => l <= x
        OBVIOUS
      <4> QED BY <3>2, <4>1
    <3> QED BY <1>3, <3>1, <3>3
  <2> QED BY <1>6, <2>1, <2>2
<1> QED BY <1>5, <1>7 DEF Span, s

LEMMA Words ==
  /\ Topics \subseteq Arguments /\ ScanLevels \subseteq Arguments /\ Kinds \subseteq Arguments
  /\ "workflow.completed" \in Topics /\ "workflow.human_gate" \in Topics
  /\ "workflow.human_gate_escalated" \in Topics
  /\ {"finalizeFailed", "stepFailed", "executeFailed", "background", "progressFailed", "skip"}
       \subseteq Handlers
BY DEF Arguments, Topics, Handlers

PersistOps == {Do("scan"), Do("upsert"), Do("verify")}
FinalOps   == PersistOps \union
  {Do("clearscan"), Do("delete"), Op("emit", "workflow.completed", {}), Update("complete", {})}
GateOps    == PersistOps \union {Update("pause", {}), Op("emit", "workflow.human_gate", {})}
EscalateOps == {Update("escalate", {}), Do("view")}

\* The finalizer's calls, on their own and before the gate.
LEMMA PersistSpan == Span(Persist, 6, 8) /\ OpsOf(Persist) = PersistOps
<1> DEFINE a == Do("scan")
           b == Do("upsert")
           c == Do("verify")
<1>1. /\ a \in Operation /\ a.do = "scan" /\ b \in Operation /\ b.do = "upsert"
      /\ c \in Operation /\ c.do = "verify"
  BY Parts DEF Calls
<1>2. Persist = <<a, b, c>> /\ PersistOps = {a, b, c}
  BY DEF Persist, PersistOps
<1> HIDE DEF a, b, c
<1>3. /\ Rank(a) = 6 /\ Reach(a) = 6 /\ Rank(b) = 7 /\ Reach(b) = 7 /\ Rank(c) = 8 /\ Reach(c) = 8
  BY <1>1, Ranks
<1>4. Before(a, b) /\ Before(a, c) /\ Before(b, c)
  BY <1>1, <1>3 DEF Before
<1>5. /\ <<a, b, c>> \in Seq(Operation) /\ InOrder(<<a, b, c>>)
      /\ \A o : o \in OpsOf(<<a, b, c>>) <=> o.do # "catch" /\ o \in {a, b, c}
      /\ \A i \in 1..Len(<<a, b, c>>) : <<a, b, c>>[i] \in {a, b, c}
  BY <1>1, <1>4, Tuples
<1>6. OpsOf(Persist) = PersistOps
  BY <1>1, <1>2, <1>5
<1>7. \A i \in 1..Len(Persist) : Persist[i] = a \/ Persist[i] = b \/ Persist[i] = c
  BY <1>2, <1>5
<1> QED BY <1>1, <1>2, <1>3, <1>5, <1>6, <1>7 DEF Span

LEMMA FinalizeSpan ==
  /\ Span(Finalize, 6, 12) /\ OpsOf(Finalize) = FinalOps
  /\ Span(Persist \o HumanGate, 6, 12) /\ OpsOf(Persist \o HumanGate) = GateOps
<1>1. Span(Finalize, 6, 12) /\ OpsOf(Finalize) = FinalOps
  <2> DEFINE a == Do("clearscan")
             b == Do("delete")
             c == Op("emit", "workflow.completed", {})
             d == Update("complete", {})
             e == Catch("finalizeFailed")
             s == <<a, b, c, d, e>>
  <2>0. /\ c \in Operation /\ c.do = "emit"
    BY Parts, Words DEF Calls
  <2>1. /\ a \in Operation /\ a.do = "clearscan" /\ b \in Operation /\ b.do = "delete"
        /\ c \in Operation /\ c.do = "emit" /\ d \in Operation /\ d.do = "load"
        /\ d.x = "complete" /\ e \in Operation /\ e.do = "catch"
    BY <2>0, Parts DEF Calls, Kinds, Handlers
  <2>2. Finalize = Persist \o s /\ FinalOps = PersistOps \union {a, b, c, d}
    BY DEF Finalize, FinalOps
  <2> HIDE DEF a, b, c, d, e
  <2>3. /\ Rank(a) = 9 /\ Reach(a) = 9 /\ Rank(b) = 10 /\ Reach(b) = 10
        /\ Rank(c) = 11 /\ Reach(c) = 11 /\ Rank(d) = 12 /\ Reach(d) = 12
        /\ Rank(e) = 14 /\ Reach(e) = 14
    BY <2>1, Ranks
  <2>4. /\ Before(a, b) /\ Before(a, c) /\ Before(a, d) /\ Before(a, e) /\ Before(b, c)
        /\ Before(b, d) /\ Before(b, e) /\ Before(c, d) /\ Before(c, e) /\ Before(d, e)
    BY <2>1, <2>3 DEF Before
  <2>5. /\ s \in Seq(Operation) /\ InOrder(s)
        /\ \A o : o \in OpsOf(s) <=> o.do # "catch" /\ o \in {a, b, c, d, e}
        /\ \A i \in 1..Len(s) : s[i] \in {a, b, c, d, e}
    BY <2>1, <2>4, Tuples
  <2> HIDE DEF s
  <2>6. Span(s, 9, 12) /\ OpsOf(s) = {a, b, c, d}
    BY <2>1, <2>3, <2>5 DEF Span
  <2>7. Span(Persist \o s, 6, 12) /\ OpsOf(Persist \o s) = PersistOps \union {a, b, c, d}
    <3>1. /\ 6 \in 0..14 /\ 8 \in 0..11 /\ 9 \in 0..14 /\ 12 \in 0..14
          /\ 8 < 9 /\ 6 <= 9 /\ 8 <= 12
      OBVIOUS
    <3> QED BY <2>6, <3>1, PersistSpan, SpanConcat, ZenonT(60)
  <2> QED BY <2>2, <2>7
<1>2. Span(Persist \o HumanGate, 6, 12) /\ OpsOf(Persist \o HumanGate) = GateOps
  <2> DEFINE a == Update("pause", {})
             b == Op("emit", "workflow.human_gate", {})
  <2>0. b \in Operation /\ b.do = "emit"
    BY Parts, Words DEF Calls
  <2>1. /\ a \in Operation /\ a.do = "load" /\ a.x = "pause" /\ b \in Operation /\ b.do = "emit"
    BY <2>0, Parts DEF Calls, Kinds
  <2>2. HumanGate = <<a, b>> /\ GateOps = PersistOps \union {a, b}
    BY DEF HumanGate, GateOps
  <2> HIDE DEF a, b
  <2>3. Rank(a) = 9 /\ Reach(a) = 9 /\ Rank(b) = 11 /\ Reach(b) = 11
    BY <2>1, Ranks
  <2>4. Before(a, b)
    BY <2>1, <2>3 DEF Before
  <2>5. /\ <<a, b>> \in Seq(Operation) /\ InOrder(<<a, b>>)
        /\ \A o : o \in OpsOf(<<a, b>>) <=> o.do # "catch" /\ o \in {a, b}
        /\ \A i \in 1..Len(<<a, b>>) : <<a, b>>[i] \in {a, b}
    BY <2>1, <2>4, Tuples
  <2>6. OpsOf(HumanGate) = {a, b}
    BY <2>1, <2>2, <2>5
  <2>7. \A i \in 1..Len(HumanGate) : HumanGate[i] = a \/ HumanGate[i] = b
    BY <2>2, <2>5
  <2>8. Span(HumanGate, 9, 12)
    BY <2>1, <2>2, <2>3, <2>5, <2>7 DEF Span
  <2>9. /\ 6 \in 0..14 /\ 8 \in 0..11 /\ 9 \in 0..14 /\ 12 \in 0..14
        /\ 8 < 9 /\ 6 <= 9 /\ 8 <= 12
    OBVIOUS
  <2> QED BY <2>2, <2>6, <2>8, <2>9, PersistSpan, SpanConcat, Zenon
<1> QED BY <1>1, <1>2

\* Short sequences.
Fits(o, l, m) ==
  /\ o \in Operation /\ o.do # "save" /\ l <= Rank(o)
  /\ IF o.do = "catch" THEN m = 12 ELSE Reach(o) <= m

LEMMA SpanNone ==
  ASSUME NEW l, NEW m
  PROVE  Span(<<>>, l, m) /\ OpsOf(<<>>) = {}
<1>1. <<>> \in Seq(Operation) /\ ~(\E i \in 1..Len(<<>>) : TRUE)
  OBVIOUS
<1> QED BY <1>1, NoOps DEF Span

LEMMA SpanOne ==
  ASSUME NEW l \in 0..14, NEW m \in 0..14, NEW a, Fits(a, l, m)
  PROVE  Span(<<a>>, l, m) /\ (a.do # "catch" => OpsOf(<<a>>) = {a})
<1> DEFINE s == <<a>>
<1>1. /\ s \in Seq(Operation) /\ InOrder(s) /\ OpsOf(s) = IF a.do = "catch" THEN {} ELSE {a}
      /\ \A i \in 1..Len(s) : s[i] = a
  BY OneOp DEF Fits
<1> HIDE DEF s
<1>2. Span(s, l, m)
  BY <1>1 DEF Span, Fits
<1> QED BY <1>1, <1>2 DEF s

LEMMA SpanTwo ==
  ASSUME NEW l \in 0..14, NEW m \in 0..14, NEW a, NEW b, Fits(a, l, m), Fits(b, l, m),
         Before(a, b)
  PROVE  Span(<<a, b>>, l, m)
<1> DEFINE s == <<a, b>>
<1>1. /\ s \in Seq(Operation) /\ InOrder(s)
      /\ \A o : o \in OpsOf(s) <=> o.do # "catch" /\ o \in {a, b}
      /\ \A i \in 1..Len(s) : s[i] \in {a, b}
  BY Tuples DEF Fits
<1> HIDE DEF s
<1>2. Span(s, l, m)
  BY <1>1 DEF Span, Fits
<1> QED BY <1>2 DEF s

LEMMA SpanThree ==
  ASSUME NEW l \in 0..14, NEW m \in 0..14, NEW a, NEW b, NEW c,
         Fits(a, l, m), Fits(b, l, m), Fits(c, l, m),
         Before(a, b), Before(a, c), Before(b, c)
  PROVE  Span(<<a, b, c>>, l, m)
<1> DEFINE s == <<a, b, c>>
<1>1. /\ s \in Seq(Operation) /\ InOrder(s)
      /\ \A o : o \in OpsOf(s) <=> o.do # "catch" /\ o \in {a, b, c}
      /\ \A i \in 1..Len(s) : s[i] \in {a, b, c}
  BY Tuples DEF Fits
<1> HIDE DEF s
<1>2. Span(s, l, m)
  BY <1>1 DEF Span, Fits
<1> QED BY <1>2 DEF s

LEMMA OpsOfTuples ==
  /\ \A a, b \in Operation : Before(a, b) /\ a.do # "catch" =>
       OpsOf(<<a, b>>) = IF b.do = "catch" THEN {a} ELSE {a, b}
  /\ \A a, b, c \in Operation :
       /\ Before(a, b) /\ Before(a, c) /\ Before(b, c)
       /\ a.do # "catch" /\ b.do # "catch" /\ c.do # "catch"
       => OpsOf(<<a, b, c>>) = {a, b, c}
<1>1. ASSUME NEW a \in Operation, NEW b \in Operation, Before(a, b), a.do # "catch"
      PROVE  OpsOf(<<a, b>>) = IF b.do = "catch" THEN {a} ELSE {a, b}
  <2> DEFINE s == <<a, b>>
  <2>1. \A o : o \in OpsOf(s) <=> o.do # "catch" /\ o \in {a, b}
    BY <1>1, Tuples
  <2> HIDE DEF s
  <2>2. OpsOf(s) = IF b.do = "catch" THEN {a} ELSE {a, b}
    BY <1>1, <2>1
  <2> QED BY <2>2 DEF s
<1>2. ASSUME NEW a \in Operation, NEW b \in Operation, NEW c \in Operation,
             Before(a, b), Before(a, c), Before(b, c),
             a.do # "catch", b.do # "catch", c.do # "catch"
      PROVE  OpsOf(<<a, b, c>>) = {a, b, c}
  <2> DEFINE s == <<a, b, c>>
  <2>1. \A o : o \in OpsOf(s) <=> o.do # "catch" /\ o \in {a, b, c}
    BY <1>2, Tuples
  <2> HIDE DEF s
  <2>2. OpsOf(s) = {a, b, c}
    BY <1>2, <2>1
  <2> QED BY <2>2 DEF s
<1> QED BY <1>1, <1>2

\* The bounds in use.
LEMMA Bounds ==
  /\ 1 \in 0..14 /\ 2 \in 0..14 /\ 3 \in 0..14 /\ 4 \in 0..14 /\ 5 \in 0..14 /\ 6 \in 0..14
  /\ 7 \in 0..14 /\ 8 \in 0..14 /\ 9 \in 0..14 /\ 12 \in 0..14
  /\ 1 \in 0..11 /\ 2 \in 0..11 /\ 4 \in 0..11 /\ 6 \in 0..11 /\ 8 \in 0..11
  /\ 1 <= 2 /\ 1 < 2 /\ 1 <= 3 /\ 2 < 3 /\ 2 <= 12 /\ 4 < 5 /\ 4 <= 5 /\ 4 <= 12
  /\ 1 <= 4 /\ 1 <= 7 /\ 4 < 7 /\ 6 < 7 /\ 4 <= 8 /\ 6 <= 8 /\ 1 <= 6 /\ 2 <= 5 /\ 2 < 5 /\ 1 < 4
OBVIOUS

\* The planning operations are replaced by no more than planning reaches.
LEMMA PlanSpans ==
  ASSUME NEW a \in Agents
  PROVE  /\ Span(Progress(a), 3, 12) /\ OpsOf(Progress(a)) = {For("plan", a)}
         /\ Span(<<Update("escalate", {}), Do("view")>> \o Progress(a), 1, 12)
         /\ OpsOf(<<Update("escalate", {}), Do("view")>> \o Progress(a))
              = EscalateOps \union {For("plan", a)}
         /\ Span(<<For("checkscr", a)>>, 3, 12)
         /\ OpsOf(<<For("checkscr", a)>>) = {For("checkscr", a)}
         /\ \A x \in Arguments :
              /\ Span(<<Update("escalate", {}), Do("view"), Op("next", x, {a})>>, 1, 12)
              /\ OpsOf(<<Update("escalate", {}), Do("view"), Op("next", x, {a})>>)
                   = EscalateOps \union {Op("next", x, {a})}
<1> DEFINE u == Update("escalate", {})
           v == Do("view")
           f == For("plan", a)
           c == Catch("progressFailed")
           k == For("checkscr", a)
<1>1. /\ u \in Operation /\ u.do = "load" /\ u.x = "escalate" /\ v \in Operation /\ v.do = "view"
      /\ f \in Operation /\ f.do = "plan" /\ c \in Operation /\ c.do = "catch"
      /\ k \in Operation /\ k.do = "checkscr"
  BY Parts DEF Calls, Kinds, Handlers
<1>2. Progress(a) = <<f, c>> /\ EscalateOps = {u, v}
  BY DEF Progress, EscalateOps
<1> DEFINE n(x) == Op("next", x, {a})
<1>3. ASSUME NEW x \in Arguments PROVE n(x) \in Operation /\ n(x).do = "next"
  BY Parts DEF Calls
<1> HIDE DEF u, v, f, c, k, n
<1>4. /\ Rank(u) = 1 /\ Reach(u) = 1 /\ Rank(v) = 2 /\ Reach(v) = 2
      /\ Rank(f) = 3 /\ Reach(f) = 12 /\ Rank(c) = 14 /\ Rank(k) = 3 /\ Reach(k) = 12
      /\ \A x \in Arguments : Rank(n(x)) = 3 /\ Reach(n(x)) = 12
  BY <1>1, <1>3, Ranks DEF Walks
<1>5. Fits(u, 1, 2) /\ Fits(v, 1, 2) /\ Before(u, v)
  BY <1>1, <1>4 DEF Fits, Before
<1>a. Fits(f, 3, 12) /\ Fits(c, 3, 12) /\ Before(f, c)
  BY <1>1, <1>4 DEF Fits, Before
<1>b. Fits(k, 3, 12)
  BY <1>1, <1>4 DEF Fits
<1>6. Span(<<f, c>>, 3, 12) /\ OpsOf(<<f, c>>) = {f}
  <2>1. Span(<<f, c>>, 3, 12)
    BY <1>a, Bounds, SpanTwo
  <2> QED BY <1>1, <1>a, <2>1, OpsOfTuples
<1>7. OpsOf(Progress(a)) = {f}
  BY <1>2, <1>6
<1>8. Span(<<u, v>>, 1, 2) /\ OpsOf(<<u, v>>) = {u, v}
  <2>1. Span(<<u, v>>, 1, 2)
    BY <1>5, Bounds, SpanTwo
  <2> QED BY <1>1, <1>5, <2>1, OpsOfTuples
<1>10. /\ Span(<<u, v>> \o Progress(a), 1, 12)
       /\ OpsOf(<<u, v>> \o Progress(a)) = {u, v} \union {f}
  <2>1. Span(<<u, v>>, 1, 2) /\ Span(Progress(a), 3, 12)
    BY <1>2, <1>6, <1>8, Zenon
  <2>2. /\ Span(<<u, v>> \o Progress(a), 1, 12)
        /\ OpsOf(<<u, v>> \o Progress(a)) = OpsOf(<<u, v>>) \union OpsOf(Progress(a))
    BY <2>1, Bounds, SpanConcat, Zenon
  <2> QED BY <1>7, <1>8, <2>2
<1>11. Span(<<k>>, 3, 12) /\ OpsOf(<<k>>) = {k}
  BY <1>1, <1>b, Bounds, SpanOne
<1>12. ASSUME NEW x \in Arguments
       PROVE  Span(<<u, v, n(x)>>, 1, 12) /\ OpsOf(<<u, v, n(x)>>) = {u, v, n(x)}
  <2>1. n(x).do = "next"
    BY <1>3
  <2>2. /\ Fits(u, 1, 12) /\ Fits(v, 1, 12) /\ Fits(n(x), 1, 12)
        /\ Before(u, v) /\ Before(u, n(x)) /\ Before(v, n(x))
    BY <1>1, <1>3, <1>4 DEF Fits, Before
  <2>3. Span(<<u, v, n(x)>>, 1, 12)
    BY <2>2, Bounds, SpanThree
  <2> QED BY <1>1, <1>3, <2>1, <2>2, <2>3, OpsOfTuples
<1>13. ASSUME NEW x \in Arguments
       PROVE  Span(<<u, v, n(x)>>, 1, 12) /\ OpsOf(<<u, v, n(x)>>) = EscalateOps \union {n(x)}
  BY <1>2, <1>12
<1> QED BY <1>2, <1>6, <1>7, <1>10, <1>11, <1>13 DEF u, v, f, k, n

LEMMA SpanWeaken ==
  ASSUME NEW s, NEW k \in 0..14, NEW l \in 0..14, NEW m, Span(s, k, m), l <= k
  PROVE  Span(s, l, m)
<1>1. ASSUME NEW i \in 1..Len(s) PROVE l <= Rank(s[i])
  <2>1. k <= Rank(s[i]) /\ Rank(s[i]) \in 0..14
    BY RankTyped DEF Span
  <2>2. \A x \in 0..14 : k <= x => l <= x
    OBVIOUS
  <2> QED BY <2>1, <2>2
<1> QED BY <1>1 DEF Span

\* A call about some agents.
About(do, who) == Op(do, "", who)

LEMMA AboutParts ==
  /\ \A c \in Calls, who \in SUBSET Agents :
       About(c, who) \in Operation /\ About(c, who).do = c /\ About(c, who).who = who
  /\ \A who : TriggerAgents(who) = <<About("gather", who), Catch("stepFailed")>>
<1>1. "" \in Arguments
  BY DEF Arguments
<1>2. ASSUME NEW c \in Calls, NEW who \in SUBSET Agents
      PROVE  About(c, who) \in Operation /\ About(c, who).do = c /\ About(c, who).who = who
  BY <1>1 DEF About, Op, Operation
<1>3. \A who : TriggerAgents(who) = <<About("gather", who), Catch("stepFailed")>>
  BY DEF TriggerAgents, About
<1> QED BY <1>2, <1>3

LEMMA TriggerSpan ==
  ASSUME NEW who \in SUBSET Agents
  PROVE  Span(TriggerAgents(who), 5, 12) /\ OpsOf(TriggerAgents(who)) = {About("gather", who)}
<1> DEFINE g == About("gather", who)
           c == Catch("stepFailed")
<1>1. g \in Operation /\ g.do = "gather" /\ c \in Operation /\ c.do = "catch"
  BY AboutParts, Parts DEF Calls, Handlers
<1>2. TriggerAgents(who) = <<g, c>>
  BY AboutParts
<1> HIDE DEF g, c
<1>3. Rank(g) = 5 /\ Reach(g) = 12 /\ Rank(c) = 14
  BY <1>1, Ranks
<1>4. Fits(g, 5, 12) /\ Fits(c, 5, 12) /\ Before(g, c)
  BY <1>1, <1>3 DEF Fits, Before
<1>5. Span(<<g, c>>, 5, 12)
  BY <1>4, Bounds, SpanTwo
<1>6. OpsOf(<<g, c>>) = {g}
  BY <1>1, <1>4, OpsOfTuples
<1> QED BY <1>2, <1>5, <1>6 DEF g

LEMMA ProgressionSpan ==
  ASSUME NEW a \in Agents, NEW s \in WorkflowState, NEW o, NEW paused
  PROVE  /\ Span(Progression(a, s, o, paused), 4, 12)
         /\ NextAgents(a, s, o) = {} =>
              OpsOf(Progression(a, s, o, paused))
                = IF a = "reporting" /\ o.human THEN GateOps ELSE FinalOps
         /\ NextAgents(a, s, o) # {} =>
              OpsOf(Progression(a, s, o, paused)) =
                (IF Advances(s) THEN {Do("saveview")} ELSE {})
                  \union (IF paused THEN {} ELSE {About("gather", NextAgents(a, s, o))})
<1> DEFINE who == NextAgents(a, s, o)
           P == Progression(a, s, o, paused)
<1>1. CASE who = {}
  <2>1. P = Finish(a, o)
    BY <1>1 DEF Progression
  <2>2. P = IF a = "reporting" /\ o.human THEN Persist \o HumanGate ELSE Finalize
    BY <2>1 DEF Finish
  <2>3. Span(P, 6, 12) /\ OpsOf(P) = IF a = "reporting" /\ o.human THEN GateOps ELSE FinalOps
    BY <2>2, FinalizeSpan
  <2> HIDE DEF P
  <2>4. Span(P, 4, 12)
    <3>1. 4 \in 0..14 /\ 6 \in 0..14 /\ 4 <= 6
      OBVIOUS
    <3> QED BY <2>3, <3>1, SpanWeaken
  <2> QED BY <1>1, <2>3, <2>4 DEF P
<1>2. CASE who # {}
  <2> DEFINE A == IF Advances(s) THEN <<Do("saveview")>> ELSE <<>>
             B == IF paused THEN <<>> ELSE TriggerAgents(who)
  <2>1. P = A \o B
    BY <1>2 DEF Progression
  <2>2. who \in SUBSET Agents
    BY NextAgentsTyped
  <2>3. Span(A, 4, 4) /\ OpsOf(A) = IF Advances(s) THEN {Do("saveview")} ELSE {}
    <3> DEFINE v == Do("saveview")
    <3>1. v \in Operation /\ v.do = "saveview"
      BY Parts DEF Calls
    <3> HIDE DEF v
    <3>2. Rank(v) = 4 /\ Reach(v) = 4
      BY <3>1, Ranks
    <3>3. Fits(v, 4, 4)
      BY <3>1, <3>2 DEF Fits
    <3>4. Span(<<v>>, 4, 4) /\ OpsOf(<<v>>) = {v}
      BY <3>1, <3>3, Bounds, SpanOne
    <3>5. Span(<<>>, 4, 4) /\ OpsOf(<<>>) = {}
      BY SpanNone
    <3> QED BY <3>4, <3>5 DEF v
  <2>4. Span(B, 5, 12) /\ OpsOf(B) = IF paused THEN {} ELSE {About("gather", who)}
    BY <2>2, TriggerSpan, SpanNone, Zenon
  <2> HIDE DEF A, B
  <2>5. Span(A \o B, 4, 12) /\ OpsOf(A \o B) = OpsOf(A) \union OpsOf(B)
    BY <2>3, <2>4, Bounds, SpanConcat, Zenon
  <2> QED BY <1>2, <2>1, <2>3, <2>4, <2>5
<1> QED BY <1>1, <1>2

\* The operations of an agent's run.
RunOps(a) ==
  {Update("running", {a}), For("notify", a)} \union
    (IF a = "scr" THEN {For("placeholder", a), For("pipeline", a)}
     ELSE IF a = "cma" THEN {For("readscr", a), For("write", a)}
     ELSE IF a = "reporting" THEN {For("readscr", a), For("readcma", a), For("write", a)}
     ELSE {For("write", a)})

LEMMA AgentRunSpan ==
  ASSUME NEW a \in Agents
  PROVE  Span(AgentRun(a), 1, 8) /\ OpsOf(AgentRun(a)) = RunOps(a)
<1> DEFINE u == Update("running", {a})
           n == For("notify", a)
           h == For("placeholder", a)
           q == For("pipeline", a)
           r == For("readscr", a)
           c == For("readcma", a)
           w == For("write", a)
           M == IF a = "scr" THEN <<h, q>> ELSE IF a = "cma" THEN <<r, w>>
                ELSE IF a = "reporting" THEN <<r, c, w>> ELSE <<w>>
           N == IF a = "scr" THEN {h, q} ELSE IF a = "cma" THEN {r, w}
                ELSE IF a = "reporting" THEN {r, c, w} ELSE {w}
<1>1. AgentRun(a) = <<u>> \o M \o <<n>>
  BY DEF AgentRun
<1>2. RunOps(a) = {u, n} \union N
  BY DEF RunOps
<1>3. /\ u \in Operation /\ u.do = "load" /\ u.x = "running" /\ n \in Operation /\ n.do = "notify"
      /\ h \in Operation /\ h.do = "placeholder" /\ q \in Operation /\ q.do = "pipeline"
      /\ r \in Operation /\ r.do = "readscr" /\ c \in Operation /\ c.do = "readcma"
      /\ w \in Operation /\ w.do = "write"
  BY Parts DEF Calls, Kinds
<1> HIDE DEF u, n, h, q, r, c, w
<1>4. /\ Rank(u) = 1 /\ Reach(u) = 1 /\ Rank(n) = 7 /\ Reach(n) = 8 /\ Rank(h) = 2 /\ Reach(h) = 2
      /\ Rank(q) = 3 /\ Reach(q) = 6 /\ Rank(r) = 2 /\ Reach(r) = 2 /\ Rank(c) = 3 /\ Reach(c) = 3
      /\ Rank(w) = 4 /\ Reach(w) = 4
  BY <1>3, Ranks
<1>5. Span(<<u>>, 1, 1) /\ OpsOf(<<u>>) = {u} /\ Span(<<n>>, 7, 8) /\ OpsOf(<<n>>) = {n}
  <2>1. Fits(u, 1, 1) /\ Fits(n, 7, 8)
    BY <1>3, <1>4 DEF Fits
  <2> QED BY <1>3, <2>1, Bounds, SpanOne
<1>6. Span(M, 2, 6) /\ OpsOf(M) = N
  <2>1. Span(<<h, q>>, 2, 6) /\ OpsOf(<<h, q>>) = {h, q}
    <3>1. Fits(h, 2, 6) /\ Fits(q, 2, 6) /\ Before(h, q)
      BY <1>3, <1>4 DEF Fits, Before
    <3>2. Span(<<h, q>>, 2, 6)
      BY <3>1, Bounds, SpanTwo
    <3> QED BY <1>3, <3>1, <3>2, OpsOfTuples
  <2>2. Span(<<r, w>>, 2, 6) /\ OpsOf(<<r, w>>) = {r, w}
    <3>1. Fits(r, 2, 6) /\ Fits(w, 2, 6) /\ Before(r, w)
      BY <1>3, <1>4 DEF Fits, Before
    <3>2. Span(<<r, w>>, 2, 6)
      BY <3>1, Bounds, SpanTwo
    <3> QED BY <1>3, <3>1, <3>2, OpsOfTuples
  <2>3. Span(<<r, c, w>>, 2, 6) /\ OpsOf(<<r, c, w>>) = {r, c, w}
    <3>1. /\ Fits(r, 2, 6) /\ Fits(c, 2, 6) /\ Fits(w, 2, 6)
          /\ Before(r, c) /\ Before(r, w) /\ Before(c, w)
      BY <1>3, <1>4 DEF Fits, Before
    <3>2. Span(<<r, c, w>>, 2, 6)
      BY <3>1, Bounds, SpanThree
    <3> QED BY <1>3, <3>1, <3>2, OpsOfTuples
  <2>4. Span(<<w>>, 2, 6) /\ OpsOf(<<w>>) = {w}
    <3>1. Fits(w, 2, 6)
      BY <1>3, <1>4 DEF Fits
    <3> QED BY <1>3, <3>1, Bounds, SpanOne, ZenonT(60)
  <2> QED BY <2>1, <2>2, <2>3, <2>4
<1> HIDE DEF M, N
<1>7. Span(<<u>> \o M, 1, 6) /\ OpsOf(<<u>> \o M) = {u} \union N
  <2>1. /\ Span(<<u>> \o M, 1, 6) /\ OpsOf(<<u>> \o M) = OpsOf(<<u>>) \union OpsOf(M)
    BY <1>5, <1>6, Bounds, SpanConcat, Zenon
  <2> QED BY <1>5, <1>6, <2>1
<1>8. Span((<<u>> \o M) \o <<n>>, 1, 8) /\ OpsOf((<<u>> \o M) \o <<n>>) = ({u} \union N) \union {n}
  <2>1. /\ Span((<<u>> \o M) \o <<n>>, 1, 8)
        /\ OpsOf((<<u>> \o M) \o <<n>>) = OpsOf(<<u>> \o M) \union OpsOf(<<n>>)
    <3>1. /\ 1 \in 0..14 /\ 6 \in 0..11 /\ 7 \in 0..14 /\ 8 \in 0..14
          /\ 6 < 7 /\ 1 <= 7 /\ 6 <= 8
      OBVIOUS
    <3> QED BY <1>5, <1>7, <3>1, SpanConcat, ZenonT(60)
  <2> QED BY <1>5, <1>7, <2>1, Zenon
<1>9. {u, n} \union N = ({u} \union N) \union {n}
  OBVIOUS
<1> QED BY <1>1, <1>2, <1>8, <1>9

\* What SCR's scan and an agent's notification are replaced by.
LEMMA AnnounceSpan ==
  /\ \A l \in ScanLevels :
       /\ Span(<<Op("output", l, {}), For("publish", "scr"), Do("late")>>, 4, 6)
       /\ OpsOf(<<Op("output", l, {}), For("publish", "scr"), Do("late")>>)
            = {Op("output", l, {}), For("publish", "scr"), Do("late")}
  /\ \A a \in Agents :
       Span(<<For("publish", a)>>, 5, 5) /\ OpsOf(<<For("publish", a)>>) = {For("publish", a)}
  /\ Span(<<Update("failed", {"scr"})>>, 8, 8)
  /\ OpsOf(<<Update("failed", {"scr"})>>) = {Update("failed", {"scr"})}
<1>1. ASSUME NEW l \in ScanLevels
      PROVE  /\ Span(<<Op("output", l, {}), For("publish", "scr"), Do("late")>>, 4, 6)
             /\ OpsOf(<<Op("output", l, {}), For("publish", "scr"), Do("late")>>)
                  = {Op("output", l, {}), For("publish", "scr"), Do("late")}
  <2> DEFINE u == Op("output", l, {})
             v == For("publish", "scr")
             w == Do("late")
  <2>1. /\ u \in Operation /\ u.do = "output" /\ v \in Operation /\ v.do = "publish"
        /\ w \in Operation /\ w.do = "late"
    BY Parts, Words DEF Calls, Agents
  <2> HIDE DEF u, v, w
  <2>2. /\ Rank(u) = 4 /\ Reach(u) = 4 /\ Rank(v) = 5 /\ Reach(v) = 5
        /\ Rank(w) = 6 /\ Reach(w) = 6
    BY <2>1, Ranks
  <2>3. /\ Fits(u, 4, 6) /\ Fits(v, 4, 6) /\ Fits(w, 4, 6)
        /\ Before(u, v) /\ Before(u, w) /\ Before(v, w)
    BY <2>1, <2>2 DEF Fits, Before
  <2>4. Span(<<u, v, w>>, 4, 6)
    BY <2>3, Bounds, SpanThree
  <2>5. OpsOf(<<u, v, w>>) = {u, v, w}
    BY <2>1, <2>3, OpsOfTuples
  <2> QED BY <2>4, <2>5 DEF u, v, w
<1>2. ASSUME NEW a \in Agents
      PROVE  /\ Span(<<For("publish", a)>>, 5, 5)
             /\ OpsOf(<<For("publish", a)>>) = {For("publish", a)}
  <2> DEFINE v == For("publish", a)
  <2>1. v \in Operation /\ v.do = "publish"
    BY Parts DEF Calls
  <2> HIDE DEF v
  <2>2. Fits(v, 5, 5)
    BY <2>1, Ranks DEF Fits
  <2>3. Span(<<v>>, 5, 5) /\ OpsOf(<<v>>) = {v}
    BY <2>1, <2>2, Bounds, SpanOne
  <2> QED BY <2>3 DEF v
<1>3. /\ Span(<<Update("failed", {"scr"})>>, 8, 8)
      /\ OpsOf(<<Update("failed", {"scr"})>>) = {Update("failed", {"scr"})}
  <2> DEFINE v == Update("failed", {"scr"})
  <2>1. v \in Operation /\ v.do = "load" /\ v.x = "failed"
    BY Parts DEF Kinds, Agents
  <2> HIDE DEF v
  <2>2. Fits(v, 8, 8)
    BY <2>1, Ranks DEF Fits
  <2>3. Span(<<v>>, 8, 8) /\ OpsOf(<<v>>) = {v}
    <3>1. 8 \in 0..14
      OBVIOUS
    <3> QED BY <2>1, <2>2, <3>1, SpanOne
  <2> QED BY <2>3 DEF v
<1> QED BY <1>1, <1>2, <1>3

\* The tasks as they start.
LEMMA StartSpans ==
  /\ RunInBackground \in Seq(Operation) /\ InOrder(RunInBackground)
  /\ OpsOf(RunInBackground) = {Do("view"), About("gather", {"scr"})}
  /\ \A a \in Agents :
       /\ OnAgentComplete(a) \in Seq(Operation) /\ InOrder(OnAgentComplete(a))
       /\ OpsOf(OnAgentComplete(a))
            = {Update("done", {a}), Do("view"), For("surface", a), Do("commit")}
<1>1. /\ RunInBackground \in Seq(Operation) /\ InOrder(RunInBackground)
      /\ OpsOf(RunInBackground) = {Do("view"), About("gather", {"scr"})}
  <2> DEFINE v == Do("view")
             c == Catch("executeFailed")
             d == Catch("background")
             T == TriggerAgents({"scr"})
             g == About("gather", {"scr"})
             D == <<c, d>>
  <2>1. /\ v \in Operation /\ v.do = "view" /\ c \in Operation /\ c.do = "catch"
        /\ d \in Operation /\ d.do = "catch"
    BY Parts DEF Calls, Handlers
  <2>2. Span(T, 5, 12) /\ OpsOf(T) = {g}
    BY TriggerSpan DEF Agents
  <2>3. RunInBackground = (<<v>> \o T) \o D
    BY DEF RunInBackground
  <2> HIDE DEF v, c, d, T, g, D
  <2>4. Rank(v) = 2 /\ Reach(v) = 2 /\ Rank(c) = 14 /\ Rank(d) = 14
    BY <2>1, Ranks
  <2>5. Span(<<v>>, 2, 2) /\ OpsOf(<<v>>) = {v}
    <3>1. Fits(v, 2, 2) /\ 2 \in 0..14
      BY <2>1, <2>4 DEF Fits
    <3> QED BY <2>1, <3>1, SpanOne
  <2>6. Span(<<v>> \o T, 2, 12) /\ OpsOf(<<v>> \o T) = {v} \union {g}
    <3>1. Span(<<v>> \o T, 2, 12) /\ OpsOf(<<v>> \o T) = OpsOf(<<v>>) \union OpsOf(T)
      BY <2>2, <2>5, Bounds, SpanConcat, Zenon
    <3> QED BY <2>2, <2>5, <3>1, Zenon
  <2>7. /\ D \in Seq(Operation) /\ InOrder(D) /\ OpsOf(D) = {}
        /\ \A i \in 1..Len(D) : D[i].do = "catch" /\ Rank(D[i]) = 14
    <3>1. Before(c, d)
      BY <2>1 DEF Before
    <3>2. /\ D \in Seq(Operation) /\ InOrder(D)
          /\ \A o : o \in OpsOf(D) <=> o.do # "catch" /\ o \in {c, d}
          /\ \A i \in 1..Len(D) : D[i] \in {c, d}
      BY <2>1, <3>1, Tuples DEF D
    <3> QED BY <2>1, <2>4, <3>2
  <2>8. ASSUME NEW i \in 1..Len(<<v>> \o T), NEW j \in 1..Len(D)
        PROVE  Before((<<v>> \o T)[i], D[j])
    <3> DEFINE o == (<<v>> \o T)[i]
    <3>1. IF o.do = "catch" THEN TRUE ELSE Reach(o) <= 12
      BY <2>6 DEF Span
    <3>2. CASE o.do = "catch"
      BY <2>7, <3>2 DEF Before
    <3>3. CASE o.do # "catch"
      <4>1. Reach(o) <= 12 /\ Reach(o) \in 0..14
        BY <3>1, <3>3, RankTyped
      <4>2. \A x \in 0..14 : x <= 12 => x < 14
        OBVIOUS
      <4>3. Reach(o) < Rank(D[j]) /\ D[j].do # "save"
        BY <2>7, <4>1, <4>2
      <4> QED BY <4>3 DEF Before
    <3> QED BY <3>2, <3>3
  <2>9. <<v>> \o T \in Seq(Operation) /\ InOrder(<<v>> \o T)
    BY <2>6 DEF Span
  <2>10. /\ (<<v>> \o T) \o D \in Seq(Operation) /\ InOrder((<<v>> \o T) \o D)
         /\ OpsOf((<<v>> \o T) \o D) = OpsOf(<<v>> \o T) \union OpsOf(D)
    BY <2>7, <2>8, <2>9, OpsConcat, OrderConcat
  <2>11. OpsOf((<<v>> \o T) \o D) = {v, g}
    BY <2>6, <2>7, <2>10
  <2> QED BY <2>3, <2>10, <2>11 DEF v, g
<1>2. ASSUME NEW a \in Agents
      PROVE  /\ OnAgentComplete(a) \in Seq(Operation) /\ InOrder(OnAgentComplete(a))
             /\ OpsOf(OnAgentComplete(a))
                  = {Update("done", {a}), Do("view"), For("surface", a), Do("commit")}
  <2> DEFINE u == Update("done", {a})
             v == Do("view")
             f == For("surface", a)
             w == Do("commit")
             e == Catch("skip")
             s == <<u, v, f, w, e>>
  <2>1. /\ u \in Operation /\ u.do = "load" /\ u.x = "done" /\ v \in Operation /\ v.do = "view"
        /\ f \in Operation /\ f.do = "surface" /\ w \in Operation /\ w.do = "commit"
        /\ e \in Operation /\ e.do = "catch"
    BY Parts DEF Calls, Kinds, Handlers
  <2>2. OnAgentComplete(a) = s
    BY DEF OnAgentComplete
  <2> HIDE DEF u, v, f, w, e
  <2>3. /\ Rank(u) = 1 /\ Reach(u) = 1 /\ Rank(v) = 2 /\ Reach(v) = 2 /\ Rank(f) = 3
        /\ Reach(f) = 12 /\ Rank(w) = 13 /\ Reach(w) = 13 /\ Rank(e) = 14
    BY <2>1, Ranks DEF Walks
  <2>4. /\ Before(u, v) /\ Before(u, f) /\ Before(u, w) /\ Before(u, e) /\ Before(v, f)
        /\ Before(v, w) /\ Before(v, e) /\ Before(f, w) /\ Before(f, e) /\ Before(w, e)
    BY <2>1, <2>3 DEF Before
  <2>5. /\ s \in Seq(Operation) /\ InOrder(s)
        /\ \A o : o \in OpsOf(s) <=> o.do # "catch" /\ o \in {u, v, f, w, e}
    BY <2>1, <2>4, Tuples
  <2> HIDE DEF s
  <2>6. OpsOf(s) = {u, v, f, w}
    BY <2>1, <2>5
  <2> QED BY <2>2, <2>5, <2>6 DEF u, v, f, w
<1> QED BY <1>1, <1>2

LEMMA GoesSpan ==
  ASSUME IInv, Orderly, NEW p \in Procs, todo[p] # <<>>, NEW new, NEW l, NEW m \in 0..14,
         Span(new, l, m), m <= Reach(This(p)), m = 12 => Reach(This(p)) = 12,
         NEW locals, Continue(p, new \o Rest(p), locals)
  PROVE  Goes(p, OpsOf(new), locals)
<1>1. /\ new \in Seq(Operation) /\ InOrder(new)
      /\ \A i \in 1..Len(new) : IF new[i].do = "catch" THEN m = 12 ELSE Reach(new[i]) <= m
  BY DEF Span
<1>2. ASSUME NEW i \in 1..Len(new), new[i].do # "catch" PROVE Reach(new[i]) <= Reach(This(p))
  <2>1. Reach(new[i]) <= m /\ Reach(new[i]) \in 0..14 /\ Reach(This(p)) \in 0..14
    BY <1>1, <1>2, RankTyped
  <2>2. \A x, y \in 0..14 : x <= m /\ m <= y => x <= y
    OBVIOUS
  <2> QED BY <2>1, <2>2
<1> QED BY <1>1, <1>2, Goes1

\* A task that was over starts.
LEMMA GoesStart ==
  ASSUME IInv, NEW p \in Procs, todo[p] = <<>>, NEW ops \in Seq(Operation), InOrder(ops),
         NEW locals, Continue(p, ops, locals)
  PROVE  Goes(p, OpsOf(ops), locals)
<1>1. /\ todo' = [todo EXCEPT ![p] = Settle(ops)]
      /\ local' = [local EXCEPT ![p] = IF Settle(ops) = <<>> THEN NoLocals ELSE locals]
      /\ raised' = raised
  BY DEF Continue
<1>2. /\ todo'[p] = Settle(ops)
      /\ local'[p] = IF todo'[p] = <<>> THEN NoLocals ELSE locals
      /\ \A q \in Procs : q # p => todo'[q] = todo[q] /\ local'[q] = local[q]
  BY <1>1 DEF IInv, ControlOK
<1>3. OpsOf(todo[p]) \ {This(p)} = {}
  BY NoOps
<1> QED BY <1>1, <1>2, <1>3, OrderSettle DEF Goes

\* The invariant, part by part.
GateInv ==
  /\ Orderly /\ Memory /\ Outputs /\ Told /\ Backing /\ Surfaced /\ Snapped
  /\ Decided /\ Held /\ Waiting /\ Records /\ InStep /\ OneToken /\ Reviewed

\* A task other than the consumer goes on, and nothing but itself and what the
\* record says of the agents is changed.
LEMMA OtherMoves ==
  ASSUME IInv, GateInv, NEW p \in Procs, p # "consumer", NEW N, NEW locals, Goes(p, N, locals),
         UNCHANGED <<shared, row, topic, position>>,
         Alike(wf', wf), Rested(wf'), Completed(wf') => Closed,
         wf' = wf \/ wf.paused \/ Cleared \/ ~Has(Handling, Walks),
         \A o \in N : Expected(p, o),
         locals.view \in {local[p].view, wf, NoState},
         locals.copy \in {local[p].copy, wf, NoState},
         Has(todo'[p], {"save"}) => Alike(locals.copy, wf),
         p = "background" =>
           (Has(todo'[p], {"view", "gather"}) => Has(todo[p], {"view", "gather"})),
         p = "scr" => Scanning # <<>> /\ Scans(todo'[p]),
         p \in Agents \ {"scr"} =>
           /\ todo[p] # <<>>
           /\ todo'[p] # <<>> =>
                /\ Has(todo'[p], {"write"}) \/ Present(shared[p])
                /\ Has(todo'[p], {"publish"}) => ~Has(todo'[p], {"notify"}),
         p = "watcher" => (todo'[p] # <<>> => wf.paused)
  PROVE  GateInv'
<1>1. /\ \A q \in Procs : q # p => todo'[q] = todo[q] /\ local'[q] = local[q]
      /\ Handling' = Handling /\ Mine' = Mine
      /\ local'[p] = IF todo'[p] = <<>> THEN NoLocals ELSE locals
  BY ProcsTyped DEF Goes, Handling, Mine
<1>2. /\ wf'.name = wf.name /\ wf'.flow = wf.flow /\ wf'.step = wf.step /\ wf'.paused = wf.paused
      /\ shared' = shared /\ row' = row /\ topic' = topic /\ position' = position
      /\ \A s : Alike(s, wf') <=> Alike(s, wf)
  BY DEF Alike
<1>3. /\ Orderly /\ Memory /\ Outputs /\ Told /\ Backing /\ Surfaced /\ Snapped
      /\ Decided /\ Held /\ Waiting /\ Records /\ InStep /\ OneToken /\ Reviewed
  BY DEF GateInv
<1>4. Def' = Def /\ Fixed' = Fixed /\ Ordinary' = Ordinary /\ Cleared' = Cleared /\ Closed' = Closed
  <2>1. \A m : Finished(m)' = Finished(m)
    BY <1>2 DEF Finished, Team
  <2> QED BY <1>2, <2>1 DEF Def, Fixed, Ordinary, Cleared, Closed
<1>5. Orderly'
  BY <1>3, GoesOrderly
<1>6. Memory'
  <2>1. Has(todo'["background"], {"view", "gather"}) => topic = <<>> /\ Scanning' = <<>>
    BY <1>1, <1>3, ProcsTyped, NamesDistinct DEF Memory, Scanning
  <2>2. Scans(todo'["scr"])
    BY <1>1, <1>3, NamesDistinct DEF Memory, Scanning
  <2>3. Scans(Scanning)'
    BY <1>2, <1>4, <2>2 DEF Scans, Scanning
  <2> QED BY <1>1, <1>2, <1>3, <1>4, <2>1, <2>3, Zenon DEF Memory
<1>7. Outputs'
  <2>1. ASSUME NEW a \in Agents \ {"scr"}, todo'[a] # <<>>
        PROVE  /\ Has(todo'[a], {"write"}) \/ Present(shared[a])
               /\ Has(todo'[a], {"publish"}) => ~Has(todo'[a], {"notify"})
    BY <1>1, <1>3, <2>1, NamesDistinct DEF Outputs
  <2> QED BY <1>2, <1>3, <2>1, Zenon DEF Outputs
<1>8. Told' /\ Backing' /\ Surfaced'
  BY <1>1, <1>2, <1>3, <1>4 DEF Told, Backing, Surfaced
<1>9. Snapped' /\ Decided'
  <2>1. Snapped'
    BY <1>1, <1>2, <1>3, Zenon DEF Snapped
  <2>2. Finished(shared)' = Finished(shared)
    BY <1>2 DEF Finished, Team
  <2> QED BY <1>1, <1>2, <1>3, <1>4, <2>1, <2>2, Zenon DEF Decided
<1>10. Held'
  <2>1. ASSUME NEW q \in Procs
        PROVE  /\ Completed(local'[q].view) \/ Completed(local'[q].copy) => Closed
               /\ Rested(local'[q].view) /\ Rested(local'[q].copy)
    <3>1. ~Completed(NoState) /\ Rested(NoState)
      BY DEF NoState, NewState, Completed, Rested
    <3>2. NoLocals.view = NoState /\ NoLocals.copy = NoState
      BY DEF NoLocals
    <3>3. /\ Completed(wf) => Closed
          /\ Rested(wf)
          /\ Completed(local[q].view) \/ Completed(local[q].copy) => Closed
          /\ Rested(local[q].view) /\ Rested(local[q].copy)
      BY <1>3 DEF Held
    <3> QED BY <1>1, <3>1, <3>2, <3>3
  <2> QED BY <1>4, <2>1 DEF Held
<1>11. Waiting'
  <2>1. todo'["watcher"] # <<>> => wf.paused
    BY <1>1, <1>3, ProcsTyped DEF Waiting
  <2> QED BY <1>1, <1>2, <1>3, <2>1 DEF Waiting
<1>12. Records'
  <2>1. ASSUME NEW q \in Procs, Has(todo'[q], {"save"}) PROVE Alike(local'[q].copy, wf')
    <3>1. CASE q = p
      <4>1. todo'[p] # <<>>
        BY <2>1, <3>1, NoOps DEF Has
      <4> QED BY <1>1, <1>2, <2>1, <3>1, <4>1
    <3>2. CASE q # p
      BY <1>1, <1>2, <1>3, <2>1, <3>2 DEF Records
    <3> QED BY <3>1, <3>2
  <2> QED BY <1>1, <1>2, <1>3, <1>4, <2>1, Zenon DEF Records
<1>13. InStep'
  BY <1>1, <1>2, <1>3, <1>4 DEF InStep
<1>14. Reviewed'
  <2>1. CASE wf' = wf
    BY <1>1, <1>2, <1>3, <1>4, <2>1 DEF Reviewed
  <2>2. CASE Cleared
    BY <1>4, <2>2 DEF Reviewed
  <2>3. CASE ~Cleared /\ (wf.paused \/ ~Has(Handling, Walks))
    <3> SUFFICES ASSUME Ordinary PROVE Reviewed'
      BY <1>4 DEF Reviewed
    <3>1. /\ \A i \in 1..wf.step - 1 : \A a \in Def[i] : shared[a].status = "COMPLETED"
          /\ \A o, u \in OpsOf(Handling) : o.do \in Walks /\ Upd(u, {"done"}) =>
               o.who = u.who /\ Has(Handling, {"view"})
      BY <1>3, <2>3 DEF Reviewed
    <3>2. /\ \A i \in 1..wf'.step - 1 : \A a \in Def'[i] : shared'[a].status = "COMPLETED"
          /\ \A o, u \in OpsOf(Handling') : o.do \in Walks /\ Upd(u, {"done"}) =>
               o.who = u.who /\ Has(Handling', {"view"})
      BY <1>1, <1>2, <1>4, <3>1
    <3>3. wf'.paused \/ \A o \in OpsOf(Handling') : o.do \notin Walks
      BY <1>1, <1>2, <2>3 DEF Has
    <3> QED BY <3>2, <3>3, Zenon DEF Reviewed
  <2> QED BY <2>1, <2>2, <2>3
<1>15. OneToken'
  <2>1. (\E a \in Agents \ {"scr"} : todo'[a] # <<>>) => \E a \in Agents \ {"scr"} : todo[a] # <<>>
    BY <1>1, NamesDistinct
  <2> QED BY <1>1, <1>2, <1>3, <1>4, <2>1 DEF OneToken
<1> QED BY <1>5, <1>6, <1>7, <1>8, <1>9, <1>10, <1>11, <1>12, <1>13, <1>14, <1>15 DEF GateInv

\* Nothing but itself is changed.
LEMMA OtherQuiet ==
  ASSUME IInv, GateInv, NEW p \in Procs, p # "consumer", NEW N, NEW locals, Goes(p, N, locals),
         UNCHANGED <<wf, shared, row, topic, position>>,
         \A o \in N : Expected(p, o),
         locals.view \in {local[p].view, wf, NoState},
         locals.copy \in {local[p].copy, wf, NoState},
         Has(todo'[p], {"save"}) => Alike(locals.copy, wf),
         p = "background" =>
           (Has(todo'[p], {"view", "gather"}) => Has(todo[p], {"view", "gather"})),
         p = "scr" => Scanning # <<>> /\ Scans(todo'[p]),
         p \in Agents \ {"scr"} =>
           /\ todo[p] # <<>>
           /\ todo'[p] # <<>> =>
                /\ Has(todo'[p], {"write"}) \/ Present(shared[p])
                /\ Has(todo'[p], {"publish"}) => ~Has(todo'[p], {"notify"}),
         p = "watcher" => (todo'[p] # <<>> => wf.paused)
  PROVE  GateInv'
<1>1. wf' = wf /\ Alike(wf', wf) /\ UNCHANGED <<shared, row, topic, position>>
  BY DEF Alike
<1>2. Rested(wf') /\ (Completed(wf') => Closed)
  BY <1>1 DEF GateInv, Held
<1> QED BY <1>1, <1>2, OtherMoves

\* What is still to come once an operation is done, or has become its save.
LEMMA DropOps ==
  ASSUME NEW p, NEW locals, Goes(p, {}, locals)
  PROVE  /\ \A D : This(p).do \notin D => (Has(todo'[p], D) <=> Has(todo[p], D))
         /\ \A K : ~Upd(This(p), K) => (Will(todo'[p], K) <=> Will(todo[p], K))
         /\ \A D : Has(todo'[p], D) => Has(todo[p], D)
         /\ \A K : Will(todo'[p], K) => Will(todo[p], K)
         /\ \A o : o \in OpsOf(todo'[p]) <=> o \in OpsOf(todo[p]) /\ o # This(p)
<1>1. \A o : o \in OpsOf(todo'[p]) <=> o \in OpsOf(todo[p]) /\ o # This(p)
  BY DEF Goes
<1> QED BY <1>1 DEF Has, Will

LEMMA SaveOps ==
  ASSUME NEW p, NEW s, NEW locals, Goes(p, {s}, locals), This(p) \in OpsOf(todo[p]),
         This(p).do = "load", s.do = "save", s.x = This(p).x
  PROVE  /\ \A D : "load" \notin D /\ "save" \notin D => (Has(todo'[p], D) <=> Has(todo[p], D))
         /\ \A K : Will(todo'[p], K) <=> Will(todo[p], K)
         /\ \A o : o \in OpsOf(todo'[p]) <=> o = s \/ (o \in OpsOf(todo[p]) /\ o # This(p))
<1>1. \A o : o \in OpsOf(todo'[p]) <=> o = s \/ (o \in OpsOf(todo[p]) /\ o # This(p))
  BY DEF Goes
<1>2. ASSUME NEW D, "load" \notin D, "save" \notin D
      PROVE  Has(todo'[p], D) <=> Has(todo[p], D)
  BY <1>1, <1>2 DEF Has
<1>3. ASSUME NEW K PROVE Will(todo'[p], K) <=> Will(todo[p], K)
  BY <1>1 DEF Will, Upd
<1> QED BY <1>1, <1>2, <1>3

LEMMA SaveOf ==
  ASSUME NEW o \in Operation, o.do = "load"
  PROVE  /\ [o EXCEPT !.do = "save"] \in Operation
         /\ [o EXCEPT !.do = "save"].do = "save" /\ [o EXCEPT !.do = "save"].x = o.x
         /\ [o EXCEPT !.do = "save"].who = o.who
         /\ Reach([o EXCEPT !.do = "save"]) = Reach(o)
         /\ \A p : Expected(p, o) => Expected(p, [o EXCEPT !.do = "save"])
<1> DEFINE s == [o EXCEPT !.do = "save"]
<1>1. s \in Operation /\ s.do = "save" /\ s.x = o.x /\ s.who = o.who
  BY DEF Operation, Calls
<1> HIDE DEF s
<1>2. Reach(s) = Reach(o)
  BY <1>1, Ranks
<1>3. ASSUME NEW p, Expected(p, o) PROVE Expected(p, s)
  BY <1>1, <1>3 DEF Expected, Upd, Walks, Persists
<1> QED BY <1>1, <1>2, <1>3 DEF s

\* Every task but the consumer loads as it will save.
LEMMA LoadGoes ==
  ASSUME IInv, GateInv, NEW p \in Procs, Load(p)
  PROVE  \E s : /\ Goes(p, {s}, [local[p] EXCEPT !.copy = wf])
                /\ s.do = "save" /\ s.x = This(p).x /\ s.who = This(p).who /\ Expected(p, s)
<1> DEFINE s == [This(p) EXCEPT !.do = "save"]
<1>1. /\ todo[p] # <<>> /\ This(p).do = "load"
      /\ Continue(p, <<s>> \o Rest(p), [local[p] EXCEPT !.copy = wf])
  BY DEF Load, At, This
<1>2. This(p) \in Operation /\ Expected(p, This(p))
  BY <1>1, AtWork DEF GateInv
<1>3. /\ s \in Operation /\ s.do = "save" /\ s.x = This(p).x /\ s.who = This(p).who
      /\ Reach(s) = Reach(This(p)) /\ Expected(p, s)
  BY <1>1, <1>2, SaveOf
<1> HIDE DEF s
<1>4. Reach(s) <= Reach(This(p)) /\ s.do # "catch"
  BY <1>3, RankTyped
<1>5. Goes(p, {s}, [local[p] EXCEPT !.copy = wf])
  BY <1>1, <1>3, <1>4, GoesOne DEF GateInv
<1> QED BY <1>3, <1>5

LEMMA OtherLoad ==
  ASSUME IInv, GateInv, NEW p \in Procs, p # "consumer", Load(p)
  PROVE  GateInv'
<1>1. PICK s : /\ Goes(p, {s}, [local[p] EXCEPT !.copy = wf])
               /\ s.do = "save" /\ s.x = This(p).x /\ s.who = This(p).who /\ Expected(p, s)
  BY LoadGoes
<1>2. /\ todo[p] # <<>> /\ This(p).do = "load"
      /\ UNCHANGED <<wf, shared, row, topic, position>>
  BY DEF Load, At, This, stores, bus
<1>3. This(p) \in OpsOf(todo[p])
  BY <1>2, AtWork DEF GateInv
<1>4. /\ \A D : "load" \notin D /\ "save" \notin D => (Has(todo'[p], D) <=> Has(todo[p], D))
      /\ \A K : Will(todo'[p], K) <=> Will(todo[p], K)
  BY <1>1, <1>2, <1>3, SaveOps
<1>5. /\ Has(todo'[p], {"view", "gather"}) <=> Has(todo[p], {"view", "gather"})
      /\ Has(todo'[p], Early) <=> Has(todo[p], Early)
      /\ Has(todo'[p], {"publish"}) <=> Has(todo[p], {"publish"})
      /\ Has(todo'[p], {"placeholder", "output"}) <=> Has(todo[p], {"placeholder", "output"})
      /\ Has(todo'[p], {"placeholder"}) <=> Has(todo[p], {"placeholder"})
      /\ Has(todo'[p], {"output"}) <=> Has(todo[p], {"output"})
      /\ Has(todo'[p], {"write"}) <=> Has(todo[p], {"write"})
      /\ Has(todo'[p], {"notify"}) <=> Has(todo[p], {"notify"})
  BY <1>4 DEF Early
<1>6. local[p] \in Locals
  BY DEF IInv, ControlOK
<1> DEFINE l == [local[p] EXCEPT !.copy = wf]
<1>7. l.view = local[p].view /\ l.copy = wf /\ Alike(l.copy, wf)
  BY <1>6 DEF Locals, Alike
<1> HIDE DEF l
<1>8. p = "scr" => Scanning # <<>> /\ Scans(todo'[p])
  BY <1>2, <1>4, <1>5 DEF GateInv, Memory, Scans, Scanning
<1>9. p \in Agents \ {"scr"} =>
           /\ todo[p] # <<>>
           /\ todo'[p] # <<>> =>
                /\ Has(todo'[p], {"write"}) \/ Present(shared[p])
                /\ Has(todo'[p], {"publish"}) => ~Has(todo'[p], {"notify"})
  BY <1>2, <1>5 DEF GateInv, Outputs
<1>10. p = "watcher" => wf.paused
  BY <1>2 DEF GateInv, Waiting
<1>11. Goes(p, {s}, l)
  BY <1>1 DEF l
<1> QED BY <1>1, <1>2, <1>5, <1>7, <1>8, <1>9, <1>10, <1>11, OtherQuiet

\* A task other than the consumer has done something that leaves no trace.
LEMMA OtherDrop ==
  ASSUME IInv, GateInv, NEW p \in Procs, p # "consumer", todo[p] # <<>>,
         NEW locals, Goes(p, {}, locals),
         UNCHANGED <<wf, shared, row, topic, position>>,
         locals.view \in {local[p].view, wf, NoState}, locals.copy = local[p].copy,
         This(p).do \in {"view", "await", "emit", "late", "readscr", "readcma", "notify"}
  PROVE  GateInv'
<1>1. /\ \A D : This(p).do \notin D => (Has(todo'[p], D) <=> Has(todo[p], D))
      /\ \A K : ~Upd(This(p), K) => (Will(todo'[p], K) <=> Will(todo[p], K))
      /\ \A D : Has(todo'[p], D) => Has(todo[p], D)
      /\ \A o : o \in OpsOf(todo'[p]) <=> o \in OpsOf(todo[p]) /\ o # This(p)
  BY DropOps
<1>2. \A o \in OpsOf(todo[p]) \ {This(p)} : o.do # "save"
  BY AtWork DEF GateInv
<1>3. ~Has(todo'[p], {"save"})
  BY <1>1, <1>2 DEF Has
<1>4. /\ Has(todo'[p], Early) <=> Has(todo[p], Early)
      /\ Has(todo'[p], {"publish"}) <=> Has(todo[p], {"publish"})
      /\ Has(todo'[p], {"placeholder", "output"}) <=> Has(todo[p], {"placeholder", "output"})
      /\ Has(todo'[p], {"placeholder"}) <=> Has(todo[p], {"placeholder"})
      /\ Has(todo'[p], {"output"}) <=> Has(todo[p], {"output"})
      /\ Has(todo'[p], {"write"}) <=> Has(todo[p], {"write"})
      /\ Has(todo'[p], {"notify"}) => Has(todo[p], {"notify"})
      /\ Has(todo'[p], {"view", "gather"}) => Has(todo[p], {"view", "gather"})
  BY <1>1 DEF Early
<1>5. \A K : ~Upd(This(p), K)
  BY DEF Upd
<1>6. p = "scr" => Scanning # <<>> /\ Scans(todo'[p])
  BY <1>1, <1>4, <1>5 DEF GateInv, Memory, Scans, Scanning
<1>7. p \in Agents \ {"scr"} =>
           /\ todo[p] # <<>>
           /\ todo'[p] # <<>> =>
                /\ Has(todo'[p], {"write"}) \/ Present(shared[p])
                /\ Has(todo'[p], {"publish"}) => ~Has(todo'[p], {"notify"})
  BY <1>4 DEF GateInv, Outputs
<1>8. p = "watcher" => wf.paused
  BY DEF GateInv, Waiting
<1> QED BY <1>3, <1>4, <1>6, <1>7, <1>8, OtherQuiet

\* An agent but SCR runs while the consumer waits, with SCR's output in memory.
LEMMA Running ==
  ASSUME IInv, GateInv, Turns, NEW a \in Agents \ {"scr"}, todo[a] # <<>>
  PROVE  /\ At("consumer", "await") /\ a \in This("consumer").who
         /\ Has(Handling, {"await"}) /\ ~wf.paused
         /\ Present(shared["scr"]) /\ topic # <<>>
         /\ \A o \in OpsOf(Handling) \ {This("consumer")} : o.do = "commit"
<1>1. At("consumer", "await") /\ a \in This("consumer").who
  BY DEF Turns
<1>2. /\ This("consumer") \in OpsOf(Handling) /\ This("consumer").do = "await" /\ Handling # <<>>
      /\ \A o \in OpsOf(Handling) \ {This("consumer")} : Reach(This("consumer")) < Rank(o)
  BY <1>1, AtWork, ProcsTyped DEF At, This, Handling, GateInv
<1>3. Has(Handling, {"await"})
  BY <1>2 DEF Has
<1>4. Has(Handling, Needs)
  BY <1>2 DEF Has, Needs
<1>5. ASSUME NEW o \in OpsOf(Handling) \ {This("consumer")} PROVE o.do = "commit"
  <2>1. Reach(This("consumer")) = 12 /\ o.do # "catch"
    BY <1>2, Ranks, OpsIn
  <2>2. Rank(o) > 12
    BY <1>2, <2>1, RankTyped
  <2> QED BY <2>1, <2>2, RankTyped
<1>6. ~wf.paused
  BY <1>3 DEF GateInv, Waiting, Has
<1> QED BY <1>1, <1>2, <1>3, <1>4, <1>5, <1>6 DEF GateInv, Memory

LEMMA OtherReads ==
  ASSUME IInv, GateInv, Turns, NEW p \in Procs, p # "consumer",
         View(p) \/ Await(p) \/ Emit(p) \/ ReadScr(p) \/ ReadCma(p)
  PROVE  GateInv'
<1>1. /\ todo[p] # <<>> /\ UNCHANGED <<wf, shared, row, topic, position>>
      /\ This(p).do \in {"view", "await", "emit", "readscr", "readcma"}
  BY DEF View, Await, Emit, ReadScr, ReadCma, At, This, stores, bus
<1>2. local[p] \in Locals /\ shared \in Snapshot
  BY DEF IInv, ControlOK, StoresOK
<1>3. \E l : /\ Continue(p, Rest(p), l)
             /\ l.view \in {local[p].view, wf, NoState} /\ l.copy = local[p].copy
  <2>1. CASE View(p)
    BY <1>2, <2>1 DEF View, Locals
  <2>2. CASE Await(p)
    <3>1. \A q \in This(p).who : raised[q] = FALSE
      <4>1. This(p) \in Operation
        BY <1>1, AtWork DEF GateInv
      <4> QED BY <4>1, NamesDistinct DEF Operation, GateInv, Orderly
    <3>2. {q \in This(p).who : raised[q]} = {}
      BY <3>1
    <3>3. Continue(p, Rest(p), local[p])
      BY <2>2, <3>2 DEF Await
    <3> QED BY <3>3
  <2>3. CASE Emit(p)
    BY <2>3 DEF Emit
  <2>4. CASE ReadScr(p)
    <3>1. This(p).do = "readscr" /\ Expected(p, This(p))
      BY <1>1, <2>4, AtWork DEF ReadScr, At, This, GateInv
    <3>2. p \in Agents \ {"scr"}
      BY <3>1 DEF Expected, Upd, Persists, Walks
    <3>3. Present(shared["scr"])
      BY <1>1, <3>2, Running
    <3>4. Continue(p, Rest(p), [local[p] EXCEPT !.scr = shared["scr"]])
      BY <2>4, <3>3 DEF ReadScr
    <3> QED BY <1>2, <3>4 DEF Locals
  <2>5. CASE ReadCma(p)
    BY <1>2, <2>5 DEF ReadCma, Locals
  <2> QED BY <2>1, <2>2, <2>3, <2>4, <2>5
<1>4. PICK l : /\ Continue(p, Rest(p), l)
               /\ l.view \in {local[p].view, wf, NoState} /\ l.copy = local[p].copy
  BY <1>3
<1>5. Goes(p, {}, l)
  BY <1>1, <1>4, Goes0 DEF GateInv
<1> QED BY <1>1, <1>4, <1>5, OtherDrop

LEMMA OtherAnnounces ==
  ASSUME IInv, GateInv, Turns, Undisturbed, NEW p \in Procs, p # "consumer",
         Pipeline(p) \/ Late(p) \/ Notify(p)
  PROVE  GateInv'
<1>1. /\ todo[p] # <<>> /\ UNCHANGED <<wf, shared, row, topic, position>>
  BY DEF Pipeline, Late, Notify, At, stores, bus
<1>2. /\ Expected(p, This(p)) /\ This(p) \in OpsOf(todo[p])
      /\ \A o \in OpsOf(todo[p]) \ {This(p)} : o.do # "save" /\ Reach(This(p)) < Rank(o)
  BY <1>1, AtWork DEF GateInv
<1>3. Orderly
  BY DEF GateInv
<1>4. CASE Pipeline(p)
  <2>1. This(p).do = "pipeline"
    BY <1>4 DEF Pipeline, At, This
  <2>2. p = "scr"
    BY <1>2, <2>1 DEF Expected, Upd, Persists, Walks
  <2>3. PICK k \in Levels :
          Continue(p, <<Op("output", k, {}), For("publish", "scr"), Do("late")>> \o Rest(p),
                   local[p])
    BY <1>4 DEF Pipeline, Undisturbed
  <2> DEFINE u == Op("output", k, {})
             v == For("publish", "scr")
             w == Do("late")
             s == <<u, v, w>>
  <2>4. k \in ScanLevels
    BY OrchestratorAssumption
  <2>5. Span(s, 4, 6) /\ OpsOf(s) = {u, v, w}
    BY <2>4, AnnounceSpan
  <2>6. /\ u.do = "output" /\ u.x \in ScanLevels /\ v.do = "publish" /\ v.who = {"scr"}
        /\ w.do = "late"
    BY <2>4, Parts, Words DEF Calls, Agents
  <2>7. Continue(p, s \o Rest(p), local[p])
    BY <2>3
  <2> HIDE DEF u, v, w, s
  <2>8. Reach(This(p)) = 6
    BY <2>1, Ranks
  <2>9. Goes(p, {u, v, w}, local[p])
    <3>1. 6 \in 0..14 /\ 6 <= Reach(This(p)) /\ 6 # 12
      BY <2>8
    <3> QED BY <1>1, <1>3, <2>5, <2>7, <3>1, GoesSpan
  <2>10. \A o : o \in OpsOf(todo'[p]) <=> o \in {u, v, w} \/ (o \in OpsOf(todo[p]) /\ o # This(p))
    BY <2>9 DEF Goes
  <2>11. \A o \in {u, v, w} : Expected(p, o)
    BY <2>2, <2>6 DEF Expected
  <2>12. /\ Has(todo'[p], Early) /\ Has(todo'[p], {"output"}) /\ Has(todo[p], Early)
    BY <1>2, <2>1, <2>6, <2>10 DEF Has, Early
  <2>13. ~Has(todo'[p], {"save"})
    BY <1>2, <2>6, <2>10 DEF Has
  <2>14. /\ Will(todo'[p], {"failed"}) => Will(todo[p], {"failed"})
         /\ ~Has(todo'[p], {"placeholder"})
    <3>1. ASSUME NEW o \in OpsOf(todo[p]) \ {This(p)} PROVE o.do # "placeholder"
      BY <1>2, <2>8, Ranks
    <3> QED BY <2>6, <2>10, <3>1 DEF Will, Upd, Has
  <2>15. Scanning # <<>> /\ Scans(todo'[p])
    BY <1>1, <2>2, <2>12, <2>14 DEF GateInv, Memory, Scanning, Scans
  <2> QED BY <1>1, <2>2, <2>9, <2>11, <2>13, <2>15, OtherQuiet
<1>5. CASE Late(p)
  <2>1. This(p).do = "late" /\ Continue(p, Rest(p), local[p])
    BY <1>5 DEF Late, At, This, Undisturbed
  <2>2. Goes(p, {}, local[p])
    BY <1>1, <1>3, <2>1, Goes0
  <2> QED BY <1>1, <2>1, <2>2, OtherDrop
<1>6. CASE Notify(p)
  <2>1. This(p).do = "notify"
    BY <1>6 DEF Notify, At, This
  <2>2. Reach(This(p)) = 8 /\ p \in Agents
    BY <1>2, <2>1, Ranks, NamesDistinct DEF Expected, Upd, Persists, Walks
  <2>3. \A o \in OpsOf(todo[p]) \ {This(p)} :
          /\ o.do \notin {"write", "notify", "placeholder", "output"} \union Early
          /\ ~Upd(o, {"running"})
    <3> SUFFICES ASSUME NEW o \in OpsOf(todo[p]) \ {This(p)}
                 PROVE  /\ o.do \notin {"write", "notify", "placeholder", "output"} \union Early
                        /\ ~Upd(o, {"running"})
      OBVIOUS
    <3>1. 8 < Rank(o)
      BY <1>2, <2>2
    <3> QED BY <3>1, Ranks DEF Early, Upd
  <2> DEFINE bad == shared[p].status \in {"NONE", "RUNNING"}
  <2>4. CASE p = "scr"
    <3>1. ~Has(Scanning, Early) /\ Scanning # <<>>
      BY <1>1, <2>1, <2>3, <2>4 DEF Has, Scanning, Early
    <3>2. topic # <<>>
      BY <3>1 DEF GateInv, Memory, Scans
    <3>3. CASE ~bad
      <4>1. Continue(p, <<>> \o Rest(p), local[p])
        BY <1>6, <2>4, <3>3 DEF Notify, Dynamic
      <4>2. Span(<<>>, 8, 8) /\ OpsOf(<<>>) = {}
        BY SpanNone
      <4>3. 8 \in 0..14 /\ 8 <= Reach(This(p)) /\ 8 # 12
        BY <2>2
      <4>4. Goes(p, {}, local[p])
        BY <1>1, <1>3, <4>1, <4>2, <4>3, GoesSpan
      <4> QED BY <1>1, <2>1, <4>4, OtherDrop
    <3>4. CASE bad
      <4> DEFINE u == Update("failed", {"scr"})
      <4>1. Continue(p, <<u>> \o Rest(p), local[p])
        BY <1>6, <2>4, <3>4 DEF Notify, Dynamic
      <4>2. Span(<<u>>, 8, 8) /\ OpsOf(<<u>>) = {u}
        BY AnnounceSpan
      <4>3. 8 \in 0..14 /\ 8 <= Reach(This(p)) /\ 8 # 12
        BY <2>2
      <4>4. u.do = "load" /\ u.x = "failed"
        BY Parts DEF Kinds, Agents
      <4> HIDE DEF u
      <4>5. Goes(p, {u}, local[p])
        BY <1>1, <1>3, <4>1, <4>2, <4>3, GoesSpan
      <4>6. Cleared
        <5>1. shared["scr"].status # "COMPLETED"
          BY <2>4, <3>4
        <5> QED BY <3>2, <5>1 DEF GateInv, Memory, Cleared
      <4>7. \A o : o \in OpsOf(todo'[p]) <=> o = u \/ (o \in OpsOf(todo[p]) /\ o # This(p))
        BY <4>5 DEF Goes
      <4>8. Expected(p, u)
        BY <2>4, <4>4 DEF Expected, Upd
      <4>9. /\ ~Has(todo'[p], Early) /\ ~Will(todo'[p], {"running"}) /\ ~Has(todo'[p], {"publish"})
            /\ ~Has(todo'[p], {"placeholder", "output"}) /\ ~Has(todo'[p], {"save"})
        BY <1>2, <2>1, <2>3, <4>4, <4>7 DEF Has, Will, Upd, Early
      <4>10. Scans(todo'[p])
        BY <3>2, <4>6, <4>9 DEF Scans
      <4> QED BY <1>1, <2>4, <3>1, <4>5, <4>8, <4>9, <4>10, OtherQuiet
    <3> QED BY <3>3, <3>4
  <2>5. CASE p # "scr"
    <3>1. Present(shared[p]) /\ shared[p].status = "COMPLETED"
      <4>1. ~Has(todo[p], {"write"})
        BY <2>1, <2>3 DEF Has
      <4> QED BY <1>1, <2>2, <2>5, <4>1 DEF GateInv, Outputs
    <3> DEFINE u == For("publish", p)
    <3>2. Continue(p, <<u>> \o Rest(p), local[p])
      <4>1. ~bad
        BY <3>1
      <4> QED BY <1>6, <2>2, <2>5, <4>1 DEF Notify, Agents
    <3>3. Span(<<u>>, 5, 5) /\ OpsOf(<<u>>) = {u}
      BY <2>2, AnnounceSpan
    <3>4. 5 \in 0..14 /\ 5 <= Reach(This(p)) /\ 5 # 12
      BY <2>2
    <3>5. u.do = "publish" /\ u.who = {p}
      BY <2>2, Parts DEF Calls
    <3> HIDE DEF u
    <3>6. Goes(p, {u}, local[p])
      BY <1>1, <1>3, <3>2, <3>3, <3>4, GoesSpan
    <3>7. \A o : o \in OpsOf(todo'[p]) <=> o = u \/ (o \in OpsOf(todo[p]) /\ o # This(p))
      BY <3>6 DEF Goes
    <3>8. Expected(p, u)
      BY <2>2, <2>5, <3>5 DEF Expected
    <3>9. ~Has(todo'[p], {"save"}) /\ ~Has(todo'[p], {"notify"})
      BY <1>2, <2>3, <3>5, <3>7 DEF Has
    <3> QED BY <1>1, <2>2, <2>5, <3>1, <3>6, <3>8, <3>9, NamesDistinct, ProcsTyped, OtherQuiet
  <2> QED BY <2>4, <2>5
<1> QED BY <1>4, <1>5, <1>6

Same(s, t) == Alike(s, t) /\ s.status = t.status
Escalated(s, t) ==
  s.name = t.name /\ s.flow = "dynamic" /\ s.step = t.step /\ s.paused = t.paused
    /\ s.status = t.status
Rests(s, t, paused, status) ==
  s.name = t.name /\ s.flow = t.flow /\ s.step = t.step /\ s.paused = paused /\ s.status = status

\* What an update leaves of a record.
LEMMA ChangedFields ==
  ASSUME NEW s \in WorkflowState, NEW who \in SUBSET Agents
  PROVE  /\ \A k \in {"running", "done", "failed", "gateEscalated"} :
              Same(Changed(k, who, s), s)
         /\ \A a \in Agents : Changed("done", who, s).agents[a]
                                = IF a \in who THEN "DONE" ELSE s.agents[a]
         /\ Escalated(Changed("escalate", who, s), s)
         /\ Rests(Changed("pause", who, s), s, TRUE, "PAUSED")
         /\ Rests(Changed("complete", who, s), s, s.paused, "COMPLETED")
<1>1. \A k \in {"running", "done", "failed", "gateEscalated"} :
        Same(Changed(k, who, s), s)
  <2>1. Same(Changed("running", who, s), s)
    BY DEF Changed, WorkflowState, Alike, Same
  <2>2. Same(Changed("done", who, s), s)
    BY DEF Changed, WorkflowState, Alike, Same
  <2>3. Same(Changed("failed", who, s), s)
    BY DEF Changed, WorkflowState, Alike, Same
  <2>4. Same(Changed("gateEscalated", who, s), s)
    BY DEF Changed, WorkflowState, Alike, Same
  <2> QED BY <2>1, <2>2, <2>3, <2>4
<1>2. \A a \in Agents : Changed("done", who, s).agents[a]
                          = IF a \in who THEN "DONE" ELSE s.agents[a]
  BY DEF Changed, WorkflowState
<1>3. Escalated(Changed("escalate", who, s), s)
  BY DEF Changed, WorkflowState, Escalated
<1>4. Rests(Changed("pause", who, s), s, TRUE, "PAUSED")
  BY DEF Changed, WorkflowState, Rests
<1>5. Rests(Changed("complete", who, s), s, s.paused, "COMPLETED")
  BY DEF Changed, WorkflowState, Rests
<1> QED BY <1>1, <1>2, <1>3, <1>4, <1>5

\* The watcher lists a workflow that is paused.
LEMMA WatcherLists ==
  ASSUME IInv, GateInv, ListExpired
  PROVE  GateInv'
<1> DEFINE p == "watcher"
           u == Op("save", "gateEscalated", {})
           v == Op("emit", "workflow.human_gate_escalated", {})
           s == <<u, v>>
           l == [NoLocals EXCEPT !.copy = wf]
<1>1. /\ todo[p] = <<>> /\ wf.status = "PAUSED" /\ Continue(p, s, l)
      /\ UNCHANGED <<wf, shared, row, topic, position>>
  BY DEF ListExpired, stores, bus
<1>2. wf.paused
  BY <1>1 DEF GateInv, Held, Rested
<1>3. /\ u \in Operation /\ u.do = "save" /\ u.x = "gateEscalated"
      /\ v \in Operation /\ v.do = "emit"
  BY Parts, Words DEF Calls, Kinds, Agents
<1>4. l.view = NoState /\ l.copy = wf /\ Alike(wf, wf)
  BY NoLocalsTyped DEF Locals, Alike
<1> HIDE DEF u, v, l
<1>5. Before(u, v)
  <2>1. Reach(u) = 1 /\ Rank(v) = 11
    BY <1>3, Ranks
  <2> QED BY <1>3, <2>1 DEF Before
<1>6. s \in Seq(Operation) /\ InOrder(s) /\ \A o : o \in OpsOf(s) <=> o.do # "catch" /\ o \in {u, v}
  BY <1>3, <1>5, Tuples
<1> HIDE DEF s
<1>7. Goes(p, OpsOf(s), l)
  BY <1>1, <1>6, GoesStart, ProcsTyped
<1>8. \A o \in OpsOf(s) : Expected(p, o)
  BY <1>3, <1>6 DEF Expected, Upd
<1> QED BY <1>1, <1>2, <1>4, <1>7, <1>8, OtherQuiet, ProcsTyped, NamesDistinct

\* No task but the consumer saves more than what became of its agent.
LEMMA OtherSave ==
  ASSUME IInv, GateInv, Turns, NEW p \in Procs, p # "consumer", Save(p)
  PROVE  GateInv'
<1> DEFINE k == This(p).x
           who == This(p).who
           c == local[p].copy
           l == [local[p] EXCEPT !.copy = NoState]
<1>1. /\ todo[p] # <<>> /\ This(p).do = "save" /\ wf' = Changed(k, who, c)
      /\ Continue(p, Rest(p), l) /\ UNCHANGED <<shared, row, topic, position>>
  BY DEF Save, At, This, bus
<1>2. /\ This(p) \in Operation /\ Expected(p, This(p)) /\ This(p) \in OpsOf(todo[p])
      /\ \A o \in OpsOf(todo[p]) \ {This(p)} : o.do # "save" /\ Reach(This(p)) < Rank(o)
  BY <1>1, AtWork DEF GateInv
<1>3. /\ local[p] \in Locals /\ c \in WorkflowState /\ who \in SUBSET Agents
  BY <1>2 DEF IInv, ControlOK, Locals, Operation
<1>4. l.view = local[p].view /\ l.copy = NoState
  BY <1>3 DEF Locals
<1>5. Goes(p, {}, l)
  BY <1>1, Goes0 DEF GateInv
<1> HIDE DEF k, who, c, l
<1>6. \/ p = "watcher" /\ k = "gateEscalated"
      \/ p = "scr" /\ k \in {"running", "failed"}
      \/ p \in Agents \ {"scr"} /\ k = "running"
  BY <1>1, <1>2 DEF Expected, Upd, Persists, Walks, k
<1>7. Same(wf', c)
  <2>1. k \in {"running", "done", "failed", "gateEscalated"}
    BY <1>6
  <2>2. Same(Changed(k, who, c), c)
    BY <1>3, <2>1, ChangedFields
  <2> QED BY <1>1, <2>2
<1>8. Alike(c, wf)
  <2>1. Has(todo[p], {"save"})
    BY <1>1, <1>2 DEF Has
  <2> QED BY <2>1 DEF GateInv, Records, c
<1>9. /\ Alike(wf', wf) /\ Rested(wf') /\ (Completed(wf') => Closed)
  BY <1>7, <1>8 DEF GateInv, Held, Rested, Completed, Alike, Same, c
<1>10. /\ \A D : This(p).do \notin D => (Has(todo'[p], D) <=> Has(todo[p], D))
       /\ \A D : Has(todo'[p], D) => Has(todo[p], D)
       /\ \A K : Will(todo'[p], K) => Will(todo[p], K)
       /\ \A o : o \in OpsOf(todo'[p]) <=> o \in OpsOf(todo[p]) /\ o # This(p)
  BY <1>5, DropOps
<1>11. ~Has(todo'[p], {"save"})
  BY <1>2, <1>10 DEF Has
<1>12. wf.paused \/ Cleared \/ ~Has(Handling, Walks)
  <2>1. CASE p = "watcher"
    BY <1>1, <2>1 DEF GateInv, Waiting
  <2>2. CASE p = "scr" /\ k = "running"
    <3>1. Will(Scanning, {"running"})
      BY <1>1, <1>2, <2>2 DEF Will, Upd, Scanning, k
    <3>2. Handling = <<>>
      BY <3>1 DEF GateInv, Memory, Scans
    <3> QED BY <3>2, NoOps DEF Has
  <2>3. CASE p = "scr" /\ k = "failed"
    <3>1. Will(Scanning, {"failed"})
      BY <1>1, <1>2, <2>3 DEF Will, Upd, Scanning, k
    <3> QED BY <3>1 DEF GateInv, Memory, Scans
  <2>4. CASE p \in Agents \ {"scr"}
    <3>1. /\ At("consumer", "await")
          /\ \A o \in OpsOf(Handling) \ {This("consumer")} : o.do = "commit"
      BY <1>1, <2>4, Running
    <3>2. \A o \in OpsOf(Handling) : o.do \in {"await", "commit"}
      BY <3>1 DEF At, This
    <3> QED BY <3>2 DEF Has, Walks
  <2> QED BY <1>6, <2>1, <2>2, <2>3, <2>4
<1>13. /\ Has(todo'[p], Early) <=> Has(todo[p], Early)
       /\ Has(todo'[p], {"publish"}) <=> Has(todo[p], {"publish"})
       /\ Has(todo'[p], {"placeholder", "output"}) <=> Has(todo[p], {"placeholder", "output"})
       /\ Has(todo'[p], {"placeholder"}) <=> Has(todo[p], {"placeholder"})
       /\ Has(todo'[p], {"output"}) <=> Has(todo[p], {"output"})
       /\ Has(todo'[p], {"write"}) <=> Has(todo[p], {"write"})
       /\ Has(todo'[p], {"notify"}) => Has(todo[p], {"notify"})
       /\ Has(todo'[p], {"view", "gather"}) => Has(todo[p], {"view", "gather"})
  BY <1>1, <1>10 DEF Early
<1>14. p = "scr" => Scanning # <<>> /\ Scans(todo'[p])
  BY <1>1, <1>10, <1>13 DEF GateInv, Memory, Scans, Scanning
<1>15. p \in Agents \ {"scr"} =>
           /\ todo[p] # <<>>
           /\ todo'[p] # <<>> =>
                /\ Has(todo'[p], {"write"}) \/ Present(shared[p])
                /\ Has(todo'[p], {"publish"}) => ~Has(todo'[p], {"notify"})
  BY <1>1, <1>13 DEF GateInv, Outputs
<1>16. p = "watcher" => wf.paused
  BY <1>1 DEF GateInv, Waiting
<1> QED BY <1>1, <1>4, <1>5, <1>9, <1>11, <1>12, <1>13, <1>14, <1>15, <1>16, OtherMoves

\* The plans: SCR first, the report last, and the dynamic agents together.
LEMMA Plans ==
  ASSUME NEW n \in AllNames
  PROVE  /\ Len(WORKFLOW_DEFINITIONS[n]) \in 2..4
         /\ WORKFLOW_DEFINITIONS[n][1] = {"scr"}
         /\ \A i \in 1..Len(WORKFLOW_DEFINITIONS[n]) :
              /\ WORKFLOW_DEFINITIONS[n][i] \subseteq Agents
              /\ "reporting" \in WORKFLOW_DEFINITIONS[n][i] <=> i = Len(WORKFLOW_DEFINITIONS[n])
              /\ "scr" \in WORKFLOW_DEFINITIONS[n][i] <=> i = 1
              /\ WORKFLOW_DEFINITIONS[n][i] = Dynamic \/ \E a \in Agents : WORKFLOW_DEFINITIONS[n][i] = {a}
         /\ WORKFLOW_DEFINITIONS[n][Len(WORKFLOW_DEFINITIONS[n])] = {"reporting"}
         /\ n \in SCR_REQUIRED_WORKFLOWS =>
              \A i \in 1..Len(WORKFLOW_DEFINITIONS[n]) :
                WORKFLOW_DEFINITIONS[n][i] \intersect Dynamic = {}
         /\ n \notin SCR_REQUIRED_WORKFLOWS =>
              Len(WORKFLOW_DEFINITIONS[n]) = 4 /\ WORKFLOW_DEFINITIONS[n][2] = Dynamic
         /\ \A i, j \in 1..Len(WORKFLOW_DEFINITIONS[n]) :
              WORKFLOW_DEFINITIONS[n][i] \intersect WORKFLOW_DEFINITIONS[n][j] # {} => i = j
<1> DEFINE D == WORKFLOW_DEFINITIONS[n]
<1>0. Dynamic \subseteq Agents /\ "reporting" \notin Dynamic /\ "scr" \notin Dynamic /\ "cma" \notin Dynamic
      /\ {"scr", "cma", "reporting"} \subseteq Agents
  BY DEF Agents, Dynamic
<1>1. CASE n = "incident-response"
  <2>1. D = <<{"scr"}, Dynamic, {"cma"}, {"reporting"}>>
    BY <1>1 DEF WORKFLOW_DEFINITIONS, AllNames
  <2>2. n \notin SCR_REQUIRED_WORKFLOWS
    BY <1>1 DEF SCR_REQUIRED_WORKFLOWS
  <2> HIDE DEF D
  <2>3. Len(D) = 4 /\ D[1] = {"scr"} /\ D[2] = Dynamic /\ D[3] = {"cma"} /\ D[4] = {"reporting"}
    BY <2>1
  <2> QED BY <1>0, <2>2, <2>3 DEF D
<1>2. CASE n = "incremental-pr-scan"
  <2>1. D = <<{"scr"}, {"reporting"}>>
    BY <1>2 DEF WORKFLOW_DEFINITIONS, AllNames, SCR_REQUIRED_WORKFLOWS
  <2>2. n \in SCR_REQUIRED_WORKFLOWS
    BY <1>2 DEF SCR_REQUIRED_WORKFLOWS
  <2> HIDE DEF D
  <2>3. Len(D) = 2 /\ D[1] = {"scr"} /\ D[2] = {"reporting"}
    BY <2>1
  <2> QED BY <1>0, <2>2, <2>3 DEF D
<1>3. CASE n \notin {"incident-response", "incremental-pr-scan"}
  <2>1. D = <<{"scr"}, {"cma"}, {"reporting"}>>
    BY <1>3 DEF WORKFLOW_DEFINITIONS, AllNames
  <2>2. n \in SCR_REQUIRED_WORKFLOWS
    BY <1>3 DEF AllNames
  <2> HIDE DEF D
  <2>3. Len(D) = 3 /\ D[1] = {"scr"} /\ D[2] = {"cma"} /\ D[3] = {"reporting"}
    BY <2>1
  <2> QED BY <1>0, <2>2, <2>3 DEF D
<1> QED BY <1>1, <1>2, <1>3

\* The plan of the workflow, and the step it is at.
LEMMA MyPlan ==
  ASSUME IInv
  PROVE  /\ wf.name \in AllNames /\ wf.step \in 1..Len(Def) /\ Len(Def) \in 2..4
         /\ Def = WORKFLOW_DEFINITIONS[wf.name]
BY Plans DEF IInv, StoresOK, WorkflowState, Def

LEMMA OtherPublish ==
  ASSUME IInv, GateInv, Turns, NEW p \in Procs, p # "consumer", Publish(p)
  PROVE  GateInv'
<1>1. /\ todo[p] # <<>> /\ This(p).do = "publish" /\ UNCHANGED <<wf, shared, row, position>>
      /\ \E a \in This(p).who : topic' = Append(topic, a)
      /\ Continue(p, Rest(p), local[p])
  BY DEF Publish, At, This, stores
<1>2. /\ Expected(p, This(p)) /\ This(p) \in OpsOf(todo[p])
      /\ \A o \in OpsOf(todo[p]) \ {This(p)} : o.do # "save" /\ Reach(This(p)) < Rank(o)
  BY <1>1, AtWork DEF GateInv
<1>3. This(p).who = {p} /\ p \in Agents
  BY <1>1, <1>2, NamesDistinct DEF Expected, Upd, Persists, Walks
<1>4. /\ topic' = Append(topic, p) /\ topic \in Seq(Agents) /\ Len(topic) \in Nat
      /\ position \in 0..Len(topic)
  BY <1>1, <1>3, LenProperties DEF IInv, BusOK
<1>5. /\ topic' # <<>> /\ Len(topic') = Len(topic) + 1 /\ topic'[Len(topic) + 1] = p
      /\ \A i \in 1..Len(topic) : topic'[i] = topic[i]
      /\ \A i \in 1..Len(topic') : i \in 1..Len(topic) \/ i = Len(topic) + 1
  <2>1. /\ Append(topic, p) # <<>> /\ Len(Append(topic, p)) = Len(topic) + 1
        /\ Append(topic, p)[Len(topic) + 1] = p
        /\ \A i \in 1..Len(topic) : Append(topic, p)[i] = topic[i]
    BY <1>3, <1>4, AppendProperties
  <2> QED BY <1>4, <2>1
<1>6. Goes(p, {}, local[p])
  BY <1>1, Goes0 DEF GateInv
<1>7. /\ \A D : This(p).do \notin D => (Has(todo'[p], D) <=> Has(todo[p], D))
      /\ \A D : Has(todo'[p], D) => Has(todo[p], D)
      /\ \A K : Will(todo'[p], K) => Will(todo[p], K)
      /\ \A o : o \in OpsOf(todo'[p]) <=> o \in OpsOf(todo[p]) /\ o # This(p)
  BY <1>6, DropOps
<1>8. \A o \in OpsOf(todo'[p]) :
        /\ o.do \notin {"write", "placeholder", "output", "save", "readscr", "readcma"} \union Early
        /\ ~Upd(o, {"running"})
  <2>1. Reach(This(p)) = 5
    BY <1>1, Ranks
  <2> SUFFICES ASSUME NEW o \in OpsOf(todo[p]) \ {This(p)}
               PROVE  /\ o.do \notin {"write", "placeholder", "output", "save", "readscr", "readcma"}
                                       \union Early
                      /\ ~Upd(o, {"running"})
    BY <1>7
  <2>2. 5 < Rank(o) /\ o.do # "save"
    BY <1>2, <2>1
  <2> QED BY <2>2, Ranks DEF Early, Upd
<1>9. Has(todo[p], Early) /\ Has(todo[p], {"publish"})
  BY <1>1, <1>2 DEF Has, Early
<1>10. p = "scr" => /\ topic = <<>> /\ Handling = <<>> /\ shared["scr"].status = "COMPLETED"
                    /\ wf.step = 1 /\ ~Will(todo[p], {"failed"})
                    /\ ~Has(todo["background"], {"view", "gather"})
                    /\ \A a \in Agents \ {"scr"} : todo[a] = <<>>
  <2> SUFFICES ASSUME p = "scr"
               PROVE  /\ topic = <<>> /\ Handling = <<>> /\ shared["scr"].status = "COMPLETED"
                      /\ wf.step = 1 /\ ~Will(todo[p], {"failed"})
                      /\ ~Has(todo["background"], {"view", "gather"})
                      /\ \A a \in Agents \ {"scr"} : todo[a] = <<>>
    OBVIOUS
  <2>1. Scans(todo[p]) /\ Scanning # <<>>
    BY <1>1 DEF GateInv, Memory, Scanning
  <2>2. topic = <<>>
    BY <1>1, <1>9, <2>1 DEF Scans
  <2>3. ~Has(todo[p], {"output"})
    BY <1>1, <1>2, <1>7, <1>8 DEF Has
  <2>4. shared["scr"].status = "COMPLETED" /\ ~Will(todo[p], {"failed"})
    BY <1>9, <2>1, <2>2, <2>3 DEF Scans, Cleared
  <2>5. \A a \in Agents \ {"scr"} : todo[a] = <<>>
    BY <2>2, Running
  <2> QED BY <2>1, <2>2, <2>4, <2>5 DEF GateInv, Memory
<1>11. p # "scr" => /\ topic # <<>> /\ Present(shared[p]) /\ p \in This("consumer").who
                    /\ \A o \in OpsOf(Handling) : o.do \in {"await", "commit"}
                    /\ This("consumer") \in OpsOf(Handling) /\ This("consumer").do = "await"
                    /\ todo'[p] = <<>>
  <2> SUFFICES ASSUME p # "scr"
               PROVE  /\ topic # <<>> /\ Present(shared[p]) /\ p \in This("consumer").who
                      /\ \A o \in OpsOf(Handling) : o.do \in {"await", "commit"}
                      /\ This("consumer") \in OpsOf(Handling) /\ This("consumer").do = "await"
                      /\ todo'[p] = <<>>
    OBVIOUS
  <2>1. /\ At("consumer", "await") /\ p \in This("consumer").who /\ topic # <<>>
        /\ \A o \in OpsOf(Handling) \ {This("consumer")} : o.do = "commit"
    BY <1>1, <1>3, Running
  <2>2. This("consumer") \in OpsOf(Handling) /\ This("consumer").do = "await"
    BY <2>1, AtWork, ProcsTyped DEF At, This, Handling, GateInv
  <2>3. ~Has(todo[p], {"write"}) /\ ~Has(todo[p], {"notify"})
    <3>1. ~Has(todo[p], {"write"})
      BY <1>1, <1>2, <1>7, <1>8 DEF Has
    <3> QED BY <1>1, <1>3, <1>9, <3>1 DEF GateInv, Outputs
  <2>4. Present(shared[p])
    BY <1>1, <1>3, <2>3 DEF GateInv, Outputs
  <2>5. ASSUME NEW o \in OpsOf(todo'[p]) PROVE FALSE
    <3>1. o \in OpsOf(todo[p]) /\ Expected(p, o) /\ o.do # "notify"
      BY <1>7, <2>3 DEF GateInv, Orderly, Has
    <3> QED BY <1>3, <1>8, <3>1, NamesDistinct DEF Expected, Upd, Early
  <2>6. todo'[p] = <<>>
    BY <1>6, <2>5 DEF Goes
  <2> QED BY <2>1, <2>2, <2>4, <2>6
<1> HIDE DEF Early
<1>12. /\ \A q \in Procs : q # p => todo'[q] = todo[q] /\ local'[q] = local[q]
       /\ Handling' = Handling /\ Mine' = Mine
       /\ local'[p] = IF todo'[p] = <<>> THEN NoLocals ELSE local[p]
  BY <1>6, ProcsTyped DEF Goes, Handling, Mine
<1>13. Cleared' = Cleared
  <2>1. p = "scr" => shared # NoSnapshot
    BY <1>10 DEF NoSnapshot, NoOutput, Out, Agents
  <2>2. topic # <<>> \/ shared # NoSnapshot
    BY <1>11, <2>1
  <2> QED BY <1>1, <1>5, <2>2 DEF Cleared
<1>14. /\ Def' = Def /\ Fixed' = Fixed /\ Ordinary' = Ordinary /\ Closed' = Closed
       /\ \A m : Finished(m)' = Finished(m)
       /\ Finished(shared)' = Finished(shared)
  <2>1. \A m : Finished(m)' = Finished(m)
    BY <1>1 DEF Finished, Team
  <2>2. Finished(shared)' = Finished(shared)
    BY <1>1 DEF Finished, Team
  <2> QED BY <1>1, <1>13, <2>1, <2>2 DEF Def, Fixed, Ordinary, Closed
<1>15. wf' = wf /\ shared' = shared /\ row' = row /\ position' = position
  BY <1>1
<1>16. /\ Orderly /\ Memory /\ Outputs /\ Told /\ Backing /\ Surfaced /\ Snapped
       /\ Decided /\ Held /\ Waiting /\ Records /\ InStep /\ OneToken /\ Reviewed
  BY DEF GateInv
<1>17. Orderly'
  <2>1. \A o \in {} : Expected(p, o)
    OBVIOUS
  <2> QED BY <1>6, <1>16, <2>1, GoesOrderly
<1>18. Memory'
  <2>1. ~Has(todo'["background"], {"view", "gather"})
    <3>1. ~Has(todo["background"], {"view", "gather"})
      BY <1>10, <1>11, <1>16 DEF Memory
    <3> QED BY <1>3, <1>12, <3>1, NamesDistinct, ProcsTyped
  <2>2. Scans(Scanning)'
    <3>1. CASE p = "scr"
      <4>1. /\ ~Has(todo'[p], Early) /\ ~Has(todo'[p], {"placeholder", "output"})
            /\ ~Will(todo'[p], {"running"}) /\ ~Has(todo'[p], {"publish"})
            /\ ~Will(todo'[p], {"failed"})
        BY <1>7, <1>8, <1>10, <3>1 DEF Has, Will, Early
      <4> QED BY <1>5, <3>1, <4>1 DEF Scans, Scanning
    <3>2. CASE p # "scr"
      <4>1. Scanning' = Scanning
        BY <1>12, <3>2, NamesDistinct DEF Scanning
      <4>2. Scans(Scanning) /\ topic # <<>>
        BY <1>11, <1>16, <3>2 DEF Memory
      <4> QED BY <1>5, <1>13, <1>15, <4>1, <4>2 DEF Scans
    <3> QED BY <3>1, <3>2
  <2>3. shared = NoSnapshot \/ shared["scr"].status = "COMPLETED"
    BY <1>10, <1>11, <1>16 DEF Memory
  <2>4. Has(Handling, Needs) \/ Will(Handling, {"escalate", "pause"}) => Present(shared["scr"])
    BY <1>16 DEF Memory
  <2> QED BY <1>5, <1>12, <1>15, <2>1, <2>2, <2>3, <2>4 DEF Memory
<1>19. Outputs'
  <2>1. ASSUME NEW a \in Agents \ {"scr"}, todo'[a] # <<>>
        PROVE  /\ Has(todo'[a], {"write"}) \/ Present(shared[a])
               /\ Has(todo'[a], {"publish"}) => ~Has(todo'[a], {"notify"})
    <3>1. a # p
      BY <1>11, <2>1
    <3> QED BY <1>12, <1>16, <2>1, <3>1, NamesDistinct DEF Outputs
  <2> QED BY <1>15, <1>16, <2>1, Zenon DEF Outputs
<1>20. Told'
  <2>1. IF shared = NoSnapshot THEN Present(row.snap[p]) ELSE Present(shared[p])
    <3>1. CASE p = "scr"
      BY <1>10, <3>1 DEF NoSnapshot, NoOutput, Out, Agents, Present
    <3>2. CASE p # "scr"
      BY <1>3, <1>11, <3>2 DEF NoSnapshot, NoOutput, Out, Present
    <3> QED BY <3>1, <3>2
  <2> QED BY <1>5, <1>15, <1>16, <2>1 DEF Told
<1>21. Backing' /\ Surfaced'
  BY <1>12, <1>13, <1>15, <1>16 DEF Backing, Surfaced
<1>22. Snapped'
  BY <1>12, <1>15, <1>16, Zenon DEF Snapped
<1>23. Decided'
  BY <1>12, <1>14, <1>15, <1>16, Zenon DEF Decided
<1>24. Held'
  <2>1. ASSUME NEW q \in Procs
        PROVE  /\ Completed(local'[q].view) \/ Completed(local'[q].copy) => Closed
               /\ Rested(local'[q].view) /\ Rested(local'[q].copy)
    <3>1. ~Completed(NoState) /\ Rested(NoState)
      BY DEF NoState, NewState, Completed, Rested
    <3>2. NoLocals.view = NoState /\ NoLocals.copy = NoState
      BY DEF NoLocals
    <3>3. /\ Completed(local[q].view) \/ Completed(local[q].copy) => Closed
          /\ Rested(local[q].view) /\ Rested(local[q].copy)
      BY <1>16 DEF Held
    <3> QED BY <1>12, <3>1, <3>2, <3>3
  <2> QED BY <1>14, <1>15, <1>16, <2>1 DEF Held
<1>25. Waiting'
  BY <1>3, <1>12, <1>15, <1>16, NamesDistinct, ProcsTyped DEF Waiting
<1>26. Records'
  <2>1. ASSUME NEW q \in Procs, Has(todo'[q], {"save"}) PROVE Alike(local'[q].copy, wf)
    <3>1. q # p
      BY <1>8, <2>1 DEF Has
    <3> QED BY <1>12, <1>16, <2>1, <3>1 DEF Records
  <2> QED BY <1>12, <1>14, <1>15, <1>16, <2>1, Zenon DEF Records
<1>27. ASSUME Fixed PROVE p \in Def[wf.step]
  <2>1. CASE p = "scr"
    BY <1>10, <2>1, MyPlan, Plans
  <2>2. CASE p # "scr"
    BY <1>11, <1>16, <1>27, <2>2 DEF InStep
  <2> QED BY <2>1, <2>2
<1>28. InStep'
  <2>1. ASSUME Fixed, NEW i \in 1..Len(topic'), i > position PROVE topic'[i] \in Def[wf.step]
    BY <1>5, <1>16, <1>27, <2>1 DEF InStep
  <2> QED BY <1>12, <1>14, <1>15, <1>16, <2>1 DEF InStep
<1>29. OneToken'
  <2> SUFFICES ASSUME Fixed, Def[wf.step] \intersect Dynamic = {}
               PROVE  /\ Len(topic') <= position + 1
                      /\ ~Has(Handling, Walks \union {"view", "saveview", "gather"})
                      /\ ~Will(Handling, {"done", "escalate"})
                      /\ \A a \in Agents \ {"scr"} : todo'[a] = <<>>
    BY <1>12, <1>14, <1>15 DEF OneToken
  <2>1. CASE p = "scr"
    <3>1. \A a \in Agents \ {"scr"} : todo'[a] = <<>>
      BY <1>10, <1>12, <2>1, NamesDistinct
    <3>2. Len(topic') = 1 /\ position = 0
      BY <1>4, <1>5, <1>10, <2>1
    <3>3. OpsOf(Handling) = {}
      BY <1>10, <2>1, NoOps
    <3> QED BY <3>1, <3>2, <3>3 DEF Has, Will
  <2>2. CASE p # "scr"
    <3>1. Len(topic) = position
      BY <1>1, <1>3, <1>16, <2>2 DEF OneToken
    <3>2. ASSUME NEW a \in Agents \ {"scr"} PROVE todo'[a] = <<>>
      <4>1. CASE a = p
        BY <1>11, <2>2, <4>1
      <4>2. CASE a # p
        <5>1. This("consumer").who \subseteq Def[wf.step]
          BY <1>11, <1>16, <2>2 DEF InStep
        <5>2. \A b \in Def[wf.step] : b = p
          <6>1. Def[wf.step] = Dynamic \/ \E b \in Agents : Def[wf.step] = {b}
            BY MyPlan, Plans
          <6>2. Def[wf.step] # Dynamic
            BY DEF Dynamic
          <6> QED BY <1>27, <6>1, <6>2
        <5>3. a \notin This("consumer").who
          BY <4>2, <5>1, <5>2
        <5>4. todo[a] = <<>>
          BY <5>3, Running
        <5> QED BY <1>12, <4>2, <5>4, NamesDistinct
      <4> QED BY <4>1, <4>2
    <3>3. /\ ~Has(Handling, Walks \union {"view", "saveview", "gather"})
          /\ ~Will(Handling, {"done", "escalate"})
      BY <1>11, <2>2 DEF Has, Will, Upd, Walks
    <3> QED BY <1>4, <1>5, <3>1, <3>2, <3>3
  <2> QED BY <2>1, <2>2
<1>30. Reviewed'
  BY <1>12, <1>13, <1>14, <1>15, <1>16 DEF Reviewed
<1> QED BY <1>17, <1>18, <1>19, <1>20, <1>21, <1>22, <1>23, <1>24, <1>25, <1>26, <1>28, <1>29,
           <1>30 DEF GateInv

\* An output is written while the consumer waits or has nothing to handle, and
\* nothing of the memory has been cleared.
LEMMA Written ==
  ASSUME IInv, GateInv, NEW p \in Agents, todo[p] # <<>>, NEW locals, locals = local[p],
         Goes(p, {}, locals), This(p).do \in {"placeholder", "output", "write"},
         NEW b \in Agents, NEW o, shared' = [shared EXCEPT ![b] = o],
         UNCHANGED <<wf, row, topic, position>>,
         Present(o), p # "scr" => b = p /\ o.status = "COMPLETED", p = "scr" => b = p,
         b \in Dynamic => o.level = "correlated",
         ~Cleared, ~wf.paused, \A u \in OpsOf(Handling) : u.do \in {"await", "commit"},
         b = "scr" => topic = <<>>,
         Scans(Scanning)',
         Fixed /\ b = "reporting" => wf.step = Len(Def)
  PROVE  GateInv'
<1>1. /\ \A D : This(p).do \notin D => (Has(todo'[p], D) <=> Has(todo[p], D))
      /\ \A D : Has(todo'[p], D) => Has(todo[p], D)
      /\ \A u : u \in OpsOf(todo'[p]) <=> u \in OpsOf(todo[p]) /\ u # This(p)
  BY DropOps
<1>2. /\ \A q \in Procs : q # p => todo'[q] = todo[q] /\ local'[q] = local[q]
      /\ Handling' = Handling /\ Mine' = Mine
      /\ local'[p] = IF todo'[p] = <<>> THEN NoLocals ELSE local[p]
  BY ProcsTyped, NamesDistinct DEF Goes, Handling, Mine
<1>3. /\ shared'[b] = o /\ \A a \in Agents : a # b => shared'[a] = shared[a]
      /\ shared \in Snapshot
  BY DEF IInv, StoresOK, Snapshot
<1>4. wf' = wf /\ row' = row /\ topic' = topic /\ position' = position
  OBVIOUS
<1>5. shared' # NoSnapshot
  <2>1. NoSnapshot[b].status = "NONE"
    BY DEF NoSnapshot, NoOutput, Out
  <2>2. shared'[b].status # "NONE"
    BY <1>3 DEF Present
  <2> QED BY <2>1, <2>2
<1>6. ~Cleared' /\ ~Closed /\ ~Closed'
  BY <1>5 DEF Cleared, Closed
<1>7. /\ Orderly /\ Memory /\ Outputs /\ Told /\ Backing /\ Surfaced /\ Snapped
      /\ Decided /\ Held /\ Waiting /\ Records /\ InStep /\ OneToken /\ Reviewed
  BY DEF GateInv
<1>8. /\ Def' = Def /\ Fixed' = Fixed /\ Ordinary' = Ordinary
  BY <1>4 DEF Def, Fixed, Ordinary
<1>9. Orderly'
  <2>1. \A u \in {} : Expected(p, u)
    OBVIOUS
  <2> QED BY <1>7, <2>1, GoesOrderly, NamesDistinct
<1>10. \A a \in Agents : Present(shared[a]) => Present(shared'[a])
  BY <1>3
<1>11. Memory'
  <2>1. Has(todo'["background"], {"view", "gather"}) => topic = <<>> /\ Scanning' = <<>>
    <3>1. Has(todo'["background"], {"view", "gather"}) => topic = <<>> /\ Scanning = <<>>
      BY <1>2, <1>7, ProcsTyped, NamesDistinct DEF Memory
    <3> QED BY <1>2, <3>1, NamesDistinct DEF Scanning
  <2>2. topic # <<>> => shared'["scr"].status = "COMPLETED"
    <3>1. topic # <<>> => shared["scr"].status = "COMPLETED"
      BY <1>7 DEF Memory, Cleared
    <3> QED BY <1>3, <3>1, NamesDistinct
  <2>3. Has(Handling, Needs) => Present(shared'["scr"])
    BY <1>7, <1>10, NamesDistinct DEF Memory
  <2>4. ~Will(Handling, {"escalate", "pause"})
    BY DEF Will, Upd
  <2> QED BY <1>2, <1>4, <1>7, <2>1, <2>2, <2>3, <2>4 DEF Memory
<1>12. Outputs'
  <2>1. ASSUME NEW a \in Agents
        PROVE  /\ ~Present(shared'[a]) => shared'[a] = NoOutput
               /\ a # "scr" /\ Present(shared'[a]) => shared'[a].status = "COMPLETED"
               /\ a \in Dynamic /\ Present(shared'[a]) => shared'[a].level = "correlated"
    BY <1>3, <1>7 DEF Outputs
  <2>2. ASSUME NEW a \in Agents \ {"scr"}, todo'[a] # <<>>
        PROVE  /\ Has(todo'[a], {"write"}) \/ Present(shared'[a])
               /\ Has(todo'[a], {"publish"}) => ~Has(todo'[a], {"notify"})
    <3>1. CASE a = p
      <4>1. Present(shared'[a])
        BY <1>3, <2>2, <3>1
      <4>2. Has(todo[a], {"publish"}) => ~Has(todo[a], {"notify"})
        BY <1>7, <2>2, <3>1 DEF Outputs
      <4> QED BY <1>1, <3>1, <4>1, <4>2
    <3>2. CASE a # p
      <4>1. todo'[a] = todo[a]
        BY <1>2, <2>2, <3>2, NamesDistinct
      <4> QED BY <1>7, <1>10, <2>2, <4>1 DEF Outputs
    <3> QED BY <3>1, <3>2
  <2>3. \A a \in Dynamic : a \in Agents
    BY DEF Agents
  <2> QED BY <2>1, <2>2, <2>3, Zenon DEF Outputs
<1>13. Told' /\ Backing'
  <2>1. Told'
    <3>1. topic # <<>> => shared # NoSnapshot
      BY DEF Cleared
    <3>2. \A i \in 1..Len(topic) : topic[i] \in Agents
      BY ElementOfSeq DEF IInv, BusOK
    <3>3. \A i \in 1..Len(topic) : Present(shared[topic[i]])
      <4>1. topic = <<>> => Len(topic) = 0
        OBVIOUS
      <4> QED BY <1>7, <3>1, <4>1 DEF Told
    <3> QED BY <1>4, <1>5, <1>10, <3>2, <3>3 DEF Told
  <2>2. Backing'
    BY <1>4, <1>7, <1>10 DEF Backing
  <2> QED BY <2>1, <2>2
<1>14. Surfaced'
  <2>1. \A u \in OpsOf(Handling) : u.do \notin {"checkscr", "plan", "next"}
    OBVIOUS
  <2> QED BY <1>2, <2>1 DEF Surfaced
<1>15. /\ ~Has(Handling, {"scan", "read"})
       /\ ~Has(Handling, {"read"}) /\ ~Has(Handling, {"upsert"}) /\ ~Has(Handling, {"verify"})
       /\ ~Has(Handling, {"delete"}) /\ ~Has(Handling, Walks) /\ ~Has(Handling, {"saveview"})
       /\ \A K : ~Will(Handling, K)
  BY DEF Has, Will, Upd, Walks
<1>16. Snapped' /\ Decided'
  BY <1>2, <1>15 DEF Snapped, Decided
<1>17. Held'
  <2>1. ASSUME NEW q \in Procs
        PROVE  /\ ~Completed(local'[q].view) /\ ~Completed(local'[q].copy)
               /\ Rested(local'[q].view) /\ Rested(local'[q].copy)
    <3>1. ~Completed(NoState) /\ Rested(NoState)
      BY DEF NoState, NewState, Completed, Rested
    <3>2. NoLocals.view = NoState /\ NoLocals.copy = NoState
      BY DEF NoLocals
    <3>3. /\ ~Completed(local[q].view) /\ ~Completed(local[q].copy)
          /\ Rested(local[q].view) /\ Rested(local[q].copy)
      BY <1>6, <1>7 DEF Held
    <3> QED BY <1>2, <3>1, <3>2, <3>3
  <2> QED BY <1>4, <1>6, <1>7, <2>1 DEF Held
<1>18. Waiting'
  <2>1. todo'["watcher"] # <<>> => todo["watcher"] # <<>>
    BY <1>2, ProcsTyped, NamesDistinct
  <2> QED BY <1>4, <1>7, <2>1 DEF Waiting
<1>19. Records'
  <2>1. ASSUME NEW q \in Procs, Has(todo'[q], {"save"}) PROVE Alike(local'[q].copy, wf)
    <3>1. CASE q = p
      <4>1. todo'[p] # <<>>
        BY <2>1, <3>1, NoOps DEF Has
      <4>2. Has(todo[q], {"save"})
        BY <1>1, <2>1, <3>1
      <4> QED BY <1>2, <1>7, <3>1, <4>1, <4>2 DEF Records
    <3>2. CASE q # p
      BY <1>2, <1>7, <2>1, <3>2 DEF Records
    <3> QED BY <3>1, <3>2
  <2>2. \A u \in OpsOf(Handling) : u.do # "next"
    OBVIOUS
  <2> QED BY <1>2, <1>4, <1>15, <2>1, <2>2 DEF Records
<1>20. InStep'
  <2>1. Fixed /\ shared'["reporting"].human => wf.step = Len(Def)
    <3>1. CASE b = "reporting"
      BY <3>1
    <3>2. CASE b # "reporting"
      <4>1. shared'["reporting"] = shared["reporting"]
        BY <1>3, <3>2 DEF Agents
      <4> QED BY <1>7, <4>1 DEF InStep
    <3> QED BY <3>1, <3>2
  <2> QED BY <1>2, <1>4, <1>7, <1>8, <2>1 DEF InStep
<1>21. OneToken'
  <2>1. (\E a \in Agents \ {"scr"} : todo'[a] # <<>>) => \E a \in Agents \ {"scr"} : todo[a] # <<>>
    BY <1>2, NamesDistinct
  <2> QED BY <1>2, <1>4, <1>7, <1>8, <2>1 DEF OneToken
<1>22. Reviewed'
  <2> SUFFICES ASSUME Ordinary PROVE Reviewed'
    BY <1>8 DEF Reviewed
  <2>1. \A i \in 1..wf.step - 1 : \A a \in Def[i] : shared[a].status = "COMPLETED"
    BY <1>7 DEF Reviewed
  <2>2. ASSUME NEW i \in 1..wf.step - 1, NEW a \in Def[i] PROVE shared'[a].status = "COMPLETED"
    <3>1. a \in Agents /\ shared[a].status = "COMPLETED"
      <4>1. wf.step \in 1..Len(Def) /\ Len(Def) \in 2..4
        BY MyPlan
      <4>2. i \in 1..Len(Def)
        BY <4>1
      <4>3. Def[i] \subseteq Agents
        BY <4>2, MyPlan, Plans
      <4> QED BY <2>1, <4>3
    <3>2. topic # <<>>
      BY <1>7, <2>2 DEF Memory
    <3> QED BY <1>3, <3>1, <3>2
  <2>3. \A u \in OpsOf(Handling) : u.do \notin Walks
    BY DEF Walks
  <2> QED BY <1>2, <1>4, <1>8, <2>2, <2>3 DEF Reviewed
<1> QED BY <1>9, <1>11, <1>12, <1>13, <1>14, <1>16, <1>17, <1>18, <1>19, <1>20, <1>21, <1>22
        DEF GateInv

LEMMA EarlyWrites ==
  ASSUME IInv, GateInv, Turns, NEW p \in Procs, p # "consumer", Placeholder(p) \/ ScrOutput(p)
  PROVE  GateInv'
<1>1. /\ todo[p] # <<>> /\ This(p).do \in {"placeholder", "output"}
      /\ UNCHANGED <<wf, row, topic, position>> /\ Continue(p, Rest(p), local[p])
  BY DEF Placeholder, ScrOutput, At, This, bus
<1>2. /\ Expected(p, This(p)) /\ This(p) \in OpsOf(todo[p])
  BY <1>1, AtWork DEF GateInv
<1>3. p = "scr" /\ (This(p).do = "output" => This(p).x \in ScanLevels)
  BY <1>1, <1>2 DEF Expected, Upd, Persists, Walks
<1>4. \E o : /\ shared' = [shared EXCEPT !["scr"] = o] /\ Present(o)
             /\ This(p).do = "output" => Completed(o)
  <2>1. CASE Placeholder(p)
    <3>1. This(p).do # "output"
      BY <2>1 DEF Placeholder, At, This
    <3>2. Present(Out("RUNNING", "low", FALSE))
      BY DEF Out, Present
    <3>3. shared' = [shared EXCEPT !["scr"] = Out("RUNNING", "low", FALSE)]
      BY <2>1 DEF Placeholder, Write
    <3> QED BY <3>1, <3>2, <3>3
  <2>2. CASE ScrOutput(p)
    <3>1. This(p).do = "output" /\ This(p).x # "FAILED"
      BY <1>3, <2>2 DEF ScrOutput, At, This, ScanLevels
    <3> DEFINE o == Out("COMPLETED", This(p).x, This(p).x = "critical")
    <3>2. Present(o) /\ Completed(o)
      BY DEF Out, Present, Completed
    <3>3. shared' = [shared EXCEPT !["scr"] = o]
      BY <2>2, <3>1 DEF ScrOutput, Write
    <3> QED BY <3>2, <3>3
  <2> QED BY <2>1, <2>2
<1>5. PICK o : /\ shared' = [shared EXCEPT !["scr"] = o] /\ Present(o)
               /\ This(p).do = "output" => Completed(o)
  BY <1>4, Zenon
<1>6. Goes(p, {}, local[p])
  BY <1>1, Goes0 DEF GateInv
<1>7. /\ \A D : This(p).do \notin D => (Has(todo'[p], D) <=> Has(todo[p], D))
      /\ \A D : Has(todo'[p], D) => Has(todo[p], D)
      /\ \A K : Will(todo'[p], K) => Will(todo[p], K)
  BY <1>6, DropOps
<1>8. Scans(todo[p]) /\ Scanning = todo[p] /\ Scanning # <<>>
  BY <1>1, <1>3 DEF GateInv, Memory, Scanning
<1>9. topic = <<>> /\ Handling = <<>> /\ wf.step = 1 /\ ~wf.paused
  <2>1. Has(todo[p], {"placeholder", "output"})
    BY <1>1, <1>2 DEF Has
  <2>2. topic = <<>>
    BY <1>8, <2>1 DEF Scans
  <2> QED BY <2>2 DEF GateInv, Memory
<1>10. ~Cleared /\ \A u \in OpsOf(Handling) : u.do \in {"await", "commit"}
  BY <1>9, NoOps DEF Cleared
<1>11. shared'["scr"] = o
  BY <1>5, NamesDistinct DEF IInv, StoresOK, Snapshot
<1>12. Scans(Scanning)'
  <2>1. Has(todo'[p], Early)
    <3>1. Has(todo[p], Early)
      BY <1>1, <1>8, <1>9 DEF Scans
    <3>2. This(p).do \notin Early
      BY <1>1 DEF Early
    <3> QED BY <1>7, <3>1, <3>2
  <2>2. ~Will(todo'[p], {"failed"})
    BY <1>7, <1>8, <1>9 DEF Scans, Cleared
  <2>3. CASE This(p).do = "placeholder"
    <3>1. Has(todo[p], {"placeholder"})
      BY <1>2, <2>3 DEF Has
    <3>2. ~Has(todo'[p], {"publish"})
      BY <1>7, <1>8, <3>1 DEF Scans
    <3> QED BY <1>1, <1>3, <1>9, <2>1, <2>2, <3>2 DEF Scans, Scanning
  <2>4. CASE This(p).do = "output"
    <3>1. Has(todo'[p], {"publish"}) => ~Has(todo'[p], {"placeholder"})
      BY <1>7, <1>8 DEF Scans
    <3> QED BY <1>1, <1>3, <1>5, <1>9, <1>11, <2>1, <2>2, <2>4, <3>1 DEF Scans, Scanning, Completed
  <2> QED BY <1>1, <2>3, <2>4
<1>13. "scr" \notin Dynamic /\ "scr" # "reporting"
  BY DEF Dynamic
<1> QED BY <1>1, <1>3, <1>5, <1>6, <1>9, <1>10, <1>12, <1>13, NamesDistinct, Written

LEMMA LaterWrites ==
  ASSUME IInv, GateInv, Turns, Undisturbed, NEW p \in Procs, p # "consumer", WriteOutput(p)
  PROVE  GateInv'
<1>1. /\ todo[p] # <<>> /\ This(p).do = "write"
      /\ UNCHANGED <<wf, row, topic, position>> /\ Continue(p, Rest(p), local[p])
      /\ shared' = [shared EXCEPT ![p] = AgentOutput(p)]
  BY DEF WriteOutput, At, This, bus, Write, Undisturbed
<1>2. Expected(p, This(p))
  BY <1>1, AtWork DEF GateInv
<1>3. p \in Agents \ {"scr"}
  BY <1>1, <1>2 DEF Expected, Upd, Persists, Walks
<1>4. /\ AgentOutput(p).status = "COMPLETED"
      /\ p \in Dynamic => AgentOutput(p).level = "correlated"
  BY <1>3 DEF AgentOutput, Out, Agents, Dynamic
<1>5. /\ At("consumer", "await") /\ p \in This("consumer").who /\ Has(Handling, {"await"})
      /\ ~wf.paused /\ Present(shared["scr"]) /\ topic # <<>>
      /\ \A o \in OpsOf(Handling) \ {This("consumer")} : o.do = "commit"
  BY <1>1, <1>3, Running
<1>6. /\ \A u \in OpsOf(Handling) : u.do \in {"await", "commit"}
      /\ This("consumer") \in OpsOf(Handling) /\ This("consumer").do = "await"
  <2>1. This("consumer") \in OpsOf(Handling) /\ This("consumer").do = "await"
    BY <1>5, AtWork, ProcsTyped DEF At, This, Handling, GateInv
  <2> QED BY <1>5, <2>1
<1>7. shared # NoSnapshot
  <2>1. NoSnapshot["scr"].status = "NONE"
    BY NamesDistinct DEF NoSnapshot, NoOutput, Out
  <2> QED BY <1>5, <2>1 DEF Present
<1>8. ~Cleared
  BY <1>7 DEF Cleared
<1>9. Goes(p, {}, local[p])
  BY <1>1, Goes0 DEF GateInv
<1>10. Scans(Scanning)'
  <2>1. Scanning' = Scanning /\ shared'["scr"] = shared["scr"] /\ topic' = topic
    <3>1. Scanning' = Scanning
      BY <1>3, <1>9, NamesDistinct DEF Goes, Scanning
    <3>2. shared'["scr"] = shared["scr"]
      BY <1>1, <1>3, NamesDistinct DEF IInv, StoresOK, Snapshot
    <3> QED BY <1>1, <3>1, <3>2
  <2>2. Scans(Scanning) /\ ~Will(Scanning, {"failed"})
    BY <1>8 DEF GateInv, Memory, Scans
  <2> QED BY <1>5, <2>1, <2>2 DEF Scans
<1>11. Fixed /\ p = "reporting" => wf.step = Len(Def)
  <2> SUFFICES ASSUME Fixed, p = "reporting" PROVE wf.step = Len(Def)
    OBVIOUS
  <2>1. p \in Def[wf.step]
    BY <1>5, <1>6 DEF GateInv, InStep
  <2> QED BY <2>1, MyPlan, Plans
<1>12. Present(AgentOutput(p))
  BY <1>4 DEF Present
<1> QED BY <1>1, <1>3, <1>4, <1>5, <1>6, <1>8, <1>9, <1>10, <1>11, <1>12, Written

\* A gather starts the agents and becomes the wait for them.
LEMMA GatherGoes ==
  ASSUME IInv, GateInv, NEW p \in Procs, Gather(p)
  PROVE  /\ p \in {"background", "consumer"} /\ Triggers(p, This(p).who)
         /\ This(p).who \in SUBSET Agents /\ This(p).do = "gather" /\ This(p) \in OpsOf(todo[p])
         /\ \A o : o \in OpsOf(todo'[p]) <=>
                     o = About("await", This(p).who) \/ (o \in OpsOf(todo[p]) /\ o # This(p))
         /\ \A o \in OpsOf(todo[p]) \ {This(p)} : o.do = "commit"
         /\ \A q \in This(p).who : todo'[q] # <<>> /\ OpsOf(todo'[q]) = RunOps(q)
         /\ \A q \in Procs : q # p /\ q \notin This(p).who => todo'[q] = todo[q]
         /\ UNCHANGED <<local, wf, shared, row, topic, position>>
         /\ \A q \in Procs : Has(todo'[q], {"save"}) => Has(todo[q], {"save"})
         /\ todo[p] # <<>> /\ todo'[p] # <<>>
         /\ Orderly'
<1> DEFINE who == This(p).who
           w == About("await", who)
           wait == <<w>> \o Rest(p)
<1>1. /\ todo[p] # <<>> /\ This(p).do = "gather"
      /\ todo' = [q \in Procs |-> IF q = p THEN <<Op("await", "", who)>> \o Rest(p)
                                  ELSE IF q \in who THEN AgentRun(q) ELSE todo[q]]
      /\ raised' = [q \in Procs |-> IF q \in who THEN FALSE ELSE raised[q]]
      /\ UNCHANGED <<local, wf, shared, row, topic, position>>
  BY Zenon DEF Gather, At, This, stores, bus
<1>2. /\ This(p) \in Operation /\ ValidOp(p, This(p)) /\ This(p) \in OpsOf(todo[p])
      /\ Rest(p) \in Seq(Operation) /\ InOrder(Rest(p))
      /\ OpsOf(Rest(p)) = OpsOf(todo[p]) \ {This(p)}
      /\ \A i \in 1..Len(Rest(p)) : Before(This(p), Rest(p)[i])
      /\ \A o \in OpsOf(todo[p]) \ {This(p)} : o.do # "save" /\ Reach(This(p)) < Rank(o)
  BY <1>1, AtWork DEF GateInv
<1>3. Triggers(p, who) /\ who \in SUBSET Agents
  BY <1>1, <1>2 DEF ValidOp, Operation
<1>4. p \in {"background", "consumer"} /\ p \notin Agents
  BY <1>3, NamesDistinct DEF Triggers
<1>5. w \in Operation /\ w.do = "await" /\ w.who = who
  BY <1>3, AboutParts DEF Calls
<1>6. Reach(This(p)) = 12 /\ Reach(w) = 12
  BY <1>1, <1>5, Ranks
<1>7. todo'[p] = wait
  BY <1>1 DEF About
<1> HIDE DEF who, w
<1>8. \A o \in OpsOf(todo[p]) \ {This(p)} : o.do = "commit"
  <2> SUFFICES ASSUME NEW o \in OpsOf(todo[p]) \ {This(p)} PROVE o.do = "commit"
    OBVIOUS
  <2>1. 12 < Rank(o) /\ o.do # "catch"
    BY <1>2, <1>6, OpsIn
  <2> QED BY <2>1, RankTyped
<1>9. /\ wait \in Seq(Operation) /\ InOrder(wait)
      /\ OpsOf(wait) = {w} \union (OpsOf(todo[p]) \ {This(p)})
      /\ wait # <<>> /\ Head(wait) = w
  <2> DEFINE one == <<w>>
  <2>1. /\ one \in Seq(Operation) /\ InOrder(one) /\ OpsOf(one) = {w}
        /\ \A i \in 1..Len(one) : one[i] = w
    BY <1>5, OneOp
  <2>2. one \o Rest(p) # <<>> /\ Head(one \o Rest(p)) = w
    BY <1>2, <1>5, HeadOf
  <2> HIDE DEF one
  <2>3. \A i \in 1..Len(one), j \in 1..Len(Rest(p)) : Before(one[i], Rest(p)[j])
    BY <1>1, <1>2, <1>6, <2>1 DEF Before
  <2>4. InOrder(one \o Rest(p)) /\ one \o Rest(p) \in Seq(Operation)
        /\ OpsOf(one \o Rest(p)) = OpsOf(one) \union OpsOf(Rest(p))
    BY <1>2, <2>1, <2>3, OrderConcat, OpsConcat
  <2> QED BY <1>2, <2>1, <2>2, <2>4 DEF one
<1> HIDE DEF wait
<1>10. ASSUME NEW q \in who
       PROVE  /\ todo'[q] = AgentRun(q) /\ OpsOf(todo'[q]) = RunOps(q) /\ InOrder(todo'[q])
              /\ todo'[q] # <<>> /\ Head(todo'[q]).do # "catch" /\ ~Has(todo'[q], {"save"})
              /\ \A o \in OpsOf(todo'[q]) : Expected(q, o)
  <2>0. q \in Agents /\ q \in Procs /\ q # p
    BY <1>3, <1>4, NamesDistinct
  <2>1. todo'[q] = AgentRun(q)
    BY <1>1, <2>0
  <2>2. Span(AgentRun(q), 1, 8) /\ OpsOf(AgentRun(q)) = RunOps(q)
    BY <2>0, AgentRunSpan
  <2>3. AgentRun(q) \in Seq(Operation) /\ InOrder(AgentRun(q))
        /\ \A i \in 1..Len(AgentRun(q)) : AgentRun(q)[i].do # "save" /\ AgentRun(q)[i].do # "catch"
    BY <2>2 DEF Span
  <2>4. For("notify", q) \in OpsOf(AgentRun(q))
    BY <2>2 DEF RunOps
  <2>5. AgentRun(q) # <<>>
    BY <2>4, NoOps
  <2>6. Head(AgentRun(q)).do # "catch"
    <3>1. 1 \in 1..Len(AgentRun(q)) /\ Head(AgentRun(q)) = AgentRun(q)[1]
      BY <2>3, <2>5, HeadTailProperties, LenProperties
    <3> QED BY <2>3, <3>1
  <2>7. ~Has(AgentRun(q), {"save"})
    <3> SUFFICES ASSUME NEW o \in OpsOf(AgentRun(q)) PROVE o.do # "save"
      BY DEF Has
    <3>1. PICK i \in 1..Len(AgentRun(q)) : AgentRun(q)[i] = o
      BY OpsIn
    <3> QED BY <2>3, <3>1
  <2>8. \A o \in RunOps(q) : Expected(q, o)
    <3>1. /\ Update("running", {q}).do = "load" /\ Update("running", {q}).x = "running"
          /\ For("notify", q).do = "notify" /\ For("placeholder", q).do = "placeholder"
          /\ For("pipeline", q).do = "pipeline" /\ For("readscr", q).do = "readscr"
          /\ For("readcma", q).do = "readcma" /\ For("write", q).do = "write"
      BY <2>0, Parts DEF Calls, Kinds
    <3>2. CASE q = "scr"
      BY <2>0, <3>1, <3>2 DEF RunOps, Expected, Upd
    <3>3. CASE q # "scr"
      BY <2>0, <3>1, <3>3 DEF RunOps, Expected, Upd
    <3> QED BY <3>2, <3>3
  <2> QED BY <2>1, <2>2, <2>3, <2>5, <2>6, <2>7, <2>8
<1>11. \A q \in Procs : q # p /\ q \notin who => todo'[q] = todo[q]
  BY <1>1
<1>12. ASSUME NEW q \in Procs, Has(todo'[q], {"save"}) PROVE Has(todo[q], {"save"})
  <2>1. CASE q = p
    BY <1>5, <1>7, <1>8, <1>9, <1>12, <2>1 DEF Has
  <2>2. CASE q # p
    BY <1>10, <1>11, <1>12, <2>2
  <2> QED BY <2>1, <2>2
<1>13. Orderly'
  <2>1. ASSUME NEW q \in Procs
        PROVE  /\ InOrder(todo'[q]) /\ raised'[q] = FALSE
               /\ todo'[q] # <<>> => Head(todo'[q]).do # "catch"
               /\ \A o \in OpsOf(todo'[q]) : Expected(q, o)
    <3>0. raised'[q] = FALSE
      BY <1>1 DEF GateInv, Orderly
    <3>1. CASE q = p
      <4>1. \A o \in OpsOf(wait) : Expected(p, o)
        <5>1. \A o \in OpsOf(todo[p]) : Expected(p, o)
          BY DEF GateInv, Orderly
        <5>2. Expected(p, w)
          BY <1>4, <1>5 DEF Expected, Walks, Upd
        <5> QED BY <1>9, <5>1, <5>2
      <4> QED BY <1>5, <1>7, <1>9, <3>0, <3>1, <4>1
    <3>2. CASE q \in who
      BY <1>10, <3>0, <3>2
    <3>3. CASE q # p /\ q \notin who
      BY <1>11, <3>0, <3>3 DEF GateInv, Orderly
    <3> QED BY <3>1, <3>2, <3>3
  <2> QED BY <2>1 DEF Orderly
<1>14. todo'[p] # <<>>
  BY <1>7, <1>9
<1>15. \A o : o \in OpsOf(todo'[p]) <=> o = w \/ (o \in OpsOf(todo[p]) /\ o # This(p))
  BY <1>7, <1>9
<1> QED BY <1>1, <1>2, <1>3, <1>4, <1>8, <1>10, <1>11, <1>12, <1>13, <1>14, <1>15 DEF who, w

\* The background task triggers SCR.
LEMMA BackgroundGather ==
  ASSUME IInv, GateInv, NEW p \in Procs, p # "consumer", Gather(p)
  PROVE  GateInv'
<1>1. /\ p = "background" /\ This(p).who = {"scr"}
      /\ This(p).do = "gather" /\ This(p) \in OpsOf(todo[p])
      /\ \A o : o \in OpsOf(todo'[p]) <=>
                  o = About("await", {"scr"}) \/ (o \in OpsOf(todo[p]) /\ o # This(p))
      /\ \A o \in OpsOf(todo[p]) \ {This(p)} : o.do = "commit"
      /\ todo'["scr"] # <<>> /\ OpsOf(todo'["scr"]) = RunOps("scr")
      /\ \A q \in Procs : q # "background" /\ q # "scr" => todo'[q] = todo[q]
      /\ UNCHANGED <<local, wf, shared, row, topic, position>>
      /\ \A q \in Procs : Has(todo'[q], {"save"}) => Has(todo[q], {"save"})
      /\ Orderly'
  BY GatherGoes DEF Triggers
<1>2. /\ Handling' = Handling /\ Mine' = Mine /\ \A q \in Procs : local'[q] = local[q]
      /\ wf' = wf /\ shared' = shared /\ row' = row /\ topic' = topic /\ position' = position
      /\ \A a \in Agents \ {"scr"} : todo'[a] = todo[a]
      /\ todo'["watcher"] = todo["watcher"]
  BY <1>1, ProcsTyped, NamesDistinct DEF Handling, Mine
<1>3. /\ Memory /\ Outputs /\ Told /\ Backing /\ Surfaced /\ Snapped
      /\ Decided /\ Held /\ Waiting /\ Records /\ InStep /\ OneToken /\ Reviewed
  BY DEF GateInv
<1>4. /\ Def' = Def /\ Fixed' = Fixed /\ Ordinary' = Ordinary /\ Cleared' = Cleared
      /\ Closed' = Closed /\ Finished(shared)' = Finished(shared)
  <2>1. \A m : Finished(m)' = Finished(m)
    BY <1>2 DEF Finished, Team
  <2>2. Finished(shared)' = Finished(shared)
    BY <1>2 DEF Finished, Team
  <2> QED BY <1>2, <2>1, <2>2 DEF Def, Fixed, Ordinary, Cleared, Closed
<1>5. topic = <<>>
  <2>1. Has(todo["background"], {"view", "gather"})
    BY <1>1 DEF Has
  <2> QED BY <1>3, <2>1 DEF Memory
<1>6. ~Has(todo'["background"], {"view", "gather"})
  <2>1. About("await", {"scr"}).do = "await"
    BY NamesDistinct, AboutParts DEF Calls
  <2> QED BY <1>1, <2>1 DEF Has
<1>7. Scans(Scanning)'
  <2>1. /\ Update("running", {"scr"}).do = "load" /\ Update("running", {"scr"}).x = "running"
        /\ For("notify", "scr").do = "notify" /\ For("placeholder", "scr").do = "placeholder"
        /\ For("pipeline", "scr").do = "pipeline"
    BY NamesDistinct, Parts DEF Calls, Kinds
  <2>2. /\ Has(todo'["scr"], Early) /\ ~Has(todo'["scr"], {"publish"})
        /\ ~Will(todo'["scr"], {"failed"})
    BY <1>1, <2>1 DEF RunOps, Has, Will, Upd, Early
  <2> QED BY <1>2, <1>5, <2>2 DEF Scans, Scanning
<1>8. Memory'
  BY <1>2, <1>3, <1>6, <1>7, Zenon DEF Memory
<1>9. Outputs' /\ Told' /\ Backing' /\ Surfaced'
  <2>1. Outputs'
    BY <1>2, <1>3, Zenon DEF Outputs
  <2> QED BY <1>2, <1>3, <1>4, <2>1 DEF Told, Backing, Surfaced
<1>10. Snapped' /\ Decided'
  <2>1. Snapped'
    BY <1>2, <1>3, Zenon DEF Snapped
  <2> QED BY <1>2, <1>3, <1>4, <2>1, Zenon DEF Decided
<1>11. Held' /\ Waiting'
  <2>1. Held'
    BY <1>2, <1>3, <1>4 DEF Held
  <2> QED BY <1>2, <1>3, <2>1 DEF Waiting
<1>12. Records'
  <2>1. ASSUME NEW q \in Procs, Has(todo'[q], {"save"}) PROVE Alike(local'[q].copy, wf)
    BY <1>1, <1>2, <1>3, <2>1 DEF Records
  <2> QED BY <1>2, <1>3, <1>4, <2>1, Zenon DEF Records
<1>13. InStep' /\ OneToken' /\ Reviewed'
  <2>1. InStep'
    BY <1>2, <1>3, <1>4 DEF InStep
  <2>2. Reviewed'
    BY <1>2, <1>3, <1>4 DEF Reviewed
  <2>3. OneToken'
    BY <1>2, <1>3, <1>4 DEF OneToken
  <2> QED BY <2>1, <2>2, <2>3
<1> QED BY <1>1, <1>8, <1>9, <1>10, <1>11, <1>12, <1>13 DEF GateInv

LEMMA OtherSteps ==
  ASSUME IInv, GateInv, Turns, Undisturbed, NEW p \in Procs, p # "consumer", Step(p)
  PROVE  GateInv'
<1>1. ASSUME SaveView(p) \/ Scan(p) \/ Read(p) \/ Upsert(p) \/ Verify(p) \/ ClearScan(p) \/ Delete(p)
             \/ Surface(p) \/ CheckScr(p) \/ Plan(p) \/ Raise(p) \/ IfRunning(p)
             \/ WriteDefault(p) \/ Commit(p)
      PROVE  FALSE
  <2>1. /\ todo[p] # <<>>
        /\ This(p).do \in {"saveview", "scan", "read", "upsert", "verify", "clearscan", "delete",
                           "surface", "checkscr", "plan", "next", "raise", "ifrunning", "default",
                           "commit"}
    BY <1>1, Zenon DEF SaveView, Scan, Read, Upsert, Verify, ClearScan, Delete, Surface, CheckScr, Plan,
      Raise, IfRunning, WriteDefault, Commit, At, This
  <2>2. Expected(p, This(p))
    BY <2>1, AtWork DEF GateInv
  <2> QED BY <2>1, <2>2 DEF Expected, Upd
<1>2. \/ Load(p) \/ Save(p) \/ View(p) \/ Emit(p) \/ Gather(p) \/ Await(p)
      \/ Placeholder(p) \/ Pipeline(p) \/ ScrOutput(p) \/ Late(p)
      \/ ReadScr(p) \/ ReadCma(p) \/ WriteOutput(p) \/ Notify(p) \/ Publish(p)
  BY <1>1, Zenon DEF Step
<1> QED BY <1>2, OtherLoad, OtherSave, OtherReads, BackgroundGather, EarlyWrites, OtherAnnounces,
           LaterWrites, OtherPublish

-----------------------------------------------------------------------------
(* The steps of the consumer.                                              *)

\* What others hold is as it was.
LEMMA HeldMoves ==
  ASSUME Held, NEW N, NEW l, Goes("consumer", N, l), Closed => Closed',
         Completed(wf') => Closed', Rested(wf'),
         Completed(l.view) \/ Completed(l.copy) => Closed', Rested(l.view), Rested(l.copy)
  PROVE  Held'
<1>1. ~Completed(NoLocals.view) /\ ~Completed(NoLocals.copy)
      /\ Rested(NoLocals.view) /\ Rested(NoLocals.copy)
  <2>1. ~Completed(NoState) /\ Rested(NoState)
    BY DEF NoState, NewState, Completed, Rested
  <2>2. NoLocals.view = NoState /\ NoLocals.copy = NoState
    BY DEF NoLocals
  <2> QED BY <2>1, <2>2
<1>2. ASSUME NEW q \in Procs
      PROVE  /\ Completed(local'[q].view) \/ Completed(local'[q].copy) => Closed'
             /\ Rested(local'[q].view) /\ Rested(local'[q].copy)
  <2>1. CASE q = "consumer"
    <3>1. local'[q] = l \/ local'[q] = NoLocals
      BY <2>1 DEF Goes
    <3> QED BY <1>1, <3>1
  <2>2. CASE q # "consumer"
    <3>1. local'[q] = local[q]
      BY <2>2 DEF Goes
    <3> QED BY <3>1 DEF Held
  <2> QED BY <2>1, <2>2
<1> QED BY <1>2 DEF Held

\* So is what they are about to save.
LEMMA SavesMove ==
  ASSUME Records, NEW N, NEW l, Goes("consumer", N, l),
         Has(Handling', {"save"}) => Alike(l.copy, wf'),
         \A p \in Procs \ {"consumer"} : Has(todo[p], {"save"}) =>
            (Alike(local[p].copy, wf) => Alike(local[p].copy, wf'))
  PROVE  \A p \in Procs : Has(todo'[p], {"save"}) => Alike(local'[p].copy, wf')
<1> SUFFICES ASSUME NEW q \in Procs, Has(todo'[q], {"save"}) PROVE Alike(local'[q].copy, wf')
  OBVIOUS
<1>1. CASE q = "consumer"
  <2>1. todo'[q] # <<>>
    BY NoOps DEF Has
  <2>2. local'[q] = l
    BY <1>1, <2>1 DEF Goes
  <2> QED BY <1>1, <2>2 DEF Handling
<1>2. CASE q # "consumer"
  <2>1. todo'[q] = todo[q] /\ local'[q] = local[q]
    BY <1>2 DEF Goes
  <2> QED BY <1>2, <2>1 DEF Records
<1> QED BY <1>1, <1>2

\* What a handler has, it has with its locals.
LEMMA MineMoves ==
  ASSUME NEW N, NEW l, Goes("consumer", N, l)
  PROVE  /\ Handling # <<>> \/ OpsOf(Handling) = {}
         /\ \A o : o \in OpsOf(Handling') => Mine' = l
         /\ Has(Handling', Walks) \/ Has(Handling', {"saveview"}) => Mine' = l
         /\ Has(Handling', {"read"}) \/ Has(Handling', {"upsert"}) \/ Has(Handling', {"verify"})
              \/ Has(Handling', {"delete"}) => Mine' = l
         /\ OpsOf(Handling') = N \union (OpsOf(Handling) \ {This("consumer")})
         /\ Handling' = <<>> <=> OpsOf(Handling') = {}
         /\ \A q \in Procs : q # "consumer" => todo'[q] = todo[q] /\ local'[q] = local[q]
<1>1. \A o : o \in OpsOf(Handling') => Mine' = l
  <2>1. Handling' # <<>> => Mine' = l
    BY DEF Goes, Handling, Mine
  <2> QED BY <2>1, NoOps
<1>2. Has(Handling', Walks) \/ Has(Handling', {"saveview"}) => Mine' = l
  BY <1>1 DEF Has
<1>3. Has(Handling', {"read"}) \/ Has(Handling', {"upsert"}) \/ Has(Handling', {"verify"})
        \/ Has(Handling', {"delete"}) => Mine' = l
  BY <1>1 DEF Has
<1> QED BY <1>1, <1>2, <1>3, NoOps DEF Goes, Handling

\* The handler goes on, with the stores and the topic as they were.
LEMMA Handled ==
  ASSUME IInv, GateInv, NEW N, NEW l, Goes("consumer", N, l),
         \A o \in N : Expected("consumer", o),
         topic # <<>>, UNCHANGED <<shared, topic>>,
         row' = row \/ (shared # NoSnapshot /\ row'.snap = shared),
         Has(Handling', Needs) \/ Will(Handling', {"escalate", "pause"}) => Present(shared["scr"]),
         Surfaced', Snapped', Decided', Held', Waiting', Records', InStep', OneToken', Reviewed'
  PROVE  GateInv'
<1>1. \A q \in Procs : q # "consumer" => todo'[q] = todo[q] /\ local'[q] = local[q]
  BY DEF Goes
<1>2. shared' = shared /\ topic' = topic /\ Cleared' = Cleared
  BY DEF Cleared
<1>3. Scanning' = Scanning /\ todo'["background"] = todo["background"]
      /\ \A a \in Agents : todo'[a] = todo[a]
  BY <1>1, ProcsTyped, NamesDistinct DEF Scanning
<1>4. Orderly /\ Memory /\ Outputs /\ Told /\ Backing
  BY DEF GateInv
<1>5. Orderly'
  BY <1>4, ProcsTyped, GoesOrderly
<1>6. Memory'
  <2>1. Scans(Scanning)'
    BY <1>2, <1>3, <1>4 DEF Memory, Scans
  <2> QED BY <1>2, <1>3, <1>4, <2>1 DEF Memory
<1>7. Outputs'
  BY <1>2, <1>3, <1>4, Zenon DEF Outputs
<1>8. Told' /\ Backing'
  <2>1. CASE row' = row
    BY <1>2, <1>4, <2>1 DEF Told, Backing
  <2>2. CASE shared # NoSnapshot /\ row'.snap = shared
    <3>1. Told'
      BY <1>2, <1>4, <2>2 DEF Told
    <3>2. Backing'
      BY <1>2, <1>4, <2>2 DEF Backing, Outputs
    <3> QED BY <3>1, <3>2
  <2> QED BY <2>1, <2>2
<1> QED BY <1>5, <1>6, <1>7, <1>8 DEF GateInv

\* Nothing changes but that less is to come.
LEMMA HandledKeeps ==
  ASSUME IInv, GateInv, NEW N, NEW l, Goes("consumer", N, l),
         \A o \in N : Expected("consumer", o),
         Handling # <<>>, UNCHANGED <<wf, shared, topic, position>>,
         row' = row \/ (shared # NoSnapshot /\ row'.snap = shared),
         \A o \in OpsOf(Handling') : o.do \in {"load", "save", "read"} \/ o \in OpsOf(Handling),
         \A u \in OpsOf(Handling') : u.do \in {"load", "save"} =>
            \E v \in OpsOf(Handling) : v.do \in {"load", "save"} /\ v.x = u.x /\ v.who = u.who,
         Will(Handling, {"done"}) => Will(Handling', {"done"}),
         Will(Handling, {"escalate"}) => Will(Handling', {"escalate"}),
         Has(Handling, {"view"}) => Has(Handling', {"view"}),
         Has(Handling, {"saveview"}) => Has(Handling', {"saveview"}),
         Has(Handling, {"delete"}) => Has(Handling', {"delete"}),
         l.view = Mine.view, l.surface = Mine.surface, l.copy \in {Mine.copy, wf, NoState},
         Has(Handling', {"save"}) => Alike(l.copy, wf),
         Has(Handling', {"read"}) => Present(shared["scr"]),
         Snapped'
  PROVE  GateInv'
<1>1. /\ \A D : "load" \notin D /\ "save" \notin D /\ "read" \notin D =>
               (Has(Handling', D) => Has(Handling, D))
      /\ \A K : Will(Handling', K) => Will(Handling, K)
  <2>1. ASSUME NEW D, "load" \notin D, "save" \notin D, "read" \notin D, Has(Handling', D)
        PROVE  Has(Handling, D)
    BY <2>1 DEF Has
  <2>2. ASSUME NEW K, Will(Handling', K) PROVE Will(Handling, K)
    BY <2>2 DEF Will, Upd
  <2> QED BY <2>1, <2>2
<1>2. /\ wf' = wf /\ shared' = shared /\ topic' = topic /\ position' = position
  OBVIOUS
<1>3. /\ Memory /\ Surfaced /\ Decided /\ Held /\ Waiting /\ Records /\ InStep /\ OneToken
      /\ Reviewed
  BY DEF GateInv
<1>4. /\ Def' = Def /\ Fixed' = Fixed /\ Ordinary' = Ordinary /\ Cleared' = Cleared
      /\ Closed' = Closed /\ Finished(shared)' = Finished(shared)
  <2>1. \A m : Finished(m)' = Finished(m)
    BY <1>2 DEF Finished, Team
  <2>2. Finished(shared)' = Finished(shared)
    BY <1>2 DEF Finished, Team
  <2>3. Cleared' = Cleared /\ Ordinary' = Ordinary
    BY <1>2 DEF Cleared, Ordinary, Fixed
  <2>4. row' = row \/ ~Cleared
    BY DEF Cleared
  <2>5. Closed' = Closed
    BY <2>1, <2>3, <2>4 DEF Closed
  <2> QED BY <1>2, <2>2, <2>3, <2>5 DEF Def, Fixed
<1>5. /\ \A o : o \in OpsOf(Handling') => Mine' = l
      /\ Has(Handling', Walks) \/ Has(Handling', {"saveview"}) => Mine' = l
      /\ \A q \in Procs : q # "consumer" => todo'[q] = todo[q] /\ local'[q] = local[q]
  BY MineMoves
<1>6. topic # <<>>
  BY <1>3 DEF Memory
<1>7. Has(Handling', Needs) \/ Will(Handling', {"escalate", "pause"}) => Present(shared["scr"])
  <2>1. Has(Handling', Needs) => Has(Handling, Needs \ {"read"}) \/ Has(Handling', {"read"})
    <3>1. Has(Handling', Needs) => Has(Handling', Needs \ {"read"}) \/ Has(Handling', {"read"})
      BY DEF Has
    <3>2. Has(Handling', Needs \ {"read"}) => Has(Handling, Needs \ {"read"})
      BY <1>1 DEF Needs
    <3> QED BY <3>1, <3>2
  <2>2. Has(Handling, Needs \ {"read"}) => Has(Handling, Needs)
    BY DEF Has
  <2> QED BY <1>1, <1>3, <2>1, <2>2 DEF Memory
<1>8. Surfaced'
  BY <1>2, <1>3, <1>5 DEF Surfaced
<1>9. Decided'
  <2>1. Has(Handling', {"delete"}) => Has(Handling, {"delete"})
    BY <1>1
  <2> QED BY <1>1, <1>2, <1>3, <1>4, <2>1, Zenon DEF Decided
<1>10. Held'
  <2>1. /\ Completed(wf) => Closed
        /\ Rested(wf)
        /\ Completed(Mine.view) \/ Completed(Mine.copy) => Closed
        /\ Rested(Mine.view) /\ Rested(Mine.copy)
    BY <1>3, ProcsTyped DEF Held, Mine
  <2>2. ~Completed(NoState) /\ Rested(NoState)
    BY DEF NoState, NewState, Completed, Rested
  <2> QED BY <1>2, <1>3, <1>4, <2>1, <2>2, HeldMoves
<1>11. Waiting'
  <2>1. Has(Handling', {"gather", "await"}) => Has(Handling, {"gather", "await"})
    BY <1>1
  <2>2. row'.snap["reporting"] \in {row.snap["reporting"], shared["reporting"]}
    OBVIOUS
  <2> QED BY <1>2, <1>3, <1>5, <2>1, <2>2, ProcsTyped, NamesDistinct DEF Waiting
<1>12. Records'
  <2>1. \A p \in Procs : Has(todo'[p], {"save"}) => Alike(local'[p].copy, wf')
    BY <1>2, <1>3, SavesMove
  <2>2. /\ Has(Handling', Walks) => Has(Handling, Walks)
        /\ Has(Handling', {"saveview"}) => Has(Handling, {"saveview"})
        /\ Has(Handling', {"view", "await"}) => Has(Handling, {"view", "await"})
    BY <1>1 DEF Walks
  <2>3. Will(Handling', {"escalate"}) <=> Will(Handling, {"escalate"})
    BY <1>1
  <2>4. \A o \in OpsOf(Handling') : o.do = "next" => o \in OpsOf(Handling)
    OBVIOUS
  <2>5. Has(Handling', Walks) => Has(Handling', {"view"}) \/ Alike(Mine'.view, wf)
    BY <1>3, <1>5, <2>2 DEF Records
  <2>6. Has(Handling', {"saveview"}) =>
       /\ ~Has(Handling', {"view", "await"})
       /\ Fixed /\ ~wf.paused /\ ~Mine'.view.paused
       /\ Mine'.view.name = wf.name /\ Mine'.view.flow = wf.flow /\ Mine'.view.step = wf.step + 1
       /\ wf.name \notin SCR_REQUIRED_WORKFLOWS => wf.step = 1
       /\ \A a \in Def[wf.step] : Present(shared[a])
    BY <1>3, <1>5, <2>2 DEF Records
  <2>7. Will(Handling', {"escalate"}) =>
          Fixed /\ wf.name \notin SCR_REQUIRED_WORKFLOWS /\ Has(Handling', {"view"})
    BY <1>3, <2>3 DEF Records
  <2>8. \A o \in OpsOf(Handling') : o.do = "next" =>
          ((o.x = "paused") <=> wf.paused) /\ (Will(Handling', {"escalate"}) \/ ~Fixed)
    BY <1>3, <2>3, <2>4 DEF Records
  <2> QED BY <1>2, <1>4, <2>1, <2>5, <2>6, <2>7, <2>8, Zenon DEF Records
<1>13. InStep'
  <2>1. Will(Handling', {"pause"}) => Will(Handling, {"pause"})
    BY <1>1
  <2>2. Has(Handling', {"saveview"}) <=> Has(Handling, {"saveview"})
    BY <1>1
  <2>3. \A o \in OpsOf(Handling') :
          /\ o.do \in Walks \union {"await"} => o \in OpsOf(Handling)
          /\ o.do = "gather" => o \in OpsOf(Handling)
    BY DEF Walks
  <2> QED BY <1>2, <1>3, <1>4, <2>1, <2>2, <2>3 DEF InStep
<1>14. OneToken'
  <2>1. Has(Handling', Walks \union {"view", "saveview", "gather"})
          => Has(Handling, Walks \union {"view", "saveview", "gather"})
    BY <1>1 DEF Walks
  <2>2. Will(Handling', {"done", "escalate"}) => Will(Handling, {"done", "escalate"})
    BY <1>1
  <2>3. \A a \in Agents \ {"scr"} : todo'[a] = todo[a]
    BY <1>5, NamesDistinct
  <2> QED BY <1>2, <1>3, <1>4, <2>1, <2>2, <2>3 DEF OneToken
<1>15. Reviewed'
  <2> SUFFICES ASSUME Ordinary, ~Cleared PROVE Reviewed'
    BY <1>4 DEF Reviewed
  <2>1. /\ \A i \in 1..wf.step - 1 : \A a \in Def[i] : shared[a].status = "COMPLETED"
        /\ \A o, u \in OpsOf(Handling) : o.do \in Walks /\ Upd(u, {"done"}) =>
             o.who = u.who /\ Has(Handling, {"view"})
        /\ wf.paused \/ Will(Handling, {"done"}) \/
           \A o \in OpsOf(Handling) : o.do \in Walks => \A a \in o.who :
             /\ wf.agents[a] = "DONE"
             /\ Has(Handling, {"view"}) \/ Mine.view.agents[a] = "DONE"
    BY <1>3 DEF Reviewed
  <2>2. \A o \in OpsOf(Handling') : o.do \in Walks => o \in OpsOf(Handling)
    BY DEF Walks
  <2>3. ASSUME NEW o \in OpsOf(Handling'), NEW u \in OpsOf(Handling'), o.do \in Walks,
               Upd(u, {"done"})
        PROVE  o.who = u.who /\ Has(Handling', {"view"})
    <3>1. PICK v \in OpsOf(Handling) : v.do \in {"load", "save"} /\ v.x = u.x /\ v.who = u.who
      BY <2>3 DEF Upd
    <3>2. Upd(v, {"done"})
      BY <2>3, <3>1 DEF Upd
    <3> QED BY <2>1, <2>2, <2>3, <3>1, <3>2
  <2>4. wf.paused \/ Will(Handling', {"done"}) \/
           \A o \in OpsOf(Handling') : o.do \in Walks => \A a \in o.who :
             /\ wf.agents[a] = "DONE"
             /\ Has(Handling', {"view"}) \/ Mine'.view.agents[a] = "DONE"
    BY <1>5, <2>1, <2>2
  <2> QED BY <1>2, <1>4, <2>1, <2>3, <2>4 DEF Reviewed
<1> QED BY <1>2, <1>6, <1>7, <1>8, <1>9, <1>10, <1>11, <1>12, <1>13, <1>14, <1>15, Handled

\* The consumer at work.
LEMMA AtMine ==
  ASSUME IInv, GateInv, Handling # <<>>
  PROVE  /\ This("consumer") \in Operation /\ This("consumer") \in OpsOf(Handling)
         /\ Expected("consumer", This("consumer")) /\ ValidOp("consumer", This("consumer"))
         /\ \A o \in OpsOf(Handling) \ {This("consumer")} :
              o.do # "save" /\ o.do # "catch" /\ Reach(This("consumer")) < Rank(o)
         /\ Mine \in Locals /\ topic # <<>> /\ todo["consumer"] # <<>>
<1>1. todo["consumer"] # <<>>
  BY DEF Handling
<1>2. /\ This("consumer") \in Operation /\ This("consumer") \in OpsOf(Handling)
      /\ Expected("consumer", This("consumer")) /\ ValidOp("consumer", This("consumer"))
      /\ \A o \in OpsOf(Handling) \ {This("consumer")} :
           o.do # "save" /\ Reach(This("consumer")) < Rank(o)
  BY <1>1, AtWork, ProcsTyped DEF GateInv, Handling
<1>3. \A o \in OpsOf(Handling) : o.do # "catch"
  BY OpsIn
<1>4. Mine \in Locals
  BY ProcsTyped DEF IInv, ControlOK, Mine
<1>5. topic # <<>>
  BY DEF GateInv, Memory
<1> QED BY <1>1, <1>2, <1>3, <1>4, <1>5

\* An operation of the consumer that leaves no trace.
LEMMA MineDrops ==
  ASSUME IInv, GateInv, Handling # <<>>, NEW l, Goes("consumer", {}, l),
         UNCHANGED <<wf, shared, row, topic, position>>,
         This("consumer").do \in {"await", "emit", "commit", "verify", "clearscan"},
         l.view = Mine.view, l.surface = Mine.surface, l.copy = Mine.copy,
         Snapped'
  PROVE  GateInv'
<1>1. /\ \A D : This("consumer").do \notin D => (Has(Handling', D) <=> Has(Handling, D))
      /\ \A K : ~Upd(This("consumer"), K) => (Will(Handling', K) <=> Will(Handling, K))
      /\ \A D : Has(Handling', D) => Has(Handling, D)
      /\ \A o : o \in OpsOf(Handling') <=> o \in OpsOf(Handling) /\ o # This("consumer")
  BY DropOps DEF Handling
<1>2. /\ Has(Handling, {"view"}) => Has(Handling', {"view"})
      /\ Has(Handling, {"saveview"}) => Has(Handling', {"saveview"})
      /\ Has(Handling, {"delete"}) => Has(Handling', {"delete"})
      /\ Has(Handling', {"read"}) => Has(Handling, {"read"})
      /\ Has(Handling', {"save"}) => Has(Handling, {"save"})
  BY <1>1
<1>3. /\ Will(Handling, {"done"}) => Will(Handling', {"done"})
      /\ Will(Handling, {"escalate"}) => Will(Handling', {"escalate"})
  BY <1>1 DEF Upd
<1>4. Has(Handling', {"save"}) => Alike(l.copy, wf)
  BY <1>2, ProcsTyped DEF GateInv, Records, Handling, Mine
<1>5. Has(Handling', {"read"}) => Present(shared["scr"])
  <2>1. Has(Handling, {"read"}) => Has(Handling, Needs)
    BY DEF Has, Needs
  <2> QED BY <1>2, <2>1 DEF GateInv, Memory
<1>6. \A o \in OpsOf(Handling') : o \in OpsOf(Handling)
  BY <1>1
<1> QED BY <1>2, <1>3, <1>4, <1>5, <1>6, HandledKeeps

\* What is left of the finalizer's calls when the consumer drops one.
LEMMA MineAfter ==
  ASSUME IInv, GateInv, Handling # <<>>, NEW l, Goes("consumer", {}, l)
  PROVE  /\ \A D : This("consumer").do \notin D => (Has(Handling', D) <=> Has(Handling, D))
         /\ \A D : Has(Handling', D) => Has(Handling, D)
         /\ ~Upd(This("consumer"), {"pause"}) =>
              (Will(Handling', {"pause"}) <=> Will(Handling, {"pause"}))
         /\ Has(Handling', {"read"}) \/ Has(Handling', {"upsert"}) \/ Has(Handling', {"verify"})
              \/ Has(Handling', {"delete"}) => Mine' = l
BY DropOps, MineMoves DEF Handling

LEMMA MineWaits ==
  ASSUME IInv, GateInv, Await("consumer") \/ Emit("consumer") \/ Commit("consumer")
  PROVE  GateInv'
<1>1. /\ Handling # <<>> /\ UNCHANGED <<wf, shared, row, topic, position>>
      /\ This("consumer").do \in {"await", "emit", "commit"}
  BY Zenon DEF Await, Emit, Commit, At, This, stores, bus, Handling
<1>2. Continue("consumer", Rest("consumer"), Mine)
  <2>1. CASE Await("consumer")
    <3>1. \A q \in This("consumer").who : raised[q] = FALSE
      <4>1. This("consumer") \in Operation
        BY <1>1, AtMine
      <4> QED BY <4>1, NamesDistinct DEF Operation, GateInv, Orderly
    <3>2. {q \in This("consumer").who : raised[q]} = {}
      BY <3>1
    <3> QED BY <2>1, <3>2 DEF Await, Mine
  <2>2. CASE Emit("consumer") \/ Commit("consumer")
    BY <2>2 DEF Emit, Commit, Mine
  <2> QED BY <2>1, <2>2
<1>3. Goes("consumer", {}, Mine)
  <2>1. todo["consumer"] # <<>> /\ Orderly
    BY <1>1 DEF Handling, GateInv
  <2> QED BY <1>2, <2>1, ProcsTyped, Goes0
<1>4. /\ Has(Handling', {"read"}) <=> Has(Handling, {"read"})
      /\ Has(Handling', {"scan", "read"}) <=> Has(Handling, {"scan", "read"})
      /\ Has(Handling', {"upsert"}) <=> Has(Handling, {"upsert"})
      /\ Has(Handling', {"verify"}) <=> Has(Handling, {"verify"})
      /\ Has(Handling', {"delete"}) <=> Has(Handling, {"delete"})
      /\ Has(Handling', {"clearscan"}) <=> Has(Handling, {"clearscan"})
      /\ Will(Handling', {"pause"}) <=> Will(Handling, {"pause"})
      /\ Has(Handling', {"read"}) \/ Has(Handling', {"upsert"}) \/ Has(Handling', {"verify"})
           \/ Has(Handling', {"delete"}) => Mine' = Mine
  <2>1. ~Upd(This("consumer"), {"pause"})
    BY <1>1 DEF Upd
  <2> QED BY <1>1, <1>3, <2>1, MineAfter
<1>5. shared' = shared /\ row' = row
  BY <1>1
<1>6. Snapped'
  <2>1. Snapped
    BY DEF GateInv
  <2> QED BY <1>4, <1>5, <2>1, Zenon DEF Snapped
<1> QED BY <1>1, <1>3, <1>6, MineDrops

LEMMA MineVerifies ==
  ASSUME IInv, GateInv, Verify("consumer")
  PROVE  GateInv'
<1>1. /\ Handling # <<>> /\ UNCHANGED <<wf, shared, row, topic, position>>
      /\ This("consumer").do = "verify"
  BY Zenon DEF Verify, At, This, stores, bus, Handling
<1>2. /\ This("consumer") \in OpsOf(Handling)
      /\ \A o \in OpsOf(Handling) \ {This("consumer")} : Reach(This("consumer")) < Rank(o)
  BY <1>1, AtMine
<1>3. ~Has(Handling, {"upsert"}) /\ ~Has(Handling, {"scan", "read"})
  <2>1. Reach(This("consumer")) = 8
    BY <1>1, Ranks
  <2>2. ASSUME NEW o \in OpsOf(Handling), o.do \in {"upsert", "scan", "read"} PROVE FALSE
    BY <1>1, <1>2, <2>1, <2>2, Ranks
  <2> QED BY <2>2 DEF Has
<1>4. Has(Handling, {"verify"})
  BY <1>1, <1>2 DEF Has
<1>5. row.snap = Mine.snap
  BY <1>3, <1>4 DEF GateInv, Snapped
<1>6. Continue("consumer", Rest("consumer"), Mine)
  BY <1>5 DEF Verify, Mine
<1>7. Goes("consumer", {}, Mine)
  <2>1. todo["consumer"] # <<>> /\ Orderly
    BY <1>1 DEF Handling, GateInv
  <2> QED BY <1>6, <2>1, ProcsTyped, Goes0
<1>8. /\ ~Has(Handling', {"read"}) /\ ~Has(Handling', {"scan", "read"})
      /\ ~Has(Handling', {"upsert"})
      /\ Has(Handling', {"verify"}) => Has(Handling, {"verify"})
      /\ Has(Handling', {"delete"}) <=> Has(Handling, {"delete"})
      /\ Has(Handling', {"clearscan"}) <=> Has(Handling, {"clearscan"})
      /\ Will(Handling', {"pause"}) <=> Will(Handling, {"pause"})
      /\ Has(Handling', {"read"}) \/ Has(Handling', {"upsert"}) \/ Has(Handling', {"verify"})
           \/ Has(Handling', {"delete"}) => Mine' = Mine
  <2>1. ~Upd(This("consumer"), {"pause"})
    BY <1>1 DEF Upd
  <2>2. ~Has(Handling', {"read"})
    BY <1>3, <1>7, <1>1, MineAfter DEF Has
  <2> QED BY <1>1, <1>3, <1>7, <2>1, <2>2, MineAfter
<1>9. shared' = shared /\ row' = row
  BY <1>1
<1>10. Snapped'
  <2>1. Snapped
    BY DEF GateInv
  <2> QED BY <1>3, <1>8, <1>9, <2>1, Zenon DEF Snapped
<1> QED BY <1>1, <1>7, <1>10, MineDrops

LEMMA MineScansAgain ==
  ASSUME IInv, GateInv, ClearScan("consumer")
  PROVE  GateInv'
<1> DEFINE l == [Mine EXCEPT !.keys = {a \in Agents : Present(shared[a])}]
<1>1. /\ Handling # <<>> /\ UNCHANGED <<wf, shared, row, topic, position>>
      /\ This("consumer").do = "clearscan" /\ Continue("consumer", Rest("consumer"), l)
  BY Zenon DEF ClearScan, At, This, stores, bus, Handling, Mine
<1>2. /\ This("consumer") \in OpsOf(Handling) /\ Mine \in Locals
      /\ \A o \in OpsOf(Handling) \ {This("consumer")} : Reach(This("consumer")) < Rank(o)
  BY <1>1, AtMine
<1>3. /\ l.view = Mine.view /\ l.surface = Mine.surface /\ l.copy = Mine.copy /\ l.snap = Mine.snap
      /\ \A a \in Agents : a \in l.keys <=> Present(shared[a])
  BY <1>2 DEF Locals
<1> HIDE DEF l
<1>4. ~Has(Handling, {"upsert"}) /\ ~Has(Handling, {"scan", "read"}) /\ ~Has(Handling, {"verify"})
  <2>1. Reach(This("consumer")) = 9
    BY <1>1, Ranks
  <2>2. ASSUME NEW o \in OpsOf(Handling), o.do \in {"upsert", "scan", "read", "verify"} PROVE FALSE
    BY <1>1, <1>2, <2>1, <2>2, Ranks
  <2> QED BY <2>2 DEF Has
<1>5. Goes("consumer", {}, l)
  <2>1. todo["consumer"] # <<>> /\ Orderly
    BY <1>1 DEF Handling, GateInv
  <2> QED BY <1>1, <2>1, ProcsTyped, Goes0
<1>6. /\ ~Has(Handling', {"read"}) /\ ~Has(Handling', {"scan", "read"})
      /\ ~Has(Handling', {"upsert"}) /\ ~Has(Handling', {"verify"})
      /\ Has(Handling', {"delete"}) <=> Has(Handling, {"delete"})
      /\ Will(Handling', {"pause"}) <=> Will(Handling, {"pause"})
      /\ Has(Handling', {"delete"}) => Mine' = l
  <2>1. ~Upd(This("consumer"), {"pause"})
    BY <1>1 DEF Upd
  <2>2. ~Has(Handling', {"read"})
    BY <1>4, <1>5, <1>1, MineAfter DEF Has
  <2> QED BY <1>1, <1>4, <1>5, <2>1, <2>2, MineAfter
<1>7. shared' = shared /\ row' = row
  BY <1>1
<1>8. Snapped'
  <2>1. Has(Handling, {"delete"}) \/ Will(Handling, {"pause"}) => row.snap = shared
    BY <1>4 DEF GateInv, Snapped
  <2> QED BY <1>3, <1>4, <1>6, <1>7, <2>1, Zenon DEF Snapped
<1> QED BY <1>1, <1>3, <1>5, <1>8, MineDrops

LEMMA MineLoads ==
  ASSUME IInv, GateInv, Load("consumer")
  PROVE  GateInv'
<1> DEFINE l == [Mine EXCEPT !.copy = wf]
<1>1. PICK s : /\ Goes("consumer", {s}, l)
               /\ s.do = "save" /\ s.x = This("consumer").x /\ s.who = This("consumer").who
               /\ Expected("consumer", s)
  BY ProcsTyped, LoadGoes DEF Mine
<1>2. /\ Handling # <<>> /\ UNCHANGED <<wf, shared, row, topic, position>>
      /\ This("consumer").do = "load"
  BY Zenon DEF Load, At, This, stores, bus, Handling
<1>3. This("consumer") \in OpsOf(Handling) /\ Mine \in Locals
  BY <1>2, AtMine
<1>4. /\ l.view = Mine.view /\ l.surface = Mine.surface /\ l.copy = wf /\ l.snap = Mine.snap
      /\ l.keys = Mine.keys
  BY <1>3 DEF Locals
<1> HIDE DEF l
<1>5. /\ \A D : "load" \notin D /\ "save" \notin D => (Has(Handling', D) <=> Has(Handling, D))
      /\ \A K : Will(Handling', K) <=> Will(Handling, K)
      /\ \A o : o \in OpsOf(Handling') <=> o = s \/ (o \in OpsOf(Handling) /\ o # This("consumer"))
  BY <1>1, <1>2, <1>3, SaveOps DEF Handling
<1>6. /\ Has(Handling', {"read"}) <=> Has(Handling, {"read"})
      /\ Has(Handling', {"scan", "read"}) <=> Has(Handling, {"scan", "read"})
      /\ Has(Handling', {"upsert"}) <=> Has(Handling, {"upsert"})
      /\ Has(Handling', {"verify"}) <=> Has(Handling, {"verify"})
      /\ Has(Handling', {"delete"}) <=> Has(Handling, {"delete"})
      /\ Has(Handling', {"clearscan"}) <=> Has(Handling, {"clearscan"})
      /\ Has(Handling', {"view"}) <=> Has(Handling, {"view"})
      /\ Has(Handling', {"saveview"}) <=> Has(Handling, {"saveview"})
      /\ Has(Handling', {"read"}) \/ Has(Handling', {"upsert"}) \/ Has(Handling', {"verify"})
           \/ Has(Handling', {"delete"}) => Mine' = l
  BY <1>1, <1>5, MineMoves
<1>7. Snapped'
  <2>1. Snapped
    BY DEF GateInv
  <2> QED BY <1>2, <1>4, <1>5, <1>6, <2>1 DEF Snapped
<1>8. \A o \in OpsOf(Handling') : o.do \in {"load", "save", "read"} \/ o \in OpsOf(Handling)
  BY <1>1, <1>5
<1>9. \A u \in OpsOf(Handling') : u.do \in {"load", "save"} =>
            \E v \in OpsOf(Handling) : v.do \in {"load", "save"} /\ v.x = u.x /\ v.who = u.who
  BY <1>1, <1>2, <1>3, <1>5
<1>10. Has(Handling', {"read"}) => Present(shared["scr"])
  <2>1. Has(Handling, {"read"}) => Has(Handling, Needs)
    BY DEF Has, Needs
  <2> QED BY <1>6, <2>1 DEF GateInv, Memory
<1>11. Alike(l.copy, wf)
  BY <1>4 DEF Alike
<1>12. \A o \in {s} : Expected("consumer", o)
  BY <1>1
<1> QED BY <1>1, <1>2, <1>4, <1>5, <1>6, <1>7, <1>8, <1>9, <1>10, <1>11, <1>12, HandledKeeps

LEMMA MineViews ==
  ASSUME IInv, GateInv, View("consumer")
  PROVE  GateInv'
<1> DEFINE l == [Mine EXCEPT !.view = wf]
<1>1. /\ Handling # <<>> /\ UNCHANGED <<wf, shared, row, topic, position>>
      /\ This("consumer").do = "view" /\ Continue("consumer", Rest("consumer"), l)
  BY Zenon DEF View, At, This, stores, bus, Handling, Mine
<1>2. /\ This("consumer") \in OpsOf(Handling) /\ Mine \in Locals /\ topic # <<>>
      /\ \A o \in OpsOf(Handling) \ {This("consumer")} :
           o.do # "save" /\ Reach(This("consumer")) < Rank(o)
  BY <1>1, AtMine
<1>3. /\ l.view = wf /\ l.surface = Mine.surface /\ l.copy = Mine.copy /\ l.snap = Mine.snap
      /\ l.keys = Mine.keys
  BY <1>2 DEF Locals
<1> HIDE DEF l
<1>4. Goes("consumer", {}, l)
  <2>1. todo["consumer"] # <<>> /\ Orderly
    BY <1>1 DEF Handling, GateInv
  <2> QED BY <1>1, <2>1, ProcsTyped, Goes0
<1>5. /\ \A D : This("consumer").do \notin D => (Has(Handling', D) <=> Has(Handling, D))
      /\ \A K : Will(Handling', K) <=> Will(Handling, K)
      /\ \A D : Has(Handling', D) => Has(Handling, D)
      /\ \A o : o \in OpsOf(Handling') <=> o \in OpsOf(Handling) /\ o # This("consumer")
  <2>1. \A K : ~Upd(This("consumer"), K)
    BY <1>1 DEF Upd
  <2> QED BY <1>4, <2>1, DropOps DEF Handling
<1>6. /\ \A o : o \in OpsOf(Handling') => Mine' = l
      /\ Has(Handling', Walks) \/ Has(Handling', {"saveview"}) => Mine' = l
      /\ Has(Handling', {"read"}) \/ Has(Handling', {"upsert"}) \/ Has(Handling', {"verify"})
           \/ Has(Handling', {"delete"}) => Mine' = l
      /\ \A q \in Procs : q # "consumer" => todo'[q] = todo[q] /\ local'[q] = local[q]
  BY <1>4, MineMoves
<1>7. /\ Has(Handling, {"view"}) /\ ~Has(Handling, {"saveview"}) /\ ~Has(Handling, {"save"})
      /\ ~Will(Handling, {"done", "escalate"}) /\ ~Will(Handling, {"done"})
      /\ ~Will(Handling, {"escalate"})
  <2>1. Reach(This("consumer")) = 2
    BY <1>1, Ranks
  <2>2. ASSUME NEW o \in OpsOf(Handling), Upd(o, {"done", "escalate"}) PROVE FALSE
    <3>1. o # This("consumer")
      BY <1>1, <2>2 DEF Upd
    <3>2. Rank(o) = 1
      BY <2>2, Ranks DEF Upd
    <3>3. 2 < Rank(o)
      BY <1>2, <2>1, <3>1
    <3> QED BY <3>2, <3>3
  <2>3. Has(Handling, {"view"}) /\ ~Has(Handling, {"save"})
    BY <1>1, <1>2 DEF Has
  <2>4. ~Has(Handling, {"saveview"})
    BY <2>3 DEF GateInv, Records, Has
  <2> QED BY <2>2, <2>3, <2>4 DEF Will, Upd
<1>8. /\ Memory /\ Surfaced /\ Snapped /\ Decided /\ Held /\ Waiting /\ Records /\ InStep
      /\ OneToken /\ Reviewed
  BY DEF GateInv
<1>9. /\ wf' = wf /\ shared' = shared /\ row' = row /\ topic' = topic /\ position' = position
  BY <1>1
<1>10. /\ Def' = Def /\ Fixed' = Fixed /\ Ordinary' = Ordinary /\ Cleared' = Cleared
       /\ Closed' = Closed /\ Finished(shared)' = Finished(shared)
  <2>1. \A m : Finished(m)' = Finished(m)
    BY <1>9 DEF Finished, Team
  <2>2. Finished(shared)' = Finished(shared)
    BY <1>9 DEF Finished, Team
  <2> QED BY <1>9, <2>1, <2>2 DEF Def, Fixed, Ordinary, Cleared, Closed
<1>11. Has(Handling', Needs) \/ Will(Handling', {"escalate", "pause"}) => Present(shared["scr"])
  BY <1>5, <1>8 DEF Memory
<1>12. Surfaced'
  BY <1>3, <1>5, <1>6, <1>8, <1>9 DEF Surfaced
<1>13. /\ Has(Handling', {"read"}) <=> Has(Handling, {"read"})
       /\ Has(Handling', {"scan", "read"}) <=> Has(Handling, {"scan", "read"})
       /\ Has(Handling', {"upsert"}) <=> Has(Handling, {"upsert"})
       /\ Has(Handling', {"verify"}) <=> Has(Handling, {"verify"})
       /\ Has(Handling', {"delete"}) <=> Has(Handling, {"delete"})
       /\ Has(Handling', {"clearscan"}) <=> Has(Handling, {"clearscan"})
       /\ Has(Handling', {"gather", "await"}) <=> Has(Handling, {"gather", "await"})
       /\ Has(Handling', {"saveview"}) <=> Has(Handling, {"saveview"})
       /\ Has(Handling', Walks) <=> Has(Handling, Walks)
       /\ ~Has(Handling', {"save"})
  BY <1>1, <1>5, <1>7 DEF Walks
<1>14. Snapped' /\ Decided'
  <2>1. Snapped'
    BY <1>3, <1>5, <1>6, <1>8, <1>9, <1>13 DEF Snapped
  <2> QED BY <1>5, <1>8, <1>9, <1>10, <1>13, <2>1, Zenon DEF Decided
<1>15. Held'
  <2>1. /\ Completed(wf) => Closed
        /\ Rested(wf)
        /\ Completed(Mine.copy) => Closed
        /\ Rested(Mine.copy)
    BY <1>8, ProcsTyped DEF Held, Mine
  <2> QED BY <1>3, <1>4, <1>8, <1>9, <1>10, <2>1, HeldMoves
<1>16. Waiting'
  BY <1>6, <1>8, <1>9, <1>13, ProcsTyped, NamesDistinct DEF Waiting
<1>17. Records'
  <2>1. \A p \in Procs : Has(todo'[p], {"save"}) => Alike(local'[p].copy, wf')
    BY <1>4, <1>8, <1>9, <1>13, SavesMove
  <2>2. Has(Handling', Walks) => Alike(Mine'.view, wf')
    BY <1>3, <1>6, <1>9 DEF Alike
  <2>3. \A o \in OpsOf(Handling') : o.do = "next" => ((o.x = "paused") <=> wf.paused) /\ ~Fixed
    BY <1>5, <1>7, <1>8 DEF Records
  <2>4. ~Has(Handling', {"saveview"}) /\ ~Will(Handling', {"escalate"})
    BY <1>5, <1>7
  <2> QED BY <1>9, <1>10, <2>1, <2>2, <2>3, <2>4, Zenon DEF Records
<1>18. InStep'
  <2>1. \A o \in OpsOf(Handling') : o \in OpsOf(Handling)
    BY <1>5
  <2> QED BY <1>5, <1>8, <1>9, <1>10, <1>13, <2>1 DEF InStep
<1>19. OneToken'
  <2>1. Has(Handling', Walks \union {"view", "saveview", "gather"})
          => Has(Handling, Walks \union {"view", "saveview", "gather"})
    BY <1>5
  <2>3. \A a \in Agents \ {"scr"} : todo'[a] = todo[a]
    BY <1>6, NamesDistinct
  <2> QED BY <1>5, <1>8, <1>9, <1>10, <2>1, <2>3 DEF OneToken
<1>20. Reviewed'
  <2> SUFFICES ASSUME Ordinary, ~Cleared PROVE Reviewed'
    BY <1>10 DEF Reviewed
  <2>1. /\ \A i \in 1..wf.step - 1 : \A a \in Def[i] : shared[a].status = "COMPLETED"
        /\ wf.paused \/
           \A o \in OpsOf(Handling) : o.do \in Walks => \A a \in o.who : wf.agents[a] = "DONE"
    BY <1>7, <1>8 DEF Reviewed
  <2>2. \A u \in OpsOf(Handling') : ~Upd(u, {"done"})
    BY <1>5, <1>7 DEF Will
  <2>3. wf.paused \/
           \A o \in OpsOf(Handling') : o.do \in Walks => \A a \in o.who :
              wf.agents[a] = "DONE" /\ Mine'.view.agents[a] = "DONE"
    BY <1>3, <1>5, <1>6, <2>1
  <2> QED BY <1>9, <1>10, <2>1, <2>2, <2>3 DEF Reviewed
<1> QED BY <1>2, <1>4, <1>9, <1>11, <1>12, <1>14, <1>15, <1>16, <1>17, <1>18, <1>19, <1>20, Handled

\* The record the consumer saves is the record stored, changed.
LEMMA MineSave ==
  ASSUME IInv, GateInv, Save("consumer")
  PROVE  \E l :
         /\ Goes("consumer", {}, l) /\ Handling # <<>> /\ topic # <<>>
         /\ l.view = Mine.view /\ l.surface = Mine.surface /\ l.snap = Mine.snap
         /\ l.keys = Mine.keys /\ l.copy = NoState
         /\ UNCHANGED <<shared, row, topic, position>>
         /\ This("consumer") \in OpsOf(Handling) /\ This("consumer").who \in SUBSET Agents
         /\ This("consumer").do = "save"
         /\ This("consumer").x \in {"done", "escalate", "pause", "complete"}
         /\ wf' = Changed(This("consumer").x, This("consumer").who, Mine.copy)
         /\ Mine.copy \in WorkflowState /\ Alike(Mine.copy, wf)
         /\ Completed(Mine.copy) => Closed
         /\ Rested(Mine.copy)
         /\ \A o \in OpsOf(Handling) \ {This("consumer")} :
              o.do # "save" /\ Rank(This("consumer")) < Rank(o) /\ Expected("consumer", o)
<1> DEFINE l == [Mine EXCEPT !.copy = NoState]
<1>1. /\ Handling # <<>> /\ UNCHANGED <<shared, row, topic, position>>
      /\ This("consumer").do = "save" /\ Continue("consumer", Rest("consumer"), l)
      /\ wf' = Changed(This("consumer").x, This("consumer").who, Mine.copy)
  BY Zenon DEF Save, At, This, stores, bus, Handling, Mine
<1>2. /\ This("consumer") \in OpsOf(Handling) /\ Mine \in Locals /\ topic # <<>>
      /\ This("consumer") \in Operation /\ Expected("consumer", This("consumer"))
      /\ \A o \in OpsOf(Handling) \ {This("consumer")} :
           o.do # "save" /\ Reach(This("consumer")) < Rank(o)
  BY <1>1, AtMine
<1>3. /\ l.view = Mine.view /\ l.surface = Mine.surface /\ l.copy = NoState /\ l.snap = Mine.snap
      /\ l.keys = Mine.keys /\ Mine.copy \in WorkflowState
  BY <1>2 DEF Locals
<1> HIDE DEF l
<1>4. Goes("consumer", {}, l)
  <2>1. todo["consumer"] # <<>> /\ Orderly
    BY <1>1 DEF Handling, GateInv
  <2> QED BY <1>1, <2>1, ProcsTyped, Goes0
<1>5. /\ This("consumer").who \in SUBSET Agents
      /\ This("consumer").x \in {"done", "escalate", "pause", "complete"}
  <2>1. This("consumer").who \in SUBSET Agents
    BY <1>2 DEF Operation
  <2>2. This("consumer").x \in {"done", "escalate", "pause", "complete"}
    BY <1>1, <1>2, NamesDistinct DEF Expected, Upd, Persists, Walks
  <2> QED BY <2>1, <2>2
<1>6. Alike(Mine.copy, wf) /\ (Completed(Mine.copy) => Closed) /\ Rested(Mine.copy)
  <2>1. Has(todo["consumer"], {"save"})
    BY <1>1, <1>2 DEF Has, Handling
  <2>2. Alike(Mine.copy, wf)
    BY <2>1, ProcsTyped DEF GateInv, Records, Mine
  <2>3. (Completed(Mine.copy) => Closed) /\ Rested(Mine.copy)
    BY ProcsTyped DEF GateInv, Held, Mine
  <2> QED BY <2>2, <2>3
<1>7. Reach(This("consumer")) = Rank(This("consumer"))
  BY <1>1, Ranks
<1>8. \A o \in OpsOf(Handling) : Expected("consumer", o)
  BY ProcsTyped DEF GateInv, Orderly, Handling
<1> QED BY <1>1, <1>2, <1>3, <1>4, <1>5, <1>6, <1>7, <1>8, Zenon

\* While SCR's output is in memory, nobody but the watcher of a paused workflow
\* has an update to save beside the consumer.
LEMMA NoOtherSave ==
  ASSUME IInv, GateInv, Turns, Handling # <<>>, This("consumer").do # "await",
         Present(shared["scr"]), ~wf.paused, NEW p \in Procs \ {"consumer"}
  PROVE  ~Has(todo[p], {"save"})
<1> SUFFICES ASSUME NEW o \in OpsOf(todo[p]), o.do = "save" PROVE FALSE
  BY DEF Has
<1>1. Expected(p, o)
  BY DEF GateInv, Orderly
<1>2. \/ p = "watcher"
      \/ p = "scr" /\ Upd(o, {"running", "failed"})
      \/ p \in Agents \ {"scr"}
  BY <1>1 DEF Expected, Upd, Walks
<1>3. todo[p] # <<>>
  BY NoOps
<1>4. topic # <<>> /\ shared # NoSnapshot
  <2>1. NoSnapshot["scr"].status = "NONE"
    BY NamesDistinct DEF NoSnapshot, NoOutput, Out
  <2> QED BY <2>1, AtMine DEF Present
<1>5. CASE p = "watcher"
  BY <1>3, <1>5 DEF GateInv, Waiting
<1>6. CASE p = "scr" /\ Upd(o, {"running", "failed"})
  <2>1. Scans(Scanning) /\ o \in OpsOf(Scanning)
    BY <1>6 DEF GateInv, Memory, Scanning
  <2>2. Will(Scanning, {"running"}) \/ Will(Scanning, {"failed"})
    BY <1>6, <2>1 DEF Will, Upd
  <2> QED BY <1>4, <2>1, <2>2 DEF Scans, Cleared
<1>7. CASE p \in Agents \ {"scr"}
  BY <1>3, <1>7, Running DEF At, This
<1> QED BY <1>2, <1>5, <1>6, <1>7

\* An update that changes nothing that is decided on.
LEMMA MineSavesAlike ==
  ASSUME IInv, GateInv, NEW l, Goes("consumer", {}, l), Handling # <<>>, topic # <<>>,
         l.view = Mine.view, l.surface = Mine.surface, l.snap = Mine.snap,
         l.keys = Mine.keys, l.copy = NoState,
         UNCHANGED <<shared, row, topic, position>>,
         This("consumer").do = "save", This("consumer").x \in {"done", "complete"},
         \A o \in OpsOf(Handling) \ {This("consumer")} : o.do # "save",
         Alike(wf', wf), Completed(wf') => Closed, Rested(wf'), Reviewed'
  PROVE  GateInv'
<1>1. /\ \A D : "save" \notin D => (Has(Handling', D) <=> Has(Handling, D))
      /\ \A K : {"done", "complete"} \cap K = {} => (Will(Handling', K) <=> Will(Handling, K))
      /\ \A D : Has(Handling', D) => Has(Handling, D)
      /\ \A K : Will(Handling', K) => Will(Handling, K)
      /\ \A o : o \in OpsOf(Handling') <=> o \in OpsOf(Handling) /\ o # This("consumer")
  <2>1. \A K : {"done", "complete"} \cap K = {} => ~Upd(This("consumer"), K)
    BY DEF Upd
  <2> QED BY <2>1, DropOps DEF Handling
<1>2. /\ wf'.name = wf.name /\ wf'.flow = wf.flow /\ wf'.step = wf.step /\ wf'.paused = wf.paused
      /\ shared' = shared /\ row' = row /\ topic' = topic /\ position' = position
      /\ \A s : Alike(s, wf') <=> Alike(s, wf)
  BY DEF Alike
<1>3. /\ Memory /\ Surfaced /\ Snapped /\ Decided /\ Held /\ Waiting /\ Records /\ InStep
      /\ OneToken
  BY DEF GateInv
<1>4. Def' = Def /\ Fixed' = Fixed /\ Ordinary' = Ordinary /\ Cleared' = Cleared /\ Closed' = Closed
      /\ Finished(shared)' = Finished(shared)
  <2>1. \A m : Finished(m)' = Finished(m)
    BY <1>2 DEF Finished, Team
  <2>2. Finished(shared)' = Finished(shared)
    BY <1>2 DEF Finished, Team
  <2> QED BY <1>2, <2>1, <2>2 DEF Def, Fixed, Ordinary, Cleared, Closed
<1>5. /\ Has(Handling', Walks) \/ Has(Handling', {"saveview"}) => Mine' = l
      /\ \A o : o \in OpsOf(Handling') => Mine' = l
      /\ Has(Handling', {"read"}) \/ Has(Handling', {"upsert"}) \/ Has(Handling', {"verify"})
           \/ Has(Handling', {"delete"}) => Mine' = l
      /\ \A q \in Procs : q # "consumer" => todo'[q] = todo[q] /\ local'[q] = local[q]
  BY MineMoves
<1>6. Has(Handling', Needs) \/ Will(Handling', {"escalate", "pause"}) => Present(shared["scr"])
  BY <1>1, <1>3 DEF Memory
<1>7. Surfaced'
  BY <1>1, <1>2, <1>3, <1>5 DEF Surfaced
<1>8. /\ Has(Handling', {"read"}) <=> Has(Handling, {"read"})
      /\ Has(Handling', {"scan", "read"}) <=> Has(Handling, {"scan", "read"})
      /\ Has(Handling', {"upsert"}) <=> Has(Handling, {"upsert"})
      /\ Has(Handling', {"verify"}) <=> Has(Handling, {"verify"})
      /\ Has(Handling', {"delete"}) <=> Has(Handling, {"delete"})
      /\ Has(Handling', {"clearscan"}) <=> Has(Handling, {"clearscan"})
      /\ Has(Handling', {"gather", "await"}) <=> Has(Handling, {"gather", "await"})
      /\ Has(Handling', {"view", "await"}) <=> Has(Handling, {"view", "await"})
      /\ Has(Handling', {"view"}) <=> Has(Handling, {"view"})
      /\ Has(Handling', {"saveview"}) <=> Has(Handling, {"saveview"})
      /\ Has(Handling', Walks) <=> Has(Handling, Walks)
      /\ ~Has(Handling', {"save"})
      /\ Will(Handling', {"pause"}) <=> Will(Handling, {"pause"})
      /\ Will(Handling', {"escalate"}) <=> Will(Handling, {"escalate"})
      /\ Will(Handling', {"complete"}) => Will(Handling, {"complete"})
  <2>1. ~Has(Handling', {"save"})
    BY <1>1 DEF Has
  <2> QED BY <1>1, <2>1 DEF Walks
<1>9. Snapped'
  BY <1>2, <1>3, <1>5, <1>8 DEF Snapped
<1>10. Decided'
  BY <1>2, <1>3, <1>4, <1>8, Zenon DEF Decided
<1>11. Held'
  <2>1. Completed(Mine.view) => Closed
    BY <1>3, ProcsTyped DEF Held, Mine
  <2>2. Rested(Mine.view) /\ ~Completed(NoState) /\ Rested(NoState)
    BY <1>3, ProcsTyped DEF Held, Mine, NoState, NewState, Completed, Rested
  <2> QED BY <1>3, <1>4, <2>1, <2>2, HeldMoves
<1>12. Waiting'
  BY <1>2, <1>3, <1>5, <1>8, ProcsTyped, NamesDistinct DEF Waiting
<1>13. Records'
  <2>1. \A p \in Procs : Has(todo'[p], {"save"}) => Alike(local'[p].copy, wf')
    BY <1>2, <1>3, <1>8, SavesMove
  <2>2. Has(Handling', Walks) => Has(Handling', {"view"}) \/ Alike(Mine'.view, wf')
    BY <1>2, <1>3, <1>5, <1>8 DEF Records
  <2>3. Has(Handling', {"saveview"}) =>
       /\ ~Has(Handling', {"view", "await"})
       /\ Fixed /\ ~wf.paused /\ ~Mine'.view.paused
       /\ Mine'.view.name = wf.name /\ Mine'.view.flow = wf.flow /\ Mine'.view.step = wf.step + 1
       /\ wf.name \notin SCR_REQUIRED_WORKFLOWS => wf.step = 1
       /\ \A a \in Def[wf.step] : Present(shared[a])
    BY <1>3, <1>5, <1>8 DEF Records
  <2>4. Will(Handling', {"escalate"}) =>
          Fixed /\ wf.name \notin SCR_REQUIRED_WORKFLOWS /\ Has(Handling', {"view"})
    BY <1>3, <1>8 DEF Records
  <2>5. \A o \in OpsOf(Handling') : o.do = "next" =>
          ((o.x = "paused") <=> wf.paused) /\ (Will(Handling', {"escalate"}) \/ ~Fixed)
    BY <1>1, <1>3, <1>8 DEF Records
  <2> QED BY <1>2, <1>4, <2>1, <2>2, <2>3, <2>4, <2>5 DEF Records
<1>14. InStep'
  <2>1. \A o \in OpsOf(Handling') : o \in OpsOf(Handling)
    BY <1>1
  <2> QED BY <1>2, <1>3, <1>4, <1>8, <2>1 DEF InStep
<1>15. OneToken'
  <2>1. Has(Handling', Walks \union {"view", "saveview", "gather"})
          => Has(Handling, Walks \union {"view", "saveview", "gather"})
    BY <1>1
  <2>3. \A a \in Agents \ {"scr"} : todo'[a] = todo[a]
    BY <1>5, NamesDistinct
  <2> QED BY <1>1, <1>2, <1>3, <1>4, <2>1, <2>3 DEF OneToken
<1> QED BY <1>6, <1>7, <1>9, <1>10, <1>11, <1>12, <1>13, <1>14, <1>15, Handled

LEMMA MineSavesDone ==
  ASSUME IInv, GateInv, Save("consumer"), This("consumer").x = "done"
  PROVE  GateInv'
<1>1. PICK l :
         /\ Goes("consumer", {}, l) /\ Handling # <<>> /\ topic # <<>>
         /\ l.view = Mine.view /\ l.surface = Mine.surface /\ l.snap = Mine.snap
         /\ l.keys = Mine.keys /\ l.copy = NoState
         /\ UNCHANGED <<shared, row, topic, position>>
         /\ This("consumer") \in OpsOf(Handling) /\ This("consumer").who \in SUBSET Agents
         /\ This("consumer").do = "save"
         /\ wf' = Changed("done", This("consumer").who, Mine.copy)
         /\ Mine.copy \in WorkflowState /\ Alike(Mine.copy, wf)
         /\ Completed(Mine.copy) => Closed
         /\ Rested(Mine.copy)
         /\ \A o \in OpsOf(Handling) \ {This("consumer")} :
              o.do # "save" /\ Rank(This("consumer")) < Rank(o)
  BY MineSave
<1>2. /\ Same(wf', Mine.copy)
      /\ \A a \in This("consumer").who : wf'.agents[a] = "DONE"
  <2>1. Same(Changed("done", This("consumer").who, Mine.copy), Mine.copy)
    BY <1>1, ChangedFields
  <2>2. \A a \in This("consumer").who :
          Changed("done", This("consumer").who, Mine.copy).agents[a] = "DONE"
    BY <1>1, ChangedFields
  <2> QED BY <1>1, <2>1, <2>2
<1>3. /\ Alike(wf', wf) /\ Rested(wf') /\ (Completed(wf') => Closed)
  BY <1>1, <1>2 DEF Rested, Completed, Alike, Same
<1>4. /\ \A D : "save" \notin D => (Has(Handling', D) <=> Has(Handling, D))
      /\ \A o : o \in OpsOf(Handling') <=> o \in OpsOf(Handling) /\ o # This("consumer")
  BY <1>1, DropOps DEF Handling
<1>5. \A u \in OpsOf(Handling') : ~Upd(u, {"done"})
  <2>1. Rank(This("consumer")) = 1
    BY <1>1, Ranks
  <2> SUFFICES ASSUME NEW u \in OpsOf(Handling) \ {This("consumer")}, Upd(u, {"done"}) PROVE FALSE
    BY <1>4
  <2>2. Rank(u) = 1
    BY Ranks DEF Upd
  <2> QED BY <1>1, <2>1, <2>2
<1>6. Reviewed'
  <2>1. wf'.name = wf.name /\ wf'.flow = wf.flow /\ wf'.step = wf.step /\ wf'.paused = wf.paused
        /\ shared' = shared /\ topic' = topic
    BY <1>1, <1>3 DEF Alike
  <2>2. Def' = Def /\ Ordinary' = Ordinary /\ Cleared' = Cleared
    BY <2>1 DEF Def, Ordinary, Fixed, Cleared
  <2> SUFFICES ASSUME Ordinary, ~Cleared PROVE Reviewed'
    BY <2>2 DEF Reviewed
  <2>3. /\ \A i \in 1..wf.step - 1 : \A a \in Def[i] : shared[a].status = "COMPLETED"
        /\ \A o, u \in OpsOf(Handling) : o.do \in Walks /\ Upd(u, {"done"}) =>
             o.who = u.who /\ Has(Handling, {"view"})
    BY DEF GateInv, Reviewed
  <2>4. Upd(This("consumer"), {"done"})
    BY <1>1 DEF Upd
  <2>5. ASSUME NEW o \in OpsOf(Handling'), o.do \in Walks, NEW a \in o.who
        PROVE  wf'.agents[a] = "DONE" /\ Has(Handling', {"view"})
    <3>1. o \in OpsOf(Handling) /\ (Has(Handling', {"view"}) <=> Has(Handling, {"view"}))
      BY <1>4
    <3>2. o.who = This("consumer").who /\ Has(Handling, {"view"})
      BY <1>1, <2>3, <2>4, <2>5, <3>1
    <3> QED BY <1>2, <2>5, <3>1, <3>2
  <2> QED BY <1>5, <2>1, <2>2, <2>3, <2>5 DEF Reviewed
<1> QED BY <1>1, <1>3, <1>6, MineSavesAlike

LEMMA MineSavesComplete ==
  ASSUME IInv, GateInv, Save("consumer"), This("consumer").x = "complete"
  PROVE  GateInv'
<1>1. PICK l :
         /\ Goes("consumer", {}, l) /\ Handling # <<>> /\ topic # <<>>
         /\ l.view = Mine.view /\ l.surface = Mine.surface /\ l.snap = Mine.snap
         /\ l.keys = Mine.keys /\ l.copy = NoState
         /\ UNCHANGED <<shared, row, topic, position>>
         /\ This("consumer") \in OpsOf(Handling) /\ This("consumer").who \in SUBSET Agents
         /\ This("consumer").do = "save"
         /\ wf' = Changed("complete", This("consumer").who, Mine.copy)
         /\ Mine.copy \in WorkflowState /\ Alike(Mine.copy, wf)
         /\ \A o \in OpsOf(Handling) \ {This("consumer")} :
              o.do # "save" /\ Rank(This("consumer")) < Rank(o)
  BY MineSave
<1>2. /\ wf'.name = Mine.copy.name /\ wf'.flow = Mine.copy.flow /\ wf'.step = Mine.copy.step
      /\ wf'.paused = Mine.copy.paused /\ wf'.status = "COMPLETED"
  <2>1. Rests(Changed("complete", This("consumer").who, Mine.copy), Mine.copy, Mine.copy.paused,
              "COMPLETED")
    BY <1>1, ChangedFields
  <2>2. Rests(wf', Mine.copy, Mine.copy.paused, "COMPLETED")
    BY <1>1, <2>1
  <2> QED BY <2>2 DEF Rests
<1>3. Alike(wf', wf) /\ Rested(wf')
  BY <1>1, <1>2 DEF Rested, Alike
<1>4. Closed
  <2>1. Rank(This("consumer")) = 12
    BY <1>1, Ranks
  <2>2. ~Has(Handling, {"delete"})
    <3> SUFFICES ASSUME NEW o \in OpsOf(Handling), o.do = "delete" PROVE FALSE
      BY DEF Has
    <3>1. o # This("consumer") /\ Rank(o) = 10
      BY <1>1, Ranks
    <3> QED BY <1>1, <2>1, <3>1
  <2>3. Will(Handling, {"complete"})
    BY <1>1 DEF Will, Upd
  <2> QED BY <2>2, <2>3 DEF GateInv, Decided
<1>5. Reviewed'
  BY <1>1, <1>4 DEF Reviewed, Closed, Cleared
<1> QED BY <1>1, <1>3, <1>4, <1>5, MineSavesAlike

\* A fixed flow escalates at its first steps, long before anybody is asked.
LEMMA MineSavesEscalate ==
  ASSUME IInv, GateInv, Turns, Save("consumer"), This("consumer").x = "escalate"
  PROVE  GateInv'
<1>1. PICK l :
         /\ Goes("consumer", {}, l) /\ Handling # <<>> /\ topic # <<>>
         /\ l.view = Mine.view /\ l.surface = Mine.surface /\ l.snap = Mine.snap
         /\ l.keys = Mine.keys /\ l.copy = NoState
         /\ UNCHANGED <<shared, row, topic, position>>
         /\ This("consumer") \in OpsOf(Handling) /\ This("consumer").who \in SUBSET Agents
         /\ This("consumer").do = "save"
         /\ wf' = Changed("escalate", This("consumer").who, Mine.copy)
         /\ Mine.copy \in WorkflowState /\ Alike(Mine.copy, wf)
         /\ Completed(Mine.copy) => Closed
         /\ Rested(Mine.copy)
         /\ \A o \in OpsOf(Handling) \ {This("consumer")} :
              o.do # "save" /\ Rank(This("consumer")) < Rank(o)
  BY MineSave
<1>2. /\ wf'.name = wf.name /\ wf'.flow = "dynamic" /\ wf'.step = wf.step
      /\ wf'.paused = wf.paused /\ wf'.status = Mine.copy.status
  <2>1. Escalated(Changed("escalate", This("consumer").who, Mine.copy), Mine.copy)
    BY <1>1, ChangedFields
  <2>2. Escalated(wf', Mine.copy) /\ Alike(Mine.copy, wf)
    BY <1>1, <2>1
  <2> QED BY <2>2 DEF Escalated, Alike
<1>3. /\ \A D : "save" \notin D => (Has(Handling', D) <=> Has(Handling, D))
      /\ \A K : "escalate" \notin K => (Will(Handling', K) <=> Will(Handling, K))
      /\ \A D : Has(Handling', D) => Has(Handling, D)
      /\ \A K : Will(Handling', K) => Will(Handling, K)
      /\ \A o : o \in OpsOf(Handling') <=> o \in OpsOf(Handling) /\ o # This("consumer")
  <2>1. \A K : "escalate" \notin K => ~Upd(This("consumer"), K)
    BY DEF Upd
  <2> QED BY <1>1, <2>1, DropOps DEF Handling
<1>4. /\ Memory /\ Surfaced /\ Snapped /\ Decided /\ Held /\ Waiting /\ Records /\ InStep
  BY DEF GateInv
<1>5. Will(Handling, {"escalate"}) /\ Will(Handling, {"escalate", "pause"})
  BY <1>1 DEF Will, Upd
<1>6. /\ Fixed /\ wf.name \notin SCR_REQUIRED_WORKFLOWS /\ Has(Handling, {"view"})
      /\ Present(shared["scr"]) /\ ~Has(Handling, {"saveview"})
  <2>1. Fixed /\ wf.name \notin SCR_REQUIRED_WORKFLOWS /\ Has(Handling, {"view"})
    BY <1>4, <1>5 DEF Records
  <2>2. ~Has(Handling, {"saveview"})
    BY <1>4, <2>1 DEF Records, Has
  <2> QED BY <1>4, <1>5, <2>1, <2>2 DEF Memory
<1>7. ~wf.paused
  <2>1. wf.step <= 2
    BY <1>4, <1>6 DEF InStep
  <2>2. Len(Def) = 4
    BY <1>6, MyPlan, Plans
  <2>3. wf.paused => wf.step = Len(Def)
    BY <1>4, <1>6 DEF InStep
  <2>4. wf.step \in 1..Len(Def)
    BY MyPlan
  <2> QED BY <2>1, <2>2, <2>3, <2>4
<1>8. \A p \in Procs \ {"consumer"} : ~Has(todo[p], {"save"})
  <2>1. This("consumer").do # "await"
    BY <1>1
  <2> QED BY <1>1, <1>6, <1>7, <2>1, NoOtherSave
<1>9. /\ Def' = Def /\ ~Fixed' /\ ~Ordinary' /\ ~Ordinary /\ Cleared' = Cleared
      /\ Closed' = Closed /\ shared' = shared /\ row' = row /\ topic' = topic
  <2>1. /\ Def' = Def /\ ~Fixed' /\ ~Ordinary' /\ ~Ordinary /\ Cleared' = Cleared
        /\ shared' = shared /\ row' = row /\ topic' = topic
    BY <1>1, <1>2, <1>6 DEF Def, Fixed, Ordinary, Cleared
  <2> QED BY <2>1 DEF Closed
<1>10. /\ Has(Handling', Walks) => Mine' = l
       /\ \A o : o \in OpsOf(Handling') => Mine' = l
       /\ Has(Handling', {"read"}) \/ Has(Handling', {"upsert"}) \/ Has(Handling', {"verify"})
            \/ Has(Handling', {"delete"}) => Mine' = l
       /\ \A q \in Procs : q # "consumer" => todo'[q] = todo[q] /\ local'[q] = local[q]
  BY <1>1, MineMoves
<1>11. /\ Has(Handling', {"read"}) <=> Has(Handling, {"read"})
       /\ Has(Handling', {"scan", "read"}) <=> Has(Handling, {"scan", "read"})
       /\ Has(Handling', {"upsert"}) <=> Has(Handling, {"upsert"})
       /\ Has(Handling', {"verify"}) <=> Has(Handling, {"verify"})
       /\ Has(Handling', {"delete"}) <=> Has(Handling, {"delete"})
       /\ Has(Handling', {"clearscan"}) <=> Has(Handling, {"clearscan"})
       /\ Has(Handling', {"view"}) /\ ~Has(Handling', {"saveview"})
       /\ ~Has(Handling', {"save"}) /\ ~Will(Handling', {"escalate"})
       /\ Will(Handling', {"pause"}) <=> Will(Handling, {"pause"})
       /\ Will(Handling', {"complete"}) => Will(Handling, {"complete"})
  <2>1. ~Has(Handling', {"save"})
    BY <1>1, <1>3 DEF Has
  <2>2. ~Will(Handling', {"escalate"})
    <3> SUFFICES ASSUME NEW o \in OpsOf(Handling) \ {This("consumer")}, Upd(o, {"escalate"})
                 PROVE  FALSE
      BY <1>3 DEF Will
    <3>1. Rank(o) = 1 /\ Rank(This("consumer")) = 1
      BY <1>1, Ranks DEF Upd
    <3> QED BY <1>1, <3>1
  <2> QED BY <1>3, <1>6, <2>1, <2>2
<1>12. Has(Handling', Needs) \/ Will(Handling', {"escalate", "pause"}) => Present(shared["scr"])
  BY <1>6
<1>13. Surfaced'
  BY <1>1, <1>3, <1>4, <1>10 DEF Surfaced
<1>14. Snapped'
  BY <1>1, <1>4, <1>9, <1>10, <1>11 DEF Snapped
<1>15. Decided'
  BY <1>4, <1>9, <1>11 DEF Decided
<1>16. Held'
  <2>1. Completed(Mine.view) => Closed
    BY <1>4, ProcsTyped DEF Held, Mine
  <2>2. Rested(Mine.view) /\ ~Completed(NoState) /\ Rested(NoState)
    BY <1>4, ProcsTyped DEF Held, Mine, NoState, NewState, Completed, Rested
  <2>3. (Completed(wf') => Closed) /\ Rested(wf')
    BY <1>1, <1>2 DEF Completed, Rested, Alike
  <2> QED BY <1>1, <1>4, <1>9, <2>1, <2>2, <2>3, HeldMoves
<1>17. Waiting'
  BY <1>2, <1>4, <1>7, <1>10, ProcsTyped, NamesDistinct DEF Waiting
<1>18. Records'
  <2>1. \A p \in Procs : Has(todo'[p], {"save"}) => Alike(local'[p].copy, wf')
    BY <1>1, <1>4, <1>8, <1>11, SavesMove
  <2>2. \A o \in OpsOf(Handling') : o.do = "next" => ((o.x = "paused") <=> wf'.paused)
    BY <1>2, <1>3, <1>4 DEF Records
  <2> QED BY <1>9, <1>11, <2>1, <2>2, Zenon DEF Records
<1>19. InStep' /\ OneToken' /\ Reviewed'
  BY <1>9 DEF InStep, OneToken, Reviewed
<1> QED BY <1>1, <1>12, <1>13, <1>14, <1>15, <1>16, <1>17, <1>18, <1>19, Handled

\* The workflow waits for a human when its row holds the report that asks.
LEMMA MineSavesPause ==
  ASSUME IInv, GateInv, Turns, Save("consumer"), This("consumer").x = "pause"
  PROVE  GateInv'
<1>1. PICK l :
         /\ Goes("consumer", {}, l) /\ Handling # <<>> /\ topic # <<>>
         /\ l.view = Mine.view /\ l.surface = Mine.surface /\ l.snap = Mine.snap
         /\ l.keys = Mine.keys /\ l.copy = NoState
         /\ UNCHANGED <<shared, row, topic, position>>
         /\ This("consumer") \in OpsOf(Handling) /\ This("consumer").who \in SUBSET Agents
         /\ This("consumer").do = "save"
         /\ wf' = Changed("pause", This("consumer").who, Mine.copy)
         /\ Mine.copy \in WorkflowState /\ Alike(Mine.copy, wf)
         /\ \A o \in OpsOf(Handling) \ {This("consumer")} :
              o.do # "save" /\ Rank(This("consumer")) < Rank(o) /\ Expected("consumer", o)
  BY MineSave
<1>2. /\ wf'.name = wf.name /\ wf'.flow = wf.flow /\ wf'.step = wf.step
      /\ wf'.paused = TRUE /\ wf'.status = "PAUSED"
  <2>1. Rests(Changed("pause", This("consumer").who, Mine.copy), Mine.copy, TRUE, "PAUSED")
    BY <1>1, ChangedFields
  <2>2. Rests(wf', Mine.copy, TRUE, "PAUSED") /\ Alike(Mine.copy, wf)
    BY <1>1, <2>1
  <2> QED BY <2>2 DEF Rests, Alike
<1>3. \A o : o \in OpsOf(Handling') <=> o \in OpsOf(Handling) /\ o # This("consumer")
  BY <1>1, DropOps DEF Handling
<1>4. /\ Memory /\ Surfaced /\ Snapped /\ Decided /\ Held /\ Waiting /\ Records /\ InStep
      /\ OneToken /\ Reviewed
  BY DEF GateInv
<1>5. /\ Will(Handling, {"pause"}) /\ Will(Handling, {"escalate", "pause"})
  BY <1>1 DEF Will, Upd
<1>6. Rank(This("consumer")) = 9
  BY <1>1, Ranks
<1>7. shared["reporting"].human /\ shared # NoSnapshot /\ Present(shared["scr"])
  <2>1. shared["reporting"].human
    BY <1>4, <1>5 DEF Decided
  <2>2. NoSnapshot["reporting"].human = FALSE
    BY DEF NoSnapshot, NoOutput, Out, Agents
  <2> QED BY <1>4, <1>5, <2>1, <2>2 DEF Memory
<1>8. \A o \in OpsOf(Handling') : o.do \in {"emit", "commit"}
  <2> SUFFICES ASSUME NEW o \in OpsOf(Handling) \ {This("consumer")}
               PROVE  o.do \in {"emit", "commit"}
    BY <1>3
  <2>1. o.do # "save" /\ 9 < Rank(o) /\ Expected("consumer", o)
    BY <1>1, <1>6
  <2>2. o.do # "delete"
    <3>1. ~Has(Handling, {"delete"})
      BY <1>4, <1>7 DEF Decided
    <3> QED BY <3>1 DEF Has
  <2>3. ~Upd(o, {"complete"})
    <3>1. ~Will(Handling, {"complete"})
      <4>1. ~Has(Handling, {"delete"})
        BY <1>4, <1>7 DEF Decided
      <4> QED BY <1>4, <1>7, <4>1 DEF Decided, Closed, Cleared
    <3> QED BY <3>1 DEF Will
  <2>4. o.do \notin {"scan", "read", "upsert", "verify", "clearscan", "view", "saveview", "gather", "await"}
    BY <2>1, Ranks
  <2>5. ~Upd(o, {"done", "escalate", "pause"})
    <3> SUFFICES ASSUME Upd(o, {"done", "escalate", "pause"}) PROVE FALSE
      OBVIOUS
    <3>1. Rank(o) = 9 \/ Rank(o) = 1
      BY Ranks DEF Upd
    <3> QED BY <2>1, <3>1
  <2>6. o.do \notin Walks
    BY <2>1, Ranks
  <2> QED BY <2>1, <2>2, <2>3, <2>4, <2>5, <2>6, NamesDistinct DEF Expected, Persists, Upd
<1>9. /\ \A D : {"emit", "commit"} \cap D = {} => ~Has(Handling', D)
      /\ \A K : ~Will(Handling', K)
  BY <1>8 DEF Has, Will, Upd
<1>10. row.snap = shared
  <2>1. ~Has(Handling, {"upsert"})
    <3> SUFFICES ASSUME NEW o \in OpsOf(Handling), o.do = "upsert" PROVE FALSE
      BY DEF Has
    <3>1. o # This("consumer") /\ Rank(o) = 7
      BY <1>1, Ranks
    <3> QED BY <1>1, <1>6, <3>1
  <2> QED BY <1>4, <1>5, <2>1 DEF Snapped
<1>11. \A p \in Procs \ {"consumer"} : Has(todo[p], {"save"}) =>
          (Alike(local[p].copy, wf) => Alike(local[p].copy, wf'))
  <2>1. CASE wf.paused
    <3>1. wf.paused = TRUE
      <4>1. wf.paused \in BOOLEAN
        BY DEF IInv, StoresOK, WorkflowState
      <4> QED BY <2>1, <4>1
    <3> QED BY <1>2, <3>1 DEF Alike
  <2>2. CASE ~wf.paused
    <3>1. This("consumer").do # "await"
      BY <1>1
    <3> QED BY <1>1, <1>7, <2>2, <3>1, NoOtherSave
  <2> QED BY <2>1, <2>2
<1>12. /\ Def' = Def /\ Fixed' = Fixed /\ Ordinary' = Ordinary /\ Cleared' = Cleared
       /\ ~Closed /\ shared' = shared /\ row' = row /\ topic' = topic /\ position' = position
  BY <1>1, <1>2, <1>7 DEF Def, Fixed, Ordinary, Cleared, Closed
<1>13. \A q \in Procs : q # "consumer" => todo'[q] = todo[q] /\ local'[q] = local[q]
  BY <1>1, MineMoves
<1>14. ~Has(Handling', Needs) /\ ~Will(Handling', {"escalate", "pause"})
  BY <1>9 DEF Needs
<1>15. Surfaced'
  BY <1>8 DEF Surfaced
<1>16. /\ ~Has(Handling', {"read"}) /\ ~Has(Handling', {"scan", "read"})
       /\ ~Has(Handling', {"upsert"}) /\ ~Has(Handling', {"verify"})
       /\ ~Has(Handling', {"delete"}) /\ ~Has(Handling', {"gather", "await"})
       /\ ~Has(Handling', Walks) /\ ~Has(Handling', {"saveview"}) /\ ~Has(Handling', {"save"})
  BY <1>9 DEF Walks
<1>17. Snapped' /\ Decided'
  BY <1>9, <1>16 DEF Snapped, Decided
<1>18. Held'
  <2>1. ~Completed(Mine.view) /\ Rested(Mine.view)
    BY <1>4, <1>12, ProcsTyped DEF Held, Mine
  <2>2. ~Completed(NoState) /\ Rested(NoState)
    BY DEF NoState, NewState, Completed, Rested
  <2>3. ~Completed(wf') /\ Rested(wf')
    BY <1>2 DEF Completed, Rested
  <2> QED BY <1>1, <1>4, <1>12, <2>1, <2>2, <2>3, HeldMoves
<1>19. Waiting'
  BY <1>2, <1>7, <1>10, <1>12, <1>16 DEF Waiting
<1>20. Records'
  <2>1. \A p \in Procs : Has(todo'[p], {"save"}) => Alike(local'[p].copy, wf')
    BY <1>1, <1>4, <1>11, <1>16, SavesMove
  <2>2. \A o \in OpsOf(Handling') : o.do # "next"
    BY <1>8
  <2> QED BY <1>9, <1>16, <2>1, <2>2, Zenon DEF Records
<1>21. InStep'
  <2>1. \A o \in OpsOf(Handling') : o.do \notin Walks \union {"await"} /\ o.do # "gather"
    BY <1>8 DEF Walks
  <2>2. Fixed => wf.step = Len(Def)
    BY <1>4, <1>5 DEF InStep
  <2> QED BY <1>2, <1>4, <1>12, <2>1, <2>2 DEF InStep
<1>22. OneToken'
  <2>1. ~Has(Handling', Walks \union {"view", "saveview", "gather"})
    BY <1>9 DEF Walks
  <2>2. \A a \in Agents \ {"scr"} : todo'[a] = todo[a]
    BY <1>13, NamesDistinct
  <2> QED BY <1>2, <1>4, <1>9, <1>12, <2>1, <2>2 DEF OneToken
<1>23. Reviewed'
  <2>1. \A o \in OpsOf(Handling') : o.do \notin Walks
    BY <1>8 DEF Walks
  <2> QED BY <1>2, <1>4, <1>12, <2>1 DEF Reviewed
<1>24. \A o \in {} : Expected("consumer", o)
  OBVIOUS
<1> QED BY <1>1, <1>12, <1>14, <1>15, <1>17, <1>18, <1>19, <1>20, <1>21, <1>22, <1>23, <1>24, Handled

LEMMA MineSaves ==
  ASSUME IInv, GateInv, Turns, Save("consumer")
  PROVE  GateInv'
<1>1. This("consumer").x \in {"done", "escalate", "pause", "complete"}
  BY MineSave
<1> QED BY <1>1, MineSavesDone, MineSavesComplete, MineSavesEscalate, MineSavesPause

\* The snapshot is begun.
LEMMA MineScans ==
  ASSUME IInv, GateInv, Scan("consumer")
  PROVE  GateInv'
<1> DEFINE keys == {a \in Agents : Present(shared[a])}
           l == [Mine EXCEPT !.keys = keys, !.snap = NoSnapshot]
           o == Do("read")
<1>1. /\ Handling # <<>> /\ UNCHANGED <<wf, shared, row, topic, position>>
      /\ This("consumer").do = "scan"
  BY Zenon DEF Scan, At, This, stores, bus, Handling
<1>2. /\ This("consumer") \in OpsOf(Handling) /\ Mine \in Locals
      /\ \A u \in OpsOf(Handling) \ {This("consumer")} : u.do # "save"
  BY <1>1, AtMine
<1>3. Has(Handling, {"scan", "read"}) /\ Has(Handling, Needs)
  BY <1>1, <1>2 DEF Has, Needs
<1>4. Present(shared["scr"])
  BY <1>3 DEF GateInv, Memory
<1>5. keys # {}
  BY <1>4, NamesDistinct
<1>6. Continue("consumer", <<o>> \o Rest("consumer"), l)
  BY <1>5 DEF Scan, Mine
<1>7. /\ l.view = Mine.view /\ l.surface = Mine.surface /\ l.copy = Mine.copy
      /\ l.snap = NoSnapshot /\ l.keys = keys
  BY <1>2 DEF Locals
<1> HIDE DEF l
<1>8. o \in Operation /\ o.do = "read"
  BY Parts DEF Calls
<1> HIDE DEF o
<1>9. Goes("consumer", {o}, l)
  <2>1. Reach(o) <= Reach(This("consumer")) /\ o.do # "catch"
    BY <1>1, <1>8, Ranks
  <2>2. todo["consumer"] # <<>> /\ Orderly
    BY <1>1 DEF Handling, GateInv
  <2> QED BY <1>6, <1>8, <2>1, <2>2, ProcsTyped, GoesOne
<1>10. /\ \A u : u \in OpsOf(Handling') <=> u = o \/ (u \in OpsOf(Handling) /\ u # This("consumer"))
       /\ Has(Handling', {"read"}) \/ Has(Handling', {"upsert"}) \/ Has(Handling', {"verify"})
            \/ Has(Handling', {"delete"}) => Mine' = l
  <2>1. OpsOf(Handling') = {o} \union (OpsOf(Handling) \ {This("consumer")})
    BY <1>9, MineMoves
  <2> QED BY <1>9, <2>1, MineMoves
<1>11. /\ \A D : "scan" \notin D /\ "read" \notin D => (Has(Handling', D) <=> Has(Handling, D))
       /\ Has(Handling', {"read"}) /\ Has(Handling', {"scan", "read"})
       /\ \A K : Will(Handling', K) <=> Will(Handling, K)
  <2>1. ASSUME NEW D, "scan" \notin D, "read" \notin D PROVE Has(Handling', D) <=> Has(Handling, D)
    BY <1>1, <1>8, <1>10, <2>1 DEF Has
  <2>2. ASSUME NEW K PROVE Will(Handling', K) <=> Will(Handling, K)
    BY <1>1, <1>8, <1>10 DEF Will, Upd
  <2>3. Has(Handling', {"read"}) /\ Has(Handling', {"scan", "read"})
    BY <1>8, <1>10 DEF Has
  <2> QED BY <2>1, <2>2, <2>3
<1>12. /\ Has(Handling', {"upsert"}) <=> Has(Handling, {"upsert"})
       /\ Has(Handling', {"verify"}) <=> Has(Handling, {"verify"})
       /\ Has(Handling', {"delete"}) <=> Has(Handling, {"delete"})
       /\ Has(Handling', {"clearscan"}) <=> Has(Handling, {"clearscan"})
       /\ Has(Handling', {"view"}) <=> Has(Handling, {"view"})
       /\ Has(Handling', {"saveview"}) <=> Has(Handling, {"saveview"})
       /\ Has(Handling', {"save"}) <=> Has(Handling, {"save"})
  BY <1>11
<1>13. \A a \in Agents : IF a \in keys THEN Present(shared[a]) ELSE NoSnapshot[a] = shared[a]
  BY DEF GateInv, Outputs, NoSnapshot
<1> HIDE DEF keys
<1>14. Snapped'
  <2>1. Has(Handling, {"upsert"}) /\ (Has(Handling, {"delete"}) => Has(Handling, {"clearscan"}))
    BY <1>3 DEF GateInv, Snapped
  <2> QED BY <1>1, <1>7, <1>10, <1>11, <1>12, <1>13, <2>1 DEF Snapped
<1>15. Has(Handling', {"save"}) => Alike(l.copy, wf)
  BY <1>7, <1>12, ProcsTyped DEF GateInv, Records, Handling, Mine
<1>16. \A u \in {o} : Expected("consumer", u)
  BY <1>8 DEF Expected, Persists, Walks
<1>17. /\ \A u \in OpsOf(Handling') : u.do \in {"load", "save", "read"} \/ u \in OpsOf(Handling)
       /\ \A u \in OpsOf(Handling') : u.do \in {"load", "save"} => u \in OpsOf(Handling)
  BY <1>8, <1>10
<1>18. /\ Will(Handling, {"done"}) => Will(Handling', {"done"})
       /\ Will(Handling, {"escalate"}) => Will(Handling', {"escalate"})
  BY <1>11
<1> QED BY <1>1, <1>4, <1>7, <1>9, <1>12, <1>14, <1>15, <1>16, <1>17, <1>18, HandledKeeps

\* The snapshot is of one instant.
LEMMA MineReads ==
  ASSUME IInv, GateInv, Read("consumer")
  PROVE  GateInv'
<1>1. /\ Handling # <<>> /\ UNCHANGED <<wf, shared, row, topic, position>>
      /\ This("consumer").do = "read"
  BY Zenon DEF Read, At, This, stores, bus, Handling
<1>2. /\ This("consumer") \in OpsOf(Handling) /\ Mine \in Locals /\ shared \in Snapshot
      /\ \A u \in OpsOf(Handling) \ {This("consumer")} :
           u.do # "save" /\ Reach(This("consumer")) < Rank(u)
  BY <1>1, AtMine DEF IInv, StoresOK
<1>3. Has(Handling, {"scan", "read"}) /\ Has(Handling, Needs) /\ Has(Handling, {"read"})
  BY <1>1, <1>2 DEF Has, Needs
<1>4. Present(shared["scr"])
  BY <1>3 DEF GateInv, Memory
<1>5. /\ \A a \in Agents : IF a \in Mine.keys THEN Present(shared[a]) ELSE Mine.snap[a] = shared[a]
      /\ Has(Handling, {"upsert"}) /\ (Has(Handling, {"delete"}) => Has(Handling, {"clearscan"}))
  BY <1>3 DEF GateInv, Snapped
<1>6. PICK b \in Mine.keys :
        LET seen   == IF Present(shared[b]) THEN shared[b] ELSE EmptyOutput
            locals == [Mine EXCEPT !.keys = @ \ {b}, !.snap[b] = seen]
        IN  IF locals.keys = {} THEN Prepared("consumer", Rest("consumer"), locals)
            ELSE Continue("consumer", todo["consumer"], locals)
  BY DEF Read, Mine
<1>7. /\ Mine.keys \subseteq Agents /\ b \in Agents /\ Mine.snap \in Snapshot
      /\ Present(shared[b])
  BY <1>2, <1>5 DEF Locals
<1> DEFINE l == [Mine EXCEPT !.keys = @ \ {b}, !.snap[b] = shared[b]]
<1>8. /\ l.view = Mine.view /\ l.surface = Mine.surface /\ l.copy = Mine.copy
      /\ l.keys = Mine.keys \ {b} /\ l.snap = [Mine.snap EXCEPT ![b] = shared[b]]
  BY <1>2 DEF Locals
<1>9. \A a \in Agents : IF a \in l.keys THEN Present(shared[a]) ELSE l.snap[a] = shared[a]
  BY <1>5, <1>7, <1>8 DEF Snapshot
<1>10. l.snap \in Snapshot
  BY <1>2, <1>7, <1>8 DEF Snapshot
<1>11. l.keys = {} => l.snap = shared
  BY <1>2, <1>9, <1>10 DEF Snapshot
<1>12. \/ l.keys = {} /\ Continue("consumer", Rest("consumer"), l)
       \/ l.keys # {} /\ Continue("consumer", todo["consumer"], l)
  <2>1. IF l.keys = {} THEN Prepared("consumer", Rest("consumer"), l)
        ELSE Continue("consumer", todo["consumer"], l)
    BY <1>6, <1>7
  <2> HIDE DEF l
  <2>2. l.keys = {} => Present(l.snap["scr"])
    BY <1>4, <1>11
  <2> QED BY <2>1, <2>2 DEF Prepared
<1> HIDE DEF l
<1>13. todo["consumer"] # <<>> /\ Orderly
  BY <1>1 DEF Handling, GateInv
<1>14. \A o \in OpsOf(Handling) : o # This("consumer") => o.do \notin {"scan", "read"}
  <2>1. Reach(This("consumer")) = 6
    BY <1>1, Ranks
  <2> QED BY <1>2, <2>1, Ranks
<1>15. Has(Handling, {"save"}) => Alike(l.copy, wf)
  BY <1>8, ProcsTyped DEF GateInv, Records, Handling, Mine
<1>16. CASE l.keys = {} /\ Continue("consumer", Rest("consumer"), l)
  <2>1. Goes("consumer", {}, l)
    BY <1>13, <1>16, ProcsTyped, Goes0
  <2>2. \A u : u \in OpsOf(Handling') <=> u \in OpsOf(Handling) /\ u # This("consumer")
    BY <2>1, DropOps DEF Handling
  <2>3. /\ \A D : This("consumer").do \notin D => (Has(Handling', D) <=> Has(Handling, D))
        /\ \A K : ~Upd(This("consumer"), K) => (Will(Handling', K) <=> Will(Handling, K))
    BY <2>1, DropOps DEF Handling
  <2>4. /\ Has(Handling', {"upsert"}) <=> Has(Handling, {"upsert"})
        /\ Has(Handling', {"verify"}) <=> Has(Handling, {"verify"})
        /\ Has(Handling', {"delete"}) <=> Has(Handling, {"delete"})
        /\ Has(Handling', {"clearscan"}) <=> Has(Handling, {"clearscan"})
        /\ Has(Handling', {"view"}) <=> Has(Handling, {"view"})
        /\ Has(Handling', {"saveview"}) <=> Has(Handling, {"saveview"})
        /\ Has(Handling', {"save"}) <=> Has(Handling, {"save"})
        /\ ~Has(Handling', {"read"}) /\ ~Has(Handling', {"scan", "read"})
    <3>1. ~Has(Handling', {"read"}) /\ ~Has(Handling', {"scan", "read"})
      BY <1>14, <2>2 DEF Has
    <3> QED BY <1>1, <2>3, <3>1
  <2>5. \A K : Will(Handling', K) <=> Will(Handling, K)
    BY <1>1, <2>3 DEF Upd
  <2>6. Has(Handling', {"upsert"}) => Mine' = l
    BY <2>1, MineMoves
  <2>7. Snapped'
    BY <1>1, <1>5, <1>11, <1>16, <2>4, <2>6 DEF Snapped
  <2>8. \A u \in OpsOf(Handling') : u \in OpsOf(Handling)
    BY <2>2
  <2>9. \A u \in {} : Expected("consumer", u)
    OBVIOUS
  <2>10. /\ Will(Handling, {"done"}) => Will(Handling', {"done"})
         /\ Will(Handling, {"escalate"}) => Will(Handling', {"escalate"})
    BY <2>5
  <2> QED BY <1>1, <1>8, <1>15, <2>1, <2>4, <2>7, <2>8, <2>9, <2>10, HandledKeeps
<1>17. CASE l.keys # {} /\ Continue("consumer", todo["consumer"], l)
  <2>1. Goes("consumer", {This("consumer")}, l)
    BY <1>13, <1>17, ProcsTyped, Goes0
  <2>2. \A u : u \in OpsOf(Handling') <=> u \in OpsOf(Handling)
    <3>1. OpsOf(Handling') = {This("consumer")} \union (OpsOf(Handling) \ {This("consumer")})
      BY <2>1, MineMoves
    <3> QED BY <1>2, <3>1
  <2>3. /\ \A D : Has(Handling', D) <=> Has(Handling, D)
        /\ \A K : Will(Handling', K) <=> Will(Handling, K)
    BY <2>2 DEF Has, Will
  <2>4. /\ Has(Handling', {"upsert"}) <=> Has(Handling, {"upsert"})
        /\ Has(Handling', {"verify"}) <=> Has(Handling, {"verify"})
        /\ Has(Handling', {"delete"}) <=> Has(Handling, {"delete"})
        /\ Has(Handling', {"clearscan"}) <=> Has(Handling, {"clearscan"})
        /\ Has(Handling', {"view"}) <=> Has(Handling, {"view"})
        /\ Has(Handling', {"saveview"}) <=> Has(Handling, {"saveview"})
        /\ Has(Handling', {"save"}) <=> Has(Handling, {"save"})
        /\ Has(Handling', {"read"}) /\ Has(Handling', {"scan", "read"})
    BY <1>3, <2>3
  <2>5. Mine' = l
    BY <2>1, <2>4, MineMoves
  <2>6. Snapped'
    BY <1>1, <1>5, <1>9, <2>4, <2>5 DEF Snapped
  <2>7. \A u \in OpsOf(Handling') : u \in OpsOf(Handling)
    BY <2>2
  <2>8. \A u \in {This("consumer")} : Expected("consumer", u)
    BY <1>1, AtMine
  <2>9. /\ Will(Handling, {"done"}) => Will(Handling', {"done"})
        /\ Will(Handling, {"escalate"}) => Will(Handling', {"escalate"})
    BY <2>3
  <2> QED BY <1>1, <1>4, <1>8, <1>15, <2>1, <2>4, <2>6, <2>7, <2>8, <2>9, HandledKeeps
<1> QED BY <1>12, <1>16, <1>17

\* The snapshot becomes the row.
LEMMA MineUpserts ==
  ASSUME IInv, GateInv, Upsert("consumer")
  PROVE  GateInv' /\ row'.snap = shared /\ shared' = shared /\ shared # NoSnapshot
<1>1. /\ Handling # <<>> /\ UNCHANGED <<wf, shared, topic, position>>
      /\ This("consumer").do = "upsert" /\ Continue("consumer", Rest("consumer"), Mine)
      /\ row'.snap = Mine.snap
  BY DEF Upsert, At, This, bus, Handling, Mine
<1>2. /\ This("consumer") \in OpsOf(Handling)
      /\ \A u \in OpsOf(Handling) \ {This("consumer")} :
           u.do # "save" /\ Reach(This("consumer")) < Rank(u)
  BY <1>1, AtMine
<1>3. Has(Handling, {"upsert"}) /\ Has(Handling, Needs)
  BY <1>1, <1>2 DEF Has, Needs
<1>4. Reach(This("consumer")) = 7
  BY <1>1, Ranks
<1>5. \A u \in OpsOf(Handling) \ {This("consumer")} : u.do \notin {"scan", "read", "upsert"}
  BY <1>2, <1>4, Ranks
<1>6. ~Has(Handling, {"scan", "read"}) /\ ~Has(Handling, {"read"})
  BY <1>1, <1>5 DEF Has
<1>7. Mine.snap = shared
  BY <1>3, <1>6 DEF GateInv, Snapped
<1>8. shared # NoSnapshot
  <2>1. NoSnapshot["scr"].status = "NONE"
    BY NamesDistinct DEF NoSnapshot, NoOutput, Out
  <2> QED BY <1>3, <2>1 DEF GateInv, Memory, Present
<1>9. Goes("consumer", {}, Mine)
  <2>1. todo["consumer"] # <<>> /\ Orderly
    BY <1>1 DEF Handling, GateInv
  <2> QED BY <1>1, <2>1, ProcsTyped, Goes0
<1>10. /\ \A D : This("consumer").do \notin D => (Has(Handling', D) <=> Has(Handling, D))
       /\ \A K : ~Upd(This("consumer"), K) => (Will(Handling', K) <=> Will(Handling, K))
       /\ \A u : u \in OpsOf(Handling') <=> u \in OpsOf(Handling) /\ u # This("consumer")
  BY <1>9, DropOps DEF Handling
<1>11. /\ ~Has(Handling', {"upsert"}) /\ ~Has(Handling', {"scan", "read"})
       /\ ~Has(Handling', {"read"})
       /\ Has(Handling', {"delete"}) <=> Has(Handling, {"delete"})
       /\ Has(Handling', {"clearscan"}) <=> Has(Handling, {"clearscan"})
       /\ Has(Handling', {"view"}) <=> Has(Handling, {"view"})
       /\ Has(Handling', {"saveview"}) <=> Has(Handling, {"saveview"})
       /\ Has(Handling', {"save"}) <=> Has(Handling, {"save"})
       /\ Has(Handling', {"verify"}) \/ Has(Handling', {"delete"}) => Mine' = Mine
  <2>1. ~Has(Handling', {"upsert"}) /\ ~Has(Handling', {"scan", "read"}) /\ ~Has(Handling', {"read"})
    BY <1>5, <1>10 DEF Has
  <2>2. Has(Handling', {"verify"}) \/ Has(Handling', {"delete"}) => Mine' = Mine
    BY <1>9, MineMoves
  <2> QED BY <1>1, <1>10, <2>1, <2>2
<1>12. \A K : Will(Handling', K) <=> Will(Handling, K)
  BY <1>1, <1>10 DEF Upd
<1>13. Snapped'
  <2>1. Has(Handling, {"delete"}) => \/ Has(Handling, {"clearscan"})
                                     \/ \A a \in Agents : a \in Mine.keys <=> Present(shared[a])
    BY DEF GateInv, Snapped
  <2> QED BY <1>1, <1>7, <1>11, <2>1 DEF Snapped
<1>14. Has(Handling', {"save"}) => Alike(Mine.copy, wf)
  BY <1>11, ProcsTyped DEF GateInv, Records, Handling, Mine
<1>15. \A u \in OpsOf(Handling') : u \in OpsOf(Handling)
  BY <1>10
<1>16. \A u \in {} : Expected("consumer", u)
  OBVIOUS
<1>17. /\ Will(Handling, {"done"}) => Will(Handling', {"done"})
       /\ Will(Handling, {"escalate"}) => Will(Handling', {"escalate"})
  BY <1>12
<1> QED BY <1>1, <1>7, <1>8, <1>9, <1>11, <1>13, <1>14, <1>15, <1>16, <1>17, HandledKeeps

\* What is in shared memory is there with SCR's output.
LEMMA WithScr ==
  ASSUME GateInv, topic # <<>>, NEW a \in Agents, Present(shared[a])
  PROVE  /\ shared # NoSnapshot /\ ~Cleared /\ ~Closed
         /\ shared["scr"].status = "COMPLETED" /\ Present(shared["scr"])
<1>1. NoSnapshot[a].status = "NONE"
  BY DEF NoSnapshot, NoOutput, Out
<1>2. shared # NoSnapshot
  BY <1>1 DEF Present
<1> QED BY <1>2 DEF GateInv, Memory, Present, Cleared, Closed

\* The outputs leave the memory for the row.
LEMMA MineDeletes ==
  ASSUME IInv, GateInv, Turns, Delete("consumer")
  PROVE  GateInv' /\ shared = row.snap /\ shared' = NoSnapshot /\ shared # NoSnapshot
<1> DEFINE l == [Mine EXCEPT !.keys = {}, !.snap = NoSnapshot]
<1>1. /\ Handling # <<>> /\ UNCHANGED <<wf, row, topic, position>>
      /\ This("consumer").do = "delete" /\ Continue("consumer", Rest("consumer"), l)
      /\ shared' = [a \in Agents |-> IF a \in Mine.keys THEN NoOutput ELSE shared[a]]
  BY Zenon DEF Delete, At, This, bus, Handling, Mine
<1>2. /\ This("consumer") \in OpsOf(Handling) /\ Mine \in Locals /\ topic # <<>>
      /\ \A u \in OpsOf(Handling) \ {This("consumer")} :
           u.do # "save" /\ Reach(This("consumer")) < Rank(u)
  BY <1>1, AtMine
<1>3. /\ l.view = Mine.view /\ l.copy = Mine.copy
  BY <1>2 DEF Locals
<1> HIDE DEF l
<1>4. Has(Handling, {"delete"}) /\ Has(Handling, Needs)
  BY <1>1, <1>2 DEF Has, Needs
<1>5. Reach(This("consumer")) = 10
  BY <1>1, Ranks
<1>6. /\ \A u \in OpsOf(Handling) \ {This("consumer")} :
           /\ u.do \notin {"scan", "read", "upsert", "verify", "clearscan", "delete", "view",
                           "saveview", "gather", "await", "save"}
           /\ u.do \notin Walks
           /\ ~Upd(u, {"done", "escalate", "pause"})
  <2> SUFFICES ASSUME NEW u \in OpsOf(Handling) \ {This("consumer")}
               PROVE  /\ u.do \notin {"scan", "read", "upsert", "verify", "clearscan", "delete",
                                      "view", "saveview", "gather", "await", "save"}
                      /\ u.do \notin Walks
                      /\ ~Upd(u, {"done", "escalate", "pause"})
    OBVIOUS
  <2>1. u.do # "save" /\ 10 < Rank(u)
    BY <1>2, <1>5
  <2>2. u.do \notin {"scan", "read", "upsert", "verify", "clearscan", "delete", "view",
                     "saveview", "gather", "await", "save"} /\ u.do \notin Walks
    BY <2>1, Ranks
  <2>3. ~Upd(u, {"done", "escalate", "pause"})
    <3> SUFFICES ASSUME Upd(u, {"done", "escalate", "pause"}) PROVE FALSE
      OBVIOUS
    <3>1. Rank(u) = 9 \/ Rank(u) = 1
      BY Ranks DEF Upd
    <3> QED BY <2>1, <3>1
  <2> QED BY <2>2, <2>3
<1>7. /\ Orderly /\ Memory /\ Outputs /\ Told /\ Snapped /\ Decided /\ Held /\ Waiting
      /\ Records /\ InStep /\ OneToken
  BY DEF GateInv
<1>8. ~Has(Handling, {"upsert"}) /\ ~Has(Handling, {"clearscan"})
  BY <1>1, <1>6 DEF Has
<1>9. /\ row.snap = shared /\ \A a \in Agents : a \in Mine.keys <=> Present(shared[a])
      /\ ~shared["reporting"].human /\ (Ordinary => Finished(shared))
      /\ Present(shared["scr"]) /\ shared # NoSnapshot
  <2>1. row.snap = shared /\ \A a \in Agents : a \in Mine.keys <=> Present(shared[a])
    BY <1>4, <1>7, <1>8 DEF Snapped
  <2>2. ~shared["reporting"].human /\ (Ordinary => Finished(shared))
    BY <1>4, <1>7 DEF Decided
  <2>3. Present(shared["scr"])
    BY <1>4, <1>7 DEF Memory
  <2> QED BY <1>2, <2>1, <2>2, <2>3, NamesDistinct, WithScr
<1>10. shared' = NoSnapshot
  <2>1. \A a \in Agents : (IF a \in Mine.keys THEN NoOutput ELSE shared[a]) = NoOutput
    BY <1>7, <1>9 DEF Outputs
  <2> QED BY <1>1, <2>1 DEF NoSnapshot
<1>11. wf' = wf /\ row' = row /\ topic' = topic /\ position' = position
  BY <1>1
<1>12. Def' = Def /\ Fixed' = Fixed /\ Ordinary' = Ordinary /\ Cleared' /\ Closed'
  <2>1. Def' = Def /\ Fixed' = Fixed /\ Ordinary' = Ordinary /\ Cleared'
    BY <1>2, <1>10, <1>11 DEF Def, Fixed, Ordinary, Cleared
  <2>2. Finished(row.snap)' = Finished(shared)
    BY <1>9, <1>11 DEF Finished, Team
  <2> QED BY <1>9, <1>11, <2>1, <2>2 DEF Closed
<1>13. ~wf.paused
  BY <1>7, <1>9 DEF Waiting
<1>14. Goes("consumer", {}, l)
  <2>1. todo["consumer"] # <<>> /\ Orderly
    BY <1>1, <1>7 DEF Handling
  <2> QED BY <1>1, <2>1, ProcsTyped, Goes0
<1>15. \A u : u \in OpsOf(Handling') <=> u \in OpsOf(Handling) /\ u # This("consumer")
  BY <1>14, DropOps DEF Handling
<1>16. \A q \in Procs : q # "consumer" => todo'[q] = todo[q] /\ local'[q] = local[q]
  BY <1>14, MineMoves
<1>17. /\ ~Has(Handling', {"read"}) /\ ~Has(Handling', {"scan", "read"})
       /\ ~Has(Handling', {"upsert"}) /\ ~Has(Handling', {"verify"})
       /\ ~Has(Handling', {"delete"}) /\ ~Has(Handling', {"gather", "await"})
       /\ ~Has(Handling', Walks) /\ ~Has(Handling', {"saveview"}) /\ ~Has(Handling', {"save"})
       /\ ~Has(Handling', Needs) /\ ~Will(Handling', {"escalate", "pause"})
       /\ ~Will(Handling', {"pause"}) /\ ~Will(Handling', {"escalate"})
       /\ ~Has(Handling', Walks \union {"view", "saveview", "gather"})
       /\ ~Will(Handling', {"done", "escalate"})
  <2>1. \A u \in OpsOf(Handling') :
           /\ u.do \notin {"scan", "read", "upsert", "verify", "clearscan", "delete", "view",
                           "saveview", "gather", "await", "save"}
           /\ u.do \notin Walks
           /\ ~Upd(u, {"done", "escalate", "pause"})
    BY <1>6, <1>15
  <2>2. ~Has(Handling', Needs)
    BY <2>1 DEF Has, Needs, Walks
  <2> QED BY <2>1, <2>2 DEF Has, Will, Upd
<1>18. Orderly'
  <2>1. \A u \in {} : Expected("consumer", u)
    OBVIOUS
  <2> QED BY <1>7, <1>14, <2>1, ProcsTyped, GoesOrderly
<1>19. \A a \in Agents \ {"scr"} : todo[a] = <<>> /\ todo'[a] = <<>>
  <2>1. \A a \in Agents \ {"scr"} : todo[a] = <<>>
    BY <1>1, Running DEF At, This
  <2> QED BY <1>16, <2>1, NamesDistinct
<1>20. Memory'
  <2>1. Scanning' = Scanning /\ todo'["background"] = todo["background"]
    BY <1>16, ProcsTyped, NamesDistinct DEF Scanning
  <2>2. Scans(Scanning)'
    <3>1. Has(Scanning, {"publish"}) => Has(Scanning, Early)
      BY DEF Has, Early
    <3>2. Has(Scanning, Early) => Scanning # <<>>
      BY NoOps DEF Has
    <3>3. ~Has(Scanning, {"publish"})
      BY <1>2, <1>7, <3>1, <3>2 DEF Memory, Scans
    <3> QED BY <1>7, <1>11, <1>12, <2>1, <3>3 DEF Memory, Scans
  <2> QED BY <1>2, <1>7, <1>10, <1>11, <1>17, <2>1, <2>2 DEF Memory
<1>21. Outputs'
  <2>1. \A a \in Agents : shared'[a] = NoOutput /\ ~Present(shared'[a])
    BY <1>10 DEF NoSnapshot, NoOutput, Out, Present
  <2> QED BY <1>19, <2>1, Zenon DEF Outputs, Agents
<1>22. Told' /\ Backing'
  <2>1. Told'
    BY <1>7, <1>9, <1>10, <1>11 DEF Told
  <2>2. Backing'
    <3>1. \A a \in Agents : ~Present(row.snap[a]) => row.snap[a] = NoOutput
      BY DEF GateInv, Backing
    <3> QED BY <1>11, <1>12, <3>1 DEF Backing
  <2> QED BY <2>1, <2>2
<1>23. Surfaced'
  <2>1. \A o \in OpsOf(Handling') : o.do \notin Walks
    BY <1>17 DEF Has
  <2> QED BY <2>1 DEF Surfaced, Walks
<1>24. Snapped' /\ Decided'
  BY <1>12, <1>17 DEF Snapped, Decided
<1>25. Held'
  <2>1. Rested(wf) /\ Rested(Mine.view) /\ Rested(Mine.copy)
    BY <1>7, ProcsTyped DEF Held, Mine
  <2> QED BY <1>3, <1>7, <1>11, <1>12, <1>14, <2>1, HeldMoves
<1>26. Waiting'
  BY <1>7, <1>11, <1>13, <1>16, ProcsTyped, NamesDistinct DEF Waiting
<1>27. Records'
  <2>1. \A p \in Procs : Has(todo'[p], {"save"}) => Alike(local'[p].copy, wf')
    BY <1>7, <1>11, <1>14, <1>17, SavesMove
  <2>2. \A o \in OpsOf(Handling') : o.do # "next"
    BY <1>17 DEF Has, Walks
  <2> QED BY <1>17, <2>1, <2>2, Zenon DEF Records
<1>28. InStep'
  <2>1. \A o \in OpsOf(Handling') : o.do \notin Walks \union {"await"} /\ o.do # "gather"
    BY <1>17 DEF Has
  <2>2. shared'["reporting"].human = FALSE
    BY <1>10 DEF NoSnapshot, NoOutput, Out, Agents
  <2> QED BY <1>7, <1>11, <1>12, <1>13, <1>17, <2>1, <2>2 DEF InStep
<1>29. OneToken'
  BY <1>7, <1>11, <1>12, <1>17, <1>19 DEF OneToken
<1>30. Reviewed'
  BY <1>12 DEF Reviewed
<1> QED BY <1>9, <1>10, <1>18, <1>20, <1>21, <1>22, <1>23, <1>24, <1>25, <1>26, <1>27, <1>28, <1>29, <1>30
        DEF GateInv

\* The consumer with a surface to decide on.
LEMMA AtWalk ==
  ASSUME IInv, GateInv, Handling # <<>>, This("consumer").do \in Walks
  PROVE  /\ \A o \in OpsOf(Handling) \ {This("consumer")} : o.do = "commit"
         /\ Alike(Mine.view, wf)
         /\ Has(Handling, Walks \union {"view", "saveview", "gather"})
         /\ Fixed => This("consumer").who \subseteq Def[wf.step]
         /\ This("consumer").do # "surface" =>
              \A a \in This("consumer").who : Mine.surface = shared[a] /\ Present(shared[a])
         /\ \E a \in Agents : This("consumer").who = {a}
         /\ This("consumer").do = "checkscr" => This("consumer").who = {"scr"}
         /\ This("consumer").do = "next" =>
              ((This("consumer").x = "paused") <=> wf.paused) /\ ~Fixed
         /\ Ordinary /\ ~Cleared /\ ~wf.paused =>
              \A a \in This("consumer").who :
                wf.agents[a] = "DONE" /\ Mine.view.agents[a] = "DONE"
<1>1. /\ This("consumer") \in OpsOf(Handling) /\ Expected("consumer", This("consumer"))
      /\ \A o \in OpsOf(Handling) \ {This("consumer")} :
           o.do # "catch" /\ Reach(This("consumer")) < Rank(o)
  BY AtMine
<1>2. Reach(This("consumer")) = 12
  BY Ranks
<1>3. \A o \in OpsOf(Handling) \ {This("consumer")} : o.do = "commit"
  BY <1>1, <1>2, RankTyped
<1>4. /\ ~Has(Handling, {"view"}) /\ ~Will(Handling, {"done"}) /\ ~Will(Handling, {"escalate"})
      /\ Has(Handling, Walks)
  BY <1>1, <1>3 DEF Has, Will, Upd, Walks
<1>5. Alike(Mine.view, wf)
  BY <1>4 DEF GateInv, Records
<1>6. Has(Handling, Walks \union {"view", "saveview", "gather"})
  BY <1>1 DEF Has
<1>7. Fixed => This("consumer").who \subseteq Def[wf.step]
  BY <1>1 DEF GateInv, InStep
<1>8. This("consumer").do # "surface" =>
        \A a \in This("consumer").who : Mine.surface = shared[a] /\ Present(shared[a])
  BY <1>1 DEF GateInv, Surfaced, Walks
<1>9. (\E a \in Agents : This("consumer").who = {a})
      /\ (This("consumer").do = "checkscr" => This("consumer").who = {"scr"})
  BY <1>1, NamesDistinct DEF Expected, Upd, Persists, Walks
<1>10. This("consumer").do = "next" =>
         ((This("consumer").x = "paused") <=> wf.paused) /\ ~Fixed
  BY <1>1, <1>4 DEF GateInv, Records
<1>11. ASSUME Ordinary, ~Cleared, ~wf.paused, NEW a \in This("consumer").who
       PROVE  wf.agents[a] = "DONE" /\ Mine.view.agents[a] = "DONE"
  BY <1>1, <1>4, <1>11 DEF GateInv, Reviewed
<1> QED BY <1>3, <1>5, <1>6, <1>7, <1>8, <1>9, <1>10, <1>11

\* The consumer goes on deciding on the surface it has.
LEMMA WalkOn ==
  ASSUME IInv, GateInv, Handling # <<>>, This("consumer").do \in Walks,
         NEW N, NEW l, Goes("consumer", N, l), UNCHANGED <<wf, shared, row, topic, position>>,
         \A o \in N : Expected("consumer", o),
         \A o \in N : \/ o.do \in {"checkscr", "plan", "next"} /\ o.who = This("consumer").who
                      \/ o.do = "load" /\ o.x = "escalate"
                      \/ o.do = "view",
         N # {} => \A a \in This("consumer").who : l.surface = shared[a] /\ Present(shared[a]),
         \A o \in N : o.do = "load" =>
           Fixed /\ wf.name \notin SCR_REQUIRED_WORKFLOWS /\ \E v \in N : v.do = "view",
         \A o \in N : o.do = "next" =>
           ((o.x = "paused") <=> wf.paused) /\ \E u \in N : u.do = "load",
         l.view = Mine.view, l.copy = Mine.copy
  PROVE  GateInv'
<1>1. /\ \A o \in OpsOf(Handling) \ {This("consumer")} : o.do = "commit"
      /\ Alike(Mine.view, wf)
      /\ Has(Handling, Walks \union {"view", "saveview", "gather"})
      /\ Fixed => This("consumer").who \subseteq Def[wf.step]
      /\ \E a \in Agents : This("consumer").who = {a}
      /\ Ordinary /\ ~Cleared /\ ~wf.paused =>
           \A a \in This("consumer").who : wf.agents[a] = "DONE" /\ Mine.view.agents[a] = "DONE"
  BY AtWalk
<1>2. topic # <<>>
  BY AtMine
<1>3. /\ \A o : o \in OpsOf(Handling') => Mine' = l
      /\ OpsOf(Handling') = N \union (OpsOf(Handling) \ {This("consumer")})
      /\ Has(Handling', Walks) => Mine' = l
      /\ \A q \in Procs : q # "consumer" => todo'[q] = todo[q] /\ local'[q] = local[q]
  BY MineMoves
<1>4. \A o \in OpsOf(Handling') : o \in N \/ o.do = "commit"
  BY <1>1, <1>3
<1>5. \A o \in OpsOf(Handling') : o.do \in {"checkscr", "plan", "next", "view", "commit"}
                                  \/ (o.do = "load" /\ o.x = "escalate")
  BY <1>4
<1>6. /\ wf' = wf /\ shared' = shared /\ row' = row /\ topic' = topic /\ position' = position
  OBVIOUS
<1>7. /\ Def' = Def /\ Fixed' = Fixed /\ Ordinary' = Ordinary /\ Cleared' = Cleared
      /\ Closed' = Closed
  BY <1>6 DEF Def, Fixed, Ordinary, Cleared, Closed, Finished, Team
<1>8. /\ ~Has(Handling', {"read"}) /\ ~Has(Handling', {"scan", "read"})
      /\ ~Has(Handling', {"upsert"}) /\ ~Has(Handling', {"verify"})
      /\ ~Has(Handling', {"delete"}) /\ ~Will(Handling', {"pause"})
      /\ ~Will(Handling', {"complete"}) /\ ~Has(Handling', {"gather", "await"})
      /\ ~Has(Handling', {"save"}) /\ ~Has(Handling', {"saveview"})
      /\ ~Will(Handling', {"done"})
  BY <1>5 DEF Has, Will, Upd
<1>9. N # {} => Present(shared["scr"])
  <2>1. ASSUME N # {} PROVE Present(shared["scr"])
    <3>1. PICK a \in Agents : This("consumer").who = {a}
      BY <1>1
    <3>2. Present(shared[a])
      BY <2>1, <3>1
    <3> QED BY <1>2, <3>2, WithScr
  <2> QED BY <2>1
<1>10. Has(Handling', Needs) \/ Will(Handling', {"escalate", "pause"}) => Present(shared["scr"])
  <2>1. ASSUME NEW o \in OpsOf(Handling'), o.do \in Needs \/ Upd(o, {"escalate", "pause"})
        PROVE  N # {}
    BY <1>4, <2>1 DEF Needs, Upd
  <2> QED BY <1>9, <2>1 DEF Has, Will
<1>11. Surfaced'
  <2>1. ASSUME NEW o \in OpsOf(Handling'), o.do \in {"checkscr", "plan", "next"}, NEW a \in o.who
        PROVE  Mine'.surface = shared[a] /\ Present(shared[a])
    <3>1. o \in N /\ o.who = This("consumer").who
      BY <1>4, <2>1
    <3>2. Mine' = l
      BY <1>3
    <3> QED BY <2>1, <3>1, <3>2
  <2> QED BY <1>6, <2>1 DEF Surfaced
<1>12. Snapped' /\ Decided'
  BY <1>8 DEF Snapped, Decided
<1>13. Held'
  <2>1. Held
    BY DEF GateInv
  <2>2. /\ Completed(wf) => Closed
        /\ Rested(wf)
        /\ Completed(Mine.view) \/ Completed(Mine.copy) => Closed
        /\ Rested(Mine.view) /\ Rested(Mine.copy)
    BY <2>1, ProcsTyped DEF Held, Mine
  <2> QED BY <1>6, <1>7, <2>1, <2>2, HeldMoves
<1>14. Waiting'
  <2>1. Waiting
    BY DEF GateInv
  <2> QED BY <1>3, <1>6, <1>8, <2>1, ProcsTyped, NamesDistinct DEF Waiting
<1>15. Records'
  <2>1. \A p \in Procs : Has(todo'[p], {"save"}) => Alike(local'[p].copy, wf')
    BY <1>6, <1>8, SavesMove DEF GateInv
  <2>2. Has(Handling', Walks) => Alike(Mine'.view, wf')
    BY <1>1, <1>3, <1>6
  <2>3. Will(Handling', {"escalate"}) =>
          Fixed' /\ wf'.name \notin SCR_REQUIRED_WORKFLOWS /\ Has(Handling', {"view"})
    <3>1. ASSUME NEW o \in OpsOf(Handling'), Upd(o, {"escalate"})
          PROVE  Fixed' /\ wf'.name \notin SCR_REQUIRED_WORKFLOWS /\ Has(Handling', {"view"})
      <4>1. o \in N /\ o.do = "load"
        BY <1>4, <1>5, <3>1 DEF Upd
      <4>2. PICK v \in N : v.do = "view"
        BY <4>1
      <4>3. v \in OpsOf(Handling')
        BY <1>3
      <4> QED BY <1>6, <1>7, <4>1, <4>2, <4>3 DEF Has
    <3> QED BY <3>1 DEF Will
  <2>4. ASSUME NEW o \in OpsOf(Handling'), o.do = "next"
        PROVE  ((o.x = "paused") <=> wf'.paused) /\ Will(Handling', {"escalate"})
    <3>1. o \in N
      BY <1>4, <2>4
    <3>2. ((o.x = "paused") <=> wf.paused) /\ \E u \in N : u.do = "load"
      BY <2>4, <3>1
    <3>3. PICK u \in N : u.do = "load"
      BY <3>2
    <3>4. u.x = "escalate"
      BY <3>3
    <3> QED BY <1>3, <1>6, <3>2, <3>3, <3>4 DEF Will, Upd
  <2> QED BY <1>8, <2>1, <2>2, <2>3, <2>4, Zenon DEF Records
<1>16. InStep'
  <2>1. InStep
    BY DEF GateInv
  <2>2. ASSUME Fixed, NEW o \in OpsOf(Handling'), o.do \in Walks \union {"await"}
        PROVE  o.who \subseteq Def[wf.step]
    <3>1. o \in N /\ o.who = This("consumer").who
      BY <1>4, <1>5, <2>2 DEF Walks
    <3> QED BY <1>1, <2>2, <3>1
  <2>3. \A o \in OpsOf(Handling') : o.do # "gather"
    BY <1>5
  <2> QED BY <1>6, <1>7, <1>8, <2>1, <2>2, <2>3 DEF InStep
<1>17. OneToken'
  BY <1>1, <1>6, <1>7 DEF GateInv, OneToken
<1>18. Reviewed'
  <2>1. Reviewed
    BY DEF GateInv
  <2>2. \A o \in OpsOf(Handling') : o.do \in Walks => o.who = This("consumer").who /\ Mine' = l
    BY <1>3, <1>4, <1>5 DEF Walks
  <2>3. \A u \in OpsOf(Handling') : ~Upd(u, {"done"})
    BY <1>8 DEF Will
  <2>4. Ordinary /\ ~Cleared /\ ~wf.paused =>
          \A o \in OpsOf(Handling') : o.do \in Walks => \A a \in o.who :
            wf.agents[a] = "DONE" /\ Mine'.view.agents[a] = "DONE"
    BY <1>1, <2>2
  <2>5. Ordinary /\ ~Cleared =>
          \A i \in 1..wf.step - 1 : \A a \in Def[i] : shared[a].status = "COMPLETED"
    BY <2>1 DEF Reviewed
  <2> QED BY <1>6, <1>7, <2>3, <2>4, <2>5 DEF Reviewed
<1> QED BY <1>2, <1>10, <1>11, <1>12, <1>13, <1>14, <1>15, <1>16, <1>17, <1>18, Handled

\* What a surface is replaced by.
LEMMA WalkOps ==
  ASSUME NEW a \in Agents
  PROVE  /\ For("plan", a).do = "plan" /\ For("plan", a).who = {a}
         /\ Expected("consumer", For("plan", a))
         /\ For("checkscr", a).do = "checkscr" /\ For("checkscr", a).who = {a}
         /\ a = "scr" => Expected("consumer", For("checkscr", a))
         /\ Update("escalate", {}).do = "load" /\ Update("escalate", {}).x = "escalate"
         /\ Expected("consumer", Update("escalate", {}))
         /\ Do("view").do = "view" /\ Expected("consumer", Do("view"))
         /\ \A x \in Arguments :
              /\ Op("next", x, {a}).do = "next" /\ Op("next", x, {a}).who = {a}
              /\ Op("next", x, {a}).x = x /\ Expected("consumer", Op("next", x, {a}))
<1>1. /\ {"plan", "checkscr", "view", "next"} \subseteq Calls /\ "escalate" \in Kinds
      /\ {} \in SUBSET Agents /\ {a} \in SUBSET Agents
  BY DEF Calls, Kinds
<1>2. /\ For("plan", a).do = "plan" /\ For("plan", a).who = {a}
      /\ For("checkscr", a).do = "checkscr" /\ For("checkscr", a).who = {a}
      /\ Update("escalate", {}).do = "load" /\ Update("escalate", {}).x = "escalate"
      /\ Do("view").do = "view"
      /\ \A x \in Arguments :
           /\ Op("next", x, {a}).do = "next" /\ Op("next", x, {a}).who = {a}
           /\ Op("next", x, {a}).x = x
  BY <1>1, Parts
<1>3. \A o : o.do \in {"plan", "next"} /\ o.who = {a} => Expected("consumer", o)
  BY DEF Expected, Walks
<1>4. \A o : o.do = "checkscr" /\ o.who = {"scr"} => Expected("consumer", o)
  BY NamesDistinct DEF Expected, Walks
<1>5. \A o : o.do = "load" /\ o.x = "escalate" => Expected("consumer", o)
  BY DEF Expected, Upd
<1>6. \A o : o.do = "view" => Expected("consumer", o)
  BY DEF Expected
<1> QED BY <1>2, <1>3, <1>4, <1>5, <1>6, ZenonT(60)

\* The consumer reads the surface of the agent that was announced.
LEMMA MineSurfaces ==
  ASSUME IInv, GateInv, Surface("consumer")
  PROVE  GateInv'
<1>1. /\ Handling # <<>> /\ UNCHANGED <<wf, shared, row, topic, position>>
      /\ This("consumer").do = "surface"
  BY Zenon DEF Surface, At, This, stores, bus, Handling
<1>2. PICK a \in This("consumer").who :
        Continue("consumer",
          (IF ~Present(shared[a]) THEN <<>>
           ELSE IF MustEscalate(Mine.view, shared[a])
           THEN <<Update("escalate", {}), Do("view")>> \o Progress(a)
           ELSE IF Mine.view.flow = "fixed" /\ Mine.view.name \in SCR_REQUIRED_WORKFLOWS /\ a = "scr"
           THEN <<For("checkscr", a)>>
           ELSE Progress(a)) \o Rest("consumer"), [Mine EXCEPT !.surface = shared[a]])
  BY Zenon DEF Surface, Mine
<1> DEFINE l == [Mine EXCEPT !.surface = shared[a]]
           new == IF ~Present(shared[a]) THEN <<>>
                  ELSE IF MustEscalate(Mine.view, shared[a])
                  THEN <<Update("escalate", {}), Do("view")>> \o Progress(a)
                  ELSE IF Mine.view.flow = "fixed" /\ Mine.view.name \in SCR_REQUIRED_WORKFLOWS
                          /\ a = "scr"
                  THEN <<For("checkscr", a)>>
                  ELSE Progress(a)
<1>3. Continue("consumer", new \o Rest("consumer"), l)
  BY <1>2
<1>4. /\ Mine \in Locals /\ todo["consumer"] # <<>> /\ Orderly
      /\ This("consumer").do \in Walks /\ Reach(This("consumer")) = 12
  BY <1>1, AtMine, Ranks DEF GateInv, Walks
<1>5. /\ Alike(Mine.view, wf) /\ a \in Agents /\ This("consumer").who = {a}
  BY <1>1, <1>4, AtWalk
<1>6. l.view = Mine.view /\ l.copy = Mine.copy /\ l.surface = shared[a]
  BY <1>4 DEF Locals
<1>7. 1 \in 0..14 /\ 3 \in 0..14 /\ 12 \in 0..14 /\ 12 <= 12 /\ 1 <= 3
  OBVIOUS
<1>8. /\ Span(new, 1, 12)
      /\ OpsOf(new) \subseteq EscalateOps \union {For("plan", a), For("checkscr", a)}
      /\ OpsOf(new) # {} => Present(shared[a])
      /\ Update("escalate", {}) \in OpsOf(new) =>
            MustEscalate(Mine.view, shared[a]) /\ Do("view") \in OpsOf(new)
      /\ For("checkscr", a) \in OpsOf(new) => a = "scr"
  <2>1. CASE ~Present(shared[a])
    <3>1. new = <<>>
      BY <2>1
    <3> HIDE DEF new
    <3> QED BY <3>1, SpanNone
  <2>2. CASE Present(shared[a]) /\ MustEscalate(Mine.view, shared[a])
    <3>1. new = <<Update("escalate", {}), Do("view")>> \o Progress(a)
      BY <2>2
    <3> HIDE DEF new
    <3>2. /\ Span(new, 1, 12) /\ OpsOf(new) = EscalateOps \union {For("plan", a)}
      BY <1>5, <3>1, PlanSpans
    <3>3. For("checkscr", a) \notin OpsOf(new) /\ Do("view") \in OpsOf(new)
      BY <1>5, <3>2, WalkOps DEF EscalateOps
    <3> QED BY <2>2, <3>2, <3>3
  <2>3. CASE /\ Present(shared[a]) /\ ~MustEscalate(Mine.view, shared[a])
             /\ Mine.view.flow = "fixed" /\ Mine.view.name \in SCR_REQUIRED_WORKFLOWS /\ a = "scr"
    <3>1. new = <<For("checkscr", a)>>
      BY <2>3
    <3> HIDE DEF new
    <3>2. Span(new, 3, 12) /\ OpsOf(new) = {For("checkscr", a)}
      BY <1>5, <3>1, PlanSpans
    <3>3. Update("escalate", {}) \notin OpsOf(new)
      BY <1>5, <3>2, WalkOps
    <3> QED BY <1>7, <2>3, <3>2, <3>3, SpanWeaken
  <2>4. CASE /\ Present(shared[a]) /\ ~MustEscalate(Mine.view, shared[a])
             /\ ~(Mine.view.flow = "fixed" /\ Mine.view.name \in SCR_REQUIRED_WORKFLOWS /\ a = "scr")
    <3>1. new = Progress(a)
      BY <2>4
    <3> HIDE DEF new
    <3>2. Span(new, 3, 12) /\ OpsOf(new) = {For("plan", a)}
      BY <1>5, <3>1, PlanSpans
    <3>3. Update("escalate", {}) \notin OpsOf(new) /\ For("checkscr", a) \notin OpsOf(new)
      BY <1>5, <3>2, WalkOps
    <3> QED BY <1>7, <2>4, <3>2, <3>3, SpanWeaken
  <2> QED BY <2>1, <2>2, <2>3, <2>4
<1> HIDE DEF new, l
<1>9. Goes("consumer", OpsOf(new), l)
  BY <1>3, <1>4, <1>7, <1>8, ProcsTyped, GoesSpan
<1> DEFINE N == OpsOf(new)
<1>10. \A o \in N : o = For("plan", a) \/ (o = For("checkscr", a) /\ a = "scr")
                    \/ (o = Update("escalate", {}) /\ MustEscalate(Mine.view, shared[a]) /\ Do("view") \in N)
                    \/ o = Do("view")
  BY <1>8 DEF EscalateOps
<1>11. MustEscalate(Mine.view, shared[a]) => Fixed /\ wf.name \notin SCR_REQUIRED_WORKFLOWS
  BY <1>5 DEF MustEscalate, Alike, Fixed
<1> HIDE DEF N
<1>12. \A o \in N : Expected("consumer", o)
  BY <1>5, <1>10, WalkOps
<1>13. \A o \in N : \/ o.do \in {"checkscr", "plan", "next"} /\ o.who = This("consumer").who
                    \/ o.do = "load" /\ o.x = "escalate"
                    \/ o.do = "view"
  BY <1>5, <1>10, WalkOps
<1>14. \A o \in N : o.do = "load" =>
           Fixed /\ wf.name \notin SCR_REQUIRED_WORKFLOWS /\ \E v \in N : v.do = "view"
  BY <1>5, <1>10, <1>11, WalkOps
<1>15. \A o \in N : o.do # "next"
  BY <1>5, <1>10, WalkOps
<1>16. N # {} => \A b \in This("consumer").who : l.surface = shared[b] /\ Present(shared[b])
  BY <1>5, <1>6, <1>8 DEF N
<1>17. Goes("consumer", N, l)
  BY <1>9 DEF N
<1> QED BY <1>1, <1>4, <1>6, <1>12, <1>13, <1>14, <1>15, <1>16, <1>17, WalkOn

\* SCR has completed whenever the consumer looks.
LEMMA MineChecks ==
  ASSUME IInv, GateInv, CheckScr("consumer")
  PROVE  GateInv'
<1>1. /\ Handling # <<>> /\ UNCHANGED <<wf, shared, row, topic, position>>
      /\ This("consumer").do = "checkscr"
      /\ Continue("consumer", (IF shared["scr"].status = "COMPLETED" THEN Progress("scr")
                               ELSE Fail \o Finalize) \o Rest("consumer"), Mine)
  BY Zenon DEF CheckScr, At, This, stores, bus, Handling, Mine
<1>2. /\ Mine \in Locals /\ todo["consumer"] # <<>> /\ Orderly /\ topic # <<>>
      /\ This("consumer").do \in Walks /\ Reach(This("consumer")) = 12
  BY <1>1, AtMine, Ranks DEF GateInv, Walks
<1>3. /\ This("consumer").who = {"scr"} /\ "scr" \in Agents
      /\ \A a \in This("consumer").who : Mine.surface = shared[a] /\ Present(shared[a])
  BY <1>1, <1>2, AtWalk, NamesDistinct
<1>4. shared["scr"].status = "COMPLETED"
  BY <1>2, <1>3, WithScr
<1>5. Continue("consumer", Progress("scr") \o Rest("consumer"), Mine)
  BY <1>1, <1>4
<1>6. Goes("consumer", {For("plan", "scr")}, Mine)
  <2>1. 12 \in 0..14 /\ 12 <= 12
    OBVIOUS
  <2>2. Span(Progress("scr"), 3, 12) /\ OpsOf(Progress("scr")) = {For("plan", "scr")}
    BY <1>3, PlanSpans
  <2>3. Goes("consumer", OpsOf(Progress("scr")), Mine)
    BY <1>2, <1>5, <2>1, <2>2, ProcsTyped, GoesSpan
  <2> QED BY <2>2, <2>3
<1> DEFINE N == {For("plan", "scr")}
<1>7. \A o \in N : Expected("consumer", o) /\ o.do = "plan" /\ o.who = This("consumer").who
  BY <1>3, WalkOps, ZenonT(60)
<1>8. Goes("consumer", N, Mine)
  BY <1>6
<1> HIDE DEF N
<1> QED BY <1>1, <1>2, <1>3, <1>7, <1>8, WalkOn

\* The plan escalates, and is made again.
LEMMA MineEscalates ==
  ASSUME IInv, GateInv, Handling # <<>>, This("consumer").do = "plan",
         NEW a \in This("consumer").who, MustEscalate(Mine.view, Mine.surface),
         UNCHANGED <<wf, shared, row, topic, position>>,
         NEW x \in Arguments, x = "paused" <=> Mine.view.paused,
         Continue("consumer",
                  <<Update("escalate", {}), Do("view"), Op("next", x, {a})>> \o Rest("consumer"),
                  Mine)
  PROVE  GateInv'
<1> DEFINE new == <<Update("escalate", {}), Do("view"), Op("next", x, {a})>>
           N == EscalateOps \union {Op("next", x, {a})}
<1>1. /\ todo["consumer"] # <<>> /\ Orderly
      /\ This("consumer").do \in Walks /\ Reach(This("consumer")) = 12
  BY AtMine, Ranks DEF GateInv, Walks
<1>2. /\ Alike(Mine.view, wf) /\ a \in Agents /\ This("consumer").who = {a}
      /\ \A b \in This("consumer").who : Mine.surface = shared[b] /\ Present(shared[b])
  BY <1>1, AtWalk
<1>3. /\ Update("escalate", {}).do = "load" /\ Update("escalate", {}).x = "escalate"
      /\ Do("view").do = "view"
      /\ Op("next", x, {a}).do = "next" /\ Op("next", x, {a}).who = {a} /\ Op("next", x, {a}).x = x
  BY <1>2, WalkOps
<1>4. Continue("consumer", new \o Rest("consumer"), Mine)
  OBVIOUS
<1>5. Span(new, 1, 12) /\ OpsOf(new) = N
  BY <1>2, PlanSpans
<1> HIDE DEF new
<1>6. Goes("consumer", N, Mine)
  <2>1. 12 \in 0..14 /\ 12 <= 12
    OBVIOUS
  <2>2. Goes("consumer", OpsOf(new), Mine)
    BY <1>1, <1>4, <1>5, <2>1, ProcsTyped, GoesSpan
  <2> QED BY <1>5, <2>2
<1>7. Fixed /\ wf.name \notin SCR_REQUIRED_WORKFLOWS
  BY <1>2 DEF MustEscalate, Alike, Fixed
<1>8. /\ \A o \in N : o = Update("escalate", {}) \/ o = Do("view") \/ o = Op("next", x, {a})
      /\ Update("escalate", {}) \in N /\ Do("view") \in N
  BY DEF EscalateOps
<1> HIDE DEF N
<1>9. \A o \in N : Expected("consumer", o)
  BY <1>2, <1>8, WalkOps, ZenonT(60)
<1>10. \A o \in N : \/ o.do \in {"checkscr", "plan", "next"} /\ o.who = This("consumer").who
                    \/ o.do = "load" /\ o.x = "escalate"
                    \/ o.do = "view"
  BY <1>2, <1>3, <1>8
<1>11. \A o \in N : o.do = "load" =>
           Fixed /\ wf.name \notin SCR_REQUIRED_WORKFLOWS /\ \E v \in N : v.do = "view"
  BY <1>2, <1>7, <1>8, WalkOps
<1>12. \A o \in N : o.do = "next" => ((o.x = "paused") <=> wf.paused) /\ \E u \in N : u.do = "load"
  BY <1>2, <1>3, <1>8 DEF Alike
<1> QED BY <1>1, <1>2, <1>6, <1>9, <1>10, <1>11, <1>12, WalkOn

\* What a plan that names no agent is replaced by.
LEMMA FinishOps ==
  /\ \A o \in FinalOps :
       /\ Expected("consumer", o)
       /\ o.do \in {"scan", "upsert", "verify", "clearscan", "delete", "emit"}
            \/ (o.do = "load" /\ o.x = "complete")
  /\ \A o \in GateOps :
       /\ Expected("consumer", o)
       /\ o.do \in {"scan", "upsert", "verify", "emit"} \/ (o.do = "load" /\ o.x = "pause")
  /\ \E o \in FinalOps : o.do = "scan"
  /\ \E o \in FinalOps : o.do = "upsert"
  /\ \E o \in FinalOps : o.do = "clearscan"
  /\ \E o \in FinalOps : o.do = "delete"
  /\ \E o \in GateOps : o.do = "scan"
  /\ \E o \in GateOps : o.do = "upsert"
<1>1. /\ {"scan", "upsert", "verify", "clearscan", "delete", "emit"} \subseteq Calls
      /\ {"complete", "pause"} \subseteq Kinds /\ {} \in SUBSET Agents
      /\ "workflow.completed" \in Arguments /\ "workflow.human_gate" \in Arguments
  BY Words DEF Calls, Kinds
<1>2. /\ Do("scan").do = "scan" /\ Do("upsert").do = "upsert" /\ Do("verify").do = "verify"
      /\ Do("clearscan").do = "clearscan" /\ Do("delete").do = "delete"
      /\ Op("emit", "workflow.completed", {}).do = "emit"
      /\ Op("emit", "workflow.human_gate", {}).do = "emit"
      /\ Update("complete", {}).do = "load" /\ Update("complete", {}).x = "complete"
      /\ Update("pause", {}).do = "load" /\ Update("pause", {}).x = "pause"
  BY <1>1, Parts
<1>3. /\ \A o : o.do \in {"scan", "upsert", "verify", "clearscan", "delete", "emit"} =>
                  Expected("consumer", o)
      /\ \A o : o.do = "load" /\ o.x \in {"complete", "pause"} => Expected("consumer", o)
  BY DEF Expected, Persists, Upd
<1>4. \A o \in PersistOps : o = Do("scan") \/ o = Do("upsert") \/ o = Do("verify")
  BY DEF PersistOps
<1>5. \A o \in FinalOps :
        \/ o \in PersistOps \/ o = Do("clearscan") \/ o = Do("delete")
        \/ o = Op("emit", "workflow.completed", {}) \/ o = Update("complete", {})
  BY DEF FinalOps
<1>6. \A o \in GateOps :
        \/ o \in PersistOps \/ o = Op("emit", "workflow.human_gate", {}) \/ o = Update("pause", {})
  BY DEF GateOps
<1>7. /\ Do("scan") \in FinalOps /\ Do("upsert") \in FinalOps
      /\ Do("clearscan") \in FinalOps /\ Do("delete") \in FinalOps
      /\ Do("scan") \in GateOps /\ Do("upsert") \in GateOps
  BY DEF FinalOps, GateOps, PersistOps
<1>8. \A o \in FinalOps : o.do \in {"scan", "upsert", "verify", "clearscan", "delete", "emit"}
            \/ (o.do = "load" /\ o.x = "complete")
  BY <1>2, <1>4, <1>5
<1>9. \A o \in GateOps : o.do \in {"scan", "upsert", "verify", "emit"}
            \/ (o.do = "load" /\ o.x = "pause")
  BY <1>2, <1>4, <1>6
<1>10. /\ \A o \in FinalOps : Expected("consumer", o)
       /\ \A o \in GateOps : Expected("consumer", o)
  BY <1>3, <1>8, <1>9
<1>11. /\ \E o \in FinalOps : o.do = "scan"
       /\ \E o \in FinalOps : o.do = "upsert"
       /\ \E o \in FinalOps : o.do = "clearscan"
       /\ \E o \in FinalOps : o.do = "delete"
       /\ \E o \in GateOps : o.do = "scan"
       /\ \E o \in GateOps : o.do = "upsert"
  BY <1>2, <1>7
<1> QED BY <1>8, <1>9, <1>10, <1>11

\* A plan that names no agent follows the report, or the last step's event.
LEMMA Concluding ==
  ASSUME IInv, GateInv, Handling # <<>>, This("consumer").do \in {"plan", "next"},
         NEW a \in This("consumer").who, NextAgents(a, Mine.view, Mine.surface) = {}
  PROVE  /\ ~Advances(Mine.view)
         /\ a = "reporting" /\ Mine.surface.human => shared["reporting"].human
         /\ ~(a = "reporting" /\ Mine.surface.human) => ~shared["reporting"].human
         /\ ~shared["reporting"].human /\ Ordinary => Finished(shared)
<1> DEFINE s == Mine.view
           o == Mine.surface
<1>1. /\ This("consumer").do \in Walks /\ This("consumer").do # "surface" /\ topic # <<>>
      /\ Mine \in Locals
  BY AtMine DEF Walks
<1>2. /\ Alike(s, wf) /\ a \in Agents /\ This("consumer").who = {a}
      /\ o = shared[a] /\ Present(shared[a])
      /\ Fixed => a \in Def[wf.step]
      /\ Ordinary /\ ~Cleared /\ ~wf.paused =>
           \A b \in This("consumer").who : wf.agents[b] = "DONE" /\ s.agents[b] = "DONE"
  BY <1>1, AtWalk
<1>3. ~Cleared
  BY <1>1, <1>2, WithScr
<1>4. s \in WorkflowState /\ wf \in WorkflowState
  BY <1>1 DEF Locals, IInv, StoresOK
<1>5. /\ wf.name \in AllNames /\ wf.step \in 1..Len(Def) /\ Len(Def) \in 2..4
      /\ Def = WORKFLOW_DEFINITIONS[wf.name] /\ Def = WORKFLOW_DEFINITIONS[s.name]
  BY <1>2, MyPlan DEF Alike
<1> HIDE DEF s, o
<1>6. /\ \A i \in 1..Len(Def) :
           /\ "reporting" \in Def[i] <=> i = Len(Def)
           /\ Def[i] = Dynamic \/ \E b \in Agents : Def[i] = {b}
      /\ Def[Len(Def)] = {"reporting"}
      /\ wf.name \in SCR_REQUIRED_WORKFLOWS =>
           \A i \in 1..Len(Def) : Def[i] \intersect Dynamic = {}
  <2> DEFINE W == WORKFLOW_DEFINITIONS[wf.name]
  <2>1. \A i \in 1..Len(W) : "reporting" \in W[i] <=> i = Len(W)
    BY <1>5, Plans
  <2>2. \A i \in 1..Len(W) : W[i] = Dynamic \/ \E b \in Agents : W[i] = {b}
    BY <1>5, Plans
  <2>3. W[Len(W)] = {"reporting"}
    BY <1>5, Plans
  <2>4. wf.name \in SCR_REQUIRED_WORKFLOWS => \A i \in 1..Len(W) : W[i] \intersect Dynamic = {}
    BY <1>5, Plans
  <2> QED BY <1>5, <2>1, <2>2, <2>3, <2>4
<1>7. s.flow = wf.flow /\ s.step = wf.step /\ s.name = wf.name /\ wf.flow \in {"fixed", "dynamic"}
  BY <1>2, <1>4 DEF Alike, WorkflowState
<1>8. ~Advances(s)
  <2> SUFFICES ASSUME Advances(s) PROVE FALSE
    OBVIOUS
  <2>1. s.flow = "fixed" /\ s.step < Len(Def)
    BY <1>5 DEF Advances
  <2>2. NextAgents(a, s, o) = Def[s.step + 1]
    BY <1>5, <2>1 DEF NextAgents
  <2>3. s.step + 1 \in 1..Len(Def)
    BY <1>5, <1>7, <2>1
  <2>4. Def[s.step + 1] # {}
    BY <1>6, <2>3 DEF Dynamic
  <2> QED BY <2>2, <2>4 DEF s, o
<1>9. ~Fixed => a = "reporting"
  <2> SUFFICES ASSUME wf.flow = "dynamic", a # "reporting" PROVE FALSE
    BY <1>7 DEF Fixed
  <2>1. Evaluate(a, s, o) = {}
    BY <1>7 DEF NextAgents, s, o
  <2>2. a = "scr" \/ a = "cma" \/ a \in Dynamic
    BY <1>2 DEF Agents
  <2> QED BY <1>7, <2>1, <2>2 DEF Evaluate, Dynamic
<1>10. /\ Fixed /\ shared["reporting"].human => wf.step = Len(Def)
       /\ wf.paused => shared["reporting"].human
       /\ Ordinary => \A i \in 1..wf.step - 1 : \A b \in Def[i] : shared[b].status = "COMPLETED"
       /\ \A b \in Agents \ {"scr"} : Present(shared[b]) => shared[b].status = "COMPLETED"
  BY <1>3 DEF GateInv, InStep, Waiting, Reviewed, Outputs
<1>11. shared["reporting"].human => a = "reporting"
  <2> SUFFICES ASSUME Fixed, shared["reporting"].human PROVE a = "reporting"
    BY <1>9
  <2>1. Def[wf.step] = {"reporting"}
    BY <1>6, <1>10
  <2> QED BY <1>2, <2>1
<1>12. ASSUME ~shared["reporting"].human, Ordinary
       PROVE  Finished(shared)
  <2>1. ~wf.paused /\ Fixed /\ wf.name \in SCR_REQUIRED_WORKFLOWS
    BY <1>10, <1>12 DEF Ordinary
  <2>2. s.agents[a] = "DONE"
    BY <1>2, <1>3, <1>12, <2>1
  <2>3. Def[wf.step] = {a}
    <3>1. Def[wf.step] = Dynamic \/ \E b \in Agents : Def[wf.step] = {b}
      BY <1>5, <1>6
    <3>2. a \in Def[wf.step] /\ Def[wf.step] \intersect Dynamic = {}
      BY <1>2, <1>5, <1>6, <2>1
    <3> QED BY <3>1, <3>2 
  <2>4. ~(s.step < Len(Def))
    <3>1. s.flow = "fixed"
      BY <1>7, <2>1 DEF Fixed
    <3>2. \A b \in Def[s.step] : s.agents[b] \in {"DONE", "FAILED"}
      BY <1>7, <2>2, <2>3
    <3> QED BY <1>5, <1>8, <3>1, <3>2 DEF Advances
  <2>5. wf.step = Len(Def) /\ a = "reporting"
    <3>1. wf.step = Len(Def)
      BY <1>5, <1>7, <2>4
    <3> QED BY <1>6, <2>3, <3>1
  <2>6. shared["reporting"].status = "COMPLETED"
    <3>1. "reporting" \in Agents \ {"scr"}
      BY DEF Agents
    <3> QED BY <1>2, <1>10, <2>5, <3>1
  <2>7. ASSUME NEW i \in 1..Len(Def), NEW b \in Def[i]
        PROVE  shared[b].status = "COMPLETED"
    <3>1. CASE i = Len(Def)
      BY <1>6, <2>6, <2>7, <3>1
    <3>2. CASE i # Len(Def)
      <4>1. i \in 1..wf.step - 1
        BY <1>5, <2>5, <2>7, <3>2
      <4> QED BY <1>10, <1>12, <2>7, <4>1
    <3> QED BY <3>1, <3>2
  <2>8. DOMAIN Def = 1..Len(Def)
    BY <1>5, DefinitionsTyped
  <2>9. Team = UNION {Def[i] : i \in 1..Len(Def)}
    BY <1>5, <2>8 DEF Team
  <2> QED BY <2>7, <2>9 DEF Finished
<1>13. o.human => (a = "reporting" => shared["reporting"].human)
  BY <1>2
<1>14. shared["reporting"].human => a = "reporting" /\ o.human
  BY <1>2, <1>11
<1> QED BY <1>8, <1>12, <1>13, <1>14 DEF s, o

\* The plan names no agent: the outputs are persisted, for a human or for good.
LEMMA MineConcludes ==
  ASSUME IInv, GateInv, Handling # <<>>, This("consumer").do \in {"plan", "next"},
         NEW a \in This("consumer").who, NextAgents(a, Mine.view, Mine.surface) = {},
         NEW N, N = (IF a = "reporting" /\ Mine.surface.human THEN GateOps ELSE FinalOps),
         NEW l, Goes("consumer", N, l), UNCHANGED <<wf, shared, row, topic, position>>,
         Completed(l.view) => Completed(Mine.view), Rested(Mine.view) => Rested(l.view),
         l.copy = Mine.copy
  PROVE  GateInv'
<1>1. /\ This("consumer").do \in Walks /\ This("consumer").do # "surface" /\ topic # <<>>
  BY AtMine DEF Walks
<1>2. /\ \A o \in OpsOf(Handling) \ {This("consumer")} : o.do = "commit"
      /\ Has(Handling, Walks \union {"view", "saveview", "gather"})
      /\ a \in Agents /\ Present(shared[a])
  BY <1>1, AtWalk
<1>3. Present(shared["scr"])
  BY <1>1, <1>2, WithScr
<1>4. /\ a = "reporting" /\ Mine.surface.human => shared["reporting"].human
      /\ ~(a = "reporting" /\ Mine.surface.human) => ~shared["reporting"].human
      /\ ~shared["reporting"].human /\ Ordinary => Finished(shared)
  BY Concluding
<1>5. /\ OpsOf(Handling') = N \union (OpsOf(Handling) \ {This("consumer")})
      /\ \A q \in Procs : q # "consumer" => todo'[q] = todo[q] /\ local'[q] = local[q]
  BY MineMoves
<1>6. \A o \in OpsOf(Handling') : o \in N \/ o.do = "commit"
  BY <1>2, <1>5
<1>7. /\ \A o \in N : Expected("consumer", o)
      /\ \A o \in N : \/ o.do \in {"scan", "upsert", "verify", "clearscan", "delete", "emit"}
                      \/ o.do = "load" /\ o.x \in {"pause", "complete"}
      /\ \E o \in N : o.do = "scan"
      /\ \E o \in N : o.do = "upsert"
      /\ (\E o \in N : o.do = "delete") =>
           N = FinalOps /\ \E o \in N : o.do = "clearscan"
      /\ (\E o \in N : o.do = "load" /\ o.x = "complete") =>
           N = FinalOps /\ \E o \in N : o.do = "delete"
      /\ (\E o \in N : o.do = "load" /\ o.x = "pause") => N = GateOps
  <2>1. CASE N = FinalOps
    <3>1. \A o \in N : ~(o.do = "load" /\ o.x = "pause")
      BY <2>1, FinishOps
    <3> QED BY <2>1, <3>1, FinishOps
  <2>2. CASE N = GateOps
    <3>1. \A o \in N : o.do # "delete" /\ ~(o.do = "load" /\ o.x = "complete")
      BY <2>2, FinishOps
    <3> QED BY <2>2, <3>1, FinishOps
  <2> QED BY <2>1, <2>2
<1>8. /\ ~((\E o \in N : o.do = "load" /\ o.x = "pause") /\ \E o \in N : o.do = "delete")
      /\ (\E o \in N : o.do = "load" /\ o.x = "pause") => shared["reporting"].human
      /\ (\E o \in N : o.do = "delete") => ~shared["reporting"].human
  <2>1. FinalOps # GateOps
    BY FinishOps
  <2> QED BY <1>4, <1>7, <2>1
<1>9. \A o \in OpsOf(Handling') : \/ o.do \in {"scan", "upsert", "verify", "clearscan", "delete",
                                             "emit", "commit"}
                                  \/ o.do = "load" /\ o.x \in {"pause", "complete"}
  BY <1>6, <1>7
<1>10. /\ wf' = wf /\ shared' = shared /\ row' = row /\ topic' = topic /\ position' = position
  OBVIOUS
<1>11. /\ Def' = Def /\ Fixed' = Fixed /\ Ordinary' = Ordinary /\ Cleared' = Cleared
       /\ Closed' = Closed /\ Finished(shared)' = Finished(shared)
  BY <1>10 DEF Def, Fixed, Ordinary, Cleared, Closed, Finished, Team
<1>12. /\ ~Has(Handling', {"read"}) /\ Has(Handling', {"scan", "read"}) /\ Has(Handling', {"upsert"})
       /\ Has(Handling', {"delete"}) => Has(Handling', {"clearscan"})
       /\ Will(Handling', {"complete"}) => Has(Handling', {"delete"})
       /\ Will(Handling', {"pause"}) => shared["reporting"].human
       /\ Has(Handling', {"delete"}) => ~shared["reporting"].human
       /\ ~Has(Handling', {"gather", "await"}) /\ ~Has(Handling', {"save"})
       /\ ~Has(Handling', {"saveview"}) /\ ~Will(Handling', {"done"})
       /\ ~Has(Handling', Walks) /\ ~Will(Handling', {"escalate"})
  <2>1. /\ ~Has(Handling', {"read"}) /\ ~Has(Handling', {"gather", "await"})
        /\ ~Has(Handling', {"save"}) /\ ~Has(Handling', {"saveview"})
        /\ ~Will(Handling', {"done"}) /\ ~Has(Handling', Walks) /\ ~Will(Handling', {"escalate"})
    BY <1>9 DEF Has, Will, Upd, Walks
  <2>2. Has(Handling', {"scan", "read"}) /\ Has(Handling', {"upsert"})
    BY <1>5, <1>7 DEF Has
  <2>3. Has(Handling', {"delete"}) => \E o \in N : o.do = "delete"
    BY <1>6 DEF Has
  <2>4. (\E o \in N : o.do = "clearscan") => Has(Handling', {"clearscan"})
    BY <1>5 DEF Has
  <2>5. (\E o \in N : o.do = "delete") => Has(Handling', {"delete"})
    BY <1>5 DEF Has
  <2>6. Will(Handling', {"complete"}) => \E o \in N : o.do = "load" /\ o.x = "complete"
    BY <1>6, <1>9 DEF Will, Upd
  <2>7. Will(Handling', {"pause"}) => \E o \in N : o.do = "load" /\ o.x = "pause"
    BY <1>6, <1>9 DEF Will, Upd
  <2> QED BY <1>7, <1>8, <2>1, <2>2, <2>3, <2>4, <2>5, <2>6, <2>7
<1>13. Surfaced'
  <2>1. \A o \in OpsOf(Handling') : o.do \notin {"checkscr", "plan", "next"}
    BY <1>9
  <2> QED BY <2>1 DEF Surfaced
<1>14. Snapped'
  BY <1>12 DEF Snapped
<1>15. Decided'
  BY <1>4, <1>10, <1>11, <1>12 DEF Decided
<1>16. Held'
  <2>1. Held
    BY DEF GateInv
  <2>2. /\ Completed(wf) => Closed
        /\ Rested(wf)
        /\ Completed(Mine.view) \/ Completed(Mine.copy) => Closed
        /\ Rested(Mine.view) /\ Rested(Mine.copy)
    BY <2>1, ProcsTyped DEF Held, Mine
  <2> QED BY <1>10, <1>11, <2>1, <2>2, HeldMoves
<1>17. Waiting'
  <2>1. Waiting
    BY DEF GateInv
  <2> QED BY <1>5, <1>10, <1>12, <2>1, ProcsTyped, NamesDistinct DEF Waiting
<1>18. Records'
  <2>1. \A p \in Procs : Has(todo'[p], {"save"}) => Alike(local'[p].copy, wf')
    BY <1>10, <1>12, SavesMove DEF GateInv
  <2>2. \A o \in OpsOf(Handling') : o.do # "next"
    BY <1>9
  <2> QED BY <1>12, <2>1, <2>2, Zenon DEF Records
<1>19. InStep'
  <2>1. InStep
    BY DEF GateInv
  <2>2. \A o \in OpsOf(Handling') : o.do \notin Walks \union {"await"} /\ o.do # "gather"
    BY <1>9 DEF Walks
  <2> QED BY <1>10, <1>11, <1>12, <2>1, <2>2 DEF InStep
<1>20. OneToken'
  BY <1>2, <1>10, <1>11 DEF GateInv, OneToken
<1>21. Reviewed'
  <2>1. Ordinary /\ ~Cleared =>
          \A i \in 1..wf.step - 1 : \A b \in Def[i] : shared[b].status = "COMPLETED"
    BY DEF GateInv, Reviewed
  <2>2. \A o \in OpsOf(Handling') : o.do \notin Walks
    BY <1>9 DEF Walks
  <2> QED BY <1>10, <1>11, <2>1, <2>2 DEF Reviewed
<1> QED BY <1>1, <1>3, <1>7, <1>13, <1>14, <1>15, <1>16, <1>17, <1>18, <1>19, <1>20, <1>21, Handled

\* The step of a fixed flow is over: its one agent's output is there, and in a
\* workflow that goes dynamic it is the first step.
LEMMA Advancing ==
  ASSUME IInv, GateInv, Handling # <<>>, This("consumer").do \in {"plan", "next"},
         NEW a \in This("consumer").who, Advances(Mine.view),
         ~(This("consumer").do = "plan" /\ MustEscalate(Mine.view, Mine.surface))
  PROVE  /\ Fixed /\ ~wf.paused /\ Mine.view.step = wf.step /\ wf.step < Len(Def)
         /\ wf.name \notin SCR_REQUIRED_WORKFLOWS => wf.step = 1
         /\ \A b \in Def[wf.step] : Present(shared[b])
         /\ NextAgents(a, Mine.view, Mine.surface) = Def[wf.step + 1]
<1> DEFINE s == Mine.view
           o == Mine.surface
<1>1. /\ This("consumer").do \in Walks /\ This("consumer").do # "surface"
      /\ Mine \in Locals
  BY AtMine DEF Walks
<1>2. /\ Alike(s, wf) /\ a \in Agents /\ This("consumer").who = {a}
      /\ o = shared[a] /\ Present(shared[a])
      /\ Fixed => a \in Def[wf.step]
      /\ This("consumer").do = "next" => ~Fixed
  BY <1>1, AtWalk
<1>3. s \in WorkflowState /\ wf \in WorkflowState
  BY <1>1 DEF Locals, IInv, StoresOK
<1>4. /\ wf.name \in AllNames /\ wf.step \in 1..Len(Def) /\ Len(Def) \in 2..4
      /\ Def = WORKFLOW_DEFINITIONS[wf.name] /\ Def = WORKFLOW_DEFINITIONS[s.name]
  BY <1>2, MyPlan DEF Alike
<1>5. Advances(s) /\ ~(This("consumer").do = "plan" /\ MustEscalate(s, o))
  OBVIOUS
<1> HIDE DEF s, o
<1>6. s.flow = wf.flow /\ s.step = wf.step /\ s.name = wf.name
  BY <1>2 DEF Alike
<1>7. Fixed /\ wf.step < Len(Def)
  BY <1>4, <1>5, <1>6 DEF Advances, Fixed
<1>8. ~wf.paused
  <2>1. wf.paused => wf.step = Len(Def)
    BY <1>7 DEF GateInv, InStep
  <2> QED BY <1>4, <1>7, <2>1
<1>9. ~MustEscalate(s, o)
  BY <1>1, <1>2, <1>5, <1>7
<1>10. wf.name \notin SCR_REQUIRED_WORKFLOWS => wf.step = 1
  <2> SUFFICES ASSUME wf.name \notin SCR_REQUIRED_WORKFLOWS, wf.step # 1 PROVE FALSE
    OBVIOUS
  <2>1. wf.step <= 2
    BY <1>7 DEF GateInv, InStep
  <2>2. wf.step = 2
    BY <1>4, <2>1
  <2>3. Def[2] = Dynamic
    <3>1. WORKFLOW_DEFINITIONS[wf.name][2] = Dynamic
      BY <1>4, Plans
    <3> QED BY <1>4, <3>1
  <2>4. a \in Dynamic
    BY <1>2, <1>7, <2>2, <2>3
  <2>5. o.level = "correlated"
    BY <1>2, <2>4 DEF GateInv, Outputs
  <2> QED BY <1>6, <1>7, <1>9, <2>5 DEF MustEscalate, Escalates, Fixed
<1>11. ASSUME NEW b \in Def[wf.step] PROVE Present(shared[b])
  <2> DEFINE W == WORKFLOW_DEFINITIONS[wf.name]
  <2>1. \A i \in 1..Len(W) : W[i] = Dynamic \/ \E c \in Agents : W[i] = {c}
    BY <1>4, Plans
  <2>2. wf.name \in SCR_REQUIRED_WORKFLOWS => \A i \in 1..Len(W) : W[i] \intersect Dynamic = {}
    BY <1>4, Plans
  <2>3. W[1] = {"scr"}
    BY <1>4, Plans
  <2>4. a \in Def[wf.step]
    BY <1>2, <1>7
  <2>5. Def[wf.step] = {a}
    <3>1. CASE wf.name \in SCR_REQUIRED_WORKFLOWS
      <4>1. Def[wf.step] \intersect Dynamic = {}
        BY <1>4, <2>2, <3>1
      <4>2. Def[wf.step] = Dynamic \/ \E c \in Agents : Def[wf.step] = {c}
        BY <1>4, <2>1
      <4> QED BY <2>4, <4>1, <4>2
    <3>2. CASE wf.name \notin SCR_REQUIRED_WORKFLOWS
      BY <1>4, <1>10, <2>3, <2>4, <3>2
    <3> QED BY <3>1, <3>2
  <2> QED BY <1>2, <1>11, <2>5
<1>12. NextAgents(a, s, o) = Def[wf.step + 1]
  <2>1. s.flow # "dynamic"
    BY <1>6, <1>7 DEF Fixed
  <2> QED BY <1>4, <1>5, <1>6, <2>1 DEF NextAgents
<1> QED BY <1>6, <1>7, <1>8, <1>10, <1>11, <1>12 DEF s, o

\* The plan names agents: the record goes on by a step and they are triggered.
LEMMA MineProceeds ==
  ASSUME IInv, GateInv, Handling # <<>>, This("consumer").do \in {"plan", "next"},
         NEW a \in This("consumer").who,
         ~(This("consumer").do = "plan" /\ MustEscalate(Mine.view, Mine.surface)),
         NEW who \in SUBSET Agents, who = NextAgents(a, Mine.view, Mine.surface), who # {},
         NEW N, N = (IF Advances(Mine.view) THEN {Do("saveview")} ELSE {})
                      \union (IF wf.paused THEN {} ELSE {About("gather", who)}),
         NEW l, Goes("consumer", N, l), UNCHANGED <<wf, shared, row, topic, position>>,
         Completed(l.view) => Completed(Mine.view), Rested(Mine.view) => Rested(l.view),
         l.copy = Mine.copy, l.view.name = Mine.view.name, l.view.flow = Mine.view.flow,
         l.view.paused = Mine.view.paused,
         Advances(Mine.view) => l.view.step = Mine.view.step + 1
  PROVE  GateInv'
<1>1. /\ This("consumer").do \in Walks /\ This("consumer").do # "surface" /\ topic # <<>>
      /\ Mine \in Locals
  BY AtMine DEF Walks
<1>2. /\ \A o \in OpsOf(Handling) \ {This("consumer")} : o.do = "commit"
      /\ Has(Handling, Walks \union {"view", "saveview", "gather"})
      /\ a \in Agents /\ Present(shared[a])
      /\ Mine.view.name = wf.name /\ Mine.view.flow = wf.flow /\ Mine.view.paused = wf.paused
  BY <1>1, AtWalk DEF Alike
<1>3. Present(shared["scr"])
  BY <1>1, <1>2, WithScr
<1>4. Advances(Mine.view) =>
        /\ Fixed /\ ~wf.paused /\ Mine.view.step = wf.step /\ wf.step < Len(Def)
        /\ wf.name \notin SCR_REQUIRED_WORKFLOWS => wf.step = 1
        /\ \A b \in Def[wf.step] : Present(shared[b])
        /\ who = Def[wf.step + 1]
  BY Advancing
<1>5. ~Advances(Mine.view) => ~Fixed
  BY <1>2 DEF NextAgents, Fixed
<1>6. /\ OpsOf(Handling') = N \union (OpsOf(Handling) \ {This("consumer")})
      /\ Has(Handling', {"saveview"}) => Mine' = l
      /\ \A q \in Procs : q # "consumer" => todo'[q] = todo[q] /\ local'[q] = local[q]
  BY MineMoves
<1>7. /\ Do("saveview").do = "saveview"
      /\ About("gather", who).do = "gather" /\ About("gather", who).who = who
  <2>1. "saveview" \in Calls /\ "gather" \in Calls
    BY DEF Calls
  <2> QED BY <2>1, Parts, AboutParts
<1>8. \A o \in N : \/ o = Do("saveview") /\ Advances(Mine.view)
                   \/ o = About("gather", who) /\ ~wf.paused
  OBVIOUS
<1>9. \A o \in N : \/ o.do = "saveview" /\ Advances(Mine.view)
                   \/ o.do = "gather" /\ o.who = who /\ ~wf.paused
  BY <1>7, <1>8
<1>10. \A o \in OpsOf(Handling') : o \in N \/ o.do = "commit"
  BY <1>2, <1>6
<1>11. Advances(Mine.view) => Has(Handling', {"saveview"})
  BY <1>6, <1>7 DEF Has
<1>12. \A o \in N : Expected("consumer", o)
  BY <1>9 DEF Expected
<1>13. \A o \in OpsOf(Handling') : \/ o.do = "saveview" /\ Advances(Mine.view)
                                   \/ o.do = "gather" /\ o.who = who /\ ~wf.paused
                                   \/ o.do = "commit"
  BY <1>9, <1>10
<1>14. /\ wf' = wf /\ shared' = shared /\ row' = row /\ topic' = topic /\ position' = position
  OBVIOUS
<1>15. /\ Def' = Def /\ Fixed' = Fixed /\ Ordinary' = Ordinary /\ Cleared' = Cleared
       /\ Closed' = Closed
  BY <1>14 DEF Def, Fixed, Ordinary, Cleared, Closed, Finished, Team
<1>16. /\ ~Has(Handling', {"read"}) /\ ~Has(Handling', {"scan", "read"})
       /\ ~Has(Handling', {"upsert"}) /\ ~Has(Handling', {"verify"})
       /\ ~Has(Handling', {"delete"}) /\ ~Will(Handling', {"complete"})
       /\ ~Will(Handling', {"pause"}) /\ ~Has(Handling', {"view", "await"})
       /\ wf.paused => ~Has(Handling', {"gather", "await"})
       /\ ~Has(Handling', {"save"}) /\ ~Will(Handling', {"done"})
       /\ ~Has(Handling', Walks) /\ ~Will(Handling', {"escalate"})
       /\ Has(Handling', {"saveview"}) => Advances(Mine.view)
  BY <1>13 DEF Has, Will, Upd, Walks
<1>17. Surfaced'
  <2>1. \A o \in OpsOf(Handling') : o.do \notin {"checkscr", "plan", "next"}
    BY <1>13
  <2> QED BY <2>1 DEF Surfaced
<1>18. Snapped' /\ Decided'
  BY <1>16 DEF Snapped, Decided
<1>19. Held'
  <2>1. Held
    BY DEF GateInv
  <2>2. /\ Completed(wf) => Closed
        /\ Rested(wf)
        /\ Completed(Mine.view) \/ Completed(Mine.copy) => Closed
        /\ Rested(Mine.view) /\ Rested(Mine.copy)
    BY <2>1, ProcsTyped DEF Held, Mine
  <2> QED BY <1>14, <1>15, <2>1, <2>2, HeldMoves
<1>20. Waiting'
  <2>1. Waiting
    BY DEF GateInv
  <2> QED BY <1>6, <1>14, <1>16, <2>1, ProcsTyped, NamesDistinct DEF Waiting
<1>21. Records'
  <2>1. \A p \in Procs : Has(todo'[p], {"save"}) => Alike(local'[p].copy, wf')
    BY <1>14, <1>16, SavesMove DEF GateInv
  <2>2. \A o \in OpsOf(Handling') : o.do # "next"
    BY <1>13
  <2>3. Has(Handling', {"saveview"}) =>
       /\ ~Has(Handling', {"view", "await"})
       /\ Fixed /\ ~wf.paused /\ ~Mine'.view.paused
       /\ Mine'.view.name = wf.name /\ Mine'.view.flow = wf.flow /\ Mine'.view.step = wf.step + 1
       /\ wf.name \notin SCR_REQUIRED_WORKFLOWS => wf.step = 1
       /\ \A b \in Def[wf.step] : Present(shared[b])
    BY <1>2, <1>4, <1>6, <1>16
  <2> QED BY <1>14, <1>15, <1>16, <2>1, <2>2, <2>3, Zenon DEF Records
<1>22. InStep'
  <2>1. InStep
    BY DEF GateInv
  <2>2. \A o \in OpsOf(Handling') : o.do \notin Walks \union {"await"}
    BY <1>13 DEF Walks
  <2>3. Fixed => \A o \in OpsOf(Handling') : o.do = "gather" =>
          o.who \subseteq Def[IF Has(Handling', {"saveview"}) THEN wf.step + 1 ELSE wf.step]
    BY <1>4, <1>5, <1>11, <1>13
  <2> QED BY <1>14, <1>15, <1>16, <2>1, <2>2, <2>3 DEF InStep
<1>23. OneToken'
  BY <1>2, <1>14, <1>15 DEF GateInv, OneToken
<1>24. Reviewed'
  <2>1. Ordinary /\ ~Cleared =>
          \A i \in 1..wf.step - 1 : \A b \in Def[i] : shared[b].status = "COMPLETED"
    BY DEF GateInv, Reviewed
  <2>2. \A o \in OpsOf(Handling') : o.do \notin Walks
    BY <1>13 DEF Walks
  <2> QED BY <1>14, <1>15, <2>1, <2>2 DEF Reviewed
<1> QED BY <1>1, <1>3, <1>12, <1>17, <1>18, <1>19, <1>20, <1>21, <1>22, <1>23, <1>24, Handled

\* What a plan comes to.
LEMMA MinePlan ==
  ASSUME IInv, GateInv, Plan("consumer")
  PROVE  /\ Handling # <<>> /\ UNCHANGED <<wf, shared, row, topic, position>>
         /\ This("consumer").do \in {"plan", "next"}
         /\ \E a \in This("consumer").who :
              \/ /\ This("consumer").do = "plan" /\ MustEscalate(Mine.view, Mine.surface)
                 /\ \E x \in Arguments :
                      /\ x = "paused" <=> Mine.view.paused
                      /\ Continue("consumer",
                           <<Update("escalate", {}), Do("view"), Op("next", x, {a})>>
                             \o Rest("consumer"), Mine)
              \/ /\ ~(This("consumer").do = "plan" /\ MustEscalate(Mine.view, Mine.surface))
                 /\ Continue("consumer",
                      Progression(a, Mine.view, Mine.surface, wf.paused) \o Rest("consumer"),
                      [Mine EXCEPT !.view.step = IF Advances(Mine.view) THEN @ + 1 ELSE @])
<1>1. /\ Handling # <<>> /\ UNCHANGED <<wf, shared, row, topic, position>>
      /\ This("consumer").do \in {"plan", "next"}
      /\ At("consumer", "plan") <=> This("consumer").do = "plan"
  BY Zenon DEF Plan, At, This, stores, bus, Handling
<1> DEFINE paused == IF At("consumer", "plan") THEN Mine.view.paused
                     ELSE This("consumer").x = "paused"
<1>2. paused = wf.paused
  <2>1. /\ Alike(Mine.view, wf)
        /\ This("consumer").do = "next" => ((This("consumer").x = "paused") <=> wf.paused)
    BY <1>1, AtWalk DEF Walks
  <2>2. Mine.view.paused = wf.paused
    BY <2>1 DEF Alike
  <2>3. wf.paused \in BOOLEAN
    BY DEF IInv, StoresOK, WorkflowState
  <2> QED BY <1>1, <2>1, <2>2, <2>3
<1>3. PICK a \in This("consumer").who :
        IF At("consumer", "plan") /\ MustEscalate(Mine.view, Mine.surface)
        THEN Continue("consumer", <<Update("escalate", {}), Do("view"),
                                    Op("next", IF paused THEN "paused" ELSE "", {a})>>
                                  \o Rest("consumer"), Mine)
        ELSE Continue("consumer",
                      Progression(a, Mine.view, Mine.surface, paused) \o Rest("consumer"),
                      [Mine EXCEPT !.view.step = IF Advances(Mine.view) THEN @ + 1 ELSE @])
  BY Zenon DEF Plan, Mine
<1>4. CASE At("consumer", "plan") /\ MustEscalate(Mine.view, Mine.surface)
  <2> DEFINE x == IF paused THEN "paused" ELSE ""
  <2>1. x \in Arguments /\ (x = "paused" <=> paused)
    BY Zenon DEF Arguments
  <2>2. Continue("consumer", <<Update("escalate", {}), Do("view"), Op("next", x, {a})>>
                               \o Rest("consumer"), Mine)
    BY <1>3, <1>4, Zenon
  <2> HIDE DEF x
  <2>3. paused <=> Mine.view.paused
    BY <1>4
  <2> HIDE DEF paused
  <2> QED BY <1>1, <1>2, <1>4, <2>1, <2>2, <2>3, Zenon
<1>5. CASE ~(At("consumer", "plan") /\ MustEscalate(Mine.view, Mine.surface))
  <2>1. Continue("consumer",
                 Progression(a, Mine.view, Mine.surface, paused) \o Rest("consumer"),
                 [Mine EXCEPT !.view.step = IF Advances(Mine.view) THEN @ + 1 ELSE @])
    BY <1>2, <1>3, <1>5, Zenon
  <2> HIDE DEF paused
  <2> QED BY <1>1, <1>2, <1>5, <2>1, Zenon
<1> QED BY <1>4, <1>5

\* The plan is carried out.
LEMMA MinePlans ==
  ASSUME IInv, GateInv, Plan("consumer")
  PROVE  GateInv'
<1>1. /\ Handling # <<>> /\ UNCHANGED <<wf, shared, row, topic, position>>
      /\ This("consumer").do \in {"plan", "next"}
  BY MinePlan
<1>2. PICK a \in This("consumer").who :
        \/ /\ This("consumer").do = "plan" /\ MustEscalate(Mine.view, Mine.surface)
           /\ \E x \in Arguments :
                /\ x = "paused" <=> Mine.view.paused
                /\ Continue("consumer",
                     <<Update("escalate", {}), Do("view"), Op("next", x, {a})>>
                       \o Rest("consumer"), Mine)
        \/ /\ ~(This("consumer").do = "plan" /\ MustEscalate(Mine.view, Mine.surface))
           /\ Continue("consumer",
                Progression(a, Mine.view, Mine.surface, wf.paused) \o Rest("consumer"),
                [Mine EXCEPT !.view.step = IF Advances(Mine.view) THEN @ + 1 ELSE @])
  BY MinePlan, Zenon
<1>3. CASE This("consumer").do = "plan" /\ MustEscalate(Mine.view, Mine.surface)
  <2>1. PICK x \in Arguments :
          /\ x = "paused" <=> Mine.view.paused
          /\ Continue("consumer",
               <<Update("escalate", {}), Do("view"), Op("next", x, {a})>>
                 \o Rest("consumer"), Mine)
    BY <1>2, <1>3
  <2> QED BY <1>1, <1>3, <2>1, MineEscalates
<1>4. CASE ~(This("consumer").do = "plan" /\ MustEscalate(Mine.view, Mine.surface))
  <2> DEFINE l == [Mine EXCEPT !.view.step = IF Advances(Mine.view) THEN @ + 1 ELSE @]
             new == Progression(a, Mine.view, Mine.surface, wf.paused)
             who == NextAgents(a, Mine.view, Mine.surface)
  <2>1. Continue("consumer", new \o Rest("consumer"), l)
    BY <1>2, <1>4
  <2>2. /\ Mine \in Locals /\ todo["consumer"] # <<>> /\ Orderly
        /\ This("consumer").do \in Walks /\ Reach(This("consumer")) = 12
    BY <1>1, AtMine, Ranks DEF GateInv, Walks
  <2>3. a \in Agents
    BY <2>2, <1>1, AtWalk
  <2>4. Mine.view \in WorkflowState /\ DOMAIN Mine.view = DOMAIN wf
    BY <2>2 DEF Locals, WorkflowState, IInv, StoresOK
  <2>5. /\ l.copy = Mine.copy /\ l.view.name = Mine.view.name /\ l.view.flow = Mine.view.flow
        /\ l.view.paused = Mine.view.paused /\ l.view.status = Mine.view.status
        /\ Advances(Mine.view) => l.view.step = Mine.view.step + 1
    BY <2>2, <2>4 DEF Locals, WorkflowState
  <2> HIDE DEF l
  <2>6. (Completed(l.view) => Completed(Mine.view)) /\ (Rested(Mine.view) => Rested(l.view))
    BY <2>5 DEF Completed, Rested
  <2>7. who \in SUBSET Agents
    BY <2>3, <2>4, NextAgentsTyped
  <2>8. /\ Span(new, 4, 12)
        /\ who = {} => OpsOf(new) = IF a = "reporting" /\ Mine.surface.human THEN GateOps ELSE FinalOps
        /\ who # {} => OpsOf(new) = (IF Advances(Mine.view) THEN {Do("saveview")} ELSE {})
                                      \union (IF wf.paused THEN {} ELSE {About("gather", who)})
    BY <2>3, <2>4, ProgressionSpan
  <2> HIDE DEF new, who
  <2>9. Goes("consumer", OpsOf(new), l)
    <3>1. 12 \in 0..14 /\ 12 <= 12
      OBVIOUS
    <3> QED BY <2>1, <2>2, <2>8, <3>1, ProcsTyped, GoesSpan
  <2>10. CASE who = {}
    <3>1. NextAgents(a, Mine.view, Mine.surface) = {}
      BY <2>10 DEF who
    <3> QED BY <1>1, <2>5, <2>6, <2>8, <2>9, <2>10, <3>1, MineConcludes
  <2>11. CASE who # {}
    <3>1. OpsOf(new) = (IF Advances(Mine.view) THEN {Do("saveview")} ELSE {})
                          \union (IF wf.paused THEN {} ELSE {About("gather", who)})
      BY <1>2, <2>8, <2>11
    <3>2. who = NextAgents(a, Mine.view, Mine.surface)
      BY DEF who
    <3> QED BY <1>1, <1>4, <2>5, <2>6, <2>7, <2>9, <2>11, <3>1, <3>2, MineProceeds
  <2> QED BY <2>10, <2>11
<1> QED BY <1>3, <1>4

\* The flow goes on to its next step, which is to be triggered.
LEMMA MineSavesView ==
  ASSUME IInv, GateInv, Turns, SaveView("consumer")
  PROVE  GateInv'
<1>1. /\ Handling # <<>> /\ UNCHANGED <<shared, row, topic, position>> /\ wf' = Mine.view
      /\ This("consumer").do = "saveview" /\ Continue("consumer", Rest("consumer"), Mine)
  BY Zenon DEF SaveView, At, This, bus, Handling, Mine
<1>2. /\ This("consumer") \in OpsOf(Handling) /\ Mine \in Locals /\ topic # <<>>
      /\ todo["consumer"] # <<>> /\ Orderly
      /\ \A o \in OpsOf(Handling) \ {This("consumer")} :
           o.do # "save" /\ Reach(This("consumer")) < Rank(o)
  BY <1>1, AtMine DEF GateInv
<1>3. Goes("consumer", {}, Mine)
  BY <1>1, <1>2, ProcsTyped, Goes0
<1>4. Has(Handling, {"saveview"}) /\ Has(Handling, Needs)
      /\ Has(Handling, Walks \union {"view", "saveview", "gather"})
  BY <1>1, <1>2 DEF Has, Needs
<1>5. /\ Fixed /\ ~wf.paused /\ ~Mine.view.paused /\ ~Has(Handling, {"view", "await"})
      /\ Mine.view.name = wf.name /\ Mine.view.flow = wf.flow /\ Mine.view.step = wf.step + 1
      /\ wf.name \notin SCR_REQUIRED_WORKFLOWS => wf.step = 1
      /\ \A a \in Def[wf.step] : Present(shared[a])
  BY <1>4 DEF GateInv, Records
<1>6. Present(shared["scr"]) /\ shared # NoSnapshot /\ shared["scr"].status = "COMPLETED"
  <2>1. Present(shared["scr"])
    BY <1>4 DEF GateInv, Memory
  <2> QED BY <1>2, <2>1, NamesDistinct, WithScr
<1>7. \A o \in OpsOf(Handling) \ {This("consumer")} :
        o.do \notin Walks /\ ~Upd(o, {"done", "escalate"}) /\ o.do \notin {"save", "saveview"}
  <2> SUFFICES ASSUME NEW o \in OpsOf(Handling) \ {This("consumer")}
               PROVE  /\ o.do \notin Walks /\ ~Upd(o, {"done", "escalate"})
                      /\ o.do \notin {"save", "saveview"}
    OBVIOUS
  <2>1. o.do # "save" /\ 4 < Rank(o)
    BY <1>1, <1>2, Ranks
  <2>2. o.do \notin Walks /\ o.do # "saveview"
    BY <2>1, Ranks
  <2>3. ~Upd(o, {"done", "escalate"})
    <3> SUFFICES ASSUME Upd(o, {"done", "escalate"}) PROVE FALSE
      OBVIOUS
    <3>1. Rank(o) = 1
      BY Ranks DEF Upd
    <3> QED BY <2>1, <3>1
  <2> QED BY <2>1, <2>2, <2>3
<1>8. /\ OpsOf(Handling') = OpsOf(Handling) \ {This("consumer")}
      /\ \A q \in Procs : q # "consumer" => todo'[q] = todo[q] /\ local'[q] = local[q]
  BY <1>3, MineMoves
<1>9. /\ wf.name \in AllNames /\ wf.step \in 1..Len(Def) /\ Len(Def) \in 2..4
      /\ Def = WORKFLOW_DEFINITIONS[wf.name] /\ wf.step + 1 <= Len(Def)
  <2>1. Mine.view \in WorkflowState
    BY <1>2 DEF Locals
  <2>2. Mine.view.step <= Len(WORKFLOW_DEFINITIONS[Mine.view.name])
    BY <2>1 DEF WorkflowState
  <2> QED BY <1>5, <2>2, MyPlan
<1>10. ~Will(Handling, {"pause"}) /\ ~shared["reporting"].human
  <2>1. Will(Handling, {"pause"}) \/ shared["reporting"].human => wf.step = Len(Def)
    BY <1>5 DEF GateInv, InStep
  <2> QED BY <1>9, <2>1
<1>11. wf'.name = wf.name /\ wf'.flow = wf.flow /\ wf'.step = wf.step + 1 /\ ~wf'.paused
  BY <1>1, <1>5
<1>12. /\ Def' = Def /\ Fixed' = Fixed /\ Ordinary' = Ordinary /\ Cleared' = Cleared
       /\ Closed' = Closed /\ Finished(shared)' = Finished(shared)
       /\ shared' = shared /\ row' = row /\ topic' = topic /\ position' = position
  <2>1. /\ shared' = shared /\ row' = row /\ topic' = topic /\ position' = position
    BY <1>1
  <2>2. /\ Def' = Def /\ Fixed' = Fixed /\ Ordinary' = Ordinary /\ Cleared' = Cleared
    BY <1>11, <2>1 DEF Def, Fixed, Ordinary, Cleared
  <2>3. \A m : Finished(m)' = Finished(m)
    BY <1>11 DEF Finished, Team
  <2>4. Finished(shared)' = Finished(shared)
    BY <1>11, <2>1 DEF Finished, Team
  <2> QED BY <2>1, <2>2, <2>3, <2>4 DEF Closed
<1>13. /\ Has(Handling', {"read"}) <=> Has(Handling, {"read"})
       /\ Has(Handling', {"scan", "read"}) <=> Has(Handling, {"scan", "read"})
       /\ Has(Handling', {"upsert"}) <=> Has(Handling, {"upsert"})
       /\ Has(Handling', {"verify"}) <=> Has(Handling, {"verify"})
       /\ Has(Handling', {"delete"}) <=> Has(Handling, {"delete"})
       /\ Has(Handling', {"clearscan"}) <=> Has(Handling, {"clearscan"})
       /\ ~Will(Handling', {"pause"})
       /\ Will(Handling', {"complete"}) => Will(Handling, {"complete"})
       /\ Has(Handling', Needs) => Has(Handling, Needs)
       /\ Has(Handling', {"read"}) \/ Has(Handling', {"upsert"}) \/ Has(Handling', {"verify"})
            \/ Has(Handling', {"delete"}) => Mine' = Mine
  BY <1>1, <1>2, <1>3, <1>8, <1>10, MineAfter DEF Has, Will
<1>14. /\ ~Has(Handling', {"save"}) /\ ~Has(Handling', {"saveview"}) /\ ~Has(Handling', Walks)
       /\ ~Will(Handling', {"done"}) /\ ~Will(Handling', {"escalate"})
       /\ ~Has(Handling', {"view", "await"})
  <2>1. ~Has(Handling', {"view", "await"})
    BY <1>5, <1>8 DEF Has
  <2> QED BY <1>7, <1>8, <2>1 DEF Has, Will, Upd
<1>15. Has(Handling', Needs) \/ Will(Handling', {"escalate", "pause"}) => Present(shared["scr"])
  BY <1>6
<1>16. Surfaced'
  <2>1. \A o \in OpsOf(Handling') : o.do \notin {"checkscr", "plan", "next"}
    BY <1>14 DEF Has, Walks
  <2> QED BY <2>1 DEF Surfaced
<1>17. Snapped'
  <2>1. Snapped
    BY DEF GateInv
  <2> QED BY <1>10, <1>12, <1>13, <2>1, Zenon DEF Snapped
<1>18. Decided'
  BY <1>12, <1>13 DEF GateInv, Decided
<1>19. Held'
  <2>1. Held
    BY DEF GateInv
  <2>2. /\ Completed(Mine.view) \/ Completed(Mine.copy) => Closed
        /\ Rested(Mine.view) /\ Rested(Mine.copy)
    BY <2>1, ProcsTyped DEF Held, Mine
  <2> QED BY <1>1, <1>3, <1>12, <2>1, <2>2, HeldMoves
<1>20. Waiting'
  <2>1. todo["watcher"] = <<>>
    BY <1>5 DEF GateInv, Waiting
  <2>2. todo'["watcher"] = <<>>
    BY <1>8, <2>1, ProcsTyped
  <2> QED BY <1>11, <2>2 DEF Waiting
<1>21. Records'
  <2>1. \A p \in Procs \ {"consumer"} : ~Has(todo[p], {"save"})
    <3>1. This("consumer").do # "await"
      BY <1>1
    <3> QED BY <1>1, <1>5, <1>6, <3>1, NoOtherSave
  <2>2. \A p \in Procs : Has(todo'[p], {"save"}) => Alike(local'[p].copy, wf')
    BY <1>3, <1>14, <2>1, SavesMove DEF GateInv
  <2>3. \A o \in OpsOf(Handling') : o.do # "next"
    BY <1>14 DEF Has, Walks
  <2> QED BY <1>14, <2>2, <2>3, Zenon DEF Records
<1>22. Def[wf.step] \intersect Dynamic = {}
  <2> DEFINE W == WORKFLOW_DEFINITIONS[wf.name]
  <2>1. wf.name \in SCR_REQUIRED_WORKFLOWS => \A i \in 1..Len(W) : W[i] \intersect Dynamic = {}
    BY <1>9, Plans
  <2>2. W[1] = {"scr"}
    BY <1>9, Plans
  <2>3. CASE wf.name \in SCR_REQUIRED_WORKFLOWS
    BY <1>9, <2>1, <2>3
  <2>4. CASE wf.name \notin SCR_REQUIRED_WORKFLOWS
    BY <1>5, <1>9, <2>2, <2>4 DEF Dynamic
  <2> QED BY <2>3, <2>4
<1>23. Len(topic) = position
  BY <1>4, <1>5, <1>22 DEF GateInv, OneToken
<1>24. InStep'
  <2>1. \A o \in OpsOf(Handling') : o.do \notin Walks \union {"await"}
    BY <1>14 DEF Has
  <2>2. \A o \in OpsOf(Handling') : o.do = "gather" => o.who \subseteq Def[wf.step + 1]
    BY <1>4, <1>5, <1>8 DEF GateInv, InStep
  <2>3. wf.name \notin SCR_REQUIRED_WORKFLOWS => wf'.step <= 2
    BY <1>5, <1>11
  <2>4. \A i \in 1..Len(topic') : ~(i > position')
    BY <1>12, <1>23
  <2>5. /\ ~wf'.paused /\ ~Will(Handling', {"pause"}) /\ ~shared'["reporting"].human
    BY <1>10, <1>11, <1>12, <1>13
  <2>6. \A o \in OpsOf(Handling') : o.do = "gather" =>
          o.who \subseteq Def'[IF Has(Handling', {"saveview"}) THEN wf'.step + 1 ELSE wf'.step]
    BY <1>11, <1>12, <1>14, <2>2
  <2> QED BY <1>11, <1>12, <2>1, <2>3, <2>4, <2>5, <2>6 DEF InStep
<1>25. OneToken'
  <2>1. Len(topic') = position' /\ position \in Nat
    BY <1>12, <1>23 DEF IInv, BusOK
  <2> QED BY <1>12, <2>1 DEF OneToken
<1>26. Reviewed'
  <2> SUFFICES ASSUME Ordinary, ~Cleared PROVE Reviewed'
    BY <1>12 DEF Reviewed
  <2>1. \A i \in 1..wf.step - 1 : \A a \in Def[i] : shared[a].status = "COMPLETED"
    BY DEF GateInv, Reviewed
  <2>2. \A a \in Def[wf.step] : shared[a].status = "COMPLETED"
    <3>1. \A a \in Agents \ {"scr"} : Present(shared[a]) => shared[a].status = "COMPLETED"
      BY DEF GateInv, Outputs
    <3>2. Def[wf.step] \subseteq Agents
      BY <1>9, Plans
    <3> QED BY <1>5, <1>6, <3>1, <3>2
  <2>3. \A i \in 1..wf'.step - 1 : \A a \in Def'[i] : shared'[a].status = "COMPLETED"
    <3>1. ASSUME NEW i \in 1..wf'.step - 1, NEW a \in Def[i] PROVE shared[a].status = "COMPLETED"
      <4>1. i = wf.step \/ i \in 1..wf.step - 1
        BY <1>9, <1>11, <3>1
      <4> QED BY <2>1, <2>2, <3>1, <4>1
    <3> QED BY <1>12, <3>1
  <2>4. \A o \in OpsOf(Handling') : o.do \notin Walks
    BY <1>14 DEF Has
  <2> QED BY <2>3, <2>4 DEF Reviewed
<1>27. \A o \in {} : Expected("consumer", o)
  OBVIOUS
<1> QED BY <1>2, <1>3, <1>12, <1>15, <1>16, <1>17, <1>18, <1>19, <1>20, <1>21, <1>24, <1>25, <1>26,
           <1>27, Handled

\* The consumer triggers the agents of the step it is at, and waits for them.
LEMMA MineGathers ==
  ASSUME IInv, GateInv, Gather("consumer")
  PROVE  GateInv'
<1> DEFINE who == This("consumer").who
<1>1. /\ Triggers("consumer", who) /\ who \in SUBSET Agents /\ This("consumer").do = "gather"
      /\ This("consumer") \in OpsOf(Handling)
      /\ \A o : o \in OpsOf(Handling') <=>
                  o = About("await", who) \/ (o \in OpsOf(Handling) /\ o # This("consumer"))
      /\ \A o \in OpsOf(Handling) \ {This("consumer")} : o.do = "commit"
      /\ \A q \in who : todo'[q] # <<>> /\ OpsOf(todo'[q]) = RunOps(q)
      /\ \A q \in Procs : q # "consumer" /\ q \notin who => todo'[q] = todo[q]
      /\ UNCHANGED <<local, wf, shared, row, topic, position>>
      /\ \A q \in Procs : Has(todo'[q], {"save"}) => Has(todo[q], {"save"})
      /\ Handling # <<>> /\ Orderly'
  BY ProcsTyped, GatherGoes DEF Handling
<1>2. /\ \A q \in Procs : local'[q] = local[q]
      /\ wf' = wf /\ shared' = shared /\ row' = row /\ topic' = topic /\ position' = position
  BY <1>1
<1>3. /\ Memory /\ Outputs /\ Told /\ Backing /\ Held /\ Waiting /\ Records /\ InStep /\ OneToken
      /\ Reviewed
  BY DEF GateInv
<1>4. /\ Def' = Def /\ Fixed' = Fixed /\ Ordinary' = Ordinary /\ Cleared' = Cleared
      /\ Closed' = Closed
  BY <1>2 DEF Def, Fixed, Ordinary, Cleared, Closed, Finished, Team
<1>5. "scr" \notin who /\ About("await", who).do = "await" /\ About("await", who).who = who
  <2>1. "await" \in Calls
    BY DEF Calls
  <2>2. "scr" \notin who
    BY <1>1, Zenon DEF Triggers
  <2> QED BY <1>1, <2>1, <2>2, AboutParts
<1> HIDE DEF who
<1>6. \A o \in OpsOf(Handling') : o.do = "commit" \/ (o.do = "await" /\ o.who = who)
  BY <1>1, <1>5
<1>7. /\ Has(Handling, {"gather", "await"}) /\ Has(Handling, Needs)
      /\ Has(Handling, Walks \union {"view", "saveview", "gather"})
      /\ ~Has(Handling, {"saveview"})
  BY <1>1 DEF Has, Needs
<1>8. /\ Present(shared["scr"]) /\ ~wf.paused /\ topic # <<>>
      /\ Fixed => who \subseteq Def[wf.step]
  BY <1>1, <1>3, <1>7 DEF Memory, Waiting, InStep, who
<1>9. /\ ~Has(Handling', {"read"}) /\ ~Has(Handling', {"scan", "read"})
      /\ ~Has(Handling', {"upsert"}) /\ ~Has(Handling', {"verify"})
      /\ ~Has(Handling', {"delete"}) /\ ~Will(Handling', {"complete"})
      /\ ~Will(Handling', {"pause"}) /\ ~Has(Handling', {"saveview"})
      /\ ~Has(Handling', {"save"}) /\ ~Will(Handling', {"done"})
      /\ ~Has(Handling', Walks) /\ ~Will(Handling', {"escalate"})
  BY <1>6 DEF Has, Will, Upd, Walks
<1>10. /\ Scanning' = Scanning /\ todo'["background"] = todo["background"]
       /\ todo'["watcher"] = todo["watcher"]
  <2>1. "background" \notin who /\ "watcher" \notin who
    BY <1>1, NamesDistinct DEF who
  <2> QED BY <1>1, <1>5, <2>1, ProcsTyped, NamesDistinct DEF Scanning
<1>11. Memory'
  <2>1. Scans(Scanning)'
    BY <1>2, <1>3, <1>4, <1>10 DEF Memory, Scans
  <2> QED BY <1>2, <1>3, <1>8, <1>10, <2>1 DEF Memory
<1>12. Outputs'
  <2>1. ASSUME NEW a \in Agents \ {"scr"}, todo'[a] # <<>>
        PROVE  /\ Has(todo'[a], {"write"}) \/ Present(shared[a])
               /\ Has(todo'[a], {"publish"}) => ~Has(todo'[a], {"notify"})
    <3>1. CASE a \in who
      <4>1. /\ For("write", a).do = "write" /\ For("notify", a).do = "notify"
            /\ For("readscr", a).do = "readscr" /\ For("readcma", a).do = "readcma"
            /\ Update("running", {a}).do = "load"
        BY <2>1, Parts DEF Calls, Kinds
      <4>2. OpsOf(todo'[a]) = RunOps(a)
        BY <1>1, <3>1
      <4>3. For("write", a) \in OpsOf(todo'[a])
        BY <2>1, <4>2 DEF RunOps
      <4>4. \A o \in OpsOf(todo'[a]) : o.do # "publish"
        BY <2>1, <4>1, <4>2 DEF RunOps
      <4> QED BY <4>1, <4>3, <4>4 DEF Has
    <3>2. CASE a \notin who
      <4>1. todo'[a] = todo[a]
        BY <1>1, <2>1, <3>2, NamesDistinct
      <4> QED BY <1>3, <2>1, <4>1 DEF Outputs
    <3> QED BY <3>1, <3>2
  <2> QED BY <1>2, <1>3, <2>1, Zenon DEF Outputs
<1>13. Told' /\ Backing'
  BY <1>2, <1>3, <1>4 DEF Told, Backing
<1>14. Surfaced'
  <2>1. \A o \in OpsOf(Handling') : o.do \notin {"checkscr", "plan", "next"}
    BY <1>6
  <2> QED BY <2>1 DEF Surfaced
<1>15. Snapped' /\ Decided'
  BY <1>9 DEF Snapped, Decided
<1>16. Held' /\ Waiting'
  <2>1. Held'
    BY <1>2, <1>3, <1>4 DEF Held
  <2> QED BY <1>2, <1>3, <1>8, <1>10, <2>1 DEF Waiting
<1>17. Records'
  <2>1. ASSUME NEW q \in Procs, Has(todo'[q], {"save"}) PROVE Alike(local'[q].copy, wf')
    BY <1>1, <1>2, <1>3, <2>1 DEF Records
  <2>2. \A o \in OpsOf(Handling') : o.do # "next"
    BY <1>6
  <2> QED BY <1>9, <2>1, <2>2, Zenon DEF Records
<1>18. InStep'
  <2>1. Fixed => \A o \in OpsOf(Handling') : o.do \in Walks \union {"await"} => o.who \subseteq Def[wf.step]
    BY <1>6, <1>8 DEF Walks
  <2>2. \A o \in OpsOf(Handling') : o.do # "gather"
    BY <1>6
  <2> QED BY <1>2, <1>3, <1>4, <1>9, <2>1, <2>2 DEF InStep
<1>19. OneToken'
  BY <1>2, <1>3, <1>4, <1>7 DEF OneToken
<1>20. Reviewed'
  <2>1. Ordinary /\ ~Cleared =>
          \A i \in 1..wf.step - 1 : \A a \in Def[i] : shared[a].status = "COMPLETED"
    BY <1>3 DEF Reviewed
  <2>2. \A o \in OpsOf(Handling') : o.do \notin Walks
    BY <1>9 DEF Has
  <2> QED BY <1>2, <1>4, <2>1, <2>2 DEF Reviewed
<1> QED BY <1>1, <1>11, <1>12, <1>13, <1>14, <1>15, <1>16, <1>17, <1>18, <1>19, <1>20 DEF GateInv

\* The consumer takes the next agent.complete.
LEMMA Fetches ==
  ASSUME IInv, GateInv, Fetch
  PROVE  GateInv'
<1> DEFINE a == topic[position + 1]
           N == {Update("done", {a}), Do("view"), For("surface", a), Do("commit")}
<1>1. /\ todo["consumer"] = <<>> /\ position < Len(topic) /\ position' = position + 1
      /\ UNCHANGED <<wf, shared, row, topic>>
      /\ Continue("consumer", OnAgentComplete(a), NoLocals)
  BY Zenon DEF Fetch, stores
<1>2. /\ topic \in Seq(Agents) /\ position \in Nat /\ Len(topic) \in Nat /\ topic # <<>>
      /\ position + 1 \in 1..Len(topic) /\ a \in Agents
  BY <1>1 DEF IInv, BusOK
<1> HIDE DEF a
<1>3. Goes("consumer", N, NoLocals)
  <2>1. /\ OnAgentComplete(a) \in Seq(Operation) /\ InOrder(OnAgentComplete(a))
        /\ OpsOf(OnAgentComplete(a)) = N
    BY <1>2, StartSpans
  <2>2. Goes("consumer", OpsOf(OnAgentComplete(a)), NoLocals)
    BY <1>1, <2>1, ProcsTyped, GoesStart
  <2> QED BY <2>1, <2>2
<1>4. /\ Update("done", {a}).do = "load" /\ Update("done", {a}).x = "done"
      /\ Update("done", {a}).who = {a}
      /\ Do("view").do = "view" /\ Do("commit").do = "commit"
      /\ For("surface", a).do = "surface" /\ For("surface", a).who = {a}
  <2>1. /\ {"view", "commit", "surface"} \subseteq Calls /\ "done" \in Kinds
        /\ {a} \in SUBSET Agents
    BY <1>2 DEF Calls, Kinds
  <2> QED BY <1>2, <2>1, Parts
<1>5. /\ \A o \in N : \/ o = Update("done", {a}) \/ o = Do("view")
                      \/ o = For("surface", a) \/ o = Do("commit")
      /\ Update("done", {a}) \in N /\ Do("view") \in N
  OBVIOUS
<1> HIDE DEF N
<1>6. /\ \A o \in N : \/ o.do = "load" /\ o.x = "done" /\ o.who = {a}
                      \/ o.do \in {"view", "commit"}
                      \/ o.do = "surface" /\ o.who = {a}
      /\ \E o \in N : o.do = "load" /\ o.x = "done"
      /\ \E o \in N : o.do = "view"
  BY <1>4, <1>5
<1>7. \A o \in N : Expected("consumer", o)
  BY <1>2, <1>6 DEF Expected, Upd, Walks
<1>8. OpsOf(Handling') = N /\ \A q \in Procs : q # "consumer" => todo'[q] = todo[q] /\ local'[q] = local[q]
  <2>1. OpsOf(Handling) = {}
    BY <1>1, NoOps DEF Handling
  <2> QED BY <1>3, <2>1, MineMoves
<1>9. /\ wf' = wf /\ shared' = shared /\ row' = row /\ topic' = topic
  BY <1>1
<1>10. /\ Def' = Def /\ Fixed' = Fixed /\ Ordinary' = Ordinary /\ Cleared' = Cleared
       /\ Closed' = Closed
  BY <1>9 DEF Def, Fixed, Ordinary, Cleared, Closed, Finished, Team
<1>11. /\ ~Has(Handling', {"read"}) /\ ~Has(Handling', {"scan", "read"})
       /\ ~Has(Handling', {"upsert"}) /\ ~Has(Handling', {"verify"})
       /\ ~Has(Handling', {"delete"}) /\ ~Will(Handling', {"complete"})
       /\ ~Will(Handling', {"pause"}) /\ ~Has(Handling', {"saveview"})
       /\ ~Has(Handling', {"save"}) /\ Will(Handling', {"done"}) /\ Has(Handling', {"view"})
       /\ ~Will(Handling', {"escalate"}) /\ ~Will(Handling', {"escalate", "pause"})
       /\ ~Has(Handling', Needs) /\ ~Has(Handling', {"gather", "await"})
  BY <1>6, <1>8 DEF Has, Will, Upd, Needs
<1>12. Surfaced'
  <2>1. \A o \in OpsOf(Handling') : o.do \notin {"checkscr", "plan", "next"}
    BY <1>6, <1>8
  <2> QED BY <2>1 DEF Surfaced
<1>13. Snapped' /\ Decided'
  BY <1>11 DEF Snapped, Decided
<1>14. Held'
  <2>1. Held
    BY DEF GateInv
  <2>2. /\ ~Completed(NoLocals.view) /\ ~Completed(NoLocals.copy)
        /\ Rested(NoLocals.view) /\ Rested(NoLocals.copy)
    <3>1. ~Completed(NoState) /\ Rested(NoState)
      BY DEF NoState, NewState, Completed, Rested
    <3>2. NoLocals.view = NoState /\ NoLocals.copy = NoState
      BY DEF NoLocals
    <3> QED BY <3>1, <3>2
  <2>3. (Completed(wf) => Closed) /\ Rested(wf)
    BY <2>1 DEF Held
  <2> QED BY <1>3, <1>9, <1>10, <2>1, <2>2, <2>3, HeldMoves
<1>15. Waiting'
  <2>1. Waiting
    BY DEF GateInv
  <2> QED BY <1>8, <1>9, <1>11, <2>1, ProcsTyped, NamesDistinct DEF Waiting
<1>16. Records'
  <2>1. \A p \in Procs : Has(todo'[p], {"save"}) => Alike(local'[p].copy, wf')
    BY <1>3, <1>9, <1>11, SavesMove DEF GateInv
  <2>2. \A o \in OpsOf(Handling') : o.do # "next"
    BY <1>6, <1>8
  <2> QED BY <1>11, <2>1, <2>2, Zenon DEF Records
<1>17. InStep'
  <2>1. InStep
    BY DEF GateInv
  <2>2. Fixed => a \in Def[wf.step]
    BY <1>2, <2>1 DEF InStep, a
  <2>3. Fixed => \A o \in OpsOf(Handling') : o.do \in Walks \union {"await"} => o.who \subseteq Def[wf.step]
    BY <1>6, <1>8, <2>2 DEF Walks
  <2>4. \A o \in OpsOf(Handling') : o.do # "gather"
    BY <1>6, <1>8
  <2>5. \A i \in 1..Len(topic) : i > position' => i > position
    BY <1>1, <1>2
  <2> QED BY <1>9, <1>10, <1>11, <2>1, <2>3, <2>4, <2>5 DEF InStep
<1>18. OneToken'
  <2> SUFFICES ASSUME Fixed, Def[wf.step] \intersect Dynamic = {} PROVE Len(topic) = position'
    BY <1>1, <1>2, <1>9, <1>10 DEF OneToken
  <2>1. Len(topic) <= position + 1
    BY DEF GateInv, OneToken
  <2> QED BY <1>1, <1>2, <2>1
<1>19. Reviewed'
  <2>1. Ordinary /\ ~Cleared =>
          \A i \in 1..wf.step - 1 : \A b \in Def[i] : shared[b].status = "COMPLETED"
    BY DEF GateInv, Reviewed
  <2>2. \A o, u \in OpsOf(Handling') : o.do \in Walks /\ Upd(u, {"done"}) => o.who = u.who
    BY <1>6, <1>8, ZenonT(60) DEF Walks, Upd
  <2> QED BY <1>9, <1>10, <1>11, <2>1, <2>2 DEF Reviewed
<1> QED BY <1>1, <1>2, <1>3, <1>7, <1>11, <1>12, <1>13, <1>14, <1>15, <1>16, <1>17, <1>18, <1>19,
           Handled

\* Whatever the consumer does next.
LEMMA MineSteps ==
  ASSUME IInv, GateInv, Turns, Step("consumer")
  PROVE  GateInv'
<1>1. ASSUME \/ Raise("consumer") \/ IfRunning("consumer") \/ Placeholder("consumer")
             \/ Pipeline("consumer") \/ ScrOutput("consumer") \/ Late("consumer")
             \/ ReadScr("consumer") \/ ReadCma("consumer") \/ WriteOutput("consumer")
             \/ Notify("consumer") \/ WriteDefault("consumer") \/ Publish("consumer")
      PROVE  FALSE
  <2>1. /\ Handling # <<>>
        /\ This("consumer").do \in {"raise", "ifrunning", "placeholder", "pipeline", "output", "late",
                                    "readscr", "readcma", "write", "notify", "default", "publish"}
    BY <1>1, Zenon DEF Raise, IfRunning, Placeholder, Pipeline, ScrOutput, Late, ReadScr, ReadCma,
      WriteOutput, Notify, WriteDefault, Publish, At, This, Handling
  <2>2. Expected("consumer", This("consumer"))
    BY <2>1, AtMine
  <2> QED BY <2>1, <2>2, NamesDistinct DEF Expected, Upd, Persists, Walks
<1>2. \/ Load("consumer") \/ Save("consumer") \/ View("consumer") \/ SaveView("consumer")
      \/ Scan("consumer") \/ Read("consumer") \/ Upsert("consumer") \/ Verify("consumer")
      \/ ClearScan("consumer") \/ Delete("consumer") \/ Emit("consumer") \/ Surface("consumer")
      \/ CheckScr("consumer") \/ Plan("consumer") \/ Gather("consumer") \/ Await("consumer")
      \/ Commit("consumer")
  BY <1>1, Zenon DEF Step
<1> QED BY <1>2, MineLoads, MineSaves, MineViews, MineSavesView, MineScans, MineReads, MineUpserts,
           MineVerifies, MineScansAgain, MineDeletes, MineWaits, MineSurfaces, MineChecks,
           MinePlans, MineGathers

\* A workflow as it starts.
LEMMA InitGate ==
  ASSUME Init
  PROVE  GateInv
<1>1. PICK n \in WorkflowNames, f \in Flows, i \in Incidents : wf = NewState(n, f, i)
  BY DEF Init
<1>2. /\ wf.step = 1 /\ wf.paused = FALSE /\ wf.status = "RUNNING"
  BY <1>1 DEF NewState
<1>3. /\ shared = NoSnapshot /\ row.snap = NoSnapshot /\ topic = <<>> /\ position = 0
      /\ todo["background"] = RunInBackground
      /\ \A p \in Procs : p # "background" => todo[p] = <<>>
      /\ \A p \in Procs : local[p] = NoLocals /\ raised[p] = FALSE
  BY ProcsTyped DEF Init
<1>4. /\ Handling = <<>> /\ Scanning = <<>> /\ Mine = NoLocals /\ todo["watcher"] = <<>>
      /\ \A a \in Agents : todo[a] = <<>>
  BY <1>3, ProcsTyped, NamesDistinct DEF Handling, Scanning, Mine
<1>5. /\ OpsOf(Handling) = {} /\ OpsOf(Scanning) = {}
      /\ \A p \in Procs : p # "background" => OpsOf(todo[p]) = {} /\ InOrder(todo[p])
  BY <1>3, <1>4, NoOps
<1>6. /\ \A D : ~Has(Handling, D) /\ ~Has(Scanning, D)
      /\ \A K : ~Will(Handling, K) /\ ~Will(Scanning, K)
  BY <1>5 DEF Has, Will
<1>7. /\ RunInBackground \in Seq(Operation) /\ InOrder(RunInBackground)
      /\ OpsOf(RunInBackground) = {Do("view"), About("gather", {"scr"})}
      /\ Do("view").do = "view" /\ About("gather", {"scr"}).do = "gather"
  <2>1. "view" \in Calls /\ "gather" \in Calls /\ {"scr"} \in SUBSET Agents
    BY NamesDistinct DEF Calls
  <2> QED BY <2>1, StartSpans, Parts, AboutParts
<1>8. RunInBackground # <<>> => Head(RunInBackground).do # "catch"
  <2> SUFFICES ASSUME RunInBackground # <<>>, Head(RunInBackground).do = "catch" PROVE FALSE
    OBVIOUS
  <2> DEFINE ops == RunInBackground
  <2>1. ops \in Seq(Operation) /\ InOrder(ops) /\ Do("view") \in OpsOf(ops)
    BY <1>7
  <2> HIDE DEF ops
  <2>2. PICK k \in 1..Len(ops) : ops[k] = Do("view")
    BY <2>1, OpsIn
  <2>3. 1 \in 1..Len(ops) /\ ops[1] = Head(ops) /\ ops[1].do = "catch"
    BY <2>1, <2>2 DEF ops
  <2>4. 1 < k
    BY <1>7, <2>2, <2>3
  <2>5. Before(ops[1], ops[k])
    BY <2>1, <2>3, <2>4 DEF InOrder
  <2>6. Reach(ops[1]) = 14 /\ Rank(ops[k]) = 2
    BY <1>7, <2>2, <2>3, Ranks
  <2> QED BY <1>7, <2>2, <2>5, <2>6 DEF Before
<1>9. \A a \in Agents : shared[a] = NoOutput /\ ~Present(shared[a]) /\ row.snap[a] = NoOutput
                        /\ ~Present(row.snap[a]) /\ ~shared[a].human
  BY <1>3 DEF NoSnapshot, NoOutput, Out, Present
<1>10. Orderly
  <2>1. \A o : o.do \in {"view", "gather"} => Expected("background", o)
    BY DEF Expected
  <2>2. ASSUME NEW p \in Procs
        PROVE  /\ InOrder(todo[p]) /\ raised[p] = FALSE
               /\ todo[p] # <<>> => Head(todo[p]).do # "catch"
               /\ \A o \in OpsOf(todo[p]) : Expected(p, o)
    <3>1. CASE p = "background"
      BY <1>3, <1>7, <1>8, <2>1, <3>1
    <3>2. CASE p # "background"
      BY <1>3, <1>5, <3>2
    <3> QED BY <3>1, <3>2
  <2> QED BY <2>2 DEF Orderly
<1>11. Memory
  BY <1>2, <1>3, <1>4, <1>6 DEF Memory, Scans
<1>12. Outputs /\ Told /\ Backing
  <2>1. Outputs
    BY <1>4, <1>9, Zenon DEF Outputs, Agents
  <2>2. Told
    BY <1>3 DEF Told
  <2> QED BY <1>9, <2>1, <2>2 DEF Backing
<1>13. Surfaced /\ Snapped /\ Decided
  BY <1>5, <1>6 DEF Surfaced, Snapped, Decided
<1>14. Held
  <2>1. ~Completed(NoState) /\ Rested(NoState)
    BY DEF NoState, NewState, Completed, Rested
  <2>2. NoLocals.view = NoState /\ NoLocals.copy = NoState
    BY DEF NoLocals
  <2>3. ~Completed(wf) /\ Rested(wf)
    BY <1>2 DEF Completed, Rested
  <2> QED BY <1>3, <2>1, <2>2, <2>3 DEF Held
<1>15. Waiting
  BY <1>2, <1>4 DEF Waiting
<1>16. Records
  <2>1. ASSUME NEW p \in Procs PROVE ~Has(todo[p], {"save"})
    <3>1. CASE p = "background"
      BY <1>3, <1>7, <3>1 DEF Has
    <3>2. CASE p # "background"
      BY <1>5, <3>2 DEF Has
    <3> QED BY <3>1, <3>2
  <2>2. ~Has(Handling, Walks) /\ ~Has(Handling, {"saveview"}) /\ ~Will(Handling, {"escalate"})
    BY <1>6
  <2> QED BY <1>5, <2>1, <2>2, Zenon DEF Records
<1>17. InStep
  <2>1. ~shared["reporting"].human
    BY <1>9 DEF Agents
  <2> QED BY <1>2, <1>3, <1>5, <1>6, <2>1 DEF InStep
<1>18. OneToken
  BY <1>3 DEF OneToken
<1>19. Reviewed
  BY <1>2, <1>5 DEF Reviewed
<1> QED BY <1>10, <1>11, <1>12, <1>13, <1>14, <1>15, <1>16, <1>17, <1>18, <1>19 DEF GateInv

\* Until somebody approves.
LEMMA NextGate ==
  ASSUME Undisturbed, IInv, Turns, called = {} => GateInv, [Next]_vars
  PROVE  called' = {} => GateInv'
<1> SUFFICES ASSUME called' = {} PROVE GateInv'
  OBVIOUS
<1>1. CASE \E p \in Procs : Step(p)
  <2>1. PICK p \in Procs : Step(p)
    BY <1>1
  <2>2. called' = called
    BY <2>1, Zenon DEF Step, Load, Save, View, SaveView, Scan, Read, Upsert, Verify, ClearScan, Delete,
      Emit, Surface, CheckScr, Plan, Gather, Await, Raise, IfRunning, Placeholder, Pipeline,
      ScrOutput, Late, ReadScr, ReadCma, WriteOutput, Notify, WriteDefault, Publish, Commit, env
  <2>3. GateInv
    BY <2>2
  <2>4. CASE p = "consumer"
    BY <2>1, <2>3, <2>4, MineSteps
  <2>5. CASE p # "consumer"
    BY <2>1, <2>3, <2>5, OtherSteps
  <2> QED BY <2>4, <2>5
<1>2. CASE Fetch
  <2>1. called' = called
    BY <1>2 DEF Fetch, env
  <2> QED BY <1>2, <2>1, Fetches
<1>3. CASE \E p \in Approvers : Approve(p)
  <2>1. \E p \in Approvers : p \in called'
    BY <1>3 DEF Approve
  <2> QED BY <2>1
<1>4. CASE ListExpired
  <2>1. called' = called
    BY <1>4 DEF ListExpired, env
  <2> QED BY <1>4, <2>1, WatcherLists
<1>5. CASE Crash
  <2>1. crashes \in Nat /\ crashes < 0
    BY <1>5 DEF Crash, Undisturbed, IInv, EnvOK
  <2> QED BY <2>1
<1>6. CASE UNCHANGED vars
  <2>1. /\ UNCHANGED <<wf, shared, row, topic, position, todo, local, raised, called>>
    BY <1>6 DEF vars, stores, bus, control, env
  <2>2. GateInv
    BY <2>1
  <2>3. /\ Handling' = Handling /\ Scanning' = Scanning /\ Mine' = Mine /\ Def' = Def
        /\ Fixed' = Fixed /\ Ordinary' = Ordinary /\ Cleared' = Cleared /\ Closed' = Closed
        /\ Finished(shared)' = Finished(shared)
    BY <2>1 DEF Handling, Scanning, Mine, Def, Fixed, Ordinary, Cleared, Closed, Finished, Team
  <2>4. Orderly' /\ Memory' /\ Outputs' /\ Told' /\ Backing' /\ Surfaced'
    BY <2>1, <2>2, <2>3 DEF GateInv, Orderly, Memory, Scans, Outputs, Told, Backing, Surfaced
  <2>5. Snapped' /\ Decided' /\ Held' /\ Waiting'
    BY <2>1, <2>2, <2>3 DEF GateInv, Snapped, Decided, Held, Waiting
  <2>6. Records' /\ InStep' /\ OneToken' /\ Reviewed'
    BY <2>1, <2>2, <2>3 DEF GateInv, Records, InStep, OneToken, Reviewed
  <2> QED BY <2>4, <2>5, <2>6 DEF GateInv
<1> QED BY <1>1, <1>2, <1>3, <1>4, <1>5, <1>6 DEF Next

-----------------------------------------------------------------------------
(* What an undisturbed workflow promises until somebody approves.          *)

\* The parts of the invariant hold from the trigger on: until an approve call
\* arrives, no handler of the consumer, agent or watcher takes them away.
THEOREM GateInvariant == Undisturbed => (Spec => [](called = {} => GateInv))
<1>1. Init => (called = {} => GateInv)
  BY InitGate
<1>2. Undisturbed /\ IInv /\ Turns /\ (called = {} => GateInv) /\ [Next]_vars
        => (called = {} => GateInv)'
  BY NextGate
<1> SUFFICES ASSUME Undisturbed PROVE Spec => [](called = {} => GateInv)
  OBVIOUS
<1>3. IInv /\ Turns /\ (called = {} => GateInv) /\ [Next]_vars => (called = {} => GateInv)'
  BY <1>2
<1> QED BY <1>1, <1>3, Invariant, TurnsHold, PTL DEF Spec

\* WorkflowFinalizer.finalize completes no workflow whose report asks for a human:
\* the snapshot that becomes the row is the memory the gate was decided on, and only
\* a report that asks for nobody is cleared and completed.
THEOREM HumanGateHoldsUndisturbed == Undisturbed => (Spec => []HumanGateHolds)
<1>1. (called = {} => GateInv) => HumanGateHolds
  BY DEF GateInv, Held, Closed, Completed, HumanGateHolds
<1> SUFFICES ASSUME Undisturbed PROVE Spec => []HumanGateHolds
  OBVIOUS
<1>2. Spec => [](called = {} => GateInv)
  BY GateInvariant
<1> QED BY <1>1, <1>2, PTL

\* _handle_human_gate pauses the workflow only behind persist_snapshot, and on the
\* report it persisted: until it is approved, the row shows what is to be approved.
THEOREM PausedShowsReportUndisturbed ==
  Undisturbed => (Spec => [](called = {} => PausedShowsReport))
<1>1. (called = {} => GateInv) => (called = {} => PausedShowsReport)
  BY DEF GateInv, Waiting, PausedShowsReport
<1> SUFFICES ASSUME Undisturbed PROVE Spec => [](called = {} => PausedShowsReport)
  OBVIOUS
<1>2. Spec => [](called = {} => GateInv)
  BY GateInvariant
<1> QED BY <1>1, <1>2, PTL

\* No output an agent announced with agent.complete is lost between Redis and
\* PostgreSQL: the finalizer clears the memory only when the row holds it all.
THEOREM AnnouncedIsKeptUndisturbed ==
  Undisturbed => (Spec => [](called = {} => AnnouncedIsKept))
<1>1. IInv /\ (called = {} => GateInv) => (called = {} => AnnouncedIsKept)
  <2> SUFFICES ASSUME IInv, GateInv PROVE AnnouncedIsKept
    OBVIOUS
  <2>1. DOMAIN topic = 1..Len(topic)
    BY DEF IInv, BusOK
  <2> QED BY <2>1 DEF GateInv, Told, AnnouncedIsKept
<1> SUFFICES ASSUME Undisturbed PROVE Spec => [](called = {} => AnnouncedIsKept)
  OBVIOUS
<1>2. Spec => [](called = {} => GateInv)
  BY GateInvariant
<1> QED BY <1>1, <1>2, Invariant, PTL

\* A workflow that SCR has to review, run by its fixed definition, is COMPLETED only
\* with the finished output of every agent of the definition in its row: each step is
\* triggered only on the output of the one before, and the row is the whole memory.
THEOREM CompletedIsCompleteUndisturbed ==
  Undisturbed => (Spec => [](called = {} /\ Ordinary => CompletedIsComplete))
<1>1. (called = {} => GateInv) => (called = {} /\ Ordinary => CompletedIsComplete)
  BY DEF GateInv, Held, Closed, Finished, Completed, CompletedIsComplete
<1> SUFFICES ASSUME Undisturbed PROVE Spec => [](called = {} /\ Ordinary => CompletedIsComplete)
  OBVIOUS
<1>2. Spec => [](called = {} => GateInv)
  BY GateInvariant
<1> QED BY <1>1, <1>2, PTL

\* The memory and the row change in four places only.
LEMMA StoresStep ==
  ASSUME NEW p \in Procs, Step(p)
  PROVE  \/ shared' = shared /\ row' = row
         \/ Upsert(p) \/ Delete(p) \/ Placeholder(p) \/ ScrOutput(p) \/ WriteOutput(p) \/ WriteDefault(p)
<1>1. \/ Load(p) \/ Save(p) \/ View(p) \/ SaveView(p) \/ Scan(p) \/ Read(p) \/ Verify(p)
      \/ ClearScan(p) \/ Emit(p) \/ Surface(p) \/ CheckScr(p) \/ Plan(p) \/ Gather(p) \/ Await(p)
      \/ Raise(p) \/ IfRunning(p) \/ Pipeline(p) \/ Late(p) \/ ReadScr(p) \/ ReadCma(p)
      \/ Notify(p) \/ Publish(p) \/ Commit(p)
      => shared' = shared /\ row' = row
  BY DEF Load, Save, View, SaveView, Scan, Read, Verify, ClearScan, Emit, Surface, CheckScr, Plan,
    Gather, Await, Raise, IfRunning, Pipeline, Late, ReadScr, ReadCma, Notify, Publish, Commit, stores
<1> QED BY <1>1, ZenonT(60) DEF Step

\* An agent's write puts an output in its own section.
LEMMA WritesProduce ==
  ASSUME IInv, GateInv, Undisturbed, NEW p \in Procs, p # "consumer",
         Placeholder(p) \/ ScrOutput(p) \/ WriteOutput(p)
  PROVE  row' = row /\ \E a \in Agents : \E o \in Output \ {NoOutput} :
                          shared' = [shared EXCEPT ![a] = o]
<1>1. /\ todo[p] # <<>> /\ This(p).do \in {"placeholder", "output", "write"} /\ row' = row
      /\ Placeholder(p) => This(p).do = "placeholder"
      /\ ScrOutput(p) => This(p).do = "output"
      /\ WriteOutput(p) => This(p).do = "write"
  BY DEF Placeholder, ScrOutput, WriteOutput, At, This
<1>2. Expected(p, This(p))
  BY <1>1, AtWork DEF GateInv
<1>3. NoOutput.status = "NONE"
  BY DEF NoOutput, Out
<1>4. ASSUME NEW a \in Agents, NEW o \in Output, o.status # "NONE",
             shared' = [shared EXCEPT ![a] = o]
      PROVE  \E b \in Agents : \E u \in Output \ {NoOutput} : shared' = [shared EXCEPT ![b] = u]
  BY <1>3, <1>4
<1>5. "scr" \in Agents
  BY DEF Agents
<1>6. CASE Placeholder(p)
  <2> DEFINE o == Out("RUNNING", "low", FALSE)
  <2>1. o \in Output /\ o.status # "NONE"
    BY DEF Out, Output, ScanLevels
  <2>2. shared' = [shared EXCEPT !["scr"] = o]
    BY <1>6 DEF Placeholder, Write
  <2> HIDE DEF o
  <2> QED BY <1>1, <1>4, <1>5, <2>1, <2>2
<1>7. CASE ScrOutput(p)
  <2>1. This(p).x \in ScanLevels
    BY <1>1, <1>2, <1>7 DEF Expected, Upd, Persists, Walks
  <2> DEFINE o == Out("COMPLETED", This(p).x, This(p).x = "critical")
  <2>2. o \in Output /\ o.status # "NONE"
    BY <2>1 DEF Out, Output
  <2>3. This(p).x # "FAILED"
    BY <2>1 DEF ScanLevels
  <2>4. shared' = [shared EXCEPT !["scr"] = o]
    BY <1>7, <2>3 DEF ScrOutput, Write
  <2> HIDE DEF o
  <2> QED BY <1>1, <1>4, <1>5, <2>2, <2>4
<1>8. CASE WriteOutput(p)
  <2>1. p \in Agents \ {"scr"}
    BY <1>1, <1>2, <1>8 DEF Expected, Upd, Persists, Walks
  <2>2. p \in {"cma", "reporting"} \union Dynamic
    BY <2>1 DEF Agents
  <2>3. AgentOutput(p) \in Output
    BY <2>2, AgentOutputTyped DEF IInv, ControlOK, ProcsOK
  <2>4. AgentOutput(p).status = "COMPLETED"
    BY <2>2 DEF AgentOutput, Out, Dynamic
  <2>5. shared' = [shared EXCEPT ![p] = AgentOutput(p)]
    BY <1>8 DEF WriteOutput, Write, Undisturbed
  <2> QED BY <1>1, <1>4, <2>1, <2>3, <2>4, <2>5
<1> QED BY <1>6, <1>7, <1>8

\* Every step of the program is one of the promise, or changes no output.
LEMMA CustodyStep ==
  ASSUME Undisturbed, Approvers = {}, IInv, GateInv, Turns, [Next]_vars
  PROVE  [Custody!Next]_(Custody!vars)
<1> SUFFICES ASSUME ~(shared' = shared /\ row' = row) PROVE Custody!Next
  BY DEF Custody!vars
<1>1. CASE \E p \in Procs : Step(p)
  <2>1. PICK p \in Procs : Step(p)
    BY <1>1
  <2>2. CASE p = "consumer"
    <3>1. ~(Placeholder(p) \/ ScrOutput(p) \/ WriteOutput(p) \/ WriteDefault(p))
      <4> SUFFICES ASSUME Placeholder(p) \/ ScrOutput(p) \/ WriteOutput(p) \/ WriteDefault(p)
                   PROVE  FALSE
        OBVIOUS
      <4>1. Handling # <<>> /\ This(p).do \in {"placeholder", "output", "write", "default"}
        BY <2>2, Zenon DEF Placeholder, ScrOutput, WriteOutput, WriteDefault, At, This, Handling
      <4>2. Expected("consumer", This("consumer"))
        BY <2>2, <4>1, AtMine
      <4> QED BY <2>2, <4>1, <4>2, NamesDistinct DEF Expected, Upd, Persists, Walks
    <3>2. CASE Upsert(p)
      <4>1. row'.snap = shared /\ shared' = shared /\ shared # NoSnapshot
        BY <2>2, <3>2, MineUpserts
      <4>2. \A a \in Agents : row.snap[a] # NoOutput => shared[a] # NoOutput
        <5> SUFFICES ASSUME NEW a \in Agents, row.snap[a] # NoOutput PROVE shared[a] # NoOutput
          OBVIOUS
        <5>1. Present(shared[a])
          BY <4>1 DEF GateInv, Backing, Cleared
        <5> QED BY <5>1 DEF Present, NoOutput, Out
      <4>3. Custody!Persist
        BY <4>1, <4>2 DEF Custody!Persist
      <4> QED BY <4>3 DEF Custody!Next
    <3>3. CASE Delete(p)
      <4>1. shared = row.snap /\ shared' = NoSnapshot
        BY <2>2, <3>3, MineDeletes
      <4>2. row' = row
        BY <3>3 DEF Delete
      <4>3. Custody!Release
        BY <4>1, <4>2 DEF Custody!Release, Custody!Nothing, NoSnapshot
      <4> QED BY <4>3 DEF Custody!Next
    <3> QED BY <2>1, <3>1, <3>2, <3>3, StoresStep
  <2>3. CASE p # "consumer"
    <3>1. ~(Upsert(p) \/ Delete(p) \/ WriteDefault(p))
      <4> SUFFICES ASSUME Upsert(p) \/ Delete(p) \/ WriteDefault(p) PROVE FALSE
        OBVIOUS
      <4>1. todo[p] # <<>> /\ This(p).do \in {"upsert", "delete", "default"}
        BY Zenon DEF Upsert, Delete, WriteDefault, At, This
      <4>2. Expected(p, This(p))
        BY <4>1, AtWork DEF GateInv
      <4> QED BY <2>3, <4>1, <4>2 DEF Expected, Upd
    <3>2. Placeholder(p) \/ ScrOutput(p) \/ WriteOutput(p)
      BY <2>1, <3>1, StoresStep
    <3>3. PICK a \in Agents, o \in Output \ {NoOutput} :
            row' = row /\ shared' = [shared EXCEPT ![a] = o]
      BY <2>3, <3>2, WritesProduce
    <3>4. Custody!Produce(a)
      BY <3>3 DEF Custody!Produce
    <3> QED BY <3>4 DEF Custody!Next
  <2> QED BY <2>2, <2>3
<1>2. CASE Fetch
  BY <1>2 DEF Fetch, stores
<1>3. CASE \E p \in Approvers : Approve(p)
  BY <1>3
<1>4. CASE ListExpired
  BY <1>4 DEF ListExpired, stores
<1>5. CASE Crash
  <2>1. crashes \in Nat /\ crashes < 0
    BY <1>5 DEF Crash, Undisturbed, IInv, EnvOK
  <2> QED BY <2>1
<1>6. CASE UNCHANGED vars
  BY <1>6 DEF vars, stores
<1> QED BY <1>1, <1>2, <1>3, <1>4, <1>5, <1>6 DEF Next

\* The orchestrator keeps the promise of OutputCustody: persist_snapshot, which reads
\* the memory key by key while agents could write, puts in the row the memory of one
\* instant and drops no agent of the row before; clear_workflow leaves nothing behind
\* and clears only what the row holds; in between agents write their own sections.
THEOREM OutputsInCustodyUndisturbed ==
  Undisturbed /\ Approvers = {} => (Spec => OutputsInCustody)
<1>1. Init => Custody!Init
  BY DEF Init, Custody!Init, Custody!Nothing, NoSnapshot
<1> SUFFICES ASSUME Undisturbed, Approvers = {} PROVE Spec => OutputsInCustody
  OBVIOUS
<1>2. IInv /\ (called = {} => GateInv) /\ Turns /\ [Next]_vars
        => [Custody!Next]_(Custody!vars)
  <2> SUFFICES ASSUME IInv, called = {} => GateInv, Turns, [Next]_vars
               PROVE  [Custody!Next]_(Custody!vars)
    OBVIOUS
  <2>1. called = {}
    BY DEF IInv, EnvOK
  <2> QED BY <2>1, CustodyStep
<1>3. Spec => [](called = {} => GateInv)
  BY GateInvariant
<1> QED BY <1>1, <1>2, <1>3, Invariant, TurnsHold, PTL DEF Spec, OutputsInCustody, Custody!Spec
=============================================================================
