--------------------------- MODULE AttackPathProofs --------------------------
(***************************************************************************)
(* What holds of attack paths, for any sources, findings, depths and       *)
(* limits: the stored graph is whole, every finding ends a path, and what  *)
(* is said of nodes and entries adds up to the paths.                      *)
(***************************************************************************)
EXTENDS AttackPath, FiniteSetTheorems, SequenceTheorems, WellFoundedInduction, TLAPS

(* A set of numbers that is not empty has a least one.                     *)
LEMMA LeastNat ==
  ASSUME NEW S \in SUBSET Nat, S # {}
  PROVE  \E m \in S : \A n \in S : m <= n
<1>1. PICK m \in S : \A n \in S : ~ (<<n, m>> \in OpToRel(<, Nat))
  BY WFMin, NatLessThanWellFounded, Zenon
<1>2. \A n \in S : ~(n < m)
  BY <1>1 DEF OpToRel
<1> QED BY <1>2

LEMMA MinOf ==
  ASSUME NEW S \in SUBSET Nat, S # {}
  PROVE  Min(S) \in S /\ \A n \in S : Min(S) <= n
BY LeastNat DEF Min

LEMMA MaxOf ==
  ASSUME NEW n \in Nat, NEW S \in SUBSET (0..n), S # {}
  PROVE  Max(S) \in S /\ \A i \in S : Max(S) >= i
<1> DEFINE Above == {m \in Nat : \A i \in S : i <= m}
<1>1. n \in Above
  OBVIOUS
<1>2. PICK m \in Above : \A k \in Above : m <= k
  <2> HIDE DEF Above
  <2>1. Above \in SUBSET Nat
    BY DEF Above
  <2> QED BY <1>1, <2>1, LeastNat
<1>3. m \in S
  <2> SUFFICES ASSUME m \notin S PROVE FALSE
    OBVIOUS
  <2>1. \A i \in S : i < m
    BY <1>2
  <2>2. PICK i \in S : TRUE
    OBVIOUS
  <2>3. m \in Nat /\ i \in Nat /\ i < m
    BY <1>2, <2>1, <2>2
  <2>4. m - 1 \in Nat /\ ~(m <= m - 1)
    BY <2>3
  <2>5. m - 1 \in Above
    <3>1. \A j \in S : j <= m - 1
      BY <2>1, <2>3
    <3> QED BY <2>4, <3>1
  <2> QED
    <3> HIDE DEF Above
    <3> QED BY <1>2, <2>4, <2>5
<1>4. \A i \in S : m >= i
  BY <1>2
<1> HIDE DEF Above
<1> QED BY <1>3, <1>4 DEF Max

(* A finite set is the image of another.                                   *)
LEMMA FiniteImage ==
  ASSUME NEW S, IsFiniteSet(S), NEW T, NEW f, T = {f[x] : x \in S}
  PROVE  IsFiniteSet(T)
<1> DEFINE g == [x \in S |-> f[x]]
<1>1. g \in Surjection(S, T)
  BY DEF Surjection
<1> HIDE DEF g
<1> QED BY <1>1, FS_Surjection

----------------------------------------------------------------------------
(* Loops: f goes from base through the steps h[1], h[2] and so on.         *)
Run(f, D, base, h, n) ==
  f \in [0..n -> D] /\ f[0] = base /\ \A i \in 1..n : f[i] = h[i][f[i - 1]]

LEMMA RunExists ==
  ASSUME NEW D, NEW base \in D, NEW h, \A i \in Nat \ {0} : h[i] \in [D -> D], NEW n \in Nat
  PROVE  \E f : Run(f, D, base, h, n)
<1> DEFINE Without == {k \in Nat : ~ \E f : Run(f, D, base, h, k)}
<1> SUFFICES ASSUME Without # {} PROVE FALSE
  OBVIOUS
<1>1. PICK m \in Without : \A k \in Without : m <= k
  BY LeastNat
<1>2. m \in Nat /\ ~ \E f : Run(f, D, base, h, m)
  OBVIOUS
<1>3. CASE m = 0
  <2> DEFINE g == [i \in 0..0 |-> base]
  <2>1. g \in [0..0 -> D] /\ g[0] = base /\ 1..0 = {}
    OBVIOUS
  <2>2. Run(g, D, base, h, 0)
    BY <2>1 DEF Run
  <2> QED BY <1>2, <1>3, <2>2
<1>4. CASE m # 0
  <2>1. m - 1 \in Nat /\ ~(m <= m - 1)
    BY <1>2, <1>4
  <2>2. PICK f : Run(f, D, base, h, m - 1)
    BY <1>1, <2>1
  <2> DEFINE g == [i \in 0..m |-> IF i = m THEN h[m][f[m - 1]] ELSE f[i]]
  <2>3. f[m - 1] \in D /\ h[m] \in [D -> D]
    BY <1>2, <1>4, <2>1, <2>2 DEF Run
  <2>4. g \in [0..m -> D]
    <3>1. h[m][f[m - 1]] \in D
      BY <2>3
    <3>2. \A i \in 0..m : i # m => f[i] \in D
      BY <1>2, <2>1, <2>2 DEF Run
    <3> QED BY <3>1, <3>2
  <2>5. g[0] = base
    BY <1>2, <1>4, <2>2 DEF Run
  <2>6. ASSUME NEW i \in 1..m
        PROVE  g[i] = h[i][g[i - 1]]
    <3>1. i \in 0..m /\ i - 1 \in 0..m /\ i - 1 # m
      BY <1>2
    <3>2. g[i - 1] = f[i - 1] /\ g[i] = (IF i = m THEN h[m][f[m - 1]] ELSE f[i])
      BY <3>1
    <3>3. CASE i = m
      BY <3>2, <3>3
    <3>4. CASE i # m
      <4>1. i \in 1..(m - 1)
        BY <1>2, <3>4
      <4> QED BY <2>2, <3>2, <3>4, <4>1 DEF Run
    <3> QED BY <3>3, <3>4
  <2> HIDE DEF g
  <2>7. Run(g, D, base, h, m)
    BY <2>4, <2>5, <2>6 DEF Run
  <2> QED BY <1>2, <2>7
<1> QED BY <1>3, <1>4

LEMMA Concatenated ==
  ASSUME NEW T, NEW s \in Seq(T), NEW t \in Seq(T)
  PROVE  s \o t \in Seq(T) /\ ToSet(s \o t) = ToSet(s) \cup ToSet(t)
<1>1. s \o t \in Seq(T) /\ Len(s \o t) = Len(s) + Len(t)
  BY ConcatProperties
<1>2. \A i \in 1..Len(s) + Len(t) : (s \o t)[i] = IF i <= Len(s) THEN s[i] ELSE t[i - Len(s)]
  BY ConcatProperties
<1>3. ASSUME NEW x \in ToSet(s \o t) PROVE x \in ToSet(s) \cup ToSet(t)
  <2>1. PICK i \in 1..Len(s) + Len(t) : x = (s \o t)[i]
    BY <1>1, <1>3 DEF ToSet
  <2>2. CASE i <= Len(s)
    BY <1>2, <2>1, <2>2 DEF ToSet
  <2>3. CASE ~(i <= Len(s))
    <3>1. i - Len(s) \in 1..Len(t)
      BY <2>3
    <3> QED BY <1>2, <2>1, <2>3, <3>1 DEF ToSet
  <2> QED BY <2>2, <2>3
<1>4. ASSUME NEW x \in ToSet(s) PROVE x \in ToSet(s \o t)
  <2>1. PICK i \in 1..Len(s) : x = s[i]
    BY <1>4 DEF ToSet
  <2>2. i \in 1..Len(s) + Len(t) /\ i <= Len(s)
    OBVIOUS
  <2> QED BY <1>1, <1>2, <2>1, <2>2 DEF ToSet
<1>5. ASSUME NEW x \in ToSet(t) PROVE x \in ToSet(s \o t)
  <2>1. PICK i \in 1..Len(t) : x = t[i]
    BY <1>5 DEF ToSet
  <2>2. i + Len(s) \in 1..Len(s) + Len(t) /\ ~(i + Len(s) <= Len(s)) /\ (i + Len(s)) - Len(s) = i
    OBVIOUS
  <2> QED BY <1>1, <1>2, <2>1, <2>2 DEF ToSet
<1> QED BY <1>1, <1>3, <1>4, <1>5

(* A list of lists has the elements of all of them.                        *)
LEMMA Flattened ==
  ASSUME NEW T, NEW ss \in Seq(Seq(T))
  PROVE  /\ FlattenSeq(ss) \in Seq(T)
         /\ ToSet(FlattenSeq(ss)) = UNION {ToSet(ss[i]) : i \in DOMAIN ss}
<1>1. PICK n \in Nat : n = Len(ss)
  OBVIOUS
<1>2. \A i \in 1..n : ss[i] \in Seq(T)
  BY <1>1
<1>3. CASE n = 0
  <2>1. ss = << >>
    BY <1>1, <1>3, EmptySeq
  <2>2. FlattenSeq(ss) = ss
    BY <1>1, <1>3 DEF FlattenSeq
  <2>3. << >> \in Seq(T) /\ ToSet(<< >>) = {} /\ DOMAIN << >> = {}
    BY EmptySeq DEF ToSet
  <2> QED BY <2>1, <2>2, <2>3
<1>4. CASE n # 0
  <2> DEFINE h == [i \in Nat \ {0} |-> [d \in Seq(T) |-> IF i \in 1..n THEN d \o ss[i] ELSE d]]
             Is(g) == g = [i \in 1..n |-> IF i = 1 THEN ss[i] ELSE g[i - 1] \o ss[i]]
  <2>1. \A i \in Nat \ {0} : h[i] \in [Seq(T) -> Seq(T)]
    BY <1>2, ConcatProperties
  <2>2. \A i \in 1..n, d \in Seq(T) : h[i][d] = d \o ss[i]
    <3>1. \A i \in 1..n : i \in Nat \ {0}
      OBVIOUS
    <3> QED BY <3>1, Zenon
  <2> HIDE DEF h
  <2>3. PICK f : Run(f, Seq(T), << >>, h, n)
    BY <2>1, RunExists, EmptySeq
  <2>4. f \in [0..n -> Seq(T)] /\ f[0] = << >> /\ \A i \in 1..n : f[i] = f[i - 1] \o ss[i]
    <3>1. f \in [0..n -> Seq(T)] /\ f[0] = << >> /\ \A i \in 1..n : f[i] = h[i][f[i - 1]]
      BY <2>3 DEF Run
    <3>2. \A i \in 1..n : i - 1 \in 0..n
      OBVIOUS
    <3>3. \A i \in 1..n : f[i - 1] \in Seq(T)
      BY <3>1, <3>2
    <3> QED BY <2>2, <3>1, <3>3
  <2> DEFINE g0 == [i \in 1..n |-> f[i]]
  <2>5. Is(g0)
    <3>1. f[1] = ss[1]
      <4>1. 1 \in 1..n /\ 1 - 1 = 0
        BY <1>4
      <4>2. f[1] = f[0] \o ss[1] /\ f[0] = << >> /\ ss[1] \in Seq(T)
        BY <1>2, <2>4, <4>1
      <4> QED BY <4>2, ConcatEmptySeq
    <3>2. \A i \in 1..n : i # 1 => i - 1 \in 1..n
      OBVIOUS
    <3>3. \A i \in 1..n : g0[i] = IF i = 1 THEN ss[i] ELSE g0[i - 1] \o ss[i]
      BY <2>4, <3>1, <3>2, Zenon
    <3> QED BY <3>3
  <2> HIDE DEF g0
  <2>6. PICK g : Is(g) /\ FlattenSeq(ss) = g[n]
    <3>1. FlattenSeq(ss) = (CHOOSE g : Is(g))[n]
      BY <1>1, <1>4, Zenon DEF FlattenSeq
    <3>2. Is(CHOOSE g : Is(g))
      BY <2>5, Zenon
    <3> QED BY <3>1, <3>2, Zenon
  <2> DEFINE Right(k) == g[k] \in Seq(T) /\ ToSet(g[k]) = UNION {ToSet(ss[i]) : i \in 1..k}
             Wrong == {k \in 1..n : ~Right(k)}
  <2>7. Right(1)
    <3>1. g[1] = ss[1] /\ 1 \in 1..n /\ 1..1 = {1}
      BY <1>4, <2>6
    <3> QED BY <1>2, <3>1
  <2>8. ASSUME NEW k \in 1..n, k # 1, Right(k - 1)
        PROVE  Right(k)
    <3>1. g[k] = g[k - 1] \o ss[k]
      BY <2>6, <2>8
    <3>2. g[k] \in Seq(T) /\ ToSet(g[k]) = ToSet(g[k - 1]) \cup ToSet(ss[k])
      BY <1>2, <2>8, <3>1, Concatenated
    <3>3. 1..k = (1..(k - 1)) \cup {k}
      OBVIOUS
    <3> QED BY <2>8, <3>2, <3>3
  <2>9. Right(n)
    <3> SUFFICES ASSUME ~Right(n) PROVE FALSE
      OBVIOUS
    <3>0. n \in Wrong
      <4> HIDE DEF Right
      <4> QED BY <1>4
    <3>1. PICK m \in Wrong : \A k \in Wrong : m <= k
      <4>1. Wrong \in SUBSET Nat
        OBVIOUS
      <4> HIDE DEF Wrong
      <4> QED BY <3>0, <4>1, LeastNat
    <3>2. m # 1 /\ m \in 1..n /\ m - 1 \in 1..n /\ ~(m <= m - 1) /\ ~Right(m)
      <4> HIDE DEF Right
      <4> QED BY <2>7
    <3>3. Right(m - 1)
      <4> HIDE DEF Right
      <4> QED BY <3>1, <3>2
    <3> HIDE DEF Right, Wrong
    <3> QED BY <2>8, <3>2, <3>3
  <2>10. DOMAIN ss = 1..n
    BY <1>1
  <2> QED BY <2>6, <2>9, <2>10
<1> QED BY <1>3, <1>4

(* A finite set can be listed.                                             *)
LEMMA Listing ==
  ASSUME NEW S, IsFiniteSet(S)
  PROVE  SetToSeq(S) \in Seq(S) /\ ToSet(SetToSeq(S)) = S
<1>1. PICK n \in Nat : n = Cardinality(S)
  BY FS_CardinalityType
<1>2. \E f \in [1..n -> S] : IsInjective(f)
  BY <1>1, FS_CardinalityType DEF ExistsBijection, Bijection, Injection
<1>3. PICK f : f = SetToSeq(S)
  OBVIOUS
<1>4. f \in [1..n -> S] /\ IsInjective(f)
  <2>1. f = CHOOSE g \in [1..n -> S] : IsInjective(g)
    BY <1>1, <1>3 DEF SetToSeq
  <2> QED BY <1>2, <2>1, Zenon
<1>5. f \in Injection(1..n, S)
  BY <1>4, Zenon DEF Injection
<1>6. f \in Surjection(1..n, S)
  <2>1. IsFiniteSet(1..n) /\ Cardinality(1..n) = n
    BY FS_Interval
  <2> QED BY <1>1, <1>5, <2>1, FS_Injection
<1>7. f \in Seq(S) /\ DOMAIN f = 1..n
  BY <1>4
<1>8. ToSet(f) = S
  BY <1>4, <1>6, <1>7 DEF Surjection, ToSet
<1> QED BY <1>3, <1>7, <1>8

----------------------------------------------------------------------------
(* Reading a source: what is read of it has these types, and is finite.    *)
EntryType == [name : Text, line : Nat, route : Text \ {Empty}]
FnType    == [name : Text, line : Nat \ {0}]
CallType  == [name : Text, line : Nat \ {0}, caller : Text]

AstOK(ast) ==
  /\ ast.entries \in Seq(EntryType)
  /\ ast.functions \subseteq FnType /\ IsFiniteSet(ast.functions)
  /\ ast.first \subseteq Text /\ IsFiniteSet(ast.first)
  /\ ast.calls \subseteq CallType /\ IsFiniteSet(ast.calls)
  /\ ast.sanitizers \subseteq Sanitizers \cap Text /\ IsFiniteSet(ast.sanitizers)
  /\ ast.sinks \subseteq {c \in CallType : c.name \in DOMAIN SinkTypes} /\ IsFiniteSet(ast.sinks)

LEMMA EntryTyped ==
  ASSUME NEW source \in SourceType, NEW k \in 1..Len(source.defs), source.defs[k].decorator # {},
         NEW line \in Nat
  PROVE  Entry(source, k, line) \in EntryType
<1>1. source.defs[k] \in FunctionType
  BY DEF SourceType
<1>2. source.defs[k].name \in Text /\ source.defs[k].decorator \subseteq DecoratorType
  BY <1>1 DEF FunctionType
<1> DEFINE d == CHOOSE d \in source.defs[k].decorator : TRUE
<1>3. d \in DecoratorType
  BY <1>2
<1>4. d.route \in Text \ {Empty}
  BY <1>3 DEF DecoratorType
<1> QED BY <1>2, <1>4 DEF Entry, EntryType

LEMMA EntriesTyped ==
  ASSUME NEW source \in SourceType
  PROVE  TreeEntries(source) \in Seq(EntryType) /\ LineEntries(source) \in Seq(EntryType)
<1>1. source.defs \in Seq(FunctionType)
  BY DEF SourceType
<1>2. \A k \in 1..Len(source.defs) : DefLine(k) \in Nat /\ DecoratorLine(k) \in Nat
  BY <1>1 DEF DefLine, DecoratorLine
<1>3. TreeEntries(source) \in Seq(EntryType)
  <2> DEFINE e(k) == IF source.defs[k].decorator # {} THEN <<Entry(source, k, DefLine(k))>> ELSE << >>
             es == [k \in 1..Len(source.defs) |-> e(k)]
  <2>1. \A k \in 1..Len(source.defs) : e(k) \in Seq(EntryType)
    BY <1>2, EntryTyped
  <2> HIDE DEF e
  <2>2. es \in Seq(Seq(EntryType))
    BY <1>1, <2>1
  <2> HIDE DEF es
  <2>3. FlattenSeq(es) \in Seq(EntryType)
    BY <2>2, Flattened
  <2> QED BY <2>3 DEF TreeEntries, es, e
<1>4. LineEntries(source) \in Seq(EntryType)
  <2> DEFINE x(k) == Entry(source, k, DecoratorLine(k))
             e(k) == IF \E d \in source.defs[k].decorator : d.on = "known"
                       THEN IF \E d \in source.defs[k].decorator : d.verb = "route"
                              THEN <<x(k), x(k)>> ELSE <<x(k)>>
                       ELSE << >>
             es == [k \in 1..Len(source.defs) |-> e(k)]
  <2>1. \A k \in 1..Len(source.defs) : source.defs[k].decorator # {} => x(k) \in EntryType
    BY <1>2, EntryTyped
  <2>2. \A k \in 1..Len(source.defs) : e(k) \in Seq(EntryType)
    <3> HIDE DEF x
    <3> QED BY <2>1
  <2> HIDE DEF e
  <2>3. es \in Seq(Seq(EntryType))
    BY <1>1, <2>2
  <2> HIDE DEF es
  <2>4. FlattenSeq(es) \in Seq(EntryType)
    BY <2>3, Flattened
  <2> QED BY <2>4 DEF LineEntries, es, e
<1> QED BY <1>3, <1>4

LEMMA CallsTyped ==
  ASSUME NEW source \in SourceType
  PROVE  /\ Called(source) \subseteq CallType /\ IsFiniteSet(Called(source))
         /\ CalledOrDefined(source) \subseteq CallType /\ IsFiniteSet(CalledOrDefined(source))
<1>1. source.defs \in Seq(FunctionType)
  BY DEF SourceType
<1>2. DOMAIN source.defs = 1..Len(source.defs) /\ Len(source.defs) \in Nat
  BY <1>1
<1>3. IsFiniteSet(DOMAIN source.defs)
  BY <1>2, FS_Interval
<1>4. \A k \in DOMAIN source.defs : /\ k \in Nat /\ DefLine(k) \in Nat \ {0}
                                    /\ source.defs[k].name \in Text
                                    /\ source.defs[k].calls \in Seq(Text)
  <2>1. \A k \in DOMAIN source.defs : k \in Nat /\ source.defs[k] \in FunctionType
    BY <1>1, <1>2
  <2> QED BY <1>2, <2>1 DEF FunctionType, DefLine
<1> DEFINE c(k, i) == [name |-> source.defs[k].calls[i], line |-> CallLine(k, i), caller |-> source.defs[k].name]
           cs(k) == {c(k, i) : i \in DOMAIN source.defs[k].calls}
           d(k) == [name |-> source.defs[k].name, line |-> DefLine(k), caller |-> "None"]
<1>5. \A k \in DOMAIN source.defs : cs(k) \subseteq CallType /\ IsFiniteSet(cs(k))
  <2> TAKE k \in DOMAIN source.defs
  <2>1. \A i \in DOMAIN source.defs[k].calls : i \in Nat /\ source.defs[k].calls[i] \in Text
    BY <1>4
  <2>2. \A i \in DOMAIN source.defs[k].calls : CallLine(k, i) \in Nat \ {0}
    BY <1>4, <2>1 DEF CallLine
  <2>3. cs(k) \subseteq CallType
    BY <1>4, <2>1, <2>2 DEF CallType
  <2>4. IsFiniteSet(DOMAIN source.defs[k].calls)
    <3>1. DOMAIN source.defs[k].calls = 1..Len(source.defs[k].calls) /\ Len(source.defs[k].calls) \in Nat
      BY <1>4
    <3> QED BY <3>1, FS_Interval
  <2> DEFINE g == [i \in DOMAIN source.defs[k].calls |-> c(k, i)]
  <2>5. cs(k) = {g[i] : i \in DOMAIN source.defs[k].calls}
    <3> HIDE DEF c
    <3> QED OBVIOUS
  <2> HIDE DEF g, c, cs
  <2>6. IsFiniteSet(cs(k))
    BY <2>4, <2>5, FiniteImage
  <2> QED BY <2>3, <2>6
<1>6. Called(source) = UNION {cs(k) : k \in DOMAIN source.defs}
  BY DEF Called
<1> HIDE DEF cs
<1>7. Called(source) \subseteq CallType
  BY <1>5, <1>6
<1>8. IsFiniteSet(Called(source))
  <2> DEFINE g == [k \in DOMAIN source.defs |-> cs(k)]
             S == {cs(k) : k \in DOMAIN source.defs}
  <2>1. S = {g[k] : k \in DOMAIN source.defs}
    OBVIOUS
  <2>2. \A T \in S : IsFiniteSet(T)
    BY <1>5
  <2> HIDE DEF g, S
  <2>3. IsFiniteSet(S)
    BY <1>3, <2>1, FiniteImage
  <2>4. IsFiniteSet(UNION S)
    BY <2>2, <2>3, FS_UNION
  <2> QED BY <1>6, <2>4 DEF S
<1>9. {d(k) : k \in DOMAIN source.defs} \subseteq CallType
  <2>1. \A k \in DOMAIN source.defs : d(k) \in CallType
    BY <1>4 DEF CallType, Text
  <2> HIDE DEF d
  <2> QED BY <2>1
<1>10. IsFiniteSet({d(k) : k \in DOMAIN source.defs})
  <2> DEFINE g == [k \in DOMAIN source.defs |-> d(k)]
             S == {d(k) : k \in DOMAIN source.defs}
  <2> HIDE DEF d
  <2>1. S = {g[k] : k \in DOMAIN source.defs}
    OBVIOUS
  <2> HIDE DEF g, S
  <2>2. IsFiniteSet(S)
    BY <1>3, <2>1, FiniteImage
  <2> QED BY <2>2 DEF S
<1>11. CalledOrDefined(source) = Called(source) \cup {d(k) : k \in DOMAIN source.defs}
  BY DEF CalledOrDefined
<1> HIDE DEF d
<1> QED BY <1>7, <1>8, <1>9, <1>10, <1>11, FS_Union

LEMMA Extracted ==
  ASSUME NEW source \in SourceType
  PROVE  AstOK(ExtractFile(source))
<1>1. source.defs \in Seq(FunctionType)
  BY DEF SourceType
<1>2. DOMAIN source.defs = 1..Len(source.defs) /\ Len(source.defs) \in Nat
  BY <1>1
<1>3. IsFiniteSet(DOMAIN source.defs)
  BY <1>2, FS_Interval
<1>4. \A k \in DOMAIN source.defs : DefLine(k) \in Nat \ {0} /\ source.defs[k].name \in Text
  <2>1. \A k \in DOMAIN source.defs : k \in Nat \ {0} /\ source.defs[k] \in FunctionType
    BY <1>1, <1>2
  <2> QED BY <2>1 DEF FunctionType, DefLine
<1>5. ASSUME NEW calls \in SUBSET CallType, IsFiniteSet(calls)
      PROVE  /\ SanitizersAmong(calls) \subseteq Sanitizers \cap Text /\ IsFiniteSet(SanitizersAmong(calls))
             /\ SinksAmong(calls) \subseteq {c \in CallType : c.name \in DOMAIN SinkTypes}
             /\ IsFiniteSet(SinksAmong(calls))
  <2> DEFINE g == [c \in calls |-> c.name]
             S == {c.name : c \in calls}
  <2>1. S = {g[c] : c \in calls} /\ S \subseteq Text
    BY DEF CallType
  <2> HIDE DEF g
  <2>2. SanitizersAmong(calls) \subseteq S
    BY DEF SanitizersAmong
  <2> HIDE DEF S
  <2>3. IsFiniteSet(S)
    BY <1>5, <2>1, FiniteImage
  <2>4. IsFiniteSet(SanitizersAmong(calls)) /\ SanitizersAmong(calls) \subseteq Sanitizers \cap Text
    <3>1. SanitizersAmong(calls) \subseteq Sanitizers
      BY DEF SanitizersAmong
    <3> QED BY <2>1, <2>2, <2>3, <3>1, FS_Subset
  <2>5. SinksAmong(calls) \subseteq calls
    BY DEF SinksAmong
  <2>6. IsFiniteSet(SinksAmong(calls))
    BY <1>5, <2>5, FS_Subset
  <2>7. SinksAmong(calls) \subseteq {c \in CallType : c.name \in DOMAIN SinkTypes}
    BY DEF SinksAmong
  <2> QED BY <2>4, <2>6, <2>7
<1>6. ASSUME NEW D \in SUBSET DOMAIN source.defs
      PROVE  LET F == {[name |-> source.defs[k].name, line |-> DefLine(k)] : k \in D}
             IN  F \subseteq FnType /\ IsFiniteSet(F)
  <2> DEFINE x(k) == [name |-> source.defs[k].name, line |-> DefLine(k)]
             g == [k \in D |-> x(k)]
             F == {x(k) : k \in D}
  <2>1. \A k \in D : x(k) \in FnType
    BY <1>4 DEF FnType
  <2> HIDE DEF x
  <2>2. F = {g[k] : k \in D} /\ F \subseteq FnType
    BY <2>1
  <2> HIDE DEF g, F
  <2>3. IsFiniteSet(D)
    BY <1>3, FS_Subset
  <2>4. IsFiniteSet(F)
    BY <2>2, <2>3, FiniteImage
  <2> QED BY <2>2, <2>4 DEF F, x
<1>7. LET F == {source.defs[k].name : k \in DOMAIN source.defs \cap {1}}
      IN  F \subseteq Text /\ IsFiniteSet(F)
  <2> DEFINE F == {source.defs[k].name : k \in DOMAIN source.defs \cap {1}}
  <2>1. F \subseteq Text
    BY <1>4
  <2>2. F \subseteq {source.defs[1].name}
    OBVIOUS
  <2> HIDE DEF F
  <2>3. IsFiniteSet(F)
    <3> DEFINE S == {source.defs[1].name}
    <3>1. IsFiniteSet(S) /\ F \in SUBSET S
      BY <2>2, FS_Singleton
    <3> HIDE DEF S
    <3> QED BY <3>1, FS_Subset
  <2> QED BY <2>1, <2>3 DEF F
<1>8. CASE source.parses
  <2> DEFINE D == {k \in DOMAIN source.defs :
                     \A m \in DOMAIN source.defs : m > k => source.defs[m].name # source.defs[k].name}
  <2>1. D \in SUBSET DOMAIN source.defs
    OBVIOUS
  <2>2. ExtractFile(source) = ExtractTree(source)
    BY <1>8 DEF ExtractFile
  <2>3. AstOK(ExtractTree(source))
    <3>1. TreeEntries(source) \o LineEntries(source) \in Seq(EntryType)
      BY EntriesTyped, ConcatProperties
    <3>2. /\ ExtractTree(source).entries = TreeEntries(source) \o LineEntries(source)
          /\ ExtractTree(source).functions = {[name |-> source.defs[k].name, line |-> DefLine(k)] : k \in D}
          /\ ExtractTree(source).first = {source.defs[k].name : k \in DOMAIN source.defs \cap {1}}
          /\ ExtractTree(source).calls = Called(source)
          /\ ExtractTree(source).sanitizers = SanitizersAmong(Called(source))
          /\ ExtractTree(source).sinks = SinksAmong(Called(source))
      BY DEF ExtractTree
    <3> HIDE DEF D
    <3> QED BY <1>5, <1>6, <1>7, <2>1, <3>1, <3>2, CallsTyped DEF AstOK
  <2> QED BY <2>2, <2>3
<1>9. CASE ~source.parses
  <2>1. ExtractFile(source) = ExtractViaRegex(source)
    BY <1>9 DEF ExtractFile
  <2>2. AstOK(ExtractViaRegex(source))
    <3>1. /\ ExtractViaRegex(source).entries = LineEntries(source)
          /\ ExtractViaRegex(source).functions = {[name |-> source.defs[k].name, line |-> DefLine(k)] : k \in DOMAIN source.defs}
          /\ ExtractViaRegex(source).first = {source.defs[k].name : k \in DOMAIN source.defs \cap {1}}
          /\ ExtractViaRegex(source).calls = {}
          /\ ExtractViaRegex(source).sanitizers = SanitizersAmong(CalledOrDefined(source))
          /\ ExtractViaRegex(source).sinks = SinksAmong(CalledOrDefined(source))
      BY DEF ExtractViaRegex
    <3>2. ExtractViaRegex(source).entries \in Seq(EntryType)
      BY <3>1, EntriesTyped
    <3>3. /\ ExtractViaRegex(source).functions \subseteq FnType
          /\ IsFiniteSet(ExtractViaRegex(source).functions)
      BY <1>6, <3>1
    <3>4. /\ ExtractViaRegex(source).first \subseteq Text
          /\ IsFiniteSet(ExtractViaRegex(source).first)
      BY <1>7, <3>1
    <3>5. /\ ExtractViaRegex(source).calls \subseteq CallType
          /\ IsFiniteSet(ExtractViaRegex(source).calls)
      BY <3>1, FS_EmptySet
    <3>6. /\ ExtractViaRegex(source).sanitizers \subseteq Sanitizers \cap Text
          /\ IsFiniteSet(ExtractViaRegex(source).sanitizers)
          /\ ExtractViaRegex(source).sinks \subseteq {c \in CallType : c.name \in DOMAIN SinkTypes}
          /\ IsFiniteSet(ExtractViaRegex(source).sinks)
      BY <1>5, <3>1, CallsTyped
    <3> QED BY <3>2, <3>3, <3>4, <3>5, <3>6 DEF AstOK
  <2> QED BY <2>1, <2>2
<1> QED BY <1>8, <1>9

LEMMA StubTyped ==
  ASSUME NEW f \in Text
  PROVE  SyntheticStub(f) \in SourceType
<1>1. /\ "data" # Empty /\ "login" # Empty
  BY Zenon DEF Empty
<1>2. Get("data") \subseteq DecoratorType /\ Get("login") \subseteq DecoratorType
  BY <1>1 DEF Get, DecoratorType, Text
<1>3. /\ Function("login", Get("login"), <<"execute">>) \in FunctionType
      /\ Function("get_data", Get("data"), <<"fetch">>) \in FunctionType
      /\ Function("_scr_stub", {}, << >>) \in FunctionType
  <2>1. {"login", "get_data", "_scr_stub", "execute", "fetch"} \subseteq Text
    BY DEF Text
  <2>2. << >> \in Seq(Text) /\ <<"execute">> \in Seq(Text) /\ <<"fetch">> \in Seq(Text)
    <3>1. \A x \in Text : <<x>> \in Seq(Text)
      OBVIOUS
    <3> QED BY <2>1, <3>1, EmptySeq
  <2> QED BY <1>2, <2>1, <2>2 DEF Function, FunctionType
<1> QED BY <1>3 DEF SyntheticStub, SourceType

LEMMA SnippetsTyped ==
  ASSUME NEW f \in Text, NEW snippets \in Seq(Text)
  PROVE  WrapSnippets(f, snippets) \in SourceType
<1>1. "data" # Empty
  BY Zenon DEF Empty
<1>2. Get("data") \subseteq DecoratorType
  BY <1>1 DEF Get, DecoratorType, Text
<1>3. /\ Function("handler", Get("data"), << >>) \in FunctionType
      /\ Function("_scr_context", {}, snippets) \in FunctionType
  <2>1. {"handler", "_scr_context"} \subseteq Text
    BY DEF Text
  <2> QED BY <1>2, <2>1, EmptySeq DEF Function, FunctionType
<1> QED BY <1>3 DEF WrapSnippets, SourceType

LEMMA ExtractForm ==
  ASSUME NEW source, NEW x, x = ExtractFile(source)
  PROVE  LET y == [x EXCEPT !.functions = {}, !.first = {}, !.calls = {}]
         IN  /\ y.functions = {} /\ y.first = {} /\ y.calls = {} /\ y.entries = x.entries
             /\ y.sanitizers = x.sanitizers /\ y.sinks = x.sinks
<1>1. PICK e, fs, a, c, sa, si :
        x = [entries |-> e, functions |-> fs, first |-> a, calls |-> c, sanitizers |-> sa, sinks |-> si]
  BY Zenon DEF ExtractFile, ExtractTree, ExtractViaRegex
<1> QED BY <1>1

(* Every file of a scan is read as something of these types.               *)
LEMMA AstsTyped ==
  ASSUME NEW in, Readable(in)
  PROVE  /\ IsFiniteSet(DOMAIN FileAsts(in)) /\ DOMAIN FileAsts(in) \subseteq Text
         /\ \A f \in DOMAIN FileAsts(in) : AstOK(FileAsts(in)[f])
<1>1. \A f \in DOMAIN in.sources : in.sources[f] \in SourceType
  BY DEF Readable
<1>2. CASE in.kind = "payload" /\ in.sources # << >>
  <2> DEFINE x(f) == ExtractFile(in.sources[f])
             y(f) == [x(f) EXCEPT !.functions = {}, !.first = {}, !.calls = {}]
  <2>1. FileAsts(in) = [f \in DOMAIN in.sources |-> y(f)]
    BY <1>2 DEF FileAsts
  <2>2. ASSUME NEW f \in DOMAIN in.sources
        PROVE  AstOK(y(f))
    <3>1. AstOK(x(f))
      BY <1>1, Extracted
    <3>2. /\ y(f).functions = {} /\ y(f).first = {} /\ y(f).calls = {} /\ y(f).entries = x(f).entries
          /\ y(f).sanitizers = x(f).sanitizers /\ y(f).sinks = x(f).sinks
      BY ExtractForm
    <3> HIDE DEF x, y
    <3> QED BY <3>1, <3>2, FS_EmptySet DEF AstOK
  <2> HIDE DEF y
  <2> QED BY <2>1, <2>2 DEF Readable
<1>3. CASE ~(in.kind = "payload" /\ in.sources # << >>)
  <2> DEFINE named == {in.findings[i].file : i \in DOMAIN in.findings}
             source(f) == IF f \in DOMAIN in.sources THEN in.sources[f] ELSE BuildSource(in, f)
  <2>1. FileAsts(in) = [f \in named \cup DOMAIN in.sources |-> ExtractFile(source(f))]
    BY <1>3, Zenon DEF FileAsts
  <2>2. in.findings \in Seq(FindingType)
    BY DEF Readable
  <2>3. \A i \in DOMAIN in.findings : in.findings[i].file \in Text /\ in.findings[i].snippet \in Text
    <3>1. \A i \in DOMAIN in.findings : in.findings[i] \in FindingType
      BY <2>2
    <3> QED BY <3>1 DEF FindingType
  <2>4. IsFiniteSet(named) /\ named \subseteq Text
    <3> DEFINE g == [i \in DOMAIN in.findings |-> in.findings[i].file]
    <3>1. named = {g[i] : i \in DOMAIN in.findings} /\ named \subseteq Text
      BY <2>3
    <3>2. IsFiniteSet(DOMAIN in.findings)
      <4>1. DOMAIN in.findings = 1..Len(in.findings) /\ Len(in.findings) \in Nat
        BY <2>2
      <4> QED BY <4>1, FS_Interval
    <3> HIDE DEF g, named
    <3> QED BY <3>1, <3>2, FiniteImage
  <2>5. ASSUME NEW f \in Text
        PROVE  BuildSource(in, f) \in SourceType
    <3> DEFINE e(i) == IF in.findings[i].file = f /\ in.findings[i].snippet # Empty
                         THEN <<in.findings[i].snippet>> ELSE << >>
               es == [i \in 1..Len(in.findings) |-> e(i)]
               quoted == FlattenSeq(es)
    <3>1. \A i \in 1..Len(in.findings) : e(i) \in Seq(Text)
      <4>1. \A i \in 1..Len(in.findings) : in.findings[i].snippet \in Text
        BY <2>2, <2>3
      <4> QED BY <4>1
    <3> HIDE DEF e
    <3>2. es \in Seq(Seq(Text))
      BY <2>2, <3>1
    <3> HIDE DEF es
    <3>3. quoted \in Seq(Text)
      BY <3>2, Flattened
    <3>4. BuildSource(in, f) = IF quoted = << >> THEN SyntheticStub(f) ELSE WrapSnippets(f, quoted)
      BY DEF BuildSource, es, e
    <3> HIDE DEF quoted
    <3> QED BY <3>3, <3>4, StubTyped, SnippetsTyped
  <2>6. \A f \in named \cup DOMAIN in.sources : source(f) \in SourceType
    BY <1>1, <2>4, <2>5
  <2>7. IsFiniteSet(named \cup DOMAIN in.sources) /\ named \cup DOMAIN in.sources \subseteq Text
    BY <2>4, FS_Union DEF Readable
  <2> HIDE DEF named, source
  <2> QED BY <2>1, <2>6, <2>7, Extracted
<1> QED BY <1>2, <1>3

----------------------------------------------------------------------------
(* The graph that is built. *)
IdType    == Text \X Nat \X Text \X Text
NodeTypes == {"entry", "function", "sanitizer", "sink"}
NodeType  == [id : IdType, type : NodeTypes, file : Text, jewel : BOOLEAN, auth : BOOLEAN, sink : Text]

(* The entry of a file that has none.                                      *)
StandIn(f) == NodeId(f, 0, "entry", Empty)

(* What is read has a route if and only if it is an entry, and never the   *)
(* id of a stand-in.                                                       *)
Built(n) == IF n.type = "entry" THEN n.id[4] # Empty
            ELSE n.id[4] = Empty /\ \A f \in Text : n.id # StandIn(f)
BuiltNode == {n \in NodeType : Built(n)}

LEMMA IdsOf ==
  ASSUME NEW T, NEW ns \in Seq(T)
  PROVE  Ids(ns) = {n.id : n \in ToSet(ns)}
BY DEF Ids, ToSet

LEMMA Wider ==
  ASSUME NEW S, NEW T, S \subseteq T, NEW s \in Seq(S)
  PROVE  s \in Seq(T)
OBVIOUS

LEMMA ListedNodes ==
  ASSUME NEW D, IsFiniteSet(D), NEW g \in [D -> BuiltNode], NEW S, S = {g[x] : x \in D}
  PROVE  SetToSeq(S) \in Seq(BuiltNode) /\ ToSet(SetToSeq(S)) = S
<1>1. IsFiniteSet(S) /\ S \subseteq BuiltNode
  BY FiniteImage
<1> QED BY <1>1, Listing, Wider

LEMMA FileNodesBuilt ==
  ASSUME NEW f \in Text, NEW ast, AstOK(ast), NEW jewels
  PROVE  /\ FileNodes(f, ast, jewels) \in Seq(BuiltNode)
         /\ \A e \in ToSet(ast.entries) : NodeId(f, e.line, e.name, e.route) \in Ids(FileNodes(f, ast, jewels))
         /\ \A c \in ast.sinks : NodeId(f, c.line, c.name, Empty) \in Ids(FileNodes(f, ast, jewels))
<1> DEFINE en(e) == Node(NodeId(f, e.line, e.name, e.route), "entry", f, f \in jewels, e.route = "login", Empty)
           fn(x) == Node(NodeId(f, x.line, x.name, Empty), "function", f, f \in jewels, FALSE, Empty)
           sn(s) == Node(NodeId(f, 0, s, Empty), "sanitizer", f, FALSE, FALSE, Empty)
           cn(c) == Node(NodeId(f, c.line, c.name, Empty), "sink", f, f \in jewels, FALSE, SinkTypes[c.name])
           E == [i \in 1..Len(ast.entries) |-> en(ast.entries[i])]
           F == SetToSeq({fn(x) : x \in ast.functions})
           S == SetToSeq({sn(s) : s \in ast.sanitizers})
           C == SetToSeq({cn(c) : c \in ast.sinks})
<1>1. FileNodes(f, ast, jewels) = E \o F \o S \o C
  BY DEF FileNodes
<1>2. ast.entries \in Seq(EntryType)
  BY DEF AstOK
<1>3. \A i \in 1..Len(ast.entries) : ast.entries[i] \in EntryType
  BY <1>2
<1>4. Empty \in Text
  BY DEF Text
<1>5. \A e \in EntryType : en(e) \in BuiltNode /\ en(e).id = NodeId(f, e.line, e.name, e.route)
  BY <1>4 DEF EntryType, Node, NodeId, NodeType, IdType, NodeTypes, Built, BuiltNode
<1>6. \A x \in ast.functions : fn(x) \in BuiltNode
  <2> TAKE x \in ast.functions
  <2>1. x.line \in Nat \ {0} /\ x.name \in Text
    BY DEF AstOK, FnType
  <2>2. fn(x) \in NodeType /\ fn(x).type = "function" /\ fn(x).id = NodeId(f, x.line, x.name, Empty)
    BY <1>4, <2>1 DEF Node, NodeId, NodeType, IdType, NodeTypes
  <2> HIDE DEF fn
  <2> QED BY <2>1, <2>2 DEF Built, BuiltNode, NodeId, StandIn
<1>7. \A s \in ast.sanitizers : sn(s) \in BuiltNode
  <2> TAKE s \in ast.sanitizers
  <2>1. s \in Text /\ s # "entry"
    BY AttackPathAssumption DEF AstOK
  <2>2. sn(s) \in NodeType /\ sn(s).type = "sanitizer" /\ sn(s).id = NodeId(f, 0, s, Empty)
    BY <1>4, <2>1 DEF Node, NodeId, NodeType, IdType, NodeTypes
  <2> HIDE DEF sn
  <2> QED BY <2>1, <2>2 DEF Built, BuiltNode, NodeId, StandIn
<1>8. \A c \in ast.sinks : cn(c) \in BuiltNode /\ cn(c).id = NodeId(f, c.line, c.name, Empty)
  <2> TAKE c \in ast.sinks
  <2>1. c.line \in Nat \ {0} /\ c.name \in Text /\ c.name \in DOMAIN SinkTypes
    BY DEF AstOK, CallType
  <2>2. SinkTypes[c.name] \in Text
    BY <2>1, AttackPathAssumption
  <2>3. cn(c) \in NodeType /\ cn(c).type = "sink" /\ cn(c).id = NodeId(f, c.line, c.name, Empty)
    BY <1>4, <2>1, <2>2 DEF Node, NodeId, NodeType, IdType, NodeTypes
  <2> HIDE DEF cn
  <2> QED BY <2>1, <2>3 DEF Built, BuiltNode, NodeId, StandIn
<1> HIDE DEF en, fn, sn, cn
<1>9. E \in Seq(BuiltNode)
  BY <1>2, <1>3, <1>5
<1>10. F \in Seq(BuiltNode)
  <2> DEFINE g == [x \in ast.functions |-> fn(x)]
             D == {fn(x) : x \in ast.functions}
  <2>1. g \in [ast.functions -> BuiltNode] /\ D = {g[x] : x \in ast.functions} /\ IsFiniteSet(ast.functions)
    BY <1>6 DEF AstOK
  <2> HIDE DEF g, D
  <2>2. SetToSeq(D) \in Seq(BuiltNode)
    BY <2>1, ListedNodes
  <2> QED BY <2>2 DEF D
<1>11. S \in Seq(BuiltNode)
  <2> DEFINE g == [x \in ast.sanitizers |-> sn(x)]
             D == {sn(x) : x \in ast.sanitizers}
  <2>1. g \in [ast.sanitizers -> BuiltNode] /\ D = {g[x] : x \in ast.sanitizers} /\ IsFiniteSet(ast.sanitizers)
    BY <1>7 DEF AstOK
  <2> HIDE DEF g, D
  <2>2. SetToSeq(D) \in Seq(BuiltNode)
    BY <2>1, ListedNodes
  <2> QED BY <2>2 DEF D
<1>12. C \in Seq(BuiltNode) /\ ToSet(C) = {cn(c) : c \in ast.sinks}
  <2> DEFINE g == [x \in ast.sinks |-> cn(x)]
             D == {cn(x) : x \in ast.sinks}
  <2>1. g \in [ast.sinks -> BuiltNode] /\ D = {g[x] : x \in ast.sinks} /\ IsFiniteSet(ast.sinks)
    BY <1>8 DEF AstOK
  <2> HIDE DEF g, D
  <2>2. SetToSeq(D) \in Seq(BuiltNode) /\ ToSet(SetToSeq(D)) = D
    BY <2>1, ListedNodes
  <2> QED BY <2>2 DEF D
<1>13. ToSet(E) = {en(e) : e \in ToSet(ast.entries)}
  <2>1. PICK es \in Seq(EntryType) : es = ast.entries
    BY <1>2
  <2>2. DOMAIN es = 1..Len(es) /\ DOMAIN E = 1..Len(es) /\ \A i \in 1..Len(es) : E[i] = en(es[i])
    BY <2>1
  <2> HIDE DEF E
  <2> QED BY <2>1, <2>2 DEF ToSet
<1> HIDE DEF E, F, S, C
<1>14. PICK ns : ns = FileNodes(f, ast, jewels)
  OBVIOUS
<1>15. ns \in Seq(BuiltNode) /\ ToSet(E) \subseteq ToSet(ns) /\ ToSet(C) \subseteq ToSet(ns)
  <2>1. E \o F \in Seq(BuiltNode) /\ ToSet(E \o F) = ToSet(E) \cup ToSet(F)
    BY <1>9, <1>10, Concatenated
  <2>2. PICK a : a = E \o F
    OBVIOUS
  <2>3. a \o S \in Seq(BuiltNode) /\ ToSet(a \o S) = ToSet(a) \cup ToSet(S)
    <3>1. a \in Seq(BuiltNode)
      BY <2>1, <2>2
    <3> QED BY <1>11, <3>1, Concatenated
  <2>4. PICK b : b = a \o S
    OBVIOUS
  <2>5. b \o C \in Seq(BuiltNode) /\ ToSet(b \o C) = ToSet(b) \cup ToSet(C)
    <3>1. b \in Seq(BuiltNode)
      BY <2>3, <2>4
    <3> QED BY <1>12, <3>1, Concatenated
  <2>6. ns = b \o C
    BY <1>1, <1>14, <2>2, <2>4
  <2> QED BY <2>1, <2>2, <2>3, <2>4, <2>5, <2>6
<1>16. Ids(ns) = {n.id : n \in ToSet(ns)}
  BY <1>15, IdsOf
<1>17. ASSUME NEW e \in ToSet(ast.entries)
       PROVE  NodeId(f, e.line, e.name, e.route) \in Ids(ns)
  <2>1. e \in EntryType
    BY <1>3, <1>17, <1>2 DEF ToSet
  <2>2. en(e) \in ToSet(ns)
    BY <1>13, <1>15
  <2> QED BY <1>5, <1>16, <2>1, <2>2
<1>18. ASSUME NEW c \in ast.sinks
       PROVE  NodeId(f, c.line, c.name, Empty) \in Ids(ns)
  BY <1>8, <1>12, <1>15, <1>16
<1> QED BY <1>14, <1>15, <1>17, <1>18

LEMMA FileEdgesKnown ==
  ASSUME NEW f \in Text, NEW ast, AstOK(ast), NEW known,
         \A e \in ToSet(ast.entries) : NodeId(f, e.line, e.name, e.route) \in known,
         \A c \in ast.sinks : NodeId(f, c.line, c.name, Empty) \in known
  PROVE  /\ FileEdges(f, ast, known) \subseteq known \X {id \in known : id[4] = Empty}
         /\ IsFiniteSet(FileEdges(f, ast, known))
<1> DEFINE ce(c) == <<NodeId(f, 0, c.caller, Empty), NodeId(f, 0, c.name, Empty)>>
           ee(e) == <<NodeId(f, e.line, e.name, e.route), NodeId(f, e.line, e.name, Empty)>>
           pe(p) == <<NodeId(f, 0, p[1], Empty), NodeId(f, p[2].line, p[2].name, Empty)>>
           CS == {c \in ast.calls : {NodeId(f, 0, c.caller, Empty), NodeId(f, 0, c.name, Empty)} \subseteq known}
           ES == {e \in ToSet(ast.entries) : NodeId(f, e.line, e.name, Empty) \in known}
           PS == {p \in ast.first \X ast.sinks : NodeId(f, 0, p[1], Empty) \in known}
           Good == known \X {id \in known : id[4] = Empty}
           C == {ce(c) : c \in CS}
           E == {ee(e) : e \in ES}
           P == {pe(p) : p \in PS}
<1>1. FileEdges(f, ast, known) = C \cup E \cup P
  BY DEF FileEdges
<1>2. \A l, n : NodeId(f, l, n, Empty)[4] = Empty
  BY DEF NodeId
<1>3. \A c \in CS : ce(c) \in Good
  BY <1>2
<1>4. \A e \in ES : ee(e) \in Good
  BY <1>2
<1>5. \A p \in PS : pe(p) \in Good
  <2> TAKE p \in PS
  <2>1. p[2] \in ast.sinks /\ NodeId(f, 0, p[1], Empty) \in known
    OBVIOUS
  <2> QED BY <1>2, <2>1
<1>6. IsFiniteSet(CS)
  <2>1. CS \in SUBSET ast.calls
    OBVIOUS
  <2> HIDE DEF CS
  <2> QED BY <2>1, FS_Subset DEF AstOK
<1>7. IsFiniteSet(ES)
  <2>1. ES \in SUBSET ToSet(ast.entries)
    OBVIOUS
  <2>2. IsFiniteSet(ToSet(ast.entries))
    <3>1. PICK es \in Seq(EntryType) : es = ast.entries
      BY DEF AstOK
    <3>2. DOMAIN es = 1..Len(es) /\ Len(es) \in Nat
      OBVIOUS
    <3>3. IsFiniteSet(DOMAIN es)
      BY <3>2, FS_Interval
    <3>4. ToSet(es) = {es[i] : i \in DOMAIN es}
      BY DEF ToSet
    <3>5. IsFiniteSet(ToSet(es))
      BY <3>3, <3>4, FiniteImage
    <3> QED BY <3>1, <3>5
  <2> HIDE DEF ES
  <2> QED BY <2>1, <2>2, FS_Subset
<1>8. IsFiniteSet(PS)
  <2>1. PS \in SUBSET (ast.first \X ast.sinks)
    OBVIOUS
  <2>2. IsFiniteSet(ast.first \X ast.sinks)
    BY FS_Product DEF AstOK
  <2> HIDE DEF PS
  <2> QED BY <2>1, <2>2, FS_Subset
<1> HIDE DEF ce, ee, pe, CS, ES, PS, Good
<1>9. C \subseteq Good /\ IsFiniteSet(C)
  <2> DEFINE g == [c \in CS |-> ce(c)]
  <2>1. C = {g[c] : c \in CS} /\ C \subseteq Good
    BY <1>3
  <2> HIDE DEF g, C
  <2> QED BY <1>6, <2>1, FiniteImage
<1>10. E \subseteq Good /\ IsFiniteSet(E)
  <2> DEFINE g == [e \in ES |-> ee(e)]
  <2>1. E = {g[e] : e \in ES} /\ E \subseteq Good
    BY <1>4
  <2> HIDE DEF g, E
  <2> QED BY <1>7, <2>1, FiniteImage
<1>11. P \subseteq Good /\ IsFiniteSet(P)
  <2> DEFINE g == [p \in PS |-> pe(p)]
  <2>1. P = {g[p] : p \in PS} /\ P \subseteq Good
    BY <1>5
  <2> HIDE DEF g, P
  <2> QED BY <1>8, <2>1, FiniteImage
<1> HIDE DEF C, E, P
<1>12. IsFiniteSet(C \cup E \cup P)
  BY <1>9, <1>10, <1>11, FS_Union
<1>13. C \cup E \cup P \subseteq Good
  BY <1>9, <1>10, <1>11
<1> QED BY <1>1, <1>12, <1>13 DEF Good

(* Build: the nodes are what was read of the files, an edge's ends are     *)
(* among them and no edge leads to an entry.                               *)
LEMMA BuildBuilds ==
  ASSUME Build, Readable(input)
  PROVE  /\ nodes' \in Seq(BuiltNode)
         /\ edges' \subseteq Ids(nodes)' \X {id \in Ids(nodes)' : id[4] = Empty}
         /\ IsFiniteSet(edges')
<1> DEFINE asts == FileAsts(input)
           files == SetToSeq(DOMAIN asts)
           of(i) == FileNodes(files[i], asts[files[i]], input.jewels)
           lists == [i \in 1..Len(files) |-> of(i)]
           all == FlattenSeq(lists)
<1>1. /\ IsFiniteSet(DOMAIN asts) /\ DOMAIN asts \subseteq Text
      /\ \A f \in DOMAIN asts : AstOK(asts[f])
  BY AstsTyped
<1>2. nodes' = all /\ edges' = UNION {FileEdges(f, asts[f], Ids(all)) : f \in DOMAIN asts}
  BY DEF Build
<1> HIDE DEF asts
<1>3. files \in Seq(DOMAIN asts) /\ ToSet(files) = DOMAIN asts
  BY <1>1, Listing
<1> HIDE DEF files
<1>4. \A i \in 1..Len(files) : files[i] \in DOMAIN asts /\ of(i) \in Seq(BuiltNode)
  <2> TAKE i \in 1..Len(files)
  <2>1. files[i] \in DOMAIN asts
    BY <1>3
  <2> QED BY <1>1, <2>1, FileNodesBuilt
<1> HIDE DEF of
<1>5. lists \in Seq(Seq(BuiltNode)) /\ DOMAIN lists = 1..Len(files) /\ \A i \in 1..Len(files) : lists[i] = of(i)
  BY <1>3, <1>4
<1> HIDE DEF lists
<1>6. all \in Seq(BuiltNode) /\ ToSet(all) = UNION {ToSet(lists[i]) : i \in DOMAIN lists}
  BY <1>5, Flattened
<1> HIDE DEF all
<1>7. ASSUME NEW f \in DOMAIN asts
      PROVE  /\ \A e \in ToSet(asts[f].entries) : NodeId(f, e.line, e.name, e.route) \in Ids(all)
             /\ \A c \in asts[f].sinks : NodeId(f, c.line, c.name, Empty) \in Ids(all)
  <2>1. PICK i \in 1..Len(files) : files[i] = f
    BY <1>3, <1>7 DEF ToSet
  <2>2. of(i) \in Seq(BuiltNode) /\ ToSet(of(i)) \subseteq ToSet(all)
    BY <1>4, <1>5, <1>6
  <2>3. Ids(of(i)) \subseteq Ids(all)
    BY <1>6, <2>2, IdsOf
  <2>4. of(i) = FileNodes(f, asts[f], input.jewels)
    BY <2>1 DEF of
  <2> QED BY <1>1, <2>3, <2>4, FileNodesBuilt
<1> DEFINE ef(f) == FileEdges(f, asts[f], Ids(all))
           ES == {ef(f) : f \in DOMAIN asts}
           Good == Ids(all) \X {id \in Ids(all) : id[4] = Empty}
<1>8. \A f \in DOMAIN asts : ef(f) \subseteq Good /\ IsFiniteSet(ef(f))
  <2> TAKE f \in DOMAIN asts
  <2>1. f \in Text /\ AstOK(asts[f])
    BY <1>1
  <2> QED BY <1>7, <2>1, FileEdgesKnown
<1>9. edges' = UNION ES
  BY <1>2
<1> HIDE DEF ef, Good
<1>10. IsFiniteSet(ES)
  <2> DEFINE g == [f \in DOMAIN asts |-> ef(f)]
  <2>1. ES = {g[f] : f \in DOMAIN asts}
    OBVIOUS
  <2> HIDE DEF g, ES
  <2> QED BY <1>1, <2>1, FiniteImage
<1>11. UNION ES \subseteq Good /\ \A T \in ES : IsFiniteSet(T)
  BY <1>8
<1> HIDE DEF ES
<1>12. IsFiniteSet(UNION ES)
  BY <1>10, <1>11, FS_UNION
<1> QED BY <1>2, <1>6, <1>9, <1>11, <1>12 DEF Good, Ids

----------------------------------------------------------------------------
(* The inductive invariant. *)

(* An entry has a route or stands in for one; what stands in is the only   *)
(* entry of its file, and its id is no other node's.                       *)
NodesOK(ns) ==
  /\ ns \in Seq(NodeType)
  /\ \A i \in DOMAIN ns : IF ns[i].type = "entry" THEN ns[i].id[4] # Empty \/ ns[i].id = StandIn(ns[i].file)
                          ELSE ns[i].id[4] = Empty
  /\ \A i \in DOMAIN ns : ns[i].id = StandIn(ns[i].id[1]) => EntriesOf(ns, ns[i].id[1]) # {}
  /\ \A i \in DOMAIN ns : ns[i].type = "entry" /\ ns[i].id = StandIn(ns[i].file) =>
                            /\ EntriesOf(ns, ns[i].file) = {i}
                            /\ \A j \in DOMAIN ns : ns[j].id = ns[i].id => j = i

(* An edge's ends are nodes, and no edge leads into an entry from another  *)
(* node.                                                                   *)
EdgesOK(ns, es) ==
  /\ es \subseteq Ids(ns) \X Ids(ns) /\ IsFiniteSet(es)
  /\ \A e \in es, i \in DOMAIN ns : ns[i].id = e[2] /\ ns[i].type = "entry" => e[1] = e[2]

(* The finding is reached from an entry, directly or by way of one node.   *)
Led(ns, es, x) ==
  /\ FindingId(x) \in Ids(ns)
  /\ \E i \in DOMAIN ns :
       /\ ns[i].type = "entry"
       /\ \/ <<ns[i].id, FindingId(x)>> \in es
          \/ \E id \in Ids(ns) : <<ns[i].id, id>> \in es /\ <<id, FindingId(x)>> \in es

Graph ==
  /\ Readable(input)
  /\ NodesOK(nodes) /\ EdgesOK(nodes, edges)
  /\ todo \subseteq DOMAIN input.findings
  /\ at \notin {"built", "findings"} => todo = {}
  /\ at # "built" => \A i \in DOMAIN input.findings :
                       IsSink(input.findings[i]) /\ i \notin todo => Led(nodes, edges, input.findings[i])

Storing ==
  /\ stored = [nodes |-> stored.nodes, links |-> stored.links]
  /\ at = "write" => \A id \in DOMAIN stored.nodes : stored.nodes[id] # scan
  /\ at \in {"link", "persisted", "done and stored"} =>
       /\ Ids(nodes) \subseteq DOMAIN stored.nodes
       /\ \A id \in DOMAIN stored.nodes : stored.nodes[id] = scan <=> id \in Ids(nodes)
  /\ at \in {"persisted", "done and stored"} => edges \subseteq stored.links

(* An entry that starts a path has a radius, and one only.                 *)
Starting(ps, id) == {p \in ps : p[1] = id}
RadiiOK(ns, ps, radii) ==
  /\ \A r \in radii : \E n \in ToSet(ns) : /\ n.type = "entry" /\ n.id = r.entry
                                         /\ r.total = Cardinality(Starting(ps, n.id))
  /\ \A n \in ToSet(ns) : n.type = "entry" /\ Starting(ps, n.id) # {} =>
       \E r \in radii : r.entry = n.id /\ r.sinks = {Last(p) : p \in Starting(ps, n.id)}
  /\ \A r, s \in radii : r.entry = s.entry => r = s

Reported ==
  at \in {"done", "done and stored"} =>
    /\ report.paths \in kSubset(Min({Limit, Cardinality(AllPaths)}), AllPaths)
    /\ report.chokepoints = Chokepoints(report.paths)
    /\ RadiiOK(nodes, report.paths, report.radii)

IInv == Graph /\ Storing /\ Reported

LEMMA BuiltOK ==
  ASSUME NEW ns \in Seq(BuiltNode)
  PROVE  NodesOK(ns)
<1>1. \A i \in DOMAIN ns : ns[i] \in NodeType /\ Built(ns[i])
  BY DEF BuiltNode
<1>2. ns \in Seq(NodeType)
  BY Wider DEF BuiltNode
<1>3. \A i \in DOMAIN ns : ns[i].id[1] \in Text /\ ns[i].file \in Text
  BY <1>1 DEF NodeType, IdType
<1>4. \A i \in DOMAIN ns, f \in Text : ns[i].id # StandIn(f)
  <2> TAKE i \in DOMAIN ns, f \in Text
  <2>1. StandIn(f)[4] = Empty
    BY DEF StandIn, NodeId
  <2> QED BY <1>1, <2>1 DEF Built
<1>5. \A i \in DOMAIN ns : IF ns[i].type = "entry" THEN ns[i].id[4] # Empty ELSE ns[i].id[4] = Empty
  BY <1>1 DEF Built
<1> QED BY <1>2, <1>3, <1>4, <1>5 DEF NodesOK

LEMMA BuiltEdgesOK ==
  ASSUME NEW ns \in Seq(BuiltNode), NEW es, IsFiniteSet(es),
         es \subseteq Ids(ns) \X {id \in Ids(ns) : id[4] = Empty}
  PROVE  EdgesOK(ns, es)
<1>1. \A i \in DOMAIN ns : ns[i].type = "entry" => ns[i].id[4] # Empty
  BY DEF BuiltNode, Built
<1>2. es \subseteq Ids(ns) \X Ids(ns)
  OBVIOUS
<1>3. \A e \in es : e[2][4] = Empty
  OBVIOUS
<1> QED BY <1>1, <1>2, <1>3 DEF EdgesOK

(* Nodes are only added, under ids that no node had.                       *)
Extends(ns, more) ==
  /\ DOMAIN ns \subseteq DOMAIN more
  /\ \A i \in DOMAIN ns : more[i] = ns[i]
  /\ \A i \in DOMAIN more \ DOMAIN ns : more[i].id \notin Ids(ns)

LEMMA ExtendedIds ==
  ASSUME NEW ns, NEW more, Extends(ns, more)
  PROVE  Ids(ns) \subseteq Ids(more)
BY DEF Extends, Ids

LEMMA EdgesKept ==
  ASSUME NEW ns, NEW more, NEW es, Extends(ns, more), EdgesOK(ns, es)
  PROVE  EdgesOK(more, es)
<1>1. es \subseteq Ids(ns) \X Ids(ns) /\ IsFiniteSet(es)
  BY DEF EdgesOK
<1>2. es \subseteq Ids(more) \X Ids(more)
  BY <1>1, ExtendedIds
<1>3. ASSUME NEW e \in es, NEW i \in DOMAIN more, more[i].id = e[2], more[i].type = "entry"
      PROVE  e[1] = e[2]
  <2>1. e[2] \in Ids(ns)
    BY <1>1
  <2>2. i \in DOMAIN ns /\ more[i] = ns[i]
    BY <1>3, <2>1 DEF Extends
  <2> QED BY <1>3, <2>2 DEF EdgesOK
<1> QED BY <1>1, <1>2, <1>3 DEF EdgesOK

LEMMA LedKept ==
  ASSUME NEW ns, NEW more, NEW es, NEW xs, NEW x, Extends(ns, more), es \subseteq xs, Led(ns, es, x)
  PROVE  Led(more, xs, x)
<1>1. PICK i \in DOMAIN ns : /\ ns[i].type = "entry"
                             /\ \/ <<ns[i].id, FindingId(x)>> \in es
                                \/ \E id \in Ids(ns) : <<ns[i].id, id>> \in es /\ <<id, FindingId(x)>> \in es
  BY DEF Led
<1>2. i \in DOMAIN more /\ more[i] = ns[i]
  BY DEF Extends
<1>3. Ids(ns) \subseteq Ids(more) /\ FindingId(x) \in Ids(more)
  BY ExtendedIds DEF Led
<1> QED BY <1>1, <1>2, <1>3 DEF Led

LEMMA FindingIdTyped ==
  ASSUME NEW x \in FindingType
  PROVE  FindingId(x) \in IdType /\ FindingId(x)[4] = Empty /\ x.file \in Text
BY DEF FindingType, FindingId, NodeId, IdType, Text

(* A node at the end, of an id that no node had.                           *)
LEMMA Appended ==
  ASSUME NEW ns \in Seq(NodeType), NEW n \in NodeType, n.id \notin Ids(ns), NEW more, more = Append(ns, n)
  PROVE  /\ more \in Seq(NodeType) /\ DOMAIN more = DOMAIN ns \cup {Len(ns) + 1}
         /\ Len(ns) + 1 \notin DOMAIN ns
         /\ more[Len(ns) + 1] = n /\ Extends(ns, more) /\ n.id \in Ids(more)
<1>1. /\ more \in Seq(NodeType) /\ DOMAIN more = DOMAIN ns \cup {Len(ns) + 1}
      /\ Len(ns) + 1 \notin DOMAIN ns
      /\ more[Len(ns) + 1] = n /\ \A i \in DOMAIN ns : more[i] = ns[i]
  OBVIOUS
<1> QED BY <1>1 DEF Extends, Ids

LEMMA WithEntryOK ==
  ASSUME NEW ns, NodesOK(ns), NEW x \in FindingType, NEW more, more = WithEntry(ns, x)
  PROVE  NodesOK(more) /\ Extends(ns, more) /\ EntriesOf(more, x.file) # {}
<1>1. CASE EntriesOf(ns, x.file) # {}
  BY <1>1 DEF WithEntry, Extends
<1>2. CASE EntriesOf(ns, x.file) = {}
  <2> DEFINE n == Node(StandIn(x.file), "entry", x.file, FALSE, x.file \in AuthFiles, Empty)
             k == Len(ns) + 1
  <2>1. x.file \in Text /\ Empty \in Text /\ "entry" \in Text
    BY DEF FindingType, Text
  <2>2. /\ n \in NodeType /\ n.id = StandIn(x.file) /\ n.type = "entry" /\ n.file = x.file
        /\ StandIn(x.file)[1] = x.file
    BY <2>1 DEF Node, StandIn, NodeId, NodeType, NodeTypes, IdType
  <2>3. more = Append(ns, n)
    BY <1>2 DEF WithEntry, StandIn
  <2>4. ns \in Seq(NodeType)
    BY DEF NodesOK
  <2>5. n.id \notin Ids(ns)
    BY <1>2, <2>2 DEF NodesOK, Ids
  <2> HIDE DEF n
  <2>6. /\ more \in Seq(NodeType) /\ DOMAIN more = DOMAIN ns \cup {k} /\ k \notin DOMAIN ns
        /\ more[k] = n /\ Extends(ns, more)
    BY <2>2, <2>3, <2>4, <2>5, Appended
  <2>7. \A i \in DOMAIN ns : more[i] = ns[i]
    BY <2>6 DEF Extends
  <2> HIDE DEF k
  <2>8. EntriesOf(more, x.file) = {k}
    BY <1>2, <2>2, <2>6, <2>7 DEF EntriesOf
  <2>9. \A f : f # x.file => EntriesOf(more, f) = EntriesOf(ns, f)
    BY <2>2, <2>6, <2>7 DEF EntriesOf
  <2>10. \A i \in DOMAIN ns : ns[i].id # n.id /\ ~(ns[i].type = "entry" /\ ns[i].file = x.file)
    BY <1>2, <2>5 DEF Ids, EntriesOf
  <2>11. \A i \in DOMAIN more : IF more[i].type = "entry" THEN more[i].id[4] # Empty \/ more[i].id = StandIn(more[i].file)
                                ELSE more[i].id[4] = Empty
    BY <2>2, <2>6, <2>7 DEF NodesOK
  <2>12. \A i \in DOMAIN more : more[i].id = StandIn(more[i].id[1]) => EntriesOf(more, more[i].id[1]) # {}
    <3> SUFFICES ASSUME NEW i \in DOMAIN more, more[i].id = StandIn(more[i].id[1])
                 PROVE  EntriesOf(more, more[i].id[1]) # {}
      OBVIOUS
    <3>1. CASE more[i].id[1] = x.file
      BY <2>8, <3>1
    <3>2. CASE more[i].id[1] # x.file
      <4>1. i \in DOMAIN ns /\ more[i] = ns[i]
        BY <2>2, <2>6, <2>7, <3>2
      <4>2. EntriesOf(ns, ns[i].id[1]) # {}
        BY <4>1 DEF NodesOK
      <4> QED BY <2>9, <3>2, <4>1, <4>2
    <3> QED BY <3>1, <3>2
  <2>13. ASSUME NEW i \in DOMAIN more, more[i].type = "entry", more[i].id = StandIn(more[i].file)
         PROVE  /\ EntriesOf(more, more[i].file) = {i}
                /\ \A j \in DOMAIN more : more[j].id = more[i].id => j = i
    <3>1. CASE i = k
      BY <2>2, <2>6, <2>7, <2>8, <2>10, <3>1
    <3>2. CASE i # k
      <4>1. i \in DOMAIN ns /\ more[i] = ns[i] /\ ns[i].file # x.file
        BY <2>6, <2>7, <2>10, <2>13, <3>2
      <4>2. EntriesOf(ns, ns[i].file) = {i} /\ \A j \in DOMAIN ns : ns[j].id = ns[i].id => j = i
        BY <2>13, <4>1 DEF NodesOK
      <4>3. EntriesOf(more, more[i].file) = {i}
        BY <2>9, <4>1, <4>2
      <4>4. \A j \in DOMAIN more : more[j].id = more[i].id => j = i
        BY <2>6, <2>7, <2>10, <4>1, <4>2
      <4> QED BY <4>3, <4>4
    <3> QED BY <3>1, <3>2
  <2> QED BY <2>6, <2>8, <2>11, <2>12, <2>13 DEF NodesOK
<1> QED BY <1>1, <1>2

LEMMA WithSinkOK ==
  ASSUME NEW ns, NodesOK(ns), NEW x \in FindingType, EntriesOf(ns, x.file) # {}, NEW more, more = WithSink(ns, x)
  PROVE  /\ NodesOK(more) /\ Extends(ns, more)
         /\ EntriesOf(more, x.file) # {} /\ FindingId(x) \in Ids(more)
<1>1. CASE FindingId(x) \in Ids(ns)
  BY <1>1 DEF WithSink, Extends
<1>2. CASE FindingId(x) \notin Ids(ns)
  <2> DEFINE n == Node(FindingId(x), "sink", x.file, x.file \in input.jewels, FALSE, x.category)
             k == Len(ns) + 1
  <2>1. x.category \in Text
    BY DEF FindingType
  <2>2. /\ n \in NodeType /\ n.id = FindingId(x) /\ n.type = "sink" /\ n.id[4] = Empty
        /\ n.id[1] = x.file
    <3>1. n.id = FindingId(x) /\ FindingId(x)[1] = x.file
      BY DEF Node, FindingId, NodeId
    <3> QED BY <2>1, <3>1, FindingIdTyped DEF Node, NodeType, NodeTypes
  <2>3. more = Append(ns, n)
    BY <1>2 DEF WithSink
  <2>4. ns \in Seq(NodeType) /\ n.id \notin Ids(ns)
    BY <1>2, <2>2 DEF NodesOK
  <2> HIDE DEF n
  <2>5. /\ more \in Seq(NodeType) /\ DOMAIN more = DOMAIN ns \cup {k} /\ k \notin DOMAIN ns
        /\ more[k] = n /\ Extends(ns, more) /\ n.id \in Ids(more)
    BY <2>2, <2>3, <2>4, Appended
  <2>6. \A i \in DOMAIN ns : more[i] = ns[i]
    BY <2>5 DEF Extends
  <2> HIDE DEF k
  <2>7. \A f : EntriesOf(more, f) = EntriesOf(ns, f)
    BY <2>2, <2>5, <2>6 DEF EntriesOf
  <2>8. \A i \in DOMAIN ns : ns[i].id # n.id
    BY <2>4 DEF Ids
  <2>9. \A i \in DOMAIN more : IF more[i].type = "entry" THEN more[i].id[4] # Empty \/ more[i].id = StandIn(more[i].file)
                               ELSE more[i].id[4] = Empty
    BY <2>2, <2>5, <2>6 DEF NodesOK
  <2>10. \A i \in DOMAIN more : more[i].id = StandIn(more[i].id[1]) => EntriesOf(more, more[i].id[1]) # {}
    BY <2>2, <2>5, <2>6, <2>7 DEF NodesOK
  <2>11. ASSUME NEW i \in DOMAIN more, more[i].type = "entry", more[i].id = StandIn(more[i].file)
         PROVE  /\ EntriesOf(more, more[i].file) = {i}
                /\ \A j \in DOMAIN more : more[j].id = more[i].id => j = i
    <3>1. i \in DOMAIN ns /\ more[i] = ns[i]
      BY <2>2, <2>5, <2>6, <2>11
    <3>2. EntriesOf(ns, ns[i].file) = {i} /\ \A j \in DOMAIN ns : ns[j].id = ns[i].id => j = i
      BY <2>11, <3>1 DEF NodesOK
    <3> QED BY <2>5, <2>6, <2>7, <2>8, <3>1, <3>2
  <2> QED BY <2>2, <2>5, <2>7, <2>9, <2>10, <2>11 DEF NodesOK
<1> QED BY <1>1, <1>2

LEMMA FindingEdgesOK ==
  ASSUME NEW ns, NodesOK(ns), NEW x \in FindingType, EntriesOf(ns, x.file) # {}, FindingId(x) \in Ids(ns)
  PROVE  EdgesOK(ns, FindingEdges(ns, x)) /\ Led(ns, FindingEdges(ns, x), x)
<1> DEFINE entry == LastEntry(ns, x.file)
           fn == NodeId(x.file, 0, x.name, Empty)
           id == FindingId(x)
<1>1. PICK k \in EntriesOf(ns, x.file) : k = Max(EntriesOf(ns, x.file))
  <2>1. EntriesOf(ns, x.file) \in SUBSET (0..Len(ns)) /\ Len(ns) \in Nat
    <3>1. ns \in Seq(NodeType)
      BY DEF NodesOK
    <3>2. Len(ns) \in Nat /\ DOMAIN ns = 1..Len(ns)
      BY <3>1
    <3> QED BY <3>2 DEF EntriesOf
  <2> QED BY <2>1, MaxOf
<1>2. k \in DOMAIN ns /\ ns[k].type = "entry" /\ ns[k].file = x.file /\ entry = ns[k].id
  BY <1>1 DEF EntriesOf, LastEntry
<1>3. entry \in Ids(ns) /\ id \in Ids(ns)
  BY <1>2 DEF Ids
(* An entry of this file without a route is the file's last.               *)
<1>4. ASSUME NEW i \in DOMAIN ns, ns[i].type = "entry", ns[i].id = fn \/ ns[i].id = id
      PROVE  ns[i].id = entry /\ ns[i].id = StandIn(x.file)
  <2>1. ns[i].id[4] = Empty /\ ns[i].id[1] = x.file
    BY <1>4 DEF FindingId, NodeId
  <2>2. ns[i].id = StandIn(ns[i].file)
    BY <1>4, <2>1 DEF NodesOK
  <2>3. ns[i].file = x.file
    BY <2>1, <2>2 DEF StandIn, NodeId
  <2>4. EntriesOf(ns, x.file) = {i}
    BY <1>4, <2>2, <2>3 DEF NodesOK
  <2>5. i = k
    BY <1>1, <2>4
  <2> QED BY <1>2, <2>2, <2>3, <2>5
<1>5. fn = id \/ id # StandIn(x.file)
  BY DEF StandIn, FindingId, NodeId
<1>6. CASE x.name # "None" /\ fn \in Ids(ns)
  <2>1. FindingEdges(ns, x) = {<<entry, fn>>, <<fn, id>>}
    BY <1>6 DEF FindingEdges
  <2>2. IsFiniteSet({<<entry, fn>>, <<fn, id>>})
    <3> DEFINE A == {<<entry, fn>>}
               B == {<<fn, id>>}
    <3>1. {<<entry, fn>>, <<fn, id>>} = A \cup B
      OBVIOUS
    <3>2. IsFiniteSet(A) /\ IsFiniteSet(B)
      BY FS_Singleton
    <3> HIDE DEF A, B
    <3>3. IsFiniteSet(A \cup B)
      BY <3>2, FS_Union
    <3> QED BY <3>1, <3>3
  <2> HIDE DEF entry, fn, id
  <2>3. ASSUME NEW e \in {<<entry, fn>>, <<fn, id>>}, NEW i \in DOMAIN ns, ns[i].id = e[2], ns[i].type = "entry"
        PROVE  e[1] = e[2]
    <3>1. CASE e = <<entry, fn>>
      BY <1>4, <2>3, <3>1
    <3>2. CASE e = <<fn, id>>
      BY <1>4, <1>5, <2>3, <3>2
    <3> QED BY <2>3, <3>1, <3>2
  <2>4. EdgesOK(ns, {<<entry, fn>>, <<fn, id>>})
    BY <1>3, <1>6, <2>2, <2>3 DEF EdgesOK
  <2>5. Led(ns, {<<entry, fn>>, <<fn, id>>}, x)
    BY <1>2, <1>3, <1>6 DEF Led, id
  <2> QED BY <2>1, <2>4, <2>5
<1>7. CASE ~(x.name # "None" /\ fn \in Ids(ns))
  <2>1. FindingEdges(ns, x) = {<<entry, id>>}
    BY <1>7 DEF FindingEdges
  <2>2. IsFiniteSet({<<entry, id>>})
    BY FS_Singleton
  <2> HIDE DEF entry, fn, id
  <2>3. EdgesOK(ns, {<<entry, id>>})
    BY <1>3, <1>4, <2>2 DEF EdgesOK
  <2>4. Led(ns, {<<entry, id>>}, x)
    BY <1>2, <1>3 DEF Led, id
  <2> QED BY <2>1, <2>3, <2>4
<1> QED BY <1>6, <1>7

LEMMA GraphInit == Init => Graph
<1> SUFFICES ASSUME Init PROVE Graph
  OBVIOUS
<1>1. Readable(input)
  BY AttackPathAssumption DEF Init
<1>2. nodes = << >> /\ edges = {} /\ todo = {} /\ at = "built"
  BY DEF Init
<1>3. NodesOK(nodes)
  BY <1>2, EmptySeq DEF NodesOK
<1>4. EdgesOK(nodes, edges)
  BY <1>2, FS_EmptySet DEF EdgesOK
<1> QED BY <1>1, <1>2, <1>3, <1>4 DEF Graph

LEMMA AddFindingStep ==
  ASSUME Graph, AddFinding
  PROVE  /\ NodesOK(nodes') /\ EdgesOK(nodes', edges')
         /\ todo' \subseteq todo
         /\ \A i \in DOMAIN input.findings :
              IsSink(input.findings[i]) /\ i \notin todo' => Led(nodes', edges', input.findings[i])
<1> DEFINE m == Min(todo)
           x == input.findings[m]
           with == WithEntry(nodes, x)
           ns == WithSink(with, x)
<1>1. m \in DOMAIN input.findings /\ x \in FindingType
  <2>1. input.findings \in Seq(FindingType) /\ todo # {}
    BY DEF Graph, Readable, AddFinding
  <2>2. todo \in SUBSET Nat /\ todo \subseteq DOMAIN input.findings
    BY <2>1 DEF Graph
  <2>3. m \in todo
    BY <2>1, <2>2, MinOf
  <2> QED BY <2>1, <2>2, <2>3
<1>2. nodes' = ns /\ edges' = edges \cup FindingEdges(ns, x) /\ todo' = todo \ {m}
  BY DEF AddFinding
<1> HIDE DEF m, x
<1>3. NodesOK(with) /\ Extends(nodes, with) /\ EntriesOf(with, x.file) # {}
  BY <1>1, WithEntryOK DEF Graph
<1> HIDE DEF with
<1>4. /\ NodesOK(ns) /\ Extends(with, ns)
      /\ EntriesOf(ns, x.file) # {} /\ FindingId(x) \in Ids(ns)
  BY <1>1, <1>3, WithSinkOK
<1> HIDE DEF ns
<1>5. EdgesOK(ns, FindingEdges(ns, x)) /\ Led(ns, FindingEdges(ns, x), x)
  BY <1>1, <1>4, FindingEdgesOK
<1>6. Extends(nodes, ns)
  <2>1. Ids(nodes) \subseteq Ids(with)
    BY <1>3, ExtendedIds
  <2> QED BY <1>3, <1>4, <2>1 DEF Extends
<1>7. EdgesOK(ns, edges)
  BY <1>6, EdgesKept DEF Graph
<1>8. EdgesOK(ns, edges \cup FindingEdges(ns, x))
  <2>1. IsFiniteSet(edges \cup FindingEdges(ns, x))
    BY <1>5, <1>7, FS_Union DEF EdgesOK
  <2> QED BY <1>5, <1>7, <2>1 DEF EdgesOK
<1>9. ASSUME NEW i \in DOMAIN input.findings, IsSink(input.findings[i]), i \notin todo'
      PROVE  Led(nodes', edges', input.findings[i])
  <2>1. CASE i = m
    <3>1. Extends(ns, ns)
      BY DEF Extends
    <3>2. Led(ns, edges \cup FindingEdges(ns, x), x)
      BY <1>5, <3>1, LedKept
    <3> QED BY <1>2, <2>1, <3>2 DEF x
  <2>2. CASE i # m
    <3>1. i \notin todo /\ at = "findings"
      BY <1>2, <1>9, <2>2 DEF AddFinding
    <3>2. Led(nodes, edges, input.findings[i])
      BY <1>9, <3>1 DEF Graph
    <3> QED BY <1>2, <1>6, <3>2, LedKept
  <2> QED BY <2>1, <2>2
<1> QED BY <1>2, <1>4, <1>8, <1>9

LEMMA GraphStep ==
  ASSUME Graph, [Next]_vars
  PROVE  Graph'
<1>1. CASE Build
  <2>1. /\ nodes' \in Seq(BuiltNode)
        /\ edges' \subseteq Ids(nodes)' \X {id \in Ids(nodes)' : id[4] = Empty}
        /\ IsFiniteSet(edges')
    BY <1>1, BuildBuilds DEF Graph
  <2>2. NodesOK(nodes')
    BY <2>1, BuiltOK
  <2>3. EdgesOK(nodes', edges')
    <3>1. edges' \subseteq Ids(nodes') \X {id \in Ids(nodes') : id[4] = Empty}
      BY <2>1 DEF Ids
    <3> QED BY <2>1, <3>1, BuiltEdgesOK
  <2>4. /\ at' = "findings" /\ input' = input
        /\ todo' = {i \in DOMAIN input.findings : IsSink(input.findings[i])}
    BY <1>1 DEF Build
  <2> QED BY <2>2, <2>3, <2>4 DEF Graph, NodesOK, EdgesOK, Readable, IsSink, Led
<1>2. CASE AddFinding
  <2>1. /\ NodesOK(nodes') /\ EdgesOK(nodes', edges')
        /\ todo' \subseteq todo
        /\ \A i \in DOMAIN input.findings :
             IsSink(input.findings[i]) /\ i \notin todo' => Led(nodes', edges', input.findings[i])
    BY <1>2, AddFindingStep
  <2>2. at = "findings" /\ at' = at /\ input' = input
    BY <1>2 DEF AddFinding
  <2> QED BY <2>1, <2>2 DEF Graph
<1>3. ASSUME at # "built", at' # "built", todo = {} \/ at' = "findings", UNCHANGED <<input, nodes, edges, todo>>
      PROVE  Graph'
  BY <1>3 DEF Graph
<1>4. CASE Skip
  BY <1>3, <1>4 DEF Skip, Graph
<1>5. CASE DeleteStored
  BY <1>3, <1>5 DEF DeleteStored, Graph
<1>6. CASE MergeNodes
  BY <1>3, <1>6 DEF MergeNodes, Graph
<1>7. CASE LinkNodes
  BY <1>3, <1>7 DEF LinkNodes, Graph
<1>8. CASE Analyze
  <2>1. at \in {"find", "persisted"} /\ at' \in {"done", "done and stored"} /\ UNCHANGED <<input, nodes, edges, todo>>
    BY <1>8, Zenon DEF Analyze
  <2> QED BY <1>3, <2>1, Zenon DEF Graph
<1>9. CASE ScanAgain
  <2>1. PICK n \in 0..(Len(input.findings) - 1) : input' = [input EXCEPT !.findings = SubSeq(@, 1, n)]
    BY <1>9, Zenon DEF ScanAgain
  <2>2. /\ input = [kind |-> input.kind, sources |-> input.sources, jewels |-> input.jewels, findings |-> input.findings]
        /\ input.findings \in Seq(FindingType)
    BY DEF Graph, Readable
  <2>3. SubSeq(input.findings, 1, n) \in Seq(FindingType)
    BY <2>2, SubSeqProperties
  <2>4. input' = [kind |-> input.kind, sources |-> input.sources, jewels |-> input.jewels, findings |-> SubSeq(input.findings, 1, n)]
    BY <2>1, <2>2
  <2>5. Readable(input')
    BY <2>3, <2>4 DEF Graph, Readable
  <2>6. at' = "built" /\ nodes' = << >> /\ edges' = {} /\ todo' = {}
    BY <1>9, Zenon DEF ScanAgain
  <2>7. NodesOK(nodes')
    BY <2>6, EmptySeq DEF NodesOK
  <2>8. EdgesOK(nodes', edges')
    BY <2>6, FS_EmptySet DEF EdgesOK
  <2> QED BY <2>5, <2>6, <2>7, <2>8 DEF Graph
<1>10. CASE UNCHANGED vars
  <2>1. UNCHANGED <<at, input, nodes, edges, todo>>
    BY <1>10 DEF vars
  <2> QED BY <2>1 DEF Graph
<1> QED BY <1>1, <1>2, <1>4, <1>5, <1>6, <1>7, <1>8, <1>9, <1>10 DEF Next

LEMMA StoringStep ==
  ASSUME Graph, Storing, [Next]_vars
  PROVE  Storing'
<1> USE DEF Storing
<1>1. CASE Build
  BY <1>1 DEF Build
<1>2. CASE AddFinding
  BY <1>2 DEF AddFinding
<1>3. CASE Skip
  BY <1>3, Zenon DEF Skip
<1>4. CASE DeleteStored
  <2> DEFINE kept == {id \in DOMAIN stored.nodes : stored.nodes[id] # scan}
  <2>1. /\ stored'.nodes = [id \in kept |-> stored.nodes[id]]
        /\ stored' = [nodes |-> stored'.nodes, links |-> stored'.links]
        /\ at' = "write" /\ scan' = scan
    BY <1>4 DEF DeleteStored
  <2> QED BY <2>1, Zenon
<1>5. CASE MergeNodes
  <2>1. /\ stored'.nodes = [id \in Ids(nodes) \cup DOMAIN stored.nodes |->
                              IF id \in Ids(nodes) THEN scan ELSE stored.nodes[id]]
        /\ stored' = [nodes |-> stored'.nodes, links |-> stored'.links]
        /\ at = "write" /\ at' = "link" /\ scan' = scan /\ nodes' = nodes
    BY <1>5 DEF MergeNodes
  <2> QED BY <2>1 DEF Ids
<1>6. CASE LinkNodes
  <2>1. /\ stored'.nodes = stored.nodes
        /\ stored'.links = stored.links \cup {e \in edges : {e[1], e[2]} \subseteq DOMAIN stored.nodes}
        /\ stored' = [nodes |-> stored'.nodes, links |-> stored'.links]
        /\ at = "link" /\ at' = "persisted" /\ UNCHANGED <<scan, nodes, edges>>
    BY <1>6 DEF LinkNodes
  <2>2. edges \subseteq Ids(nodes) \X Ids(nodes)
    BY Zenon DEF Graph, EdgesOK
  <2>3. edges \subseteq stored'.links
    BY <2>1, <2>2
  <2> QED BY <2>1, <2>3 DEF Ids
<1>7. CASE Analyze
  <2>1. /\ at' \in {"done", "done and stored"} /\ (at' = "done and stored" => at = "persisted")
        /\ UNCHANGED <<scan, nodes, edges, stored>>
    BY <1>7, Zenon DEF Analyze
  <2> QED BY <2>1, Zenon DEF Ids
<1>8. CASE ScanAgain
  BY <1>8, Zenon DEF ScanAgain
<1>9. CASE UNCHANGED vars
  BY <1>9, Zenon DEF vars, Ids
<1> QED BY <1>1, <1>2, <1>3, <1>4, <1>5, <1>6, <1>7, <1>8, <1>9, Zenon DEF Next

LEMMA BlastRadiiOK ==
  ASSUME NEW ps
  PROVE  RadiiOK(nodes, ps, BlastRadii(ps))
<1> DEFINE of == [e \in ToSet(nodes) |-> {p \in ps : p[1] = e.id}]
<1>1. BlastRadii(ps) = {Radius(n, of[n]) : n \in {n \in ToSet(nodes) : n.type = "entry" /\ of[n] # {}}}
  BY Zenon DEF BlastRadii, RadiiBy
<1>2. \A n \in ToSet(nodes) : of[n] = Starting(ps, n.id)
  BY DEF Starting
<1>3. ASSUME NEW n, NEW qs
      PROVE  \E score : Radius(n, qs) = [entry |-> n.id, sinks |-> {Last(p) : p \in qs}, total |-> Cardinality(qs),
                                         score |-> score]
  BY Zenon DEF Radius
<1>4. \A n, qs : /\ Radius(n, qs).entry = n.id /\ Radius(n, qs).total = Cardinality(qs)
                 /\ Radius(n, qs).sinks = {Last(p) : p \in qs}
  BY <1>3
<1>5. \A m, n, qs : m.id = n.id => Radius(m, qs) = Radius(n, qs)
  BY Zenon DEF Radius
<1> HIDE DEF of
<1> QED BY <1>1, <1>2, <1>4, <1>5 DEF RadiiOK

LEMMA ReportedStep ==
  ASSUME Reported, [Next]_vars
  PROVE  Reported'
<1>1. CASE Analyze
  <2>1. PICK found \in kSubset(Min({Limit, Cardinality(AllPaths)}), AllPaths) :
          \E shown, stride : report' = [paths |-> found, shown |-> shown, stride |-> stride,
                                        chokepoints |-> Chokepoints(found), radii |-> BlastRadii(found)]
    BY <1>1, Zenon DEF Analyze
  <2>2. report'.paths = found /\ report'.chokepoints = Chokepoints(found) /\ report'.radii = BlastRadii(found)
    BY <2>1
  <2>3. UNCHANGED <<nodes, edges>>
    BY <1>1, Zenon DEF Analyze
  <2>4. RadiiOK(nodes, found, BlastRadii(found))
    BY BlastRadiiOK
  <2>5. report'.paths \in kSubset(Min({Limit, Cardinality(AllPaths')}), AllPaths')
    BY <2>1, <2>2, <2>3 DEF AllPaths
  <2>6. RadiiOK(nodes', report'.paths, report'.radii)
    BY <2>2, <2>3, <2>4
  <2> QED BY <2>2, <2>5, <2>6, Zenon DEF Reported
<1>2. CASE at' \notin {"done", "done and stored"}
  BY <1>2, Zenon DEF Reported
<1>3. CASE UNCHANGED <<at, nodes, edges, report>>
  <2>1. AllPaths' = AllPaths
    BY <1>3 DEF AllPaths
  <2> QED BY <1>3, <2>1, Zenon DEF Reported
<1>4. at' \in {"done", "done and stored"} => Analyze \/ UNCHANGED <<at, nodes, edges, report>>
  <2>1. CASE UNCHANGED vars
    BY <2>1, Zenon DEF vars
  <2>2. CASE Next /\ ~Analyze
    BY <2>2, Zenon DEF Next, Build, AddFinding, Skip, DeleteStored, MergeNodes, LinkNodes, ScanAgain
  <2> QED BY <2>1, <2>2, Zenon
<1> QED BY <1>1, <1>2, <1>3, <1>4, Zenon

THEOREM AnalysisInvariant == Spec => []IInv
<1>1. Init => IInv
  <2>1. Init => Storing
    <3> SUFFICES ASSUME Init PROVE Storing
      OBVIOUS
    <3>1. stored = [nodes |-> << >>, links |-> {}] /\ at = "built"
      BY DEF Init
    <3> QED BY <3>1 DEF Storing
  <2>2. Init => Reported
    BY DEF Init, Reported
  <2> QED BY <2>1, <2>2, GraphInit DEF IInv
<1>2. IInv /\ [Next]_vars => IInv'
  BY GraphStep, StoringStep, ReportedStep DEF IInv
<1> QED BY <1>1, <1>2, PTL DEF Spec

(* An analysis that stored its graph without an error owns all of it,      *)
(* whatever earlier analyses left.                                         *)
THEOREM StoredWholeHolds == Spec => []StoredWhole
<1>1. IInv => StoredWhole
  BY Zenon DEF IInv, Storing, StoredWhole
<1> QED BY <1>1, AnalysisInvariant, PTL

----------------------------------------------------------------------------
(* Walks: walks[n] are the simple ones of n edges. *)

LEMMA Upward ==
  ASSUME NEW N \in Nat, NEW S, 0 \in S, \A n \in 1..N : n - 1 \in S => n \in S
  PROVE  \A n \in 0..N : n \in S
<1> DEFINE Without == (0..N) \ S
<1> SUFFICES ASSUME Without # {} PROVE FALSE
  OBVIOUS
<1>1. PICK m \in Without : \A k \in Without : m <= k
  <2>1. Without \in SUBSET Nat
    OBVIOUS
  <2> HIDE DEF Without
  <2> QED BY <2>1, LeastNat
<1>2. m \in 1..N /\ m - 1 \in 0..N /\ ~(m <= m - 1)
  OBVIOUS
<1>3. m - 1 \in S
  BY <1>1, <1>2
<1> QED BY <1>2, <1>3

Longer(ws, es) ==
  UNION {{Append(w, e[2]) : e \in {e \in es : e[1] = Last(w) /\ e[2] \notin ToSet(w)}} : w \in ws}
LEMMA InLonger ==
  ASSUME NEW ws, NEW es, NEW w \in ws, NEW e \in es, e[1] = Last(w), e[2] \notin ToSet(w)
  PROVE  Append(w, e[2]) \in Longer(ws, es)
<1> DEFINE out(v) == {Append(v, d[2]) : d \in {d \in es : d[1] = Last(v) /\ d[2] \notin ToSet(v)}}
<1>1. Append(w, e[2]) \in out(w)
  OBVIOUS
<1>2. Longer(ws, es) = UNION {out(v) : v \in ws}
  BY DEF Longer
<1> HIDE DEF out
<1> QED BY <1>1, <1>2

Walking(walks, entries, es) ==
  /\ walks[0] = {<<id>> : id \in entries}
  /\ \A n \in 1..MaxDepth : walks[n] = Longer(walks[n - 1], es)

WalkedTo(walks, sinks) == {w \in UNION {walks[n] : n \in 1..MaxDepth} : Last(w) \in sinks}

LEMMA WalksExist ==
  ASSUME NEW T, NEW entries \in SUBSET T, NEW es \in SUBSET (T \X T), NEW sinks
  PROVE  \E walks \in [0..MaxDepth -> SUBSET Seq(T)] :
           /\ Walking(walks, entries, es)
           /\ PathsIn(entries, sinks, es) = WalkedTo(walks, sinks)
<1>1. PICK N \in Nat : N = MaxDepth
  BY AttackPathAssumption
<1> DEFINE D == SUBSET Seq(T)
           base == {<<id>> : id \in entries}
           h == [i \in Nat \ {0} |-> [ws \in D |-> Longer(ws, es)]]
           Is(g) == g = [n \in 0..MaxDepth |-> IF n = 0 THEN base ELSE Longer(g[n - 1], es)]
<1>2. base \in D
  OBVIOUS
<1>3. \A ws \in D : Longer(ws, es) \in D
  <2> SUFFICES ASSUME NEW ws \in D, NEW w \in ws, NEW e \in es
               PROVE  Append(w, e[2]) \in Seq(T)
    BY DEF Longer
  <2>1. w \in Seq(T) /\ e[2] \in T
    OBVIOUS
  <2> QED BY <2>1
<1> HIDE DEF base
<1>4. \A i \in Nat \ {0} : h[i] \in [D -> D] /\ \A ws \in D : h[i][ws] = Longer(ws, es)
  <2> HIDE DEF D
  <2> QED BY <1>3
<1> HIDE DEF h, D
<1>5. PICK f : Run(f, D, base, h, N)
  BY <1>2, <1>4, RunExists
<1>6. Is(f)
  <2>1. \A n \in 1..N : f[n - 1] \in D
    BY <1>5 DEF Run
  <2>2. \A n \in 1..N : f[n] = Longer(f[n - 1], es)
    BY <1>4, <1>5, <2>1 DEF Run
  <2>3. f \in [0..N -> D] /\ f[0] = base
    BY <1>5 DEF Run
  <2> QED BY <1>1, <2>2, <2>3
<1>7. PICK walks : /\ Is(walks)
                   /\ PathsIn(entries, sinks, es) = WalkedTo(walks, sinks)
  <2> DEFINE chosen == CHOOSE g : Is(g)
  <2>1. Is(chosen)
    BY <1>6, Zenon
  <2>2. PathsIn(entries, sinks, es) = WalkedTo(chosen, sinks)
    BY Zenon DEF PathsIn, WalkedTo, base, Longer
  <2> HIDE DEF chosen, Is
  <2> QED BY <2>1, <2>2, Zenon
<1>8. walks[0] = base /\ \A n \in 1..N : walks[n] = Longer(walks[n - 1], es)
  BY <1>1, <1>7
<1>9. \A n \in 0..N : walks[n] \in D
  <2> DEFINE S == {n \in 0..N : walks[n] \in D}
  <2>1. 0 \in S
    BY <1>2, <1>8
  <2>2. \A n \in 1..N : n - 1 \in S => n \in S
    BY <1>3, <1>8
  <2> HIDE DEF S
  <2>3. \A n \in 0..N : n \in S
    BY <2>1, <2>2, Upward
  <2> QED BY <2>3 DEF S
<1>10. walks \in [0..MaxDepth -> D]
  BY <1>1, <1>7, <1>9
<1> QED BY <1>1, <1>7, <1>8, <1>10 DEF D, base, Walking

(* One step longer.                                                        *)
LEMMA OneStep ==
  ASSUME NEW T, NEW w \in Seq(T), NEW id \in T
  PROVE  LET v == Append(w, id)
         IN  /\ v \in Seq(T) /\ Len(v) = Len(w) + 1 /\ v[Len(v)] = id /\ Last(v) = id
             /\ \A i \in 1..Len(w) : v[i] = w[i]
             /\ ToSet(v) = ToSet(w) \cup {id}
<1> DEFINE v == Append(w, id)
<1>1. v \in Seq(T) /\ Len(v) = Len(w) + 1 /\ v[Len(v)] = id /\ \A i \in 1..Len(w) : v[i] = w[i]
  OBVIOUS
<1>2. DOMAIN v = 1..Len(w) + 1 /\ DOMAIN w = 1..Len(w) /\ Len(w) \in Nat
  OBVIOUS
<1> HIDE DEF v
<1>3. 1..Len(w) + 1 = 1..Len(w) \cup {Len(w) + 1}
  BY <1>2
<1>4. ToSet(v) = ToSet(w) \cup {id}
  BY <1>1, <1>2, <1>3 DEF ToSet
<1> QED BY <1>1, <1>4 DEF v, Last

(* A walk of n edges starts at an entry, visits n + 1 ids, each once, and  *)
(* follows the edges.                                                      *)
SimpleWalk(w, n, entries, es) ==
  /\ Len(w) = n + 1 /\ w[1] \in entries
  /\ \A i, j \in 1..(n + 1) : w[i] = w[j] => i = j
  /\ \A i \in 1..n : <<w[i], w[i + 1]>> \in es

LEMMA WalksSimple ==
  ASSUME NEW T, NEW entries \in SUBSET T, NEW es \in SUBSET (T \X T),
         NEW walks \in [0..MaxDepth -> SUBSET Seq(T)], Walking(walks, entries, es),
         NEW n \in 0..MaxDepth, NEW w \in walks[n]
  PROVE  SimpleWalk(w, n, entries, es)
<1>1. PICK N \in Nat : N = MaxDepth
  BY AttackPathAssumption
<1> DEFINE S == {k \in 0..N : \A v \in walks[k] : SimpleWalk(v, k, entries, es)}
<1>2. 0 \in S
  <2>1. walks[0] = {<<id>> : id \in entries}
    BY DEF Walking
  <2>2. \A id \in entries : SimpleWalk(<<id>>, 0, entries, es)
    BY DEF SimpleWalk
  <2> QED BY <2>1, <2>2
<1>3. ASSUME NEW k \in 1..N, k - 1 \in S
      PROVE  k \in S
  <2> SUFFICES ASSUME NEW v \in walks[k]
               PROVE  SimpleWalk(v, k, entries, es)
    OBVIOUS
  <2>1. walks[k] = Longer(walks[k - 1], es) /\ k - 1 \in 0..MaxDepth
    BY <1>1 DEF Walking
  <2>2. PICK u \in walks[k - 1], e \in es : v = Append(u, e[2]) /\ e[1] = Last(u) /\ e[2] \notin ToSet(u)
    BY <2>1 DEF Longer
  <2>3. u \in Seq(T) /\ e = <<e[1], e[2]>> /\ e[2] \in T /\ SimpleWalk(u, k - 1, entries, es)
    BY <1>3, <2>1
  <2>4. /\ v \in Seq(T) /\ Len(v) = Len(u) + 1 /\ v[Len(v)] = e[2]
        /\ \A i \in 1..Len(u) : v[i] = u[i]
    BY <2>2, <2>3, OneStep
  <2>5. Len(u) = k /\ u[1] \in entries
    BY <2>3 DEF SimpleWalk
  <2>6. \A i \in 1..k : u[i] # e[2]
    BY <2>2, <2>3, <2>5 DEF ToSet
  <2>7. \A i, j \in 1..k : u[i] = u[j] => i = j
    BY <2>3 DEF SimpleWalk
  <2>8. \A i \in 1..(k - 1) : <<u[i], u[i + 1]>> \in es
    BY <2>3 DEF SimpleWalk
  <2>9. e[1] = u[k]
    BY <2>2, <2>5 DEF Last
  <2>10. \A i, j \in 1..(k + 1) : v[i] = v[j] => i = j
    <3>1. \A i \in 1..(k + 1) : i \in 1..k \/ i = k + 1
      OBVIOUS
    <3> QED BY <2>4, <2>5, <2>6, <2>7, <3>1
  <2>11. ASSUME NEW i \in 1..k PROVE <<v[i], v[i + 1]>> \in es
    <3>1. CASE i = k
      BY <2>3, <2>4, <2>5, <2>9, <3>1
    <3>2. CASE i # k
      <4>1. i \in 1..(k - 1) /\ i + 1 \in 1..k
        BY <3>2
      <4> QED BY <2>4, <2>5, <2>8, <4>1
    <3> QED BY <3>1, <3>2
  <2> QED BY <2>4, <2>5, <2>10, <2>11 DEF SimpleWalk
<1> HIDE DEF S
<1>4. n \in S
  BY <1>1, <1>2, <1>3, Upward
<1> QED BY <1>4 DEF S

LEMMA WalksFinite ==
  ASSUME NEW T, NEW entries \in SUBSET T, NEW es \in SUBSET (T \X T), IsFiniteSet(entries), IsFiniteSet(es),
         NEW walks \in [0..MaxDepth -> SUBSET Seq(T)], Walking(walks, entries, es),
         NEW n \in 0..MaxDepth
  PROVE  IsFiniteSet(walks[n])
<1>1. PICK N \in Nat : N = MaxDepth
  BY AttackPathAssumption
<1> DEFINE S == {k \in 0..N : IsFiniteSet(walks[k])}
<1>2. 0 \in S
  <2> DEFINE g == [id \in entries |-> <<id>>]
  <2>1. walks[0] = {g[id] : id \in entries}
    BY DEF Walking
  <2> HIDE DEF g
  <2>2. IsFiniteSet(walks[0])
    BY <2>1, FiniteImage
  <2> QED BY <2>2
<1>3. ASSUME NEW k \in 1..N, k - 1 \in S
      PROVE  k \in S
  <2> DEFINE ws == walks[k - 1]
             g == [p \in ws \X es |-> Append(p[1], p[2][2])]
             I == {g[p] : p \in ws \X es}
  <2>1. walks[k] = Longer(ws, es)
    BY <1>1 DEF Walking
  <2>2. walks[k] \in SUBSET I
    <3> SUFFICES ASSUME NEW v \in walks[k] PROVE v \in I
      OBVIOUS
    <3>1. PICK w \in ws, e \in es : v = Append(w, e[2])
      BY <2>1 DEF Longer
    <3>2. <<w, e>> \in ws \X es /\ g[<<w, e>>] = Append(w, e[2])
      OBVIOUS
    <3> HIDE DEF g
    <3> QED BY <3>1, <3>2
  <2>3. IsFiniteSet(ws)
    BY <1>3
  <2> HIDE DEF ws, g
  <2>4. IsFiniteSet(ws \X es)
    BY <2>3, FS_Product
  <2>5. IsFiniteSet(I)
    BY <2>4, FiniteImage
  <2> HIDE DEF I
  <2>6. IsFiniteSet(walks[k])
    BY <2>2, <2>5, FS_Subset
  <2> QED BY <2>6
<1> HIDE DEF S
<1>4. n \in S
  BY <1>1, <1>2, <1>3, Upward
<1> QED BY <1>4 DEF S

(* The walks of a graph without a node are those of the graph that avoid   *)
(* the node.                                                               *)
Avoiding(es, id) == {e \in es : id \notin {e[1], e[2]}}

LEMMA WalksAvoiding ==
  ASSUME NEW T, NEW entries \in SUBSET T, NEW es \in SUBSET (T \X T), NEW id,
         NEW walks \in [0..MaxDepth -> SUBSET Seq(T)], Walking(walks, entries, es),
         NEW left \in [0..MaxDepth -> SUBSET Seq(T)],
         Walking(left, entries \ {id}, Avoiding(es, id)),
         NEW n \in 0..MaxDepth
  PROVE  \A w : w \in left[n] <=> w \in walks[n] /\ id \notin ToSet(w)
<1>1. PICK N \in Nat : N = MaxDepth
  BY AttackPathAssumption
<1> DEFINE xs == Avoiding(es, id)
           S == {k \in 0..N : left[k] = {w \in walks[k] : id \notin ToSet(w)}}
<1>2. 0 \in S
  <2>1. walks[0] = {<<a>> : a \in entries} /\ left[0] = {<<a>> : a \in entries \ {id}}
    BY DEF Walking
  <2>2. \A a : ToSet(<<a>>) = {a}
    BY DEF ToSet
  <2>3. left[0] = {w \in walks[0] : id \notin ToSet(w)}
    BY <2>1, <2>2
  <2> QED BY <2>3
<1>3. ASSUME NEW k \in 1..N, k - 1 \in S
      PROVE  k \in S
  <2>1. /\ walks[k] = Longer(walks[k - 1], es) /\ left[k] = Longer(left[k - 1], xs)
        /\ k - 1 \in 0..MaxDepth
    <3>1. k - 1 \in 0..MaxDepth /\ k \in 1..MaxDepth
      BY <1>1
    <3>2. walks[k] = Longer(walks[k - 1], es)
      BY <3>1 DEF Walking
    <3>3. Walking(left, entries \ {id}, xs)
      OBVIOUS
    <3> HIDE DEF xs
    <3>4. left[k] = Longer(left[k - 1], xs)
      BY <3>1, <3>3 DEF Walking
    <3> QED BY <3>1, <3>2, <3>4
  <2>2. left[k - 1] = {w \in walks[k - 1] : id \notin ToSet(w)}
    BY <1>3
  <2>3. ASSUME NEW v \in left[k] PROVE v \in walks[k] /\ id \notin ToSet(v)
    <3>1. PICK u \in left[k - 1], e \in xs : v = Append(u, e[2]) /\ e[1] = Last(u) /\ e[2] \notin ToSet(u)
      BY <2>1 DEF Longer
    <3>2. u \in walks[k - 1] /\ id \notin ToSet(u) /\ u \in Seq(T) /\ e \in es /\ e[2] \in T /\ e[2] # id
      BY <2>1, <2>2 DEF Avoiding
    <3>3. v \in walks[k]
      BY <2>1, <3>1, <3>2 DEF Longer
    <3>4. ToSet(v) = ToSet(u) \cup {e[2]}
      BY <3>1, <3>2, OneStep
    <3> QED BY <3>2, <3>3, <3>4
  <2>4. ASSUME NEW v \in walks[k], id \notin ToSet(v) PROVE v \in left[k]
    <3>1. PICK u \in walks[k - 1], e \in es : v = Append(u, e[2]) /\ e[1] = Last(u) /\ e[2] \notin ToSet(u)
      BY <2>1 DEF Longer
    <3>2. u \in Seq(T) /\ e[2] \in T
      BY <2>1
    <3>3. ToSet(v) = ToSet(u) \cup {e[2]}
      BY <3>1, <3>2, OneStep
    <3>4. SimpleWalk(u, k - 1, entries, es)
      BY <2>1, WalksSimple
    <3>5. Last(u) \in ToSet(u)
      BY <3>2, <3>4 DEF SimpleWalk, Last, ToSet
    <3>6. e \in xs /\ u \in left[k - 1]
      BY <2>2, <2>4, <3>1, <3>3, <3>5 DEF Avoiding
    <3> QED BY <2>1, <3>1, <3>6 DEF Longer
  <2>5. left[k] = {w \in walks[k] : id \notin ToSet(w)}
    BY <2>3, <2>4
  <2> QED BY <2>5
<1> HIDE DEF S
<1>4. n \in S
  BY <1>1, <1>2, <1>3, Upward
<1> QED BY <1>4 DEF S

----------------------------------------------------------------------------
(* The attributes of an id are those of one of its nodes.                  *)
LEMMA NodeOfIs ==
  ASSUME NEW T, NEW ns \in Seq(T), NEW id \in Ids(ns)
  PROVE  \E i \in DOMAIN ns : ns[i].id = id /\ NodeOf(ns, id) = ns[i]
<1> DEFINE S == {i \in DOMAIN ns : ns[i].id = id}
           Latest(l) == l \in DOMAIN ns /\ ns[l].id = id /\ \A j \in DOMAIN ns : ns[j].id = id => j <= l
<1>1. PICK m \in S : \A j \in S : m >= j
  <2>1. S \in SUBSET (0..Len(ns)) /\ S # {} /\ Len(ns) \in Nat
    BY DEF Ids
  <2> HIDE DEF S
  <2> QED BY <2>1, MaxOf
<1>2. Latest(m)
  BY <1>1
<1>3. PICK i : i = CHOOSE l \in DOMAIN ns : /\ ns[l].id = id
                                            /\ \A j \in DOMAIN ns : ns[j].id = id => j <= l
  OBVIOUS
<1>4. i \in DOMAIN ns /\ ns[i].id = id
  BY <1>2, <1>3
<1> QED BY <1>3, <1>4 DEF NodeOf

(* The ids that are entries' are those of the nodes that are entries.      *)
LEMMA EntryIds ==
  ASSUME NEW ns, NodesOK(ns)
  PROVE  \A id : id \in Typed(ns, "entry") <=> \E i \in DOMAIN ns : ns[i].id = id /\ ns[i].type = "entry"
<1>1. ns \in Seq(NodeType)
  BY DEF NodesOK
<1>2. ASSUME NEW i \in DOMAIN ns, NEW j \in DOMAIN ns, ns[i].id = ns[j].id, ns[i].type = "entry"
      PROVE  ns[j].type = "entry"
  BY <1>2 DEF NodesOK
<1>3. ASSUME NEW id \in Typed(ns, "entry")
      PROVE  \E i \in DOMAIN ns : ns[i].id = id /\ ns[i].type = "entry"
  <2>1. id \in Ids(ns) /\ NodeOf(ns, id).type = "entry"
    BY DEF Typed
  <2> QED BY <1>1, <2>1, NodeOfIs
<1>4. ASSUME NEW i \in DOMAIN ns, ns[i].type = "entry"
      PROVE  ns[i].id \in Typed(ns, "entry")
  <2>1. ns[i].id \in Ids(ns)
    BY DEF Ids
  <2>2. PICK j \in DOMAIN ns : ns[j].id = ns[i].id /\ NodeOf(ns, ns[i].id) = ns[j]
    BY <1>1, <2>1, NodeOfIs
  <2>3. ns[j].type = "entry"
    BY <1>2, <1>4, <2>2
  <2> QED BY <2>1, <2>2, <2>3 DEF Typed
<1> QED BY <1>3, <1>4

(* What the invariant gives of the graph that is searched.                 *)
LEMMA Searched ==
  ASSUME Graph
  PROVE  /\ Typed(nodes, "entry") \in SUBSET Ids(nodes) /\ IsFiniteSet(Typed(nodes, "entry"))
         /\ IsFiniteSet(Ids(nodes))
         /\ edges \in SUBSET (Ids(nodes) \X Ids(nodes)) /\ IsFiniteSet(edges)
         /\ \A e \in edges : e[2] \in Typed(nodes, "entry") => e[1] = e[2]
<1>1. nodes \in Seq(NodeType)
  BY DEF Graph, NodesOK
<1>2. IsFiniteSet(Ids(nodes))
  <2> DEFINE g == [i \in DOMAIN nodes |-> nodes[i].id]
  <2>1. DOMAIN nodes = 1..Len(nodes) /\ Len(nodes) \in Nat
    BY <1>1
  <2>2. IsFiniteSet(DOMAIN nodes)
    BY <2>1, FS_Interval
  <2>3. Ids(nodes) = {g[i] : i \in DOMAIN nodes}
    BY DEF Ids
  <2> HIDE DEF g
  <2> QED BY <2>2, <2>3, FiniteImage
<1>3. Typed(nodes, "entry") \in SUBSET Ids(nodes)
  BY DEF Typed
<1>4. IsFiniteSet(Typed(nodes, "entry"))
  BY <1>2, <1>3, FS_Subset
<1>5. edges \in SUBSET (Ids(nodes) \X Ids(nodes)) /\ IsFiniteSet(edges)
  BY DEF Graph, EdgesOK
<1>6. \A e \in edges : e[2] \in Typed(nodes, "entry") => e[1] = e[2]
  BY EntryIds DEF Graph, EdgesOK
<1> QED BY <1>2, <1>3, <1>4, <1>5, <1>6

LEMMA PathsWalked ==
  ASSUME Graph
  PROVE  \E walks \in [0..MaxDepth -> SUBSET Seq(Ids(nodes))] :
           /\ Walking(walks, Typed(nodes, "entry"), edges)
           /\ AllPaths = WalkedTo(walks, Typed(nodes, "sink"))
<1>1. PICK T, entries, sinks, es :
        T = Ids(nodes) /\ entries = Typed(nodes, "entry") /\ sinks = Typed(nodes, "sink") /\ es = edges
  OBVIOUS
<1>2. entries \in SUBSET T /\ es \in SUBSET (T \X T)
  BY <1>1, Searched
<1>3. AllPaths = PathsIn(entries, sinks, es)
  BY <1>1 DEF AllPaths
<1>4. PICK walks \in [0..MaxDepth -> SUBSET Seq(T)] :
        /\ Walking(walks, entries, es)
        /\ PathsIn(entries, sinks, es) = WalkedTo(walks, sinks)
  BY <1>2, WalksExist
<1> QED BY <1>1, <1>3, <1>4

LEMMA PathsFinite ==
  ASSUME Graph
  PROVE  IsFiniteSet(AllPaths)
<1>1. PICK walks \in [0..MaxDepth -> SUBSET Seq(Ids(nodes))] :
        /\ Walking(walks, Typed(nodes, "entry"), edges)
        /\ AllPaths = WalkedTo(walks, Typed(nodes, "sink"))
  BY PathsWalked
<1>2. MaxDepth \in Nat
  BY AttackPathAssumption
<1> DEFINE I == {walks[n] : n \in 1..MaxDepth}
<1>3. AllPaths \in SUBSET (UNION I)
  BY <1>1 DEF WalkedTo
<1>4. \A W \in I : IsFiniteSet(W)
  <2>1. \A n \in 1..MaxDepth : n \in 0..MaxDepth
    BY <1>2
  <2> QED BY <1>1, <2>1, WalksFinite, Searched
<1>5. IsFiniteSet(1..MaxDepth)
  BY <1>2, FS_Interval
<1>6. I = {walks[n] : n \in 1..MaxDepth}
  OBVIOUS
<1> HIDE DEF I
<1>7. IsFiniteSet(I)
  BY <1>5, <1>6, FiniteImage
<1>8. IsFiniteSet(UNION I)
  BY <1>4, <1>7, FS_UNION
<1> QED BY <1>3, <1>8, FS_Subset

(* A report of fewer paths than the limit has them all.                    *)
LEMMA AllReported ==
  ASSUME Graph, Reported, Done
  PROVE  /\ report.paths \subseteq AllPaths /\ IsFiniteSet(report.paths)
         /\ AllFound => report.paths = AllPaths
<1> DEFINE ps == AllPaths
           c == Cardinality(ps)
           k == Min({Limit, c})
<1>1. IsFiniteSet(ps) /\ c \in Nat /\ Limit \in Nat
  BY PathsFinite, FS_CardinalityType, AttackPathAssumption
<1>2. report.paths \in SUBSET ps /\ Cardinality(report.paths) = k
  BY Zenon DEF Reported, Done, kSubset
<1> HIDE DEF ps
<1>3. k \in {Limit, c}
  <2>1. {Limit, c} \in SUBSET Nat /\ {Limit, c} # {}
    BY <1>1
  <2> QED BY <2>1, MinOf
<1>4. IsFiniteSet(report.paths)
  BY <1>1, <1>2, FS_Subset
<1>5. ASSUME AllFound PROVE report.paths = ps
  <2>1. k # Limit
    BY <1>1, <1>2, <1>5 DEF AllFound
  <2>2. Cardinality(report.paths) = Cardinality(ps)
    BY <1>2, <1>3, <2>1
  <2> QED BY <1>1, <1>2, <2>2, FS_Subset
<1> QED BY <1>2, <1>4, <1>5 DEF ps

(* Every finding in a sink category ends a reported path, unless its id    *)
(* was taken by a function or a sanitizer.                                 *)
LEMMA LedPath ==
  ASSUME Graph, NEW x, Led(nodes, edges, x), NodeOf(nodes, FindingId(x)).type = "sink"
  PROVE  \E p \in AllPaths : Last(p) = FindingId(x)
<1> DEFINE id == FindingId(x)
           T == Ids(nodes)
           entries == Typed(nodes, "entry")
<1>1. PICK walks \in [0..MaxDepth -> SUBSET Seq(T)] :
        /\ Walking(walks, entries, edges)
        /\ AllPaths = WalkedTo(walks, Typed(nodes, "sink"))
  BY PathsWalked
<1>2. PICK i \in DOMAIN nodes : /\ nodes[i].type = "entry"
                                /\ \/ <<nodes[i].id, id>> \in edges
                                   \/ \E m \in T : <<nodes[i].id, m>> \in edges /\ <<m, id>> \in edges
  BY DEF Led
<1>3. PICK e : e = nodes[i].id
  OBVIOUS
<1>4. e \in entries /\ e \in T
  BY <1>2, <1>3, EntryIds, Searched DEF Graph
<1>5. id \in T /\ id \in Typed(nodes, "sink")
  BY DEF Led, Typed
<1>6. id # e
  <2>1. NodeOf(nodes, e).type = "entry"
    BY <1>4 DEF Typed
  <2> QED BY <2>1
<1>7. 1 \in 1..MaxDepth /\ 2 \in 1..MaxDepth /\ 1 - 1 = 0 /\ 2 - 1 = 1
  BY AttackPathAssumption
<1>8. walks[0] = {<<a>> : a \in entries} /\ walks[1] = Longer(walks[0], edges) /\ walks[2] = Longer(walks[1], edges)
  BY <1>1, <1>7 DEF Walking
<1> HIDE DEF id, T, entries
<1>9. <<e>> \in walks[0] /\ <<e>> \in Seq(T) /\ Last(<<e>>) = e /\ ToSet(<<e>>) = {e}
  BY <1>4, <1>8 DEF Last, ToSet
<1>10. ASSUME NEW b \in T, <<e, b>> \in edges, b # e
       PROVE  /\ Append(<<e>>, b) \in walks[1] /\ Append(<<e>>, b) \in Seq(T)
              /\ Last(Append(<<e>>, b)) = b /\ ToSet(Append(<<e>>, b)) = {e, b}
  <2>1. <<e, b>>[1] = e /\ <<e, b>>[2] = b
    OBVIOUS
  <2>2. Append(<<e>>, b) \in walks[1]
    <3>1. PICK w \in walks[0] : w = <<e>>
      BY <1>9
    <3>2. PICK d \in edges : d = <<e, b>>
      BY <1>10
    <3>3. d[1] = Last(w) /\ d[2] = b /\ b \notin ToSet(w)
      BY <1>9, <1>10, <2>1, <3>1, <3>2
    <3>4. Append(w, d[2]) \in Longer(walks[0], edges)
      BY <3>3, InLonger
    <3> QED BY <1>8, <3>1, <3>3, <3>4
  <2>3. PICK w \in Seq(T) : w = <<e>>
    BY <1>9
  <2>4. /\ Append(w, b) \in Seq(T) /\ Last(Append(w, b)) = b
        /\ ToSet(Append(w, b)) = ToSet(w) \cup {b}
    BY <1>10, OneStep
  <2> QED BY <1>9, <2>2, <2>3, <2>4
<1>11. CASE <<e, id>> \in edges
  <2>1. Append(<<e>>, id) \in walks[1] /\ Last(Append(<<e>>, id)) = id
    BY <1>5, <1>6, <1>10, <1>11
  <2> QED BY <1>1, <1>5, <1>7, <2>1 DEF id, WalkedTo
<1>12. CASE <<e, id>> \notin edges
  <2>1. PICK m \in T : <<e, m>> \in edges /\ <<m, id>> \in edges
    BY <1>2, <1>3, <1>12
  <2>2. m # e /\ m # id
    BY <1>12, <2>1
  <2>3. PICK w : w = Append(<<e>>, m)
    OBVIOUS
  <2>4. w \in walks[1] /\ w \in Seq(T) /\ Last(w) = m /\ ToSet(w) = {e, m}
    BY <1>10, <2>1, <2>2, <2>3
  <2>5. <<m, id>>[1] = m /\ <<m, id>>[2] = id /\ id \notin ToSet(w)
    BY <1>6, <2>2, <2>4
  <2>6. Append(w, id) \in walks[2]
    <3>1. PICK d \in edges : d = <<m, id>>
      BY <2>1
    <3>2. d[1] = Last(w) /\ d[2] = id /\ id \notin ToSet(w)
      BY <2>4, <2>5, <3>1
    <3>3. Append(w, d[2]) \in Longer(walks[1], edges)
      BY <2>4, <3>2, InLonger
    <3> QED BY <1>8, <3>2, <3>3
  <2>7. Last(Append(w, id)) = id
    BY <1>5, <2>4, OneStep
  <2> QED BY <1>1, <1>5, <1>7, <2>6, <2>7 DEF id, WalkedTo
<1> QED BY <1>11, <1>12

THEOREM FindingsReachedHolds == Spec => []FindingsReached
<1>1. ASSUME IInv, Done, AllFound, NEW i \in DOMAIN input.findings,
             IsSink(input.findings[i]), NodeOf(nodes, FindingId(input.findings[i])).type = "sink"
      PROVE  \E p \in report.paths : Last(p) = FindingId(input.findings[i])
  <2>1. report.paths = AllPaths
    BY <1>1, AllReported DEF IInv
  <2>2. Led(nodes, edges, input.findings[i])
    BY <1>1, Zenon DEF IInv, Graph, Done
  <2> QED BY <1>1, <2>1, <2>2, LedPath DEF IInv
<1>2. IInv => FindingsReached
  BY <1>1 DEF FindingsReached
<1> QED BY <1>2, AnalysisInvariant, PTL

----------------------------------------------------------------------------
(* Chokepoints. *)

(* Of a finite set with numbers, some k elements that none of the others   *)
(* exceeds.                                                                *)
LEMMA Top ==
  ASSUME NEW S, IsFiniteSet(S), NEW M \in Nat, NEW t \in [S -> 0..M], NEW k \in 0..Cardinality(S)
  PROVE  \E s \in SUBSET S : Cardinality(s) = k /\ \A a \in s, b \in S \ s : t[a] >= t[b]
<1> DEFINE Tops(s, n) == Cardinality(s) = n /\ \A a \in s, b \in S \ s : t[a] >= t[b]
           K == {n \in 0..Cardinality(S) : \E s \in SUBSET S : Tops(s, n)}
<1>1. PICK N \in Nat : N = Cardinality(S)
  BY FS_CardinalityType
<1>2. 0 \in K
  <2>1. {} \in SUBSET S /\ Tops({}, 0)
    BY FS_EmptySet
  <2> HIDE DEF Tops
  <2> QED BY <1>1, <2>1
<1>3. ASSUME NEW n \in 1..N, n - 1 \in K
      PROVE  n \in K
  <2>1. PICK s \in SUBSET S : Tops(s, n - 1)
    BY <1>3
  <2>2. IsFiniteSet(s) /\ s # S
    BY <1>1, <2>1, FS_Subset
  <2> DEFINE V == {t[b] : b \in S \ s}
  <2>3. PICK m \in S \ s : \A b \in S \ s : t[m] >= t[b]
    <3>1. V \in SUBSET (0..M) /\ V # {}
      BY <2>2
    <3> HIDE DEF V
    <3>2. PICK v \in V : \A i \in V : v >= i
      BY <3>1, MaxOf
    <3> QED BY <3>2 DEF V
  <2>4. s \cup {m} \in SUBSET S /\ Cardinality(s \cup {m}) = n
    <3>1. Cardinality(s \cup {m}) = Cardinality(s) + 1
      BY <2>2, <2>3, FS_AddElement
    <3>2. Cardinality(s) = n - 1
      BY <2>1
    <3> HIDE DEF Tops
    <3> QED BY <2>3, <3>1, <3>2
  <2>5. \A a \in s \cup {m}, b \in S \ (s \cup {m}) : t[a] >= t[b]
    BY <2>1, <2>3
  <2>6. Tops(s \cup {m}, n)
    BY <2>4, <2>5
  <2> HIDE DEF Tops
  <2> QED BY <1>1, <2>4, <2>6
<1> HIDE DEF K
<1>4. k \in K
  BY <1>1, <1>2, <1>3, Upward
<1> HIDE DEF Tops
<1>5. PICK s \in SUBSET S : Tops(s, k)
  BY <1>4 DEF K
<1> QED BY <1>5 DEF Tops

(* A chokepoint is an inner node of a path, with the number of those.      *)
LEMMA ChokepointsOf ==
  ASSUME NEW ps, IsFiniteSet(ps), IsFiniteSet(UNION {Inner(p) : p \in ps}), NEW c \in Chokepoints(ps)
  PROVE  (\E p \in ps : c.id \in Inner(p)) /\ c.blocked = Through(ps, c.id)
<1> DEFINE inner == UNION {Inner(p) : p \in ps}
           k == Min({MaxChokepoints, Cardinality(inner)})
           Some(s) == /\ Cardinality(s) = k
                      /\ \A a \in s, b \in inner \ s : Through(ps, a) >= Through(ps, b)
           some == CHOOSE s \in SUBSET inner : Some(s)
<1>1. Chokepoints(ps) = {[id |-> id, blocked |-> Through(ps, id), of |-> Max({1, Cardinality(ps)})] : id \in some}
  BY Zenon DEF Chokepoints
<1>2. \A id : id \in inner => \E p \in ps : id \in Inner(p)
  OBVIOUS
<1>3. IsFiniteSet(inner)
  OBVIOUS
<1> HIDE DEF inner
<1>4. k \in 0..Cardinality(inner)
  <2>1. Cardinality(inner) \in Nat /\ MaxChokepoints \in Nat
    BY <1>3, FS_CardinalityType, AttackPathAssumption
  <2>2. {MaxChokepoints, Cardinality(inner)} \in SUBSET Nat
    BY <2>1
  <2>3. k \in {MaxChokepoints, Cardinality(inner)} /\ k <= Cardinality(inner)
    BY <2>2, MinOf
  <2> HIDE DEF k
  <2> QED BY <2>1, <2>3
<1> HIDE DEF k
<1>5. \E s \in SUBSET inner : Some(s)
  <2> DEFINE t == [id \in inner |-> Through(ps, id)]
             M == Cardinality(ps)
  <2>1. M \in Nat
    BY FS_CardinalityType
  <2>2. \A id : Through(ps, id) \in 0..M
    <3> TAKE id
    <3> DEFINE qs == {p \in ps : id \in Inner(p)}
    <3>1. qs \in SUBSET ps
      OBVIOUS
    <3>2. Through(ps, id) = Cardinality(qs)
      BY DEF Through
    <3> HIDE DEF qs
    <3>3. IsFiniteSet(qs) /\ Cardinality(qs) <= M
      BY <3>1, FS_Subset
    <3>4. Cardinality(qs) \in Nat
      BY <3>3, FS_CardinalityType
    <3> QED BY <2>1, <3>2, <3>3, <3>4
  <2>3. t \in [inner -> 0..M]
    BY <2>2
  <2> HIDE DEF M
  <2>4. \A id \in inner : t[id] = Through(ps, id)
    OBVIOUS
  <2> HIDE DEF t
  <2>5. PICK s \in SUBSET inner : Cardinality(s) = k /\ \A a \in s, b \in inner \ s : t[a] >= t[b]
    BY <1>3, <1>4, <2>1, <2>3, Top
  <2>6. \A a \in s, b \in inner \ s : Through(ps, a) >= Through(ps, b)
    BY <2>4, <2>5
  <2> QED BY <2>5, <2>6
<1> HIDE DEF Some
<1>6. some \in SUBSET inner
  BY <1>5
<1> HIDE DEF some
<1>7. PICK id \in some : c = [id |-> id, blocked |-> Through(ps, id), of |-> Max({1, Cardinality(ps)})]
  BY <1>1
<1>8. c.id = id /\ c.blocked = Through(ps, id)
  BY <1>7
<1> QED BY <1>2, <1>6, <1>7, <1>8

(* The paths are simple, and none comes back to an entry.                  *)
LEMMA PathsSimple ==
  ASSUME Graph, NEW p \in AllPaths
  PROVE  /\ p \in Seq(Ids(nodes)) /\ Len(p) >= 2
         /\ p[1] \in Typed(nodes, "entry")
         /\ \A i, j \in 1..Len(p) : p[i] = p[j] => i = j
         /\ \A i \in 2..Len(p) : p[i] \notin Typed(nodes, "entry")
<1>1. PICK walks \in [0..MaxDepth -> SUBSET Seq(Ids(nodes))] :
        /\ Walking(walks, Typed(nodes, "entry"), edges)
        /\ AllPaths = WalkedTo(walks, Typed(nodes, "sink"))
  BY PathsWalked
<1>2. PICK n \in 1..MaxDepth : p \in walks[n]
  BY <1>1 DEF WalkedTo
<1>3. n \in 0..MaxDepth /\ n \in Nat \ {0}
  BY <1>2, AttackPathAssumption
<1>4. p \in Seq(Ids(nodes))
  BY <1>2, <1>3
<1>5. SimpleWalk(p, n, Typed(nodes, "entry"), edges)
  BY <1>1, <1>2, <1>3, WalksSimple, Searched
<1>6. Len(p) = n + 1 /\ \A i, j \in 1..Len(p) : p[i] = p[j] => i = j
  BY <1>5 DEF SimpleWalk
<1>7. ASSUME NEW i \in 2..Len(p), p[i] \in Typed(nodes, "entry")
      PROVE  FALSE
  <2>1. i - 1 \in 1..n /\ (i - 1) + 1 = i /\ i - 1 \in 1..Len(p) /\ i \in 1..Len(p) /\ i - 1 # i
    BY <1>3, <1>6
  <2>2. <<p[i - 1], p[i]>> \in edges
    BY <1>5, <2>1 DEF SimpleWalk
  <2>3. PICK e \in edges : e = <<p[i - 1], p[i]>>
    BY <2>2
  <2>4. e[1] = e[2]
    BY <1>7, <2>3, Searched
  <2> QED BY <1>6, <2>1, <2>3, <2>4
<1> QED BY <1>3, <1>4, <1>5, <1>6, <1>7 DEF SimpleWalk

(* Without a node, the paths are those that avoid it.                      *)
LEMMA PathsLeft ==
  ASSUME Graph, NEW id
  PROVE  PathsIn(Typed(nodes, "entry") \ {id}, Typed(nodes, "sink") \ {id}, {e \in edges : id \notin {e[1], e[2]}})
           = {p \in AllPaths : id \notin ToSet(p)}
<1>1. PICK T, entries, sinks, es :
        T = Ids(nodes) /\ entries = Typed(nodes, "entry") /\ sinks = Typed(nodes, "sink") /\ es = edges
  OBVIOUS
<1>2. entries \in SUBSET T /\ es \in SUBSET (T \X T)
  BY <1>1, Searched
<1> DEFINE xs == Avoiding(es, id)
<1>3. entries \ {id} \in SUBSET T /\ xs \in SUBSET (T \X T)
  BY <1>2 DEF Avoiding
<1>4. PICK walks \in [0..MaxDepth -> SUBSET Seq(T)] :
        Walking(walks, entries, es) /\ PathsIn(entries, sinks, es) = WalkedTo(walks, sinks)
  BY <1>2, WalksExist
<1>5. PICK left \in [0..MaxDepth -> SUBSET Seq(T)] :
        /\ Walking(left, entries \ {id}, xs)
        /\ PathsIn(entries \ {id}, sinks \ {id}, xs) = WalkedTo(left, sinks \ {id})
  <2> HIDE DEF xs
  <2> QED BY <1>3, WalksExist
<1>6. ASSUME NEW n \in 0..MaxDepth
      PROVE  \A w : w \in left[n] <=> w \in walks[n] /\ id \notin ToSet(w)
  BY <1>2, <1>4, <1>5, WalksAvoiding
<1>7. \A n \in 1..MaxDepth : n \in 0..MaxDepth
  BY AttackPathAssumption
<1>8. ASSUME NEW n \in 1..MaxDepth, NEW w \in walks[n]
      PROVE  Last(w) \in ToSet(w)
  <2>1. SimpleWalk(w, n, entries, es) /\ w \in Seq(T)
    BY <1>2, <1>4, <1>7, WalksSimple
  <2> QED BY <2>1 DEF SimpleWalk, Last, ToSet
<1>9. WalkedTo(left, sinks \ {id}) = {p \in WalkedTo(walks, sinks) : id \notin ToSet(p)}
  BY <1>6, <1>7, <1>8 DEF WalkedTo
<1> QED BY <1>1, <1>4, <1>5, <1>9 DEF AllPaths, Avoiding

(* The paths that avoid an inner node, those it is inside and those it     *)
(* ends are all there are.                                                 *)
LEMMA PathsParted ==
  ASSUME Graph, NEW id, NEW q \in AllPaths, id \in Inner(q)
  PROVE  Cardinality({p \in AllPaths : id \notin ToSet(p)}) + Through(AllPaths, id)
           + Cardinality({p \in AllPaths : Last(p) = id}) = Cardinality(AllPaths)
<1>1. PICK ps : ps = AllPaths
  OBVIOUS
<1> DEFINE A == {p \in ps : id \notin ToSet(p)}
           B == {p \in ps : id \in Inner(p)}
           C == {p \in ps : Last(p) = id}
<1>2. id \notin Typed(nodes, "entry")
  <2>1. PICK i \in 2..(Len(q) - 1) : id = q[i]
    BY DEF Inner
  <2>2. i \in 2..Len(q)
    BY PathsSimple
  <2> QED BY <2>1, <2>2, PathsSimple
<1>3. ASSUME NEW p \in ps
      PROVE  /\ id \in ToSet(p) <=> id \in Inner(p) \/ Last(p) = id
             /\ ~(id \in Inner(p) /\ Last(p) = id)
  <2>1. /\ Len(p) \in Nat /\ Len(p) >= 2 /\ DOMAIN p = 1..Len(p)
        /\ p[1] # id
        /\ \A i, j \in 1..Len(p) : p[i] = p[j] => i = j
    BY <1>1, <1>2, PathsSimple
  <2>2. \A i : i \in 1..Len(p) <=> i = 1 \/ i \in 2..(Len(p) - 1) \/ i = Len(p)
    BY <2>1
  <2>3. Len(p) \notin 2..(Len(p) - 1)
    BY <2>1
  <2> QED BY <2>1, <2>2, <2>3 DEF Inner, Last, ToSet
<1>4. IsFiniteSet(ps)
  BY <1>1, PathsFinite
<1>5. ps = A \cup (B \cup C) /\ A \cap (B \cup C) = {} /\ B \cap C = {}
  BY <1>3
<1>6. A \in SUBSET ps /\ B \in SUBSET ps /\ C \in SUBSET ps
  OBVIOUS
<1>7. Through(ps, id) = Cardinality(B)
  BY DEF Through
<1> HIDE DEF A, B, C
<1>8. IsFiniteSet(A) /\ IsFiniteSet(B) /\ IsFiniteSet(C)
  BY <1>4, <1>6, FS_Subset
<1>9. PICK D : D = B \cup C
  OBVIOUS
<1>10. IsFiniteSet(D) /\ Cardinality(D) = Cardinality(B) + Cardinality(C)
  <2>1. IsFiniteSet(D) /\ Cardinality(D) = Cardinality(B) + Cardinality(C) - Cardinality(B \cap C)
    BY <1>8, <1>9, FS_Union
  <2>2. Cardinality(B) \in Nat /\ Cardinality(C) \in Nat /\ Cardinality(B \cap C) = 0
    BY <1>5, <1>8, FS_EmptySet, FS_CardinalityType
  <2> QED BY <2>1, <2>2
<1>11. Cardinality(ps) = Cardinality(A) + Cardinality(D)
  <2>1. Cardinality(ps) = Cardinality(A) + Cardinality(D) - Cardinality(A \cap D)
    BY <1>5, <1>8, <1>9, <1>10, FS_Union
  <2>2. Cardinality(A) \in Nat /\ Cardinality(D) \in Nat /\ Cardinality(A \cap D) = 0
    BY <1>5, <1>8, <1>9, <1>10, FS_EmptySet, FS_CardinalityType
  <2> QED BY <2>1, <2>2
<1>12. Cardinality(A) \in Nat /\ Cardinality(B) \in Nat /\ Cardinality(C) \in Nat
  BY <1>8, FS_CardinalityType
<1>13. Cardinality(A) + Cardinality(B) + Cardinality(C) = Cardinality(ps)
  BY <1>10, <1>11, <1>12
<1> QED BY <1>1, <1>7, <1>13 DEF A, C

(* A chokepoint blocks what it says: without the node the graph has that   *)
(* many paths less, and less those that end in it.                         *)
THEOREM ChokepointBlocksHolds == Spec => []ChokepointBlocks
<1>1. ASSUME IInv, Done, AllFound, NEW c \in report.chokepoints
      PROVE  LET left == PathsIn(Typed(nodes, "entry") \ {c.id}, Typed(nodes, "sink") \ {c.id},
                                 {e \in edges : c.id \notin {e[1], e[2]}})
                 ending == {p \in report.paths : Last(p) = c.id}
             IN  Cardinality(left) + c.blocked + Cardinality(ending) = Cardinality(report.paths)
  <2>1. Graph /\ Reported
    BY <1>1 DEF IInv
  <2>2. report.paths = AllPaths /\ IsFiniteSet(AllPaths)
    BY <1>1, <2>1, AllReported
  <2>3. c \in Chokepoints(AllPaths)
    BY <1>1, <2>1, <2>2, Zenon DEF Reported, Done
  <2>4. IsFiniteSet(UNION {Inner(p) : p \in AllPaths})
    <3> DEFINE g == [p \in AllPaths |-> Inner(p)]
               I == {Inner(p) : p \in AllPaths}
    <3>1. I = {g[p] : p \in AllPaths}
      OBVIOUS
    <3>2. \A W \in I : IsFiniteSet(W)
      <4> SUFFICES ASSUME NEW p \in AllPaths PROVE IsFiniteSet(Inner(p))
        OBVIOUS
      <4> DEFINE J == 2..(Len(p) - 1)
                 f == [i \in J |-> p[i]]
      <4>1. Len(p) \in Nat
        BY <2>1, PathsSimple
      <4>2. IsFiniteSet(J)
        BY <4>1, FS_Interval
      <4>3. Inner(p) = {f[i] : i \in J}
        BY DEF Inner
      <4> HIDE DEF f, J
      <4> QED BY <4>2, <4>3, FiniteImage
    <3> HIDE DEF g, I
    <3>3. IsFiniteSet(I)
      BY <2>2, <3>1, FiniteImage
    <3>4. IsFiniteSet(UNION I)
      BY <3>2, <3>3, FS_UNION
    <3> QED BY <3>4 DEF I
  <2>5. (\E p \in AllPaths : c.id \in Inner(p)) /\ c.blocked = Through(AllPaths, c.id)
    BY <2>2, <2>3, <2>4, ChokepointsOf
  <2>6. PICK id : id = c.id
    OBVIOUS
  <2>7. PathsIn(Typed(nodes, "entry") \ {id}, Typed(nodes, "sink") \ {id}, {e \in edges : id \notin {e[1], e[2]}})
          = {p \in AllPaths : id \notin ToSet(p)}
    BY <2>1, PathsLeft
  <2>8. Cardinality({p \in AllPaths : id \notin ToSet(p)}) + Through(AllPaths, id)
           + Cardinality({p \in AllPaths : Last(p) = id}) = Cardinality(AllPaths)
    BY <2>1, <2>5, <2>6, PathsParted
  <2> QED BY <2>2, <2>5, <2>6, <2>7, <2>8
<1>2. IInv => ChokepointBlocks
  BY <1>1 DEF ChokepointBlocks
<1> QED BY <1>2, AnalysisInvariant, PTL

----------------------------------------------------------------------------
(* Blast radii. *)

(* The totals of radii of distinct entries add up to the paths that start  *)
(* there.                                                                  *)
StartingIn(ps, rs) == {p \in ps : \E r \in rs : r.entry = p[1]}

LEMMA TotalsAdd ==
  ASSUME NEW ps, IsFiniteSet(ps), NEW radii, IsFiniteSet(radii),
         \A r \in radii : r.total = Cardinality(Starting(ps, r.entry)),
         \A r, s \in radii : r.entry = s.entry => r = s
  PROVE  MapThenSumSet(LAMBDA r : r.total, radii) = Cardinality(StartingIn(ps, radii))
<1> DEFINE count(rs) == Cardinality(StartingIn(ps, rs))
           some(rs) == CHOOSE r \in rs : TRUE
           Is(g) == g = [rs \in SUBSET radii |-> IF rs = {} THEN 0
                                                 ELSE some(rs).total + g[rs \ {some(rs)}]]
           g0 == [rs \in SUBSET radii |-> count(rs)]
<1>1. ASSUME NEW rs \in SUBSET radii, NEW r \in rs
      PROVE  count(rs) = r.total + count(rs \ {r})
  <2> DEFINE A == Starting(ps, r.entry)
             B == StartingIn(ps, rs \ {r})
  <2>1. StartingIn(ps, rs) = A \cup B /\ A \cap B = {}
    BY DEF Starting, StartingIn
  <2>2. A \in SUBSET ps /\ B \in SUBSET ps
    BY DEF Starting, StartingIn
  <2> HIDE DEF A, B
  <2>3. IsFiniteSet(A) /\ IsFiniteSet(B)
    BY <2>2, FS_Subset
  <2>4. Cardinality(A \cup B) = Cardinality(A) + Cardinality(B) - Cardinality(A \cap B)
    BY <2>3, FS_Union
  <2>5. Cardinality(A) \in Nat /\ Cardinality(B) \in Nat /\ Cardinality(A \cap B) = 0
    BY <2>1, <2>3, FS_CardinalityType, FS_EmptySet
  <2>6. r.total = Cardinality(A)
    BY DEF A
  <2> QED BY <2>1, <2>4, <2>5, <2>6 DEF B
<1>2. count({}) = 0
  <2>1. StartingIn(ps, {}) = {}
    BY DEF StartingIn
  <2> QED BY <2>1, FS_EmptySet
<1> HIDE DEF count
<1>3. Is(g0)
  <2>1. ASSUME NEW rs \in SUBSET radii, rs # {}
        PROVE  count(rs) = some(rs).total + g0[rs \ {some(rs)}]
    <3>1. some(rs) \in rs /\ rs \ {some(rs)} \in SUBSET radii
      BY <2>1
    <3> HIDE DEF some
    <3> QED BY <1>1, <3>1
  <2> HIDE DEF some
  <2> QED BY <1>2, <2>1
<1> HIDE DEF g0
<1>4. PICK g : Is(g) /\ MapThenSumSet(LAMBDA r : r.total, radii) = g[radii]
  <2> DEFINE chosen == CHOOSE g : Is(g)
  <2>1. Is(chosen)
    <3> HIDE DEF some
    <3> QED BY <1>3, Zenon
  <2>2. MapThenSumSet(LAMBDA r : r.total, radii) = chosen[radii]
    BY Zenon DEF MapThenSumSet, MapThenFoldSet
  <2> HIDE DEF chosen, Is
  <2> QED BY <2>1, <2>2, Zenon
<1>5. PICK N \in Nat : N = Cardinality(radii)
  BY FS_CardinalityType
<1> DEFINE K == {k \in 0..N : \A rs \in SUBSET radii : Cardinality(rs) = k => g[rs] = count(rs)}
<1>6. 0 \in K
  <2>1. ASSUME NEW rs \in SUBSET radii, Cardinality(rs) = 0
        PROVE  g[rs] = count(rs)
    <3>1. IsFiniteSet(rs)
      BY FS_Subset
    <3>2. rs = {}
      BY <2>1, <3>1, FS_EmptySet
    <3> QED BY <1>2, <1>4, <3>2
  <2> QED BY <2>1
<1>7. ASSUME NEW k \in 1..N, k - 1 \in K
      PROVE  k \in K
  <2>1. ASSUME NEW rs \in SUBSET radii, Cardinality(rs) = k
        PROVE  g[rs] = count(rs)
    <3>1. IsFiniteSet(rs) /\ rs # {}
      BY <2>1, FS_Subset, FS_EmptySet
    <3>2. some(rs) \in rs
      BY <3>1
    <3>3. g[rs] = some(rs).total + g[rs \ {some(rs)}]
      BY <1>4, <3>1
    <3> HIDE DEF some
    <3>4. Cardinality(rs \ {some(rs)}) = k - 1 /\ rs \ {some(rs)} \in SUBSET radii
      BY <2>1, <3>1, <3>2, FS_RemoveElement
    <3>5. g[rs \ {some(rs)}] = count(rs \ {some(rs)})
      BY <1>7, <3>4
    <3> QED BY <1>1, <3>2, <3>3, <3>5
  <2> QED BY <2>1
<1> HIDE DEF K
<1>8. N \in K
  BY <1>5, <1>6, <1>7, Upward
<1>9. g[radii] = count(radii)
  BY <1>5, <1>8 DEF K
<1> QED BY <1>4, <1>9 DEF count

(* The blast radii account for every path, and count none twice.           *)
THEOREM RadiiAccountHolds == Spec => []RadiiAccount
<1>1. ASSUME IInv, Done
      PROVE  /\ \A p \in report.paths : \E r \in report.radii : r.entry = p[1] /\ Last(p) \in r.sinks
             /\ MapThenSumSet(LAMBDA r : r.total, report.radii) = Cardinality(report.paths)
  <2>1. Graph /\ Reported
    BY <1>1 DEF IInv
  <2>2. PICK ps, radii : ps = report.paths /\ radii = report.radii
    OBVIOUS
  <2>3. ps \subseteq AllPaths /\ IsFiniteSet(ps) /\ RadiiOK(nodes, ps, radii)
    BY <1>1, <2>1, <2>2, AllReported, Zenon DEF Reported, Done
  <2>4. ASSUME NEW p \in ps
        PROVE  \E r \in radii : r.entry = p[1] /\ Last(p) \in r.sinks
    <3>1. p[1] \in Typed(nodes, "entry")
      BY <2>1, <2>3, PathsSimple
    <3>2. PICK i \in DOMAIN nodes : nodes[i].id = p[1] /\ nodes[i].type = "entry"
      BY <2>1, <3>1, EntryIds DEF Graph
    <3>3. PICK n \in ToSet(nodes) : n.id = p[1] /\ n.type = "entry"
      BY <3>2 DEF ToSet
    <3>4. p \in Starting(ps, n.id)
      BY <3>3 DEF Starting
    <3>5. PICK r \in radii : r.entry = n.id /\ r.sinks = {Last(q) : q \in Starting(ps, n.id)}
      BY <2>3, <3>3, <3>4 DEF RadiiOK
    <3> QED BY <3>3, <3>4, <3>5
  <2>5. StartingIn(ps, radii) = ps
    BY <2>4 DEF StartingIn
  <2>6. \A r \in radii : r.entry \in Ids(nodes) /\ r.total = Cardinality(Starting(ps, r.entry))
    BY <2>3 DEF RadiiOK, Ids, ToSet
  <2>7. \A r, s \in radii : r.entry = s.entry => r = s
    BY <2>3 DEF RadiiOK
  <2>8. IsFiniteSet(radii)
    <3> DEFINE f == [r \in radii |-> r.entry]
    <3>1. f \in Injection(radii, Ids(nodes))
      BY <2>6, <2>7 DEF Injection, IsInjective
    <3>2. IsFiniteSet(Ids(nodes))
      BY <2>1, Searched
    <3> HIDE DEF f
    <3> QED BY <3>1, <3>2, FS_Injection
  <2>9. MapThenSumSet(LAMBDA r : r.total, radii) = Cardinality(StartingIn(ps, radii))
    BY <2>3, <2>6, <2>7, <2>8, TotalsAdd
  <2> QED BY <2>2, <2>4, <2>5, <2>9
<1>2. IInv => RadiiAccount
  BY <1>1 DEF RadiiAccount
<1> QED BY <1>2, AnalysisInvariant, PTL

=============================================================================
