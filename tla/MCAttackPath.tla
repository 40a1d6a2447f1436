---------------------------- MODULE MCAttackPath -----------------------------
EXTENDS AttackPath

MCSinkTypes == [execute |-> "sql_injection"]

Decorators == {{}} \cup {{[on |-> o, verb |-> v, route |-> "data"]} :
                         <<o, v>> \in {<<"known", "get">>, <<"known", "route">>, <<"other", "get">>}}
Defs == [name : {"view", "escape"}, decorator : Decorators,
         calls : {<< >>, <<"escape">>, <<"execute">>}]
Sources == [parses : BOOLEAN, defs : {<<d>> : d \in Defs}]
           \cup {[parses |-> b, defs |-> <<d, [name |-> n, decorator |-> {}, calls |-> <<"escape", "execute">>]>>] :
                   b \in BOOLEAN, d \in Defs, n \in {"view", "escape"}}

Finding(f, line, name, category, snippet) ==
  [file |-> f, line |-> line, name |-> name, category |-> category, snippet |-> snippet]
Lines == {0, 2, 3}
Names == {"None", "view", "escape"}

OneFile ==
  {[kind |-> k, sources |-> [a |-> s], jewels |-> {},
    findings |-> <<Finding("a", l, n, "injection", ""), Finding("a", 3, "view", "ssrf", "")>>] :
     k \in {"payload", "contents"}, s \in Sources, l \in Lines, n \in Names}

TwoFiles ==
  {[kind |-> "contents", sources |-> [a |-> s, b |-> s], jewels |-> {"b"},
    findings |-> <<Finding("a", 3, n, "injection", ""), Finding("b", l, m, c, "")>>] :
     s \in {s \in Sources : s.parses /\ Len(s.defs) = 1}, l \in {0, 3}, n \in {"None", "escape"},
     m \in {"None", "escape"}, c \in {"injection", "taint_flow"}}

Unread ==
  {[kind |-> k, sources |-> << >>, jewels |-> {"api"},
    findings |-> <<Finding(f, l, n, "injection", s), Finding(g, 3, n, "injection", t)>>] :
     k \in {"payload", "contents"}, f \in {"auth", "api", "c"}, g \in {"auth", "api", "c"}, l \in {0, 2},
     n \in {"None", "handler", "escape"}, s \in {"", "escape", "execute"}, t \in {"", "execute"}}

MCInputs == OneFile \cup TwoFiles \cup Unread
=============================================================================
