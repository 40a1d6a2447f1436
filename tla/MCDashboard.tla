----------------------------- MODULE MCDashboard -----------------------------
EXTENDS Dashboard

Interchangeable == Permutations(Workflows)

MCReports ==
  {[risk |-> 80, gaps |-> 2, vulnerable |-> 1,
    findings |-> <<[severity |-> "high", category |-> "injection"],
                   [severity |-> "critical", category |-> "dependency"]>>],
   [risk |-> 1, gaps |-> 0, vulnerable |-> 0,
    findings |-> <<[severity |-> "high", category |-> "injection"]>>]}
=============================================================================
