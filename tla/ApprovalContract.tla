-------------------------- MODULE ApprovalContract --------------------------
(***************************************************************************)
(* What the approval of write-scope actions promises: "All write-scope     *)
(* actions require human approval before execution".  Every execution      *)
(* spends an acceptance of its own; an acceptance may go unused.           *)
(***************************************************************************)
CONSTANT Requests     \* the decisions reviewers send

VARIABLES
  accepted,           \* those that accepted an action
  dispatched          \* those on whose account an action was carried out

Init == accepted = {} /\ dispatched = {}

Accept(r) ==
  /\ accepted' = accepted \union {r}
  /\ UNCHANGED dispatched

CarryOut(r) ==
  /\ r \in accepted \ dispatched
  /\ dispatched' = dispatched \union {r}
  /\ UNCHANGED accepted

Next == \E r \in Requests : Accept(r) \/ CarryOut(r)

Spec == Init /\ [][Next]_<<accepted, dispatched>>
=============================================================================
