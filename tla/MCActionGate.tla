---------------------------- MODULE MCActionGate ----------------------------
(***************************************************************************)
(* Two clients with a workflow each, and a severe finding of each.  Both   *)
(* requests may decide on the first action; or else the first decides on   *)
(* the first workflow, for its client or for the other, and the second     *)
(* lists the queue of the first client.                                    *)
(***************************************************************************)
EXTENDS ActionGate
CONSTANTS w1, w2, c1, c2, f1, f2, r1, r2

TheClients   == [w \in {w1, w2} |-> IF w = w1 THEN c1 ELSE c2]
TheWorkflows == [f \in {f1, f2} |-> IF f = f1 THEN w1 ELSE w2]
Decisions    == {Ask(kind, f1, "none") : kind \in {"accept", "reject"}}
TheAsks ==
  [r \in {r1, r2} |->
     Decisions \union IF r = r1 THEN {Ask("resume", w1, c) : c \in {c1, c2}}
                                ELSE {Ask("queue", "none", c1)}]
=============================================================================
