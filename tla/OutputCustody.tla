--------------------------- MODULE OutputCustody ---------------------------
(***************************************************************************)
(* What the orchestrator promises about the agents' outputs.  An output is *)
(* in shared memory from the moment its agent writes it; the whole memory  *)
(* is copied to the database at one instant, as if nobody could write      *)
(* meanwhile; and it leaves the memory only while the database holds       *)
(* exactly what the memory holds.  The database never forgets an agent.    *)
(***************************************************************************)
CONSTANTS Agents,    \* the agents of the workflow
          Output,    \* what an agent can write
          NoOutput   \* what stands for nothing written

VARIABLES memory,    \* the agents' sections in shared memory
          durable    \* the snapshot in the database

vars == <<memory, durable>>

Nothing == [a \in Agents |-> NoOutput]

Init == memory = Nothing /\ durable = Nothing

\* An agent writes its section, or writes it again.
Produce(a) ==
  /\ \E o \in Output \ {NoOutput} : memory' = [memory EXCEPT ![a] = o]
  /\ UNCHANGED durable

\* The snapshot is written over the one before, and drops no agent of it.
Persist ==
  /\ \A a \in Agents : durable[a] # NoOutput => memory[a] # NoOutput
  /\ durable' = memory
  /\ UNCHANGED memory

Release ==
  /\ memory = durable
  /\ memory' = Nothing
  /\ UNCHANGED durable

Next == (\E a \in Agents : Produce(a)) \/ Persist \/ Release

Spec == Init /\ [][Next]_vars
=============================================================================
