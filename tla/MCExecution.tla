----------------------------- MODULE MCExecution -----------------------------
(* Instances of Execution for TLC. *)
EXTENDS Execution, TLC

Driver(S) == [cpu |-> FALSE, outs |-> S]
Cpu(S)    == [cpu |-> TRUE, outs |-> S]

\* Simple plans on a driver and on the CPU, and compound plans of two steps
\* that split the outputs or produce one of them only through a temporary.
Plans == {[steps |-> <<Driver({1, 2})>>, simple |-> TRUE, controlFlow |-> FALSE],
          [steps |-> <<Cpu({1, 2})>>, simple |-> TRUE, controlFlow |-> FALSE],
          [steps |-> <<Driver({1}), Driver({2})>>, simple |-> FALSE, controlFlow |-> FALSE],
          [steps |-> <<Driver({}), Cpu({1, 2})>>, simple |-> FALSE, controlFlow |-> TRUE]}

\* Output 1 is a buffer of the client, output 2 may lie in a device memory of
\* known or unknown dimensions.
Memories == {[o \in {} |-> 0], [o \in {2} |-> 0], [o \in {2} |-> 2]}

MCSetups ==
    {[steps |-> p.steps, simple |-> p.simple, controlFlow |-> p.controlFlow,
      allowFallback |-> f, dims |-> d, memory |-> m] :
        p \in Plans, f \in BOOLEAN, m \in Memories,
        d \in {<<0, 0>>, <<2, 0>>, <<0, 2>>}}

\* One output and no choice of dimensions: enough for the handover between the
\* runner and the clients, which liveness and the contract are about.
HandoverSetups ==
    {[steps |-> p.steps, simple |-> p.simple, controlFlow |-> p.controlFlow,
      allowFallback |-> TRUE, dims |-> <<0>>, memory |-> m] :
        p \in {[steps |-> <<Driver({1})>>, simple |-> TRUE, controlFlow |-> FALSE],
               [steps |-> <<Driver({}), Driver({1})>>, simple |-> FALSE, controlFlow |-> TRUE]},
        m \in {[o \in {} |-> 0], <<2>>}}

\* The clients are interchangeable; used for safety properties only.
ClientSymmetry == Permutations(Clients)
===============================================================================
