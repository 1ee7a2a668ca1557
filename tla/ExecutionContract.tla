-------------------------- MODULE ExecutionContract --------------------------
(***************************************************************************)
(* What an execution promises to its client, without threads, locks, plans *)
(* or fallbacks: it is started at most once, it finishes with exactly one  *)
(* outcome, that outcome and no other is what every caller is told, and a  *)
(* caller that asks is answered.                                           *)
(***************************************************************************)
CONSTANTS Clients, Outcomes

VARIABLES phase,    \* "ready", "running" or "finished"
          outcome,  \* the one outcome, once finished
          told,     \* client -> what it knows: "nothing", "asked" or an outcome
          freed     \* the execution object was destroyed

vars == <<phase, outcome, told, freed>>

Init == /\ phase = "ready" /\ outcome = "pending" /\ freed = FALSE
        /\ told = [c \in Clients |-> "nothing"]

\* Starting may already be a question, when the call is synchronous.
Start == /\ phase = "ready" /\ ~freed
         /\ phase' = "running"
         /\ \/ UNCHANGED told
            \/ \E c \in Clients : told' = [told EXCEPT ![c] = "asked"]
         /\ UNCHANGED <<outcome, freed>>

Finish == /\ phase = "running"
          /\ phase' = "finished"
          /\ outcome' \in Outcomes
          /\ UNCHANGED <<told, freed>>

Ask(c) == /\ phase # "ready" /\ told[c] = "nothing"
          /\ told' = [told EXCEPT ![c] = "asked"]
          /\ UNCHANGED <<phase, outcome, freed>>

Tell(c) == /\ phase = "finished" /\ told[c] = "asked"
           /\ told' = [told EXCEPT ![c] = outcome]
           /\ UNCHANGED <<phase, outcome, freed>>

\* A running execution cannot be destroyed; its outcome outlives it.
Free == /\ phase # "running" /\ ~freed
        /\ freed' = TRUE
        /\ UNCHANGED <<phase, outcome, told>>

Next == Start \/ Finish \/ Free \/ \E c \in Clients : Ask(c) \/ Tell(c)

\* What may happen, without what must: the part that a single step can break.
Safety == Init /\ [][Next]_vars

Spec == Safety /\ WF_vars(Finish) /\ \A c \in Clients : WF_vars(Tell(c))
===============================================================================
