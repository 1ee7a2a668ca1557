---------------------------- MODULE MemoryContract ----------------------------
(***************************************************************************)
(* What the memory objects of a descriptor promise to the client, as the   *)
(* documentation of ANeuralNetworksMemory_createFromDesc puts it: a memory *)
(* is uninitialized when it is created, a call that succeeds initializes   *)
(* the memory it writes, a call that fails returns it to uninitialized,    *)
(* and no call reads a memory that is not initialized.  There are no       *)
(* devices, buffers or tokens here.                                        *)
(***************************************************************************)
CONSTANTS Memories, Threads

VARIABLES state,    \* "absent", "uninitialized" or "initialized"
          reads,    \* thread -> the memories that its call reads
          writes,   \* thread -> the memories that its call writes
          result    \* thread -> "none", "pending", "NO_ERROR" or "error"

vars == <<state, reads, writes, result>>

Used(m) == \E t \in Threads : m \in reads[t] \cup writes[t]

Init == /\ state = [m \in Memories |-> "absent"]
        /\ reads = [t \in Threads |-> {}] /\ writes = [t \in Threads |-> {}]
        /\ result = [t \in Threads |-> "none"]

Create(m) == /\ state[m] = "absent"
             /\ state' = [state EXCEPT ![m] = "uninitialized"]
             /\ UNCHANGED <<reads, writes, result>>

Free(m) == /\ state[m] # "absent" /\ ~Used(m)
           /\ state' = [state EXCEPT ![m] = "absent"]
           /\ UNCHANGED <<reads, writes, result>>

\* A call is let in: what it reads is initialized.
Call(t, R, W) ==
    /\ result[t] # "pending"
    /\ \A m \in R : state[m] = "initialized"
    /\ \A m \in W : state[m] # "absent" /\ ~Used(m)
    /\ reads' = [reads EXCEPT ![t] = R] /\ writes' = [writes EXCEPT ![t] = W]
    /\ result' = [result EXCEPT ![t] = "pending"]
    /\ UNCHANGED state

\* A call is turned away before it has any effect.
Refuse(t) == /\ result[t] # "pending"
             /\ result' = [result EXCEPT ![t] = "error"]
             /\ UNCHANGED <<state, reads, writes>>

\* The state of what a call wrote says how the call ended.
Return(t) ==
    /\ result[t] = "pending"
    /\ \E r \in {"NO_ERROR", "error"} :
        /\ result' = [result EXCEPT ![t] = r]
        /\ state' = [m \in Memories |->
                        IF m \notin writes[t] THEN state[m]
                        ELSE IF r = "NO_ERROR" THEN "initialized" ELSE "uninitialized"]
    /\ reads' = [reads EXCEPT ![t] = {}] /\ writes' = [writes EXCEPT ![t] = {}]

Next == \/ \E m \in Memories : Create(m) \/ Free(m)
        \/ \E t \in Threads : Refuse(t) \/ Return(t)
        \/ \E t \in Threads, R, W \in SUBSET Memories : Call(t, R, W)

Spec == Init /\ [][Next]_vars
===============================================================================
