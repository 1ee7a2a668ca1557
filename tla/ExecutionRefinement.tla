-------------------------- MODULE ExecutionRefinement --------------------------
(***************************************************************************)
(* What an Execution does for its clients beyond the builder itself: the   *)
(* dimensions it leaves in the device memories, the thread it joins before *)
(* anyone is answered, and that all of it implements ExecutionContract.    *)
(* Built on the invariants of ExecutionProof.                              *)
(***************************************************************************)
EXTENDS ExecutionProof

-------------------------------------------------------------------------------
(* The dimensions that a completed execution leaves behind.                 *)

\* The runtime and the device memories agree on what is known of the outputs.
DimsAgree ==
    \A o \in DOMAIN memory : /\ setup.memory[o] \in {0, memory[o].dims}
                             /\ mOutputs[o].dims \in {0, memory[o].dims}

DimsInv ==
    /\ rpc \in {"finishMark", "finishFlag", "unlock"} /\ result.status = "NONE" => DimsAgree
    /\ MemoryDimsAgree

\* Nothing has been completed initially.
LEMMA DimsInit == Init => DimsInv
BY DEF Init, DimsInv, MemoryDimsAgree

\* An update that is not rejected leaves every device memory with dimensions that
\* it can have and that the builder knows.
LEMMA UpdateAgrees ==
    ASSUME TypeInv, FinishUpdate, result'.status = "NONE"
    PROVE  DimsAgree'
<1>1. /\ ShapesFit(result.shapes) /\ memory' = MemoriesAfter(mOutputs') /\ setup' = setup
      /\ \A o \in DOMAIN memory : MemoryFits(mOutputs', o)
  BY DEF FinishUpdate
<1>2. memory \in [DOMAIN setup.memory -> [dims : Dims, initialized : BOOLEAN]]
  BY DEF TypeInv, TypeOK
<1>3. \A o \in DOMAIN memory :
          memory'[o].dims = combineDimensions(mOutputs'[o].dims, setup.memory[o])
  BY <1>1, <1>2 DEF MemoriesAfter
<1>4. DOMAIN memory' = DOMAIN memory
  BY <1>1 DEF MemoriesAfter
<1> QED BY <1>1, <1>3, <1>4 DEF DimsAgree, MemoryFits, Combinable, combineDimensions

\* Only the completion writes dimensions, and nothing after it does.
LEMMA DimsStep == TypeInv /\ HandoverInv /\ OutcomeInv /\ DimsInv /\ [Next]_vars => DimsInv'
<1> SUFFICES ASSUME TypeInv, HandoverInv, OutcomeInv, DimsInv, [Next]_vars PROVE DimsInv'
  OBVIOUS
<1> USE DEF DimsInv, MemoryDimsAgree, builderVars, callbackVars, planVars, clientVars
<1>0. TypeOK /\ memory \in [DOMAIN setup.memory -> [dims : Dims, initialized : BOOLEAN]]
  BY DEF TypeInv, TypeOK
<1>1. ASSUME NEW c \in Clients, NEW m \in {"sync", "inline", "thread"}, Compute(c, m)
      PROVE  DimsInv'
  BY <1>1 DEF Compute, Startable, HandoverInv, Over
<1>2. ASSUME NEW c \in Clients,
             \/ BindThread(c) \/ ComputeReturns(c) \/ EventWait(c) \/ EventFree(c)
             \/ WaitNotified(c) \/ Join(c) \/ GetStatus(c) \/ DeleteEvent(c) \/ ExecutionFree(c)
      PROVE  DimsInv'
  <2>1. UNCHANGED <<setup, mFinished, mCompletion, mOutputs, memory, rpc, result>>
    BY <1>0, <1>2, ClientFrame
  <2> QED BY <2>1 DEF DimsAgree
<1>3. CASE NextFails \/ NextEnds \/ NextStep \/ ComputeStep \/ PartialFallback \/ FullFallback
  <2>1. /\ rpc \notin Over \cup {"unlock"} /\ UNCHANGED mFinished
        /\ rpc' \in {"next", "step", "fullFallback", "partialFallback", "notify"}
    BY <1>3, Zenon
       DEF NextFails, NextEnds, NextStep, ComputeStep, PartialFallback, FullFallback, Notify, Over
  <2>2. ~mFinished'
    BY <2>1 DEF HandoverInv
  <2> QED BY <2>1, <2>2
<1>4. CASE NotifyStore
  <2>1. ~mFinished' /\ rpc' \in {"finish", "unlock"} /\ (rpc = "notify" /\ mOnFinish)
    BY <1>4 DEF NotifyStore, HandoverInv, Over, Finishing
  <2>2. rpc' = "finish"
    BY <1>4, <2>1 DEF NotifyStore, HandoverInv, Over, Finishing
  <2> QED BY <2>1, <2>2
<1>5. CASE FinishUpdate
  <2>1. ~mFinished'
    BY <1>5 DEF FinishUpdate, HandoverInv, Over
  <2> QED BY <1>5, <2>1, UpdateAgrees
<1>6. CASE FinishMark
  <2>1. /\ UNCHANGED <<setup, mOutputs, mFinished, result>> /\ rpc = "finishMark" /\ ~mFinished
    BY <1>6 DEF FinishMark, HandoverInv, Over
  <2>2. /\ DOMAIN memory' = DOMAIN memory
        /\ \A o \in DOMAIN memory : memory'[o].dims = memory[o].dims
    BY <1>0, <1>6 DEF FinishMark
  <2> QED BY <2>1, <2>2 DEF DimsAgree
<1>7. CASE FinishFlag
  <2>1. /\ rpc = "finishFlag" /\ rpc' = "unlock"
        /\ UNCHANGED <<setup, mOutputs, memory, mCompletion, result>>
    BY <1>7 DEF FinishFlag
  <2>2. mCompletion = "NO_ERROR" => result.status = "NONE"
    BY <1>0, <2>1, CompletionNone DEF OutcomeInv, Recorded, TypeOK
  <2> QED BY <2>1, <2>2 DEF DimsAgree
<1>8. CASE NotifyUnlock \/ RunnerReturns
  BY <1>8 DEF NotifyUnlock, RunnerReturns
<1>9. CASE Terminated \/ UNCHANGED vars
  BY <1>9 DEF Terminated, vars, DimsAgree
<1> QED
  BY <1>1, <1>2, <1>3, <1>4, <1>5, <1>6, <1>7, <1>8, <1>9 DEF Next, Runner, Client

\* After a success the runtime and the device memory agree on the dimensions of
\* every output that lies in a device memory.
THEOREM DimensionsAgree == Spec => []MemoryDimsAgree
<1>1. DimsInv => MemoryDimsAgree
  BY DEF DimsInv
<1> QED
  BY <1>1, TypeInit, TypeStep, HandoverInit, HandoverStep, OutcomeInit, OutcomeStep, DimsInit,
     DimsStep, PTL DEF Spec

-------------------------------------------------------------------------------
(* The thread of the execution: who started it, who joins it.               *)

\* One client starts the execution; a thread that was started is bound before there
\* is an event, joined once by the client that holds the lock for it, and whoever
\* has passed the wait finds it joined.
JoinInv ==
    /\ rpc = "off" => /\ mode = "none" /\ event = "none"
                      /\ \A c \in Clients : cpc[c] = "idle" /\ learnt[c] = "none"
    /\ rpc # "off" => mode # "none"
    /\ mode = "sync" => event = "none"
    /\ \A c \in Clients : cpc[c] = "compute" => mode \in {"sync", "inline"}
    /\ \A c \in Clients : cpc[c] = "bind" => mode = "thread" /\ event = "none"
    /\ \A c, d \in Clients : cpc[c] = "bind" /\ cpc[d] = "bind" => c = d
    /\ \A c \in Clients : cpc[c] \notin {"idle", "compute", "bind"} => event # "none"
    /\ \A c \in Clients : cpc[c] \in {"join", "freeJoin"} => mMutex = c /\ mThread = "joinable"
    /\ mThread = "joined" => rpc = "done"
    /\ mode = "thread" => /\ mThread = "none" <=> event = "none"
                          /\ event = "freed" => mThread = "joined"
                          /\ \A c \in Clients : \/ cpc[c] \in {"getStatus", "delete"}
                                                \/ learnt[c] # "none"
                                                => mThread = "joined"

\* No client has called yet.
LEMMA JoinInit == Init => JoinInv
BY DEF Init, JoinInv

\* The runner touches neither the thread, nor the event, nor a client, and it
\* gives back no lock but its own.
LEMMA RunnerFrame ==
    ASSUME TypeInv, HandoverInv, Runner
    PROVE  /\ UNCHANGED <<mThread, mode, event, cpc, learnt>>
           /\ rpc \notin {"off", "done"} /\ rpc' # "off"
           /\ mMutex' = mMutex \/ mMutex \in {"free", "runner"}
<1> USE DEF builderVars, callbackVars, planVars, clientVars
<1>1. CASE NextFails \/ NextEnds \/ NextStep \/ ComputeStep \/ PartialFallback \/ FullFallback
  BY <1>1, Zenon
     DEF NextFails, NextEnds, NextStep, ComputeStep, PartialFallback, FullFallback, Notify
<1>2. CASE NotifyStore
  BY <1>2 DEF NotifyStore
<1>3. CASE FinishUpdate \/ FinishMark \/ FinishFlag \/ RunnerReturns
  BY <1>3 DEF FinishUpdate, FinishMark, FinishFlag, RunnerReturns
<1>4. CASE NotifyUnlock
  BY <1>4 DEF NotifyUnlock, HandoverInv, Finishing
<1> QED BY <1>1, <1>2, <1>3, <1>4 DEF Runner

\* One step per call of a client; the runner and the builder stay out of it.
LEMMA JoinStep == TypeInv /\ HandoverInv /\ OutcomeInv /\ JoinInv /\ [Next]_vars => JoinInv'
<1> SUFFICES ASSUME TypeInv, HandoverInv, OutcomeInv, JoinInv, [Next]_vars PROVE JoinInv'
  OBVIOUS
<1> USE DEF JoinInv, builderVars, callbackVars, planVars, clientVars
<1>0. /\ cpc \in [Clients -> ClientPoint] /\ learnt \in [Clients -> ErrorStatus \cup {"none"}]
      /\ mThread \in {"none", "joinable", "joined"}
      /\ \A c \in Clients : c \notin {"free", "runner"}
  BY ClientsAssumption DEF TypeInv, TypeOK
<1>1. ASSUME NEW c \in Clients, NEW m \in {"sync", "inline", "thread"}, Compute(c, m)
      PROVE  JoinInv'
  <2>1. rpc = "off"
    BY <1>1 DEF Compute, Startable, HandoverInv
  <2>2. /\ mThread' = "none" /\ mode' = m /\ rpc' = "next" /\ UNCHANGED <<event, learnt>>
        /\ cpc' = [cpc EXCEPT ![c] = IF m = "thread" THEN "bind" ELSE "compute"]
    BY <1>1 DEF Compute
  <2> QED BY <1>0, <2>1, <2>2
<1>2. ASSUME NEW c \in Clients, BindThread(c) PROVE JoinInv'
  BY <1>0, <1>2 DEF BindThread
<1>3. ASSUME NEW c \in Clients, ComputeReturns(c) PROVE JoinInv'
  BY <1>0, <1>3 DEF ComputeReturns
<1>4. ASSUME NEW c \in Clients, EventWait(c) \/ EventFree(c) PROVE JoinInv'
  BY <1>0, <1>4 DEF EventWait, EventFree
<1>5. ASSUME NEW c \in Clients, WaitNotified(c) PROVE JoinInv'
  BY <1>0, <1>5 DEF WaitNotified, Awake, MustJoin
<1>6. ASSUME NEW c \in Clients, Join(c) PROVE JoinInv'
  BY <1>0, <1>6 DEF Join
<1>7. ASSUME NEW c \in Clients, GetStatus(c) PROVE JoinInv'
  BY <1>0, <1>7 DEF GetStatus
<1>8. ASSUME NEW c \in Clients, DeleteEvent(c) \/ ExecutionFree(c) PROVE JoinInv'
  BY <1>0, <1>8 DEF DeleteEvent, ExecutionFree
<1>9. CASE Runner
  BY <1>0, <1>9, RunnerFrame
<1>10. CASE Terminated \/ UNCHANGED vars
  BY <1>10 DEF Terminated, vars
<1> QED BY <1>1, <1>2, <1>3, <1>4, <1>5, <1>6, <1>7, <1>8, <1>9, <1>10 DEF Next, Client

\* Everything that is known of an execution and of its clients.
THEOREM Clientele == Spec => [](TypeInv /\ HandoverInv /\ OutcomeInv /\ JoinInv)
BY TypeInit, TypeStep, HandoverInit, HandoverStep, OutcomeInit, OutcomeStep, JoinInit, JoinStep,
   PTL DEF Spec

\* The thread of an execution is joined before any wait returns and before the event
\* that owns it is deleted.
THEOREM Joined == Spec => []JoinedBeforeReturn
<1>1. JoinInv => JoinedBeforeReturn
  BY DEF JoinInv, JoinedBeforeReturn
<1> QED BY <1>1, Clientele, PTL

-------------------------------------------------------------------------------
(* The execution implements its contract.                                   *)

\* Who has not been told yet is either waiting for the answer or not interested.
LEMMA ContractInit == Init => Contract!Init
BY DEF Init, Contract!Init

\* What a client of the contract knows, by the refinement mapping of Execution.
Told(c) ==
    IF learnt[c] # "none" THEN CompletionOf(learnt[c])
    ELSE IF cpc[c] \in {"wait", "join", "getStatus"} \/ (cpc[c] = "compute" /\ mode = "sync")
    THEN "asked" ELSE "nothing"
Phase == IF mFinished THEN "finished" ELSE IF mStarted THEN "running" ELSE "ready"
Ending == IF mFinished THEN mCompletion ELSE "pending"
told == [c \in Clients |-> Told(c)]

\* The state functions above are the ones that the contract is instantiated with.
LEMMA Mapping ==
    /\ UNCHANGED <<Phase, Ending, told, execFreed>> => UNCHANGED Contract!vars
    /\ Contract!Start <=> /\ Phase = "ready" /\ ~execFreed /\ Phase' = "running"
                          /\ \/ UNCHANGED told
                             \/ \E c \in Clients : told' = [told EXCEPT ![c] = "asked"]
                          /\ UNCHANGED <<Ending, execFreed>>
    /\ Contract!Finish <=> /\ Phase = "running" /\ Phase' = "finished" /\ Ending' \in Completion
                           /\ UNCHANGED <<told, execFreed>>
    /\ \A c : Contract!Ask(c) <=> /\ Phase # "ready" /\ told[c] = "nothing"
                                  /\ told' = [told EXCEPT ![c] = "asked"]
                                  /\ UNCHANGED <<Phase, Ending, execFreed>>
    /\ \A c : Contract!Tell(c) <=> /\ Phase = "finished" /\ told[c] = "asked"
                                   /\ told' = [told EXCEPT ![c] = Ending]
                                   /\ UNCHANGED <<Phase, Ending, execFreed>>
    /\ Contract!Free <=> /\ Phase # "running" /\ ~execFreed /\ execFreed' = TRUE
                         /\ UNCHANGED <<Phase, Ending, told>>
BY Zenon
   DEF Contract!vars, Contract!Start, Contract!Finish, Contract!Ask, Contract!Tell, Contract!Free,
       Phase, Ending, told, Told

\* What one client knows changes alone.
LEMMA ToldUpdate ==
    ASSUME NEW c \in Clients, NEW v, Told(c)' = v,
           \A d \in Clients \ {c} : Told(d)' = Told(d)
    PROVE  told' = [told EXCEPT ![c] = v]
<1>1. told' = [d \in Clients |-> Told(d)']
  BY DEF told
<1> QED BY <1>1 DEF told

\* A step that changes nobody's knowledge.
LEMMA ToldStays ==
    ASSUME \A c \in Clients : Told(c)' = Told(c)
    PROVE  told' = told
<1>1. told' = [d \in Clients |-> Told(d)']
  BY DEF told
<1> QED BY <1>1 DEF told

\* Every step of the execution is a step of the contract or invisible to it.
LEMMA ContractStep ==
    TypeInv /\ HandoverInv /\ OutcomeInv /\ JoinInv /\ [Next]_vars
        => [Contract!Next]_(Contract!vars)
<1> SUFFICES ASSUME TypeInv, HandoverInv, OutcomeInv, JoinInv, [Next]_vars
             PROVE  Contract!Next \/ UNCHANGED <<Phase, Ending, told, execFreed>>
  BY Mapping, Zenon
<1> USE DEF builderVars, callbackVars, planVars, clientVars
<1>0. /\ cpc \in [Clients -> ClientPoint] /\ learnt \in [Clients -> ErrorStatus \cup {"none"}]
      /\ mCompletion \in Completion /\ TypeOK
  BY DEF TypeInv, TypeOK
<1>1. ASSUME NEW c \in Clients, NEW m \in {"sync", "inline", "thread"}, Compute(c, m)
      PROVE  Contract!Start
  <2>1. /\ ~mStarted /\ ~mFinished /\ mStarted' /\ ~mFinished' /\ ~execFreed
        /\ UNCHANGED execFreed
        /\ \A d \in Clients : cpc[d] = "idle" /\ learnt[d] = "none" /\ learnt'[d] = "none"
    BY <1>1 DEF Compute, Startable, HandoverInv, JoinInv, Over
  <2>2. mode' = m /\ cpc' = [cpc EXCEPT ![c] = IF m = "thread" THEN "bind" ELSE "compute"]
    BY <1>1 DEF Compute
  <2>3. \A d \in Clients \ {c} : Told(d)' = Told(d)
    BY <1>0, <2>1, <2>2 DEF Told
  <2>4. Told(c)' = IF m = "sync" THEN "asked" ELSE Told(c)
    BY <1>0, <2>1, <2>2 DEF Told
  <2>5. UNCHANGED told \/ told' = [told EXCEPT ![c] = "asked"]
    BY <2>3, <2>4, ToldUpdate, ToldStays
  <2>6. Phase = "ready" /\ Phase' = "running" /\ UNCHANGED Ending
    BY <2>1 DEF Phase, Ending
  <2> QED BY <2>1, <2>5, <2>6, Mapping, Zenon
<1>2. ASSUME NEW c \in Clients, BindThread(c) \/ EventFree(c) \/ WaitNotified(c) \/ Join(c)
                                \/ DeleteEvent(c)
      PROVE  UNCHANGED <<Phase, Ending, told, execFreed>>
  <2>1. UNCHANGED <<mStarted, mFinished, mCompletion, execFreed, mode, learnt>>
    BY <1>2 DEF BindThread, EventFree, WaitNotified, Join, DeleteEvent
  <2>2. \A d \in Clients : /\ cpc[d] \in {"wait", "join", "getStatus"}
                              <=> cpc'[d] \in {"wait", "join", "getStatus"}
                           /\ cpc[d] = "compute" <=> cpc'[d] = "compute"
    BY <1>0, <1>2 DEF BindThread, EventFree, WaitNotified, Join, DeleteEvent
  <2>3. \A d \in Clients : Told(d)' = Told(d)
    BY <2>1, <2>2 DEF Told
  <2> QED BY <2>1, <2>3, ToldStays DEF Phase, Ending
<1>3. ASSUME NEW c \in Clients, ComputeReturns(c) \/ GetStatus(c)
      PROVE  \/ Contract!Tell(c) \/ UNCHANGED <<Phase, Ending, told, execFreed>>
  <2>1. /\ mFinished /\ mStarted /\ mCompletion = CompletionOf(mErrorStatus) /\ rpc \in Over
        /\ UNCHANGED <<mStarted, mFinished, mCompletion, execFreed, mode>>
    BY <1>3 DEF ComputeReturns, GetStatus, Awake, HandoverInv, OutcomeInv, Recorded, Over
  <2>2. /\ cpc' = [cpc EXCEPT ![c] = "idle"]
        /\ learnt' = IF cpc[c] = "getStatus" \/ mode = "sync"
                     THEN [learnt EXCEPT ![c] = mErrorStatus] ELSE learnt
        /\ cpc[c] = "getStatus" \/ cpc[c] = "compute"
    BY <1>3 DEF ComputeReturns, GetStatus
  <2>3. \A d \in Clients \ {c} : Told(d)' = Told(d)
    BY <1>0, <2>1, <2>2 DEF Told
  <2>4. CASE learnt[c] = "none" /\ (cpc[c] = "getStatus" \/ mode = "sync")
    <3>1. Told(c) = "asked" /\ Told(c)' = mCompletion
      BY <1>0, <2>1, <2>2, <2>4 DEF Told, TypeOK, ErrorStatus, SharedName
    <3> QED BY <2>1, <2>3, <3>1, ToldUpdate, Mapping DEF Phase, Ending, told
  <2>5. CASE ~(learnt[c] = "none" /\ (cpc[c] = "getStatus" \/ mode = "sync"))
    <3>1. Told(c)' = Told(c)
      BY <1>0, <2>1, <2>2, <2>5 DEF Told, OutcomeInv
    <3> QED BY <2>1, <2>3, <3>1, ToldStays DEF Phase, Ending
  <2> QED BY <2>4, <2>5
<1>4. ASSUME NEW c \in Clients, EventWait(c)
      PROVE  \/ Contract!Ask(c) \/ UNCHANGED <<Phase, Ending, told, execFreed>>
  <2>1. /\ UNCHANGED <<mStarted, mFinished, mCompletion, execFreed, mode, learnt>> /\ mStarted
        /\ cpc' = [cpc EXCEPT ![c] = "wait"] /\ cpc[c] = "idle"
    BY <1>4 DEF EventWait, HandoverInv, JoinInv
  <2>2. \A d \in Clients \ {c} : Told(d)' = Told(d)
    BY <1>0, <2>1 DEF Told
  <2>3. CASE learnt[c] = "none"
    <3>1. Told(c) = "nothing" /\ Told(c)' = "asked"
      BY <1>0, <2>1, <2>3 DEF Told
    <3> QED BY <2>1, <2>2, <3>1, ToldUpdate, Mapping DEF Phase, Ending, told
  <2>4. CASE learnt[c] # "none"
    <3>1. Told(c)' = Told(c)
      BY <1>0, <2>1, <2>4 DEF Told
    <3> QED BY <2>1, <2>2, <3>1, ToldStays DEF Phase, Ending
  <2> QED BY <2>3, <2>4
<1>5. ASSUME NEW c \in Clients, ExecutionFree(c) PROVE Contract!Free
  <2>1. /\ UNCHANGED <<mStarted, mFinished, mCompletion, mode, learnt, cpc>>
        /\ ~execFreed /\ execFreed' = TRUE /\ ~inFlight
    BY <1>5 DEF ExecutionFree
  <2>2. \A d \in Clients : Told(d)' = Told(d)
    BY <2>1 DEF Told
  <2> QED BY <2>1, <2>2, ToldStays, Mapping DEF Phase, Ending, inFlight
<1>6. CASE Runner
  <2>1. UNCHANGED <<mode, learnt, cpc>>
    BY <1>6, RunnerFrame
  <2>2. UNCHANGED told
    <3>1. \A d \in Clients : Told(d)' = Told(d)
      BY <2>1 DEF Told
    <3> QED BY <3>1, ToldStays
  <2>3. CASE FinishFlag
    <3>1. /\ mStarted /\ ~mFinished /\ mFinished' /\ UNCHANGED <<mCompletion, execFreed>>
      BY <2>3 DEF FinishFlag, HandoverInv, Over
    <3> QED BY <1>0, <2>2, <3>1, Mapping DEF Phase, Ending, Contract!Next
  <2>4. CASE FinishMark
    <3>1. ~mFinished /\ ~mFinished' /\ UNCHANGED <<mStarted, execFreed>>
      BY <2>4 DEF FinishMark, HandoverInv, Over
    <3> QED BY <2>2, <3>1 DEF Phase, Ending
  <2>5. CASE ~FinishFlag /\ ~FinishMark
    <3>1. UNCHANGED <<mStarted, mFinished, mCompletion, execFreed>>
      BY <1>6, <2>5, Zenon
         DEF Runner, NextFails, NextEnds, NextStep, ComputeStep, PartialFallback, FullFallback,
             NotifyStore, FinishUpdate, NotifyUnlock, RunnerReturns
    <3> QED BY <2>2, <3>1 DEF Phase, Ending
  <2> QED BY <2>3, <2>4, <2>5
<1>7. CASE Terminated \/ UNCHANGED vars
  BY <1>7 DEF Terminated, vars, Phase, Ending, told, Told
<1> QED BY <1>1, <1>2, <1>3, <1>4, <1>5, <1>6, <1>7, Zenon DEF Next, Client, Contract!Next

\* The execution keeps the promises of ExecutionContract that a single step could
\* break: one start, one outcome, and nobody is told anything else.
THEOREM Implements == Spec => Contract!Safety
BY ContractInit, ContractStep, Clientele, PTL DEF Spec, Contract!Safety

===============================================================================
