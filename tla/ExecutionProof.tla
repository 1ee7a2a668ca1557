---------------------------- MODULE ExecutionProof ----------------------------
(***************************************************************************)
(* Proofs about Execution, for any number of clients, outputs and steps    *)
(* and for any setting that satisfies SetupsAssumption.                    *)
(***************************************************************************)
EXTENDS Execution, TLAPS

-------------------------------------------------------------------------------
(* Lemmas about the operators.                                              *)

\* The conversion between the two vocabularies is total.
LEMMA ConversionType == \A n : convertResultCodeToErrorStatus(n) \in ErrorStatus
<1> TAKE n
<1>1. CASE n = "NO_ERROR"
  BY <1>1 DEF convertResultCodeToErrorStatus, ErrorStatus, SharedName
<1>2. CASE n \in {"BAD_DATA", "UNEXPECTED_NULL"}
  BY <1>2 DEF convertResultCodeToErrorStatus, ErrorStatus, SharedName
<1>3. CASE n = "UNAVAILABLE_DEVICE"
  BY <1>3 DEF convertResultCodeToErrorStatus, ErrorStatus, SharedName
<1>4. CASE n \in SharedName
  BY <1>4 DEF convertResultCodeToErrorStatus, ErrorStatus, SharedName
<1>5. CASE n \notin {"NO_ERROR", "BAD_DATA", "UNEXPECTED_NULL", "UNAVAILABLE_DEVICE"} \cup SharedName
  BY <1>5 DEF convertResultCodeToErrorStatus, ErrorStatus
<1> QED BY <1>1, <1>2, <1>3, <1>4, <1>5

\* Only NO_ERROR is converted to NONE.
LEMMA ConversionNone == \A n : convertResultCodeToErrorStatus(n) = "NONE" <=> n = "NO_ERROR"
BY DEF convertResultCodeToErrorStatus, SharedName

\* Every status completes an execution in one of three ways.
LEMMA CompletionType == \A status : CompletionOf(status) \in Completion
BY DEF CompletionOf, Completion

\* Only NONE completes an execution successfully.
LEMMA CompletionNone ==
    \A status \in ErrorStatus : CompletionOf(status) = "NO_ERROR" <=> status = "NONE"
BY DEF CompletionOf, convertErrorStatusToResultCode, ErrorStatus, SharedName

\* The empty list of shapes.
LEMMA NoShapesType == NoShapes \in ShapeLists /\ DOMAIN NoShapes = {}
<1>1. NoShapes \in [{} -> OutputShape] /\ DOMAIN NoShapes = {}
  BY DEF NoShapes
<1> QED BY <1>1 DEF ShapeLists

\* What a run reports is a result code and shapes of the step's outputs, or none.
LEMMA ReturnsType ==
    ASSUME NEW S \in SUBSET Outputs, NEW r \in ExecuteReturns(S)
    PROVE  /\ r.shapes \in ShapeLists
           /\ DOMAIN r.shapes \in {{}, S}
<1>1. r.shapes \in [S -> OutputShape] \/ r.shapes = NoShapes
  BY DEF ExecuteReturns, ShapesOf, OutputShape
<1> QED BY <1>1, NoShapesType DEF ShapeLists

\* The CPU fallback of a step reports nothing that running the step could not.
LEMMA FallbackReturnsType ==
    ASSUME NEW S \in SUBSET Outputs, NEW r \in computeOnCpuFallback(S)
    PROVE  /\ r.shapes \in ShapeLists
           /\ DOMAIN r.shapes \in {{}, S}
<1>1. CASE r \in ExecuteReturns(S)
  BY <1>1, ReturnsType
<1>2. CASE r \in [n : {"OP_FAILED"}, shapes : {NoShapes}]
  BY <1>2, NoShapesType
<1> QED BY <1>1, <1>2 DEF computeOnCpuFallback

\* Merging the shapes of a step keeps the list complete.
LEMMA MergedType ==
    ASSUME NEW from \in ShapeLists, NEW to \in [Outputs -> OutputShape]
    PROVE  Merged(from, to) \in [Outputs -> OutputShape]
BY DEF Merged, ShapeLists

\* The history of the reports names every output.
LEMMA ReportedType ==
    ASSUME NEW r, r.shapes \in ShapeLists, reported \in [Outputs -> OutputShape]
    PROVE  Reported(r) \in [Outputs -> OutputShape]
BY DEF Reported, ShapeLists

\* A run changes what its step's results hold, and nothing else.
LEMMA DataAfterType ==
    ASSUME data \in [DOMAIN setup.steps -> {"unset", "garbage", "good"}],
           NEW i, NEW n, NEW d \in DataAfter(i, n)
    PROVE  d \in [DOMAIN setup.steps -> {"unset", "garbage", "good"}]
BY DEF DataAfter

-------------------------------------------------------------------------------
(* The type invariant.                                                      *)

\* TypeOK is not inductive: when the shapes that the runner reports reach the
\* builder they must name every output or none.
TypeInv ==
    /\ TypeOK
    /\ rpc # "off" => outputShapes \in [Outputs -> OutputShape]
    /\ DOMAIN result.shapes \in {{}, Outputs}
    /\ rpc \in {"step", "partialFallback"} => mFallbackNextStepIndex \in DOMAIN setup.steps

\* The initial states satisfy the strengthened type invariant.
LEMMA TypeInit == Init => TypeInv
<1> SUFFICES ASSUME Init PROVE TypeInv
  OBVIOUS
<1> USE DEF Init
<1>1. setup.dims \in [Outputs -> Dims] /\ setup.steps \in Seq(Step)
  BY SetupsAssumption
<1>2. mOutputs \in [Outputs -> OutputShape]
  BY <1>1 DEF OutputShape
<1>3. NoResult \in [status : ErrorStatus, shapes : ShapeLists] /\ DOMAIN NoResult.shapes = {}
  BY NoShapesType DEF NoResult, ErrorStatus
<1>4. 1 \in 0 .. Len(setup.steps) + 1 /\ 0 \in 0 .. Len(setup.steps)
  BY <1>1
<1> QED
  BY <1>2, <1>3, <1>4, NoShapesType
     DEF TypeInv, TypeOK, Completion, ErrorStatus, RunnerPoint, ClientPoint, kBadStepIndex

\* Whatever the runner is about to notify is a status and a list of shapes.
LEMMA ReportType ==
    ASSUME NEW n, NEW shapes \in ShapeLists, DOMAIN shapes \in {{}, Outputs}, Notify(n, shapes)
    PROVE  /\ result' \in [status : ErrorStatus, shapes : ShapeLists]
           /\ DOMAIN result'.shapes \in {{}, Outputs}
           /\ rpc' = "notify"
BY ConversionType DEF Notify

\* A complete list of shapes is a list of shapes.
LEMMA CompleteShapes ==
    ASSUME NEW shapes \in [Outputs -> OutputShape]
    PROVE  shapes \in ShapeLists /\ DOMAIN shapes = Outputs
BY DEF ShapeLists

\* Every step of the runner and of the clients keeps the types.
LEMMA TypeStep == TypeInv /\ [Next]_vars => TypeInv'
<1> SUFFICES ASSUME TypeInv, [Next]_vars PROVE TypeInv'
  OBVIOUS
<1> USE DEF TypeInv, TypeOK, builderVars, callbackVars, planVars, clientVars
<1>0. setup.steps \in Seq(Step) /\ setup.memory \in [DOMAIN setup.memory -> Dims]
  BY SetupsAssumption
<1>1. ASSUME NEW c \in Clients, NEW m \in {"sync", "inline", "thread"}, Compute(c, m)
      PROVE  TypeInv'
  <2>1. cpc' \in [Clients -> ClientPoint]
    BY <1>1 DEF Compute, ClientPoint
  <2>2. mNextStepIndex' = 1 /\ mFallbackNextStepIndex' = 0 /\ setup' = setup
    BY <1>1 DEF Compute, kBadStepIndex
  <2>3. outputShapes' \in [Outputs -> OutputShape] /\ outputShapes' \in ShapeLists
    BY <1>1, CompleteShapes DEF Compute
  <2>4. allowFallback' \in BOOLEAN
    BY <1>1, SetupsAssumption, Zenon DEF Compute
  <2>5. /\ mStarted' \in BOOLEAN /\ mNotified' \in BOOLEAN /\ mOnFinish' \in BOOLEAN
        /\ mErrorStatus' \in ErrorStatus /\ rpc' \in RunnerPoint
        /\ mMutex' = "free" /\ mThread' = "none" /\ mode' \in {"none", "sync", "inline", "thread"}
    BY <1>1 DEF Compute, ErrorStatus, RunnerPoint
  <2> QED BY <1>0, <1>1, <2>1, <2>2, <2>3, <2>4, <2>5 DEF Compute
<1>2. ASSUME NEW c \in Clients, BindThread(c) PROVE TypeInv'
  BY <1>2 DEF BindThread, ClientPoint
<1>3. ASSUME NEW c \in Clients, ComputeReturns(c) PROVE TypeInv'
  <2>1. learnt' \in [Clients -> ErrorStatus \cup {"none"}]
    BY <1>3 DEF ComputeReturns
  <2>2. cpc' \in [Clients -> ClientPoint]
    BY <1>3 DEF ComputeReturns, ClientPoint
  <2> QED BY <1>3, <2>1, <2>2 DEF ComputeReturns
<1>4. ASSUME NEW c \in Clients, EventWait(c) \/ EventFree(c) \/ WaitNotified(c) \/ Join(c)
      PROVE  TypeInv'
  BY <1>4 DEF EventWait, EventFree, WaitNotified, Join, ClientPoint
<1>5. ASSUME NEW c \in Clients, GetStatus(c) PROVE TypeInv'
  <2>1. learnt' \in [Clients -> ErrorStatus \cup {"none"}]
    BY <1>5 DEF GetStatus
  <2>2. cpc' \in [Clients -> ClientPoint]
    BY <1>5 DEF GetStatus, ClientPoint
  <2> QED BY <1>5, <2>1, <2>2 DEF GetStatus
<1>6. ASSUME NEW c \in Clients, DeleteEvent(c) \/ ExecutionFree(c) PROVE TypeInv'
  <2>1. CASE DeleteEvent(c)
    BY <2>1 DEF DeleteEvent, ClientPoint
  <2>2. CASE ExecutionFree(c)
    BY <2>2 DEF ExecutionFree
  <2> QED BY <1>6, <2>1, <2>2
<1>7. CASE NextFails
  BY <1>7, ReportType, NoShapesType DEF NextFails, RunnerPoint, Notify
<1>8. CASE NextEnds
  BY <1>0, <1>8, ReportType, CompleteShapes DEF NextEnds, kBadStepIndex, RunnerPoint
<1>9. CASE NextStep
  BY <1>0, <1>9 DEF NextStep, RunnerPoint
<1>10. CASE ComputeStep
  <2> DEFINE i == mFallbackNextStepIndex
  <2>0. /\ rpc = "step"
        /\ UNCHANGED <<setup, builderVars, callbackVars, mNextStepIndex, mFallbackNextStepIndex,
                       allowFallback, clientVars>>
    BY <1>10, Zenon DEF ComputeStep
  <2>1. PICK r \in ExecuteReturns(setup.steps[i].outs) :
             /\ StepRan(i, r)
             /\ \/ rpc' \in {"next", "fullFallback", "partialFallback"} /\ UNCHANGED result
                \/ \E n : Notify(n, outputShapes') \/ Notify(n, NoShapes)
    BY <1>10, Zenon DEF ComputeStep
  <2>2. i \in DOMAIN setup.steps /\ setup.steps[i] \in Step
    BY <1>0, <2>0
  <2>3. setup.steps[i].outs \in SUBSET Outputs
    BY <2>2 DEF Step
  <2>4. /\ outputShapes' \in [Outputs -> OutputShape] /\ outputShapes' \in ShapeLists
        /\ data' \in [DOMAIN setup.steps -> {"unset", "garbage", "good"}]
    BY <2>0, <2>1, <2>3, ReturnsType, MergedType, CompleteShapes, DataAfterType DEF StepRan
  <2>6. reported' \in [Outputs -> OutputShape]
    BY <2>1, <2>3, ReturnsType, ReportedType DEF StepRan
  <2>5. /\ result' \in [status : ErrorStatus, shapes : ShapeLists]
        /\ DOMAIN result'.shapes \in {{}, Outputs}
        /\ rpc' \in {"next", "fullFallback", "partialFallback", "notify"}
    BY <2>1, <2>4, ReportType, CompleteShapes, NoShapesType
  <2> QED BY <2>0, <2>2, <2>4, <2>5, <2>6 DEF RunnerPoint
<1>11. CASE PartialFallback
  <2> DEFINE i == mFallbackNextStepIndex
  <2>0. /\ rpc = "partialFallback" /\ mNextStepIndex' = i + 1
        /\ UNCHANGED <<setup, builderVars, callbackVars, mFallbackNextStepIndex, allowFallback,
                       clientVars>>
    BY <1>11, Zenon DEF PartialFallback, Rewound
  <2>1. PICK r \in computeOnCpuFallback(setup.steps[i].outs) :
             /\ StepRan(i, r)
             /\ \/ rpc' \in {"next", "fullFallback"} /\ UNCHANGED result
                \/ \E n : Notify(n, outputShapes') \/ Notify(n, NoShapes)
    BY <1>11, Zenon DEF PartialFallback, Rewound
  <2>2. /\ i \in DOMAIN setup.steps /\ setup.steps[i] \in Step
        /\ mNextStepIndex' \in 0 .. Len(setup.steps) + 1
    BY <1>0, <2>0
  <2>3. setup.steps[i].outs \in SUBSET Outputs
    BY <2>2 DEF Step
  <2>4. /\ outputShapes' \in [Outputs -> OutputShape] /\ outputShapes' \in ShapeLists
        /\ data' \in [DOMAIN setup.steps -> {"unset", "garbage", "good"}]
    BY <2>0, <2>1, <2>3, FallbackReturnsType, MergedType, CompleteShapes, DataAfterType DEF StepRan
  <2>6. reported' \in [Outputs -> OutputShape]
    BY <2>1, <2>3, FallbackReturnsType, ReportedType DEF StepRan
  <2>5. /\ result' \in [status : ErrorStatus, shapes : ShapeLists]
        /\ DOMAIN result'.shapes \in {{}, Outputs}
        /\ rpc' \in {"next", "fullFallback", "notify"}
    BY <2>1, <2>4, ReportType, CompleteShapes, NoShapesType
  <2> QED BY <2>0, <2>2, <2>4, <2>5, <2>6 DEF RunnerPoint
<1>12. CASE FullFallback
  <2>1. PICK r \in computeOnCpuFallback(Outputs) :
             /\ Notify(r.n, r.shapes) /\ reported' = Reported(r)
             /\ data' \in IF r.n = "NO_ERROR" THEN {[i \in DOMAIN data |-> "good"]}
                          ELSE {data, [i \in DOMAIN data |-> "garbage"]}
    BY <1>12, Zenon DEF FullFallback
  <2>2. data' \in [DOMAIN setup.steps -> {"unset", "garbage", "good"}]
    BY <2>1
  <2>3. /\ result' \in [status : ErrorStatus, shapes : ShapeLists]
        /\ DOMAIN result'.shapes \in {{}, Outputs}
        /\ rpc' = "notify"
    BY <2>1, FallbackReturnsType, ReportType
  <2>4. reported' \in [Outputs -> OutputShape]
    BY <2>1, FallbackReturnsType, ReportedType
  <2> QED BY <1>12, <2>2, <2>3, <2>4 DEF FullFallback, RunnerPoint
<1>13. CASE NotifyStore
  <2>1. /\ result' \in [status : ErrorStatus, shapes : ShapeLists]
        /\ DOMAIN result'.shapes \in {{}, Outputs}
    BY <1>13, NoShapesType DEF NotifyStore, Checked, NoResult, ErrorStatus
  <2>2. CASE mNotified
    BY <1>13, <2>1, <2>2 DEF NotifyStore, RunnerPoint
  <2>3. CASE ~mNotified
    <3>1. mErrorStatus' \in ErrorStatus /\ mNotified' \in BOOLEAN /\ mMutex' = "runner"
      BY <1>13, <2>1, <2>3 DEF NotifyStore
    <3>2. rpc' \in RunnerPoint \ {"step", "partialFallback"}
      BY <1>13, <2>3 DEF NotifyStore, RunnerPoint
    <3> QED BY <1>13, <2>1, <3>1, <3>2 DEF NotifyStore, RunnerPoint
  <2> QED BY <2>2, <2>3
<1>14. CASE FinishUpdate
  <2>1. mOutputs' \in [Outputs -> OutputShape]
    BY <1>14 DEF FinishUpdate, IsEmpty, ShapeLists
  <2>2. memory' \in [DOMAIN setup.memory -> [dims : Dims, initialized : BOOLEAN]]
    <3>1. \A o \in DOMAIN memory : combineDimensions(mOutputs'[o].dims, setup.memory[o]) \in Dims
      BY <1>0, <2>1, SetupsAssumption DEF combineDimensions, OutputShape
    <3> QED BY <1>14, <3>1 DEF FinishUpdate, MemoriesAfter
  <2>3. /\ result' \in [status : ErrorStatus, shapes : ShapeLists]
        /\ DOMAIN result'.shapes \in {{}, Outputs}
    BY <1>14 DEF FinishUpdate, ErrorStatus
  <2> QED BY <1>14, <2>1, <2>2, <2>3 DEF FinishUpdate, RunnerPoint
<1>15. CASE FinishMark
  <2>1. memory' \in [DOMAIN setup.memory -> [dims : Dims, initialized : BOOLEAN]]
    <3>1. (result.status = "NONE") \in BOOLEAN
      OBVIOUS
    <3> QED BY ZenonT(40), <1>15, <3>1 DEF FinishMark
  <2>2. mCompletion' \in Completion
    BY <1>15, CompletionType DEF FinishMark
  <2> QED BY <1>15, <2>1, <2>2 DEF FinishMark, RunnerPoint
<1>16. CASE FinishFlag \/ NotifyUnlock \/ RunnerReturns
  <2>1. CASE FinishFlag
    BY <2>1 DEF FinishFlag, RunnerPoint
  <2>2. CASE NotifyUnlock
    <3>1. mErrorStatus' \in ErrorStatus
      BY <2>2 DEF NotifyUnlock, FinalStatus
    <3>2. /\ rpc = "unlock" /\ rpc' = "return" /\ mOnFinish' \in BOOLEAN /\ mMutex' = "free"
          /\ UNCHANGED <<setup, builderVars, mNotified, mThread, planVars, result, clientVars>>
      BY <2>2 DEF NotifyUnlock
    <3> QED BY <3>1, <3>2 DEF RunnerPoint
  <2>3. CASE RunnerReturns
    BY <2>3 DEF RunnerReturns, RunnerPoint
  <2> QED BY <1>16, <2>1, <2>2, <2>3
<1>17. CASE Terminated \/ UNCHANGED vars
  BY <1>17 DEF Terminated, vars
<1> QED
  BY <1>1, <1>2, <1>3, <1>4, <1>5, <1>6, <1>7, <1>8, <1>9, <1>10, <1>11, <1>12, <1>13, <1>14,
     <1>15, <1>16, <1>17
     DEF Next, Runner, Client

\* Every variable has its type, for every value of the constants.
THEOREM Typing == Spec => []TypeOK
<1>1. TypeInv => TypeOK
  BY DEF TypeInv
<1> QED BY <1>1, TypeInit, TypeStep, PTL DEF Spec

\* The strengthened type invariant: also, the plan controller never has a bad
\* index where it is dereferenced, and shape lists are complete or empty.
THEOREM TypingInv == Spec => []TypeInv
BY TypeInit, TypeStep, PTL DEF Spec

-------------------------------------------------------------------------------
(* The handover: where the runner is determines what the flags say, and the  *)
(* other way round.                                                          *)

Finishing == {"finish", "finishMark", "finishFlag"}
Over      == {"return", "done"}

HandoverInv ==
    /\ rpc = "off" <=> ~mStarted
    /\ mFinished <=> rpc \in Over \cup {"unlock"}
    /\ mNotified <=> rpc \in Finishing \cup Over \cup {"unlock"}
    /\ mMutex = "runner" <=> rpc \in Finishing \cup {"unlock"}
    /\ rpc \notin Over \cup {"off"} => mOnFinish
    /\ execFreed /\ mStarted => mFinished

\* Nothing has been handed over initially.
LEMMA HandoverInit == Init => HandoverInv
BY DEF Init, HandoverInv, Finishing, Over

\* What no client thread but the one that starts the execution changes.
LEMMA ClientFrame ==
    ASSUME NEW c \in Clients, TypeOK,
           \/ BindThread(c) \/ ComputeReturns(c) \/ EventWait(c) \/ EventFree(c)
           \/ WaitNotified(c) \/ Join(c) \/ GetStatus(c) \/ DeleteEvent(c) \/ ExecutionFree(c)
    PROVE  /\ UNCHANGED <<setup, mStarted, mFinished, mCompletion, mOutputs, memory, mNotified,
                          mErrorStatus, mOnFinish, planVars, rpc, result>>
           /\ mMutex' = mMutex \/ (mMutex = "free" /\ mMutex' = c)
              \/ (rpc = "done" /\ mMutex' = "free")
           /\ execFreed' = execFreed \/ ~inFlight
BY DEF BindThread, ComputeReturns, EventWait, EventFree, WaitNotified, Awake, Join, GetStatus,
       DeleteEvent, ExecutionFree, builderVars, callbackVars, planVars, clientVars

\* Lock, flags and the control point of the runner move together.
LEMMA HandoverStep == TypeInv /\ HandoverInv /\ [Next]_vars => HandoverInv'
<1> SUFFICES ASSUME TypeInv, HandoverInv, [Next]_vars PROVE HandoverInv'
  OBVIOUS
<1> USE DEF HandoverInv, Finishing, Over, builderVars, callbackVars, planVars, clientVars
<1>1. ASSUME NEW c \in Clients, NEW m \in {"sync", "inline", "thread"}, Compute(c, m)
      PROVE  HandoverInv'
  BY <1>1 DEF Compute, Startable
<1>2. ASSUME NEW c \in Clients,
             \/ BindThread(c) \/ ComputeReturns(c) \/ EventWait(c) \/ EventFree(c)
             \/ WaitNotified(c) \/ Join(c) \/ GetStatus(c) \/ DeleteEvent(c) \/ ExecutionFree(c)
      PROVE  HandoverInv'
  <2>1. c \notin {"free", "runner"} /\ TypeOK
    BY ClientsAssumption DEF TypeInv
  <2> QED BY <1>2, <2>1, ClientFrame DEF inFlight
<1>3. CASE NextFails
  BY <1>3 DEF NextFails, Notify
<1>4. CASE NextEnds
  BY <1>4 DEF NextEnds, Notify
<1>5. CASE NextStep
  BY <1>5 DEF NextStep
<1>6. CASE ComputeStep
  <2>1. /\ rpc = "step" /\ rpc' \in {"next", "fullFallback", "partialFallback", "notify"}
        /\ UNCHANGED <<builderVars, callbackVars>>
    BY <1>6, Zenon DEF ComputeStep, Notify
  <2> QED BY <2>1
<1>7. CASE PartialFallback
  <2>1. /\ rpc = "partialFallback" /\ rpc' \in {"next", "fullFallback", "notify"}
        /\ UNCHANGED <<builderVars, callbackVars>>
    BY <1>7, Zenon DEF PartialFallback, Notify
  <2> QED BY <2>1
<1>8. CASE FullFallback
  BY <1>8 DEF FullFallback, Notify
<1>9. CASE NotifyStore
  BY <1>9 DEF NotifyStore
<1>10. CASE FinishUpdate
  BY <1>10 DEF FinishUpdate
<1>11. CASE FinishMark
  BY <1>11 DEF FinishMark
<1>12. CASE FinishFlag
  BY <1>12 DEF FinishFlag
<1>13. CASE NotifyUnlock
  BY <1>13 DEF NotifyUnlock
<1>14. CASE RunnerReturns
  BY <1>14 DEF RunnerReturns
<1>15. CASE Terminated \/ UNCHANGED vars
  BY <1>15 DEF Terminated, vars
<1> QED
  BY <1>1, <1>2, <1>3, <1>4, <1>5, <1>6, <1>7, <1>8, <1>9, <1>10, <1>11, <1>12, <1>13, <1>14,
     <1>15
     DEF Next, Runner, Client

\* What the flags of the builder and of the callback say about the runner: how far
\* notifyInternal has come, and who holds its lock.
THEOREM Handover == Spec => [](TypeInv /\ HandoverInv)
BY TypeInit, TypeStep, HandoverInit, HandoverStep, PTL DEF Spec

\* Freeing the execution is ignored until its runner is done with the builder.
THEOREM NeverUsedAfterFree == Spec => []NoUseAfterFree
<1>1. TypeInv /\ HandoverInv => NoUseAfterFree
  BY DEF TypeInv, TypeOK, HandoverInv, NoUseAfterFree, UsesBuilder, RunnerPoint, Finishing, Over
<1> QED BY <1>1, Handover, PTL

\* The completion of an execution runs once, under the lock of its callback.
THEOREM FinishesOnce == Spec => []FinishRunsOnce
<1>1. HandoverInv => FinishRunsOnce
  BY DEF HandoverInv, FinishRunsOnce, Finishing, Over
<1> QED BY <1>1, Handover, PTL

-------------------------------------------------------------------------------
(* The outcome: what the runner carries to the builder, what the callback    *)
(* stores and what the clients learn are one and the same.                   *)

\* The builder and its device memories have recorded the outcome status.
Recorded(status) ==
    /\ mCompletion = CompletionOf(status)
    /\ \A o \in DOMAIN memory : memory[o].initialized = (status = "NONE")

OutcomeInv ==
    /\ rpc \in Finishing \cup {"unlock"} /\ result.status = "NONE" => mErrorStatus = "NONE"
    /\ rpc \in {"finishFlag", "unlock"} => Recorded(result.status)
    /\ rpc \in Over => Recorded(mErrorStatus)
    /\ \A c \in Clients : learnt[c] # "none" => rpc \in Over /\ learnt[c] = mErrorStatus

\* No outcome is recorded initially.
LEMMA OutcomeInit == Init => OutcomeInv
BY DEF Init, OutcomeInv, Finishing, Over

\* The status on its way through notifyInternal, the stored status and the
\* completion of the builder describe the same outcome.
LEMMA OutcomeStep == TypeInv /\ HandoverInv /\ OutcomeInv /\ [Next]_vars => OutcomeInv'
<1> SUFFICES ASSUME TypeInv, HandoverInv, OutcomeInv, [Next]_vars PROVE OutcomeInv'
  OBVIOUS
<1> USE DEF OutcomeInv, Finishing, Over, Recorded, builderVars, callbackVars, planVars, clientVars
<1>0. TypeOK /\ learnt \in [Clients -> ErrorStatus \cup {"none"}]
  BY DEF TypeInv, TypeOK
<1>1. ASSUME NEW c \in Clients, NEW m \in {"sync", "inline", "thread"}, Compute(c, m)
      PROVE  OutcomeInv'
  BY <1>1 DEF Compute, Startable, HandoverInv
<1>2. ASSUME NEW c \in Clients, ComputeReturns(c) PROVE OutcomeInv'
  BY <1>0, <1>2 DEF ComputeReturns
<1>3. ASSUME NEW c \in Clients, GetStatus(c) PROVE OutcomeInv'
  <2>1. rpc \in Over
    BY <1>3 DEF GetStatus, Awake, HandoverInv
  <2> QED BY <1>0, <1>3, <2>1 DEF GetStatus
<1>4. ASSUME NEW c \in Clients,
             \/ BindThread(c) \/ EventWait(c) \/ EventFree(c)
             \/ WaitNotified(c) \/ Join(c) \/ DeleteEvent(c) \/ ExecutionFree(c)
      PROVE  OutcomeInv'
  <2>1. UNCHANGED <<mCompletion, memory, mErrorStatus, rpc, result>>
    BY <1>0, <1>4, ClientFrame
  <2>2. UNCHANGED learnt
    BY <1>4 DEF BindThread, EventWait, EventFree, WaitNotified, Join, DeleteEvent, ExecutionFree
  <2> QED BY <2>1, <2>2
<1>5. CASE NextFails \/ NextEnds \/ NextStep \/ ComputeStep \/ PartialFallback \/ FullFallback
  <2>1. /\ rpc \notin Over /\ UNCHANGED <<builderVars, callbackVars, clientVars>>
        /\ rpc' \in {"next", "step", "fullFallback", "partialFallback", "notify"}
    BY <1>5, Zenon
       DEF NextFails, NextEnds, NextStep, ComputeStep, PartialFallback, FullFallback, Notify
  <2> QED BY <2>1
<1>6. CASE NotifyStore
  BY <1>6 DEF NotifyStore, HandoverInv
<1>7. CASE FinishUpdate
  BY <1>7 DEF FinishUpdate
<1>8. CASE FinishMark
  <2>1. /\ rpc = "finishMark" /\ rpc' = "finishFlag"
        /\ UNCHANGED <<result, mErrorStatus, learnt>>
    BY <1>8 DEF FinishMark
  <2>2. mCompletion' = CompletionOf(result.status)
    BY <1>8 DEF FinishMark
  <2>3. \A o \in DOMAIN memory' : memory'[o].initialized = (result.status = "NONE")
    <3>1. memory \in [DOMAIN setup.memory -> [dims : Dims, initialized : BOOLEAN]]
      BY <1>0 DEF TypeOK
    <3> QED BY <1>8, <3>1 DEF FinishMark
  <2> QED BY <2>1, <2>2, <2>3
<1>9. CASE FinishFlag
  BY <1>9 DEF FinishFlag
<1>10. CASE NotifyUnlock
  BY <1>10 DEF NotifyUnlock, FinalStatus
<1>11. CASE RunnerReturns
  BY <1>11 DEF RunnerReturns
<1>12. CASE Terminated \/ UNCHANGED vars
  BY <1>12 DEF Terminated, vars
<1> QED
  BY <1>1, <1>2, <1>3, <1>4, <1>5, <1>6, <1>7, <1>8, <1>9, <1>10, <1>11, <1>12
     DEF Next, Runner, Client

\* There is one outcome, and it is recorded before any waiter can read it.
THEOREM Outcome == Spec => [](TypeInv /\ HandoverInv /\ OutcomeInv)
BY TypeInit, TypeStep, HandoverInit, HandoverStep, OutcomeInit, OutcomeStep, PTL DEF Spec

\* Whoever learns a status learns the one the execution completed with.
THEOREM Truth == Spec => []ClientLearnsTheTruth
<1>1. HandoverInv /\ OutcomeInv => ClientLearnsTheTruth
  BY DEF HandoverInv, OutcomeInv, Recorded, ClientLearnsTheTruth, Finishing, Over
<1> QED BY <1>1, Outcome, PTL

\* An answer of the builder, once given, stays.
THEOREM FinalAnswers == Spec => AnswersAreFinal
<1> DEFINE Final == mFinished /\ ~execFreed => UNCHANGED <<mFinished, mCompletion, mOutputs, memory>>
<1>1. ASSUME TypeInv, HandoverInv, [Next]_vars PROVE [Final]_vars
  <2> SUFFICES ASSUME mFinished PROVE UNCHANGED <<mFinished, mCompletion, mOutputs, memory>>
    OBVIOUS
  <2> USE DEF builderVars, callbackVars, planVars, clientVars
  <2>1. mStarted /\ rpc \in Over \cup {"unlock"} /\ TypeOK
    BY <1>1 DEF HandoverInv, TypeInv, Over
  <2>2. ASSUME NEW c \in Clients, Client(c)
        PROVE  UNCHANGED <<mFinished, mCompletion, mOutputs, memory>>
    BY <2>1, <2>2, ClientFrame DEF Client, Compute, Startable
  <2>3. CASE Runner
    <3>1. CASE NotifyUnlock \/ RunnerReturns
      BY <3>1 DEF NotifyUnlock, RunnerReturns
    <3>2. ~(NextFails \/ NextEnds \/ NextStep \/ ComputeStep \/ PartialFallback \/ FullFallback
            \/ NotifyStore \/ FinishUpdate \/ FinishMark \/ FinishFlag)
      BY <2>1, Zenon
         DEF NextFails, NextEnds, NextStep, ComputeStep, PartialFallback, FullFallback,
             NotifyStore, FinishUpdate, FinishMark, FinishFlag, Over
    <3> QED BY <2>3, <3>1, <3>2 DEF Runner
  <2>4. CASE Terminated \/ UNCHANGED vars
    BY <2>4 DEF Terminated, vars
  <2> QED BY <1>1, <2>2, <2>3, <2>4 DEF Next
<1> QED BY <1>1, Handover, PTL DEF Spec, AnswersAreFinal

-------------------------------------------------------------------------------
(* The results: what the plan controller has passed is computed.             *)

Good(S) == \A j \in S : j \in DOMAIN data => data[j] = "good"

DataInv ==
    /\ rpc = "next" => mNextStepIndex \in Nat \ {0} /\ Good(1 .. mNextStepIndex - 1)
    /\ rpc \in {"step", "partialFallback"} => /\ mNextStepIndex = mFallbackNextStepIndex + 1
                                             /\ Good(1 .. mFallbackNextStepIndex - 1)
    /\ rpc \in Finishing \cup {"notify", "unlock"} /\ result.status = "NONE" => Good(DOMAIN data)
    /\ SuccessMeansComputed

\* No step has results initially.
LEMMA DataInit == Init => DataInv
BY DEF Init, DataInv, SuccessMeansComputed, Finishing

\* A successful run on good inputs has good results.
LEMMA SuccessfulRun ==
    ASSUME data \in [DOMAIN setup.steps -> {"unset", "garbage", "good"}],
           NEW i \in Nat \ {0}, Good(1 .. i - 1), data' \in DataAfter(i, "NO_ERROR"),
           NEW n \in Nat, DOMAIN setup.steps = 1 .. n, i \in 1 .. n
    PROVE  Good(1 .. i)'
<1>1. data' = [data EXCEPT ![i] = IF \A j \in 1 .. i - 1 : data[j] = "good" THEN "good" ELSE "garbage"]
  BY DEF DataAfter
<1>2. \A j \in 1 .. i - 1 : data[j] = "good"
  BY DEF Good
<1>3. data' = [data EXCEPT ![i] = "good"]
  BY <1>1, <1>2
<1> QED BY <1>2, <1>3 DEF Good

\* Any run leaves the results of the earlier steps alone.
LEMMA AnyRun ==
    ASSUME data \in [DOMAIN setup.steps -> {"unset", "garbage", "good"}],
           NEW i \in Nat \ {0}, NEW n, Good(1 .. i - 1), data' \in DataAfter(i, n)
    PROVE  Good(1 .. i - 1)'
<1>1. \A j \in 1 .. i - 1 : j \in DOMAIN data => j # i
  OBVIOUS
<1>2. \E g : data' = data \/ data' = [data EXCEPT ![i] = g]
  BY DEF DataAfter
<1> QED BY <1>1, <1>2 DEF Good

\* The plan controller only passes a step whose results, and those of all steps
\* before it, are good, and a fallback brings it back to the step that failed.
LEMMA DataStep == TypeInv /\ HandoverInv /\ OutcomeInv /\ DataInv /\ [Next]_vars => DataInv'
<1> SUFFICES ASSUME TypeInv, HandoverInv, OutcomeInv, DataInv, [Next]_vars PROVE DataInv'
  OBVIOUS
<1> USE DEF DataInv, Finishing, builderVars, callbackVars, planVars, clientVars
<1>0. /\ TypeOK /\ setup.steps \in Seq(Step)
      /\ data \in [DOMAIN setup.steps -> {"unset", "garbage", "good"}]
      /\ mNextStepIndex \in 0 .. Len(setup.steps) + 1
  BY SetupsAssumption DEF TypeInv, TypeOK
<1>1. ASSUME NEW c \in Clients, NEW m \in {"sync", "inline", "thread"}, Compute(c, m)
      PROVE  DataInv'
  <2>1. rpc' = "next" /\ mNextStepIndex' = 1 /\ Good(1 .. 0)'
    BY <1>1 DEF Compute, Good
  <2>2. mFinished' = mFinished /\ ~mFinished
    BY <1>1 DEF Compute, Startable, HandoverInv, Over
  <2> QED BY <2>1, <2>2 DEF SuccessMeansComputed
<1>2. ASSUME NEW c \in Clients,
             \/ BindThread(c) \/ ComputeReturns(c) \/ EventWait(c) \/ EventFree(c)
             \/ WaitNotified(c) \/ Join(c) \/ GetStatus(c) \/ DeleteEvent(c) \/ ExecutionFree(c)
      PROVE  DataInv'
  <2>1. UNCHANGED <<mFinished, mCompletion, planVars, rpc, result>>
    BY <1>0, <1>2, ClientFrame
  <2> QED BY <2>1 DEF Good, SuccessMeansComputed
<1>3. CASE NextFails
  <2>1. /\ rpc' = "fullFallback" \/ (rpc' = "notify" /\ result'.status # "NONE")
        /\ UNCHANGED <<mFinished, mCompletion, data>>
    BY <1>3, ConversionNone DEF NextFails, Notify
  <2> QED BY <2>1 DEF SuccessMeansComputed
<1>4. CASE NextEnds
  <2>1. /\ rpc = "next" /\ rpc' = "notify" /\ mNextStepIndex = Len(setup.steps) + 1
        /\ UNCHANGED <<mFinished, mCompletion, data>>
    BY <1>4 DEF NextEnds, Notify
  <2>2. Good(DOMAIN data)'
    BY <1>0, <2>1 DEF Good
  <2> QED BY <2>1, <2>2 DEF SuccessMeansComputed
<1>5. CASE NextStep
  <2>1. /\ rpc = "next" /\ rpc' = "step" /\ mFallbackNextStepIndex' = mNextStepIndex
        /\ mNextStepIndex' = mNextStepIndex + 1 /\ UNCHANGED <<mFinished, mCompletion, data>>
    BY <1>5 DEF NextStep
  <2> QED BY <2>1 DEF Good, SuccessMeansComputed
<1>6. CASE ComputeStep
  <2> DEFINE i == mFallbackNextStepIndex
  <2>1. /\ rpc = "step"
        /\ UNCHANGED <<setup, mFinished, mNextStepIndex, mFallbackNextStepIndex>>
    BY <1>6, Zenon DEF ComputeStep
  <2>2. PICK r \in ExecuteReturns(setup.steps[i].outs) :
             /\ data' \in DataAfter(i, r.n)
             /\ \/ r.n = "NO_ERROR" /\ rpc' = "next"
                \/ rpc' \in {"partialFallback", "fullFallback"}
                \/ \E n, shapes : n # "NO_ERROR" /\ Notify(n, shapes)
    <3>1. PICK r \in ExecuteReturns(setup.steps[i].outs) :
             /\ data' \in DataAfter(i, r.n)
             /\ \/ EffectiveCode(r) = "NO_ERROR" /\ rpc' = "next"
                \/ rpc' \in {"partialFallback", "fullFallback"}
                \/ \E n, shapes : n # "NO_ERROR" /\ Notify(n, shapes)
      BY <1>6, Zenon DEF ComputeStep, StepRan
    <3> QED BY <3>1 DEF EffectiveCode
  <2>3. i \in DOMAIN setup.steps /\ DOMAIN setup.steps = 1 .. Len(setup.steps) /\ i \in Nat \ {0}
        /\ Len(setup.steps) \in Nat
    BY <1>0, <2>1 DEF TypeInv
  <2>4. Good(1 .. i - 1)'
    BY <1>0, <2>1, <2>2, <2>3, AnyRun DEF Good
  <2>5. r.n = "NO_ERROR" => Good(1 .. i)'
    BY <1>0, <2>1, <2>2, <2>3, SuccessfulRun
  <2>6. ~mFinished' /\ mNextStepIndex' = i + 1
    BY <2>1 DEF HandoverInv, Over
  <2>7. CASE r.n = "NO_ERROR" /\ rpc' = "next"
    BY <2>1, <2>3, <2>5, <2>6, <2>7 DEF SuccessMeansComputed, Good
  <2>8. CASE rpc' \in {"partialFallback", "fullFallback"}
    BY <2>1, <2>4, <2>6, <2>8 DEF SuccessMeansComputed, Good
  <2>9. CASE \E n, shapes : n # "NO_ERROR" /\ Notify(n, shapes)
    BY <2>6, <2>9, ConversionNone DEF SuccessMeansComputed, Notify
  <2> QED BY <2>2, <2>7, <2>8, <2>9
<1>7. CASE PartialFallback
  <2> DEFINE i == mFallbackNextStepIndex
  <2>1. /\ rpc = "partialFallback" /\ mNextStepIndex' = i + 1
        /\ UNCHANGED <<setup, mFinished, mFallbackNextStepIndex>>
    BY <1>7, Zenon DEF PartialFallback, Rewound
  <2>2. PICK r \in computeOnCpuFallback(setup.steps[i].outs) :
             /\ data' \in DataAfter(i, r.n)
             /\ \/ r.n = "NO_ERROR" /\ rpc' = "next"
                \/ rpc' = "fullFallback"
                \/ \E n, shapes : n # "NO_ERROR" /\ Notify(n, shapes)
    <3>1. PICK r \in computeOnCpuFallback(setup.steps[i].outs) :
             /\ data' \in DataAfter(i, r.n)
             /\ \/ EffectiveCode(r) = "NO_ERROR" /\ rpc' = "next"
                \/ rpc' = "fullFallback"
                \/ \E n, shapes : n # "NO_ERROR" /\ Notify(n, shapes)
      BY <1>7, Zenon DEF PartialFallback, StepRan, Rewound
    <3> QED BY <3>1 DEF EffectiveCode
  <2>3. i \in DOMAIN setup.steps /\ DOMAIN setup.steps = 1 .. Len(setup.steps) /\ i \in Nat \ {0}
        /\ Len(setup.steps) \in Nat
    BY <1>0, <2>1 DEF TypeInv
  <2>4. r.n = "NO_ERROR" => Good(1 .. i)'
    BY <1>0, <2>1, <2>2, <2>3, SuccessfulRun
  <2>5. ~mFinished'
    BY <2>1 DEF HandoverInv, Over
  <2>6. CASE r.n = "NO_ERROR" /\ rpc' = "next"
    BY <2>1, <2>3, <2>4, <2>5, <2>6 DEF SuccessMeansComputed, Good
  <2>7. CASE rpc' = "fullFallback"
    BY <2>5, <2>7 DEF SuccessMeansComputed
  <2>8. CASE \E n, shapes : n # "NO_ERROR" /\ Notify(n, shapes)
    BY <2>5, <2>8, ConversionNone DEF SuccessMeansComputed, Notify
  <2> QED BY <2>2, <2>6, <2>7, <2>8
<1>8. CASE FullFallback
  <2>1. PICK r \in computeOnCpuFallback(Outputs) :
             /\ Notify(r.n, r.shapes)
             /\ r.n = "NO_ERROR" => data' = [i \in DOMAIN data |-> "good"]
    BY <1>8 DEF FullFallback
  <2>2. rpc' = "notify" /\ (result'.status = "NONE" => r.n = "NO_ERROR")
    BY <2>1, ConversionNone DEF Notify
  <2>3. ~mFinished'
    BY <1>8 DEF FullFallback, HandoverInv, Over
  <2> QED BY <2>1, <2>2, <2>3 DEF Good, SuccessMeansComputed
<1>9. CASE NotifyStore
  <2>1. /\ rpc = "notify" /\ ~mNotified /\ ~mFinished
    BY <1>9 DEF NotifyStore, HandoverInv, Over
  <2>2. /\ rpc' \in {"finish", "unlock"} /\ UNCHANGED <<mFinished, mCompletion, data>>
        /\ result'.status = "NONE" => result.status = "NONE"
    BY <1>9, <2>1 DEF NotifyStore, Checked, NoResult
  <2> QED BY <2>1, <2>2 DEF Good, SuccessMeansComputed
<1>10. CASE FinishUpdate
  BY <1>10 DEF FinishUpdate, Good, SuccessMeansComputed
<1>11. CASE FinishMark
  <2>1. /\ rpc = "finishMark" /\ rpc' = "finishFlag" /\ UNCHANGED <<mFinished, result, data>>
        /\ ~mFinished
    BY <1>11 DEF FinishMark, HandoverInv, Over
  <2> QED BY <2>1 DEF Good, SuccessMeansComputed
<1>12. CASE FinishFlag
  <2>1. /\ rpc = "finishFlag" /\ rpc' = "unlock" /\ UNCHANGED <<mCompletion, result, data>>
    BY <1>12 DEF FinishFlag
  <2>2. mCompletion = "NO_ERROR" => result.status = "NONE"
    BY <1>0, <2>1, CompletionNone DEF OutcomeInv, Recorded, TypeOK
  <2> QED BY <2>1, <2>2 DEF Good, SuccessMeansComputed
<1>13. CASE NotifyUnlock \/ RunnerReturns
  BY <1>13 DEF NotifyUnlock, RunnerReturns, SuccessMeansComputed
<1>14. CASE Terminated \/ UNCHANGED vars
  BY <1>14 DEF Terminated, vars, Good, SuccessMeansComputed
<1> QED
  BY <1>1, <1>2, <1>3, <1>4, <1>5, <1>6, <1>7, <1>8, <1>9, <1>10, <1>11, <1>12, <1>13, <1>14
     DEF Next, Runner, Client

\* All four layers of the inductive invariant together.
THEOREM Results == Spec => [](TypeInv /\ HandoverInv /\ OutcomeInv /\ DataInv)
BY TypeInit, TypeStep, HandoverInit, HandoverStep, OutcomeInit, OutcomeStep, DataInit, DataStep,
   PTL DEF Spec

\* An execution that is reported successful has computed its outputs.
THEOREM Computed == Spec => []SuccessMeansComputed
<1>1. DataInv => SuccessMeansComputed
  BY DEF DataInv
<1> QED BY <1>1, Results, PTL

-------------------------------------------------------------------------------
(* The shapes: what the client can ask for is what the runs of the steps     *)
(* that made the results reported.                                           *)

\* The two statuses that come with shapes.
WithShapes == {"NONE", "OUTPUT_INSUFFICIENT_SIZE"}

Enough(shapes) == \A o \in Outputs : shapes[o].sufficient

\* The builder still has what the client gave it.
Initially == \A o \in Outputs : mOutputs[o].dims = setup.dims[o] /\ mOutputs[o].sufficient

\* Shapes that may be handed to the builder together with a status.
Reports(shapes, status) == shapes = reported /\ (status = "NONE" => Enough(shapes))

\* Outside of the step that is repeated nothing was touched by the run that failed.
Untouched == \A o \in Outputs \ setup.steps[mFallbackNextStepIndex].outs :
                 outputShapes[o] = reported[o] /\ outputShapes[o].sufficient

ShapesInv ==
    /\ ~mStarted \/ rpc \in {"next", "step", "partialFallback", "fullFallback", "notify", "finish"}
           => Initially
    /\ ~mStarted => reported = mOutputs
    /\ rpc \in {"next", "step"} => outputShapes = reported /\ Enough(outputShapes)
    /\ rpc = "partialFallback" => Untouched
    /\ rpc \in {"notify", "finish"} /\ result.status \in WithShapes =>
           Reports(result.shapes, result.status)
    /\ rpc \in {"finishMark", "finishFlag"} /\ result.status \in WithShapes =>
           /\ Reports(mOutputs, result.status)
           /\ \A o \in Outputs : setup.dims[o] \in {0, mOutputs[o].dims}
    /\ ShapesAreOfTheResults

\* The initial shapes are those that the client gave.
LEMMA ShapesInit == Init => ShapesInv
<1> SUFFICES ASSUME Init PROVE ShapesInv
  OBVIOUS
<1>1. Initially /\ reported = mOutputs /\ rpc = "off" /\ ~mFinished
  BY DEF Init, Initially
<1> QED BY <1>1 DEF ShapesInv, ShapesAreOfTheResults

\* Which status completes an execution with too small outputs, and which code is converted to it.
LEMMA SizeStatus ==
    /\ \A status \in ErrorStatus :
           CompletionOf(status) \in {"NO_ERROR", "OUTPUT_INSUFFICIENT_SIZE"} =>
               /\ status \in WithShapes
               /\ CompletionOf(status) = "NO_ERROR" => status = "NONE"
    /\ \A n : convertResultCodeToErrorStatus(n) \in WithShapes =>
                  n \in {"NO_ERROR", "OUTPUT_INSUFFICIENT_SIZE"}
<1>1. \A status \in ErrorStatus : CompletionOf(status) = "OUTPUT_INSUFFICIENT_SIZE" =>
                                      status = "OUTPUT_INSUFFICIENT_SIZE"
  BY DEF CompletionOf, convertErrorStatusToResultCode, ErrorStatus, SharedName
<1>2. \A n : convertResultCodeToErrorStatus(n) \in WithShapes =>
                 n \in {"NO_ERROR", "OUTPUT_INSUFFICIENT_SIZE"}
  BY DEF convertResultCodeToErrorStatus, SharedName, WithShapes
<1> QED BY <1>1, <1>2, CompletionNone DEF WithShapes

\* A run that succeeds reports outputs that are large enough.
LEMMA ReturnsEnough ==
    ASSUME NEW S \in SUBSET Outputs, NEW r \in ExecuteReturns(S), r.n = "NO_ERROR",
           NEW o \in DOMAIN r.shapes
    PROVE  r.shapes[o].sufficient
<1>1. r.shapes \in ShapesOf(S, {TRUE}) \cup {NoShapes}
  BY DEF ExecuteReturns
<1>2. CASE r.shapes = NoShapes
  BY <1>2, NoShapesType
<1>3. CASE r.shapes \in ShapesOf(S, {TRUE})
  BY <1>3 DEF ShapesOf
<1> QED BY <1>1, <1>2, <1>3

\* What the CPU reports when it can run at all.
LEMMA FallbackReturns ==
    ASSUME NEW S \in SUBSET Outputs, NEW r \in computeOnCpuFallback(S),
           r.n \in {"NO_ERROR", "OUTPUT_INSUFFICIENT_SIZE"}
    PROVE  r \in ExecuteReturns(S) /\ DOMAIN r.shapes = S
<1>1. r \in {q \in ExecuteReturns(S) : ReportsAll(q, S)}
  <2>1. CASE r \in [n : {"OP_FAILED"}, shapes : {NoShapes}]
    BY <2>1
  <2> QED BY <2>1 DEF computeOnCpuFallback
<1> QED BY <1>1 DEF ReportsAll

\* A merge that succeeds takes over all that was reported.
LEMMA MergedAll ==
    ASSUME NEW from, NEW to, MergeOk(from, to)
    PROVE  Merged(from, to) = [o \in DOMAIN to |-> IF o \in DOMAIN from THEN from[o] ELSE to[o]]
BY DEF MergeOk, Merged, Accepted

\* A run of a step after which the plan goes on, or ends with too small outputs: if the shapes
\* outside of what was reported are up to date, all are.
LEMMA RunReports ==
    ASSUME NEW r, r.shapes \in ShapeLists, MergeOk(r.shapes, outputShapes),
           outputShapes \in [Outputs -> OutputShape], reported \in [Outputs -> OutputShape],
           outputShapes' = Merged(r.shapes, outputShapes), reported' = Reported(r),
           \A o \in Outputs \ DOMAIN r.shapes :
               outputShapes[o] = reported[o] /\ outputShapes[o].sufficient
    PROVE  /\ outputShapes' = reported'
           /\ (\A o \in DOMAIN r.shapes : r.shapes[o].sufficient) => Enough(outputShapes')
<1>1. outputShapes' = [o \in Outputs |-> IF o \in DOMAIN r.shapes THEN r.shapes[o]
                                         ELSE outputShapes[o]]
  BY MergedAll
<1> QED BY <1>1 DEF Reported, Enough

\* Any other run touches the shapes of its own step at most.
LEMMA RunTouches ==
    ASSUME NEW r, NEW S, DOMAIN r.shapes \in {{}, S},
           outputShapes = reported, Enough(outputShapes),
           outputShapes \in [Outputs -> OutputShape],
           outputShapes' = Merged(r.shapes, outputShapes), reported' = Reported(r)
    PROVE  \A o \in Outputs \ S : outputShapes'[o] = reported'[o] /\ outputShapes'[o].sufficient
BY DEF Merged, Reported, Enough

\* Every step keeps the shapes in agreement with the results.
LEMMA ShapesStep ==
    TypeInv /\ HandoverInv /\ OutcomeInv /\ ShapesInv /\ [Next]_vars => ShapesInv'
<1> SUFFICES ASSUME TypeInv, HandoverInv, OutcomeInv, ShapesInv, [Next]_vars PROVE ShapesInv'
  OBVIOUS
<1> USE DEF builderVars, callbackVars, planVars, clientVars
<1>0. /\ TypeOK /\ setup.steps \in Seq(Step)
      /\ rpc # "off" => outputShapes \in [Outputs -> OutputShape]
      /\ reported \in [Outputs -> OutputShape] /\ mOutputs \in [Outputs -> OutputShape]
      /\ result.status \in ErrorStatus
  BY SetupsAssumption DEF TypeInv, TypeOK
<1>1. ASSUME NEW c \in Clients, NEW m \in {"sync", "inline", "thread"}, Compute(c, m)
      PROVE  ShapesInv'
  <2>1. ~mStarted /\ rpc' = "next" /\ outputShapes' = mOutputs
        /\ UNCHANGED <<setup, mFinished, mOutputs, reported>> /\ mStarted'
    BY <1>1 DEF Compute, Startable
  <2>2. ~mFinished
    BY <2>1 DEF HandoverInv, Over
  <2>3. Initially /\ reported = mOutputs
    BY <2>1 DEF ShapesInv
  <2>4. Enough(outputShapes')
    BY <2>1, <2>3 DEF Initially, Enough
  <2> QED BY <2>1, <2>2, <2>3, <2>4 DEF ShapesInv, Initially, Enough, ShapesAreOfTheResults
<1>2. ASSUME UNCHANGED <<setup, mStarted, mFinished, mCompletion, mOutputs, planVars, rpc, result>>
      PROVE  ShapesInv'
  BY <1>2 DEF ShapesInv, Initially, Enough, Untouched, Reports, ShapesAreOfTheResults
<1>3. ASSUME NEW c \in Clients,
             \/ BindThread(c) \/ ComputeReturns(c) \/ EventWait(c) \/ EventFree(c)
             \/ WaitNotified(c) \/ Join(c) \/ GetStatus(c) \/ DeleteEvent(c) \/ ExecutionFree(c)
      PROVE  ShapesInv'
  BY <1>0, <1>2, <1>3, ClientFrame
\* While steps are run, the builder is not touched.
<1>4. ASSUME rpc \in {"next", "step", "partialFallback", "fullFallback"},
             UNCHANGED <<setup, mStarted, mFinished, mOutputs>>,
             rpc' \in {"next", "step", "partialFallback", "fullFallback", "notify"},
             rpc' \in {"next", "step"} => (outputShapes = reported /\ Enough(outputShapes))',
             rpc' = "partialFallback" => Untouched',
             rpc' = "notify" /\ result'.status \in WithShapes =>
                 Reports(result.shapes, result.status)'
      PROVE  ShapesInv'
  <2>1. ~mFinished' /\ mStarted'
    BY <1>4 DEF HandoverInv, Over
  <2>2. Initially'
    BY <1>4 DEF ShapesInv, Initially
  <2> QED BY <1>4, <2>1, <2>2 DEF ShapesInv, ShapesAreOfTheResults
<1>5. CASE NextFails
  <2>1. /\ rpc = "next" /\ UNCHANGED <<setup, mStarted, mFinished, mOutputs>>
        /\ rpc' = "fullFallback" \/ (rpc' = "notify" /\ result'.status \notin WithShapes)
    BY <1>5, SizeStatus DEF NextFails, Notify
  <2> QED BY <1>4, <2>1
<1>6. CASE NextEnds
  <2>1. /\ rpc = "next" /\ UNCHANGED <<setup, mStarted, mFinished, mOutputs, reported>>
        /\ rpc' = "notify" /\ result'.shapes = outputShapes
    BY <1>6 DEF NextEnds, Notify
  <2>2. Reports(result.shapes, result.status)'
    BY <2>1 DEF ShapesInv, Reports, Enough
  <2> QED BY <1>4, <2>1, <2>2
<1>7. CASE NextStep
  <2>1. /\ rpc = "next" /\ rpc' = "step"
        /\ UNCHANGED <<setup, mStarted, mFinished, mOutputs, outputShapes, reported>>
    BY <1>7 DEF NextStep
  <2>2. (outputShapes = reported /\ Enough(outputShapes))'
    BY <2>1 DEF ShapesInv, Enough
  <2> QED BY <1>4, <2>1, <2>2
<1>8. CASE ComputeStep
  <2> DEFINE i == mFallbackNextStepIndex
             S == setup.steps[i].outs
  <2>1. /\ rpc = "step"
        /\ UNCHANGED <<setup, mStarted, mFinished, mOutputs, mFallbackNextStepIndex>>
    BY <1>8, Zenon DEF ComputeStep
  <2>2. PICK r \in ExecuteReturns(S) :
             /\ outputShapes' = Merged(r.shapes, outputShapes) /\ reported' = Reported(r)
             /\ \/ EffectiveCode(r) = "NO_ERROR" /\ rpc' = "next"
                \/ /\ EffectiveCode(r) = "OUTPUT_INSUFFICIENT_SIZE"
                   /\ Notify(EffectiveCode(r), outputShapes')
                \/ /\ EffectiveCode(r) \notin {"NO_ERROR", "OUTPUT_INSUFFICIENT_SIZE"}
                   /\ Notify(EffectiveCode(r), NoShapes)
                \/ rpc' \in {"partialFallback", "fullFallback"}
    BY <1>8, Zenon DEF ComputeStep, StepRan
  <2>3. i \in DOMAIN setup.steps /\ S \in SUBSET Outputs
    <3>1. i \in DOMAIN setup.steps
      BY <2>1 DEF TypeInv
    <3>2. setup.steps[i] \in Step
      BY <1>0, <3>1
    <3> QED BY <3>1, <3>2 DEF Step
  <2>4. r.shapes \in ShapeLists /\ DOMAIN r.shapes \in {{}, S}
    BY <2>2, <2>3, ReturnsType
  <2>5. outputShapes = reported /\ Enough(outputShapes) /\ outputShapes \in [Outputs -> OutputShape]
    BY <1>0, <2>1 DEF ShapesInv
  <2>6. MergeOk(r.shapes, outputShapes) =>
            /\ outputShapes' = reported'
            /\ r.n = "NO_ERROR" => Enough(outputShapes')
    <3>1. r.n = "NO_ERROR" => \A o \in DOMAIN r.shapes : r.shapes[o].sufficient
      BY <2>3, ReturnsEnough
    <3>2. \A o \in Outputs \ DOMAIN r.shapes :
              outputShapes[o] = reported[o] /\ outputShapes[o].sufficient
      BY <2>5 DEF Enough
    <3> QED BY <1>0, <2>2, <2>4, <2>5, <3>1, <3>2, RunReports
  <2>7. CASE EffectiveCode(r) = "NO_ERROR" /\ rpc' = "next"
    <3>1. MergeOk(r.shapes, outputShapes) /\ r.n = "NO_ERROR"
      BY <2>7 DEF EffectiveCode
    <3>2. (outputShapes = reported /\ Enough(outputShapes))'
      BY <2>6, <3>1 DEF Enough
    <3> QED BY <1>4, <2>1, <2>7, <3>2
  <2>8. CASE /\ EffectiveCode(r) = "OUTPUT_INSUFFICIENT_SIZE"
             /\ Notify(EffectiveCode(r), outputShapes')
    <3>1. MergeOk(r.shapes, outputShapes)
      BY <2>8 DEF EffectiveCode
    <3>2. /\ rpc' = "notify" /\ result'.shapes = outputShapes' /\ result'.status # "NONE"
      BY <2>8, ConversionNone DEF Notify
    <3>3. Reports(result.shapes, result.status)'
      BY <2>6, <3>1, <3>2 DEF Reports
    <3> QED BY <1>4, <2>1, <3>2, <3>3
  <2>9. CASE /\ EffectiveCode(r) \notin {"NO_ERROR", "OUTPUT_INSUFFICIENT_SIZE"}
             /\ Notify(EffectiveCode(r), NoShapes)
    <3>1. rpc' = "notify" /\ result'.status \notin WithShapes
      BY <2>9, SizeStatus DEF Notify
    <3> QED BY <1>4, <2>1, <3>1
  <2>10. CASE rpc' \in {"partialFallback", "fullFallback"}
    <3>1. Untouched'
      BY <2>1, <2>2, <2>4, <2>5, RunTouches DEF Untouched
    <3> QED BY <1>4, <2>1, <2>10, <3>1
  <2> QED BY <2>2, <2>7, <2>8, <2>9, <2>10
<1>9. CASE PartialFallback
  <2> DEFINE i == mFallbackNextStepIndex
             S == setup.steps[i].outs
  <2>1. /\ rpc = "partialFallback"
        /\ UNCHANGED <<setup, mStarted, mFinished, mOutputs>>
    BY <1>9, Zenon DEF PartialFallback
  <2>2. PICK r \in computeOnCpuFallback(S) :
             /\ outputShapes' = Merged(r.shapes, outputShapes) /\ reported' = Reported(r)
             /\ \/ EffectiveCode(r) = "NO_ERROR" /\ rpc' = "next"
                \/ /\ EffectiveCode(r) = "OUTPUT_INSUFFICIENT_SIZE"
                   /\ Notify(EffectiveCode(r), outputShapes')
                \/ /\ EffectiveCode(r) \notin {"NO_ERROR", "OUTPUT_INSUFFICIENT_SIZE"}
                   /\ Notify(EffectiveCode(r), NoShapes)
                \/ rpc' = "fullFallback"
    BY <1>9, Zenon DEF PartialFallback, StepRan, Rewound
  <2>3. i \in DOMAIN setup.steps /\ S \in SUBSET Outputs
    <3>1. i \in DOMAIN setup.steps
      BY <2>1 DEF TypeInv
    <3>2. setup.steps[i] \in Step
      BY <1>0, <3>1
    <3> QED BY <3>1, <3>2 DEF Step
  <2>4. r.shapes \in ShapeLists /\ outputShapes \in [Outputs -> OutputShape]
    BY <1>0, <2>1, <2>3, FallbackReturnsType
  <2>5. ASSUME EffectiveCode(r) \in {"NO_ERROR", "OUTPUT_INSUFFICIENT_SIZE"}
        PROVE  /\ outputShapes' = reported'
               /\ EffectiveCode(r) = "NO_ERROR" => Enough(outputShapes')
    <3>1. MergeOk(r.shapes, outputShapes) /\ r.n = EffectiveCode(r)
      BY <2>5 DEF EffectiveCode
    <3>2. r \in ExecuteReturns(S) /\ DOMAIN r.shapes = S
      BY <2>3, <2>5, <3>1, FallbackReturns
    <3>3. \A o \in Outputs \ DOMAIN r.shapes :
              outputShapes[o] = reported[o] /\ outputShapes[o].sufficient
      BY <2>1, <3>2 DEF ShapesInv, Untouched
    <3>4. r.n = "NO_ERROR" => \A o \in DOMAIN r.shapes : r.shapes[o].sufficient
      BY <2>3, <3>2, ReturnsEnough
    <3> QED BY <1>0, <2>2, <2>4, <3>1, <3>3, <3>4, RunReports
  <2>6. CASE EffectiveCode(r) = "NO_ERROR" /\ rpc' = "next"
    <3>1. (outputShapes = reported /\ Enough(outputShapes))'
      BY <2>5, <2>6 DEF Enough
    <3> QED BY <1>4, <2>1, <2>6, <3>1
  <2>7. CASE /\ EffectiveCode(r) = "OUTPUT_INSUFFICIENT_SIZE"
             /\ Notify(EffectiveCode(r), outputShapes')
    <3>1. /\ rpc' = "notify" /\ result'.shapes = outputShapes' /\ result'.status # "NONE"
      BY <2>7, ConversionNone DEF Notify
    <3>2. Reports(result.shapes, result.status)'
      BY <2>5, <2>7, <3>1 DEF Reports
    <3> QED BY <1>4, <2>1, <3>1, <3>2
  <2>8. CASE /\ EffectiveCode(r) \notin {"NO_ERROR", "OUTPUT_INSUFFICIENT_SIZE"}
             /\ Notify(EffectiveCode(r), NoShapes)
    <3>1. rpc' = "notify" /\ result'.status \notin WithShapes
      BY <2>8, SizeStatus DEF Notify
    <3> QED BY <1>4, <2>1, <3>1
  <2>9. CASE rpc' = "fullFallback"
    BY <1>4, <2>1, <2>9
  <2> QED BY <2>2, <2>6, <2>7, <2>8, <2>9
<1>10. CASE FullFallback
  <2>1. /\ rpc = "fullFallback" /\ UNCHANGED <<setup, mStarted, mFinished, mOutputs>>
    BY <1>10 DEF FullFallback
  <2>2. PICK r \in computeOnCpuFallback(Outputs) : reported' = Reported(r) /\ Notify(r.n, r.shapes)
    BY <1>10, Zenon DEF FullFallback
  <2>3. rpc' = "notify" /\ result'.shapes = r.shapes
        /\ result'.status = convertResultCodeToErrorStatus(r.n)
    BY <2>2 DEF Notify
  <2>4. ASSUME result'.status \in WithShapes PROVE Reports(result.shapes, result.status)'
    <3>1. r.n \in {"NO_ERROR", "OUTPUT_INSUFFICIENT_SIZE"}
      BY <2>3, <2>4, SizeStatus
    <3>2. r \in ExecuteReturns(Outputs) /\ DOMAIN r.shapes = Outputs /\ r.shapes \in ShapeLists
      BY <3>1, FallbackReturns, FallbackReturnsType
    <3>3. r.shapes = reported'
      BY <2>2, <3>2 DEF Reported, ShapeLists
    <3>4. result'.status = "NONE" => r.n = "NO_ERROR"
      BY <2>3, ConversionNone
    <3>5. result'.status = "NONE" => Enough(r.shapes)
      BY <3>2, <3>4, ReturnsEnough DEF Enough
    <3> QED BY <2>3, <3>3, <3>5 DEF Reports, Enough
  <2> QED BY <1>4, <2>1, <2>3, <2>4
<1>11. CASE NotifyStore
  <2>1. /\ rpc = "notify" /\ ~mNotified /\ ~mFinished /\ mOnFinish /\ mStarted
    BY <1>11 DEF NotifyStore, HandoverInv, Over, Finishing
  <2>2. /\ rpc' = "finish" /\ result' = Checked(result)
        /\ UNCHANGED <<setup, mStarted, mFinished, mOutputs, reported>>
    BY <1>11, <2>1 DEF NotifyStore
  <2>3. result'.status \in WithShapes => result' = result
    BY <2>2 DEF Checked, NoResult, WithShapes
  <2>4. result'.status \in WithShapes => Reports(result.shapes, result.status)'
    BY <2>1, <2>2, <2>3 DEF ShapesInv, Reports, Enough
  <2>5. Initially'
    BY <2>1, <2>2 DEF ShapesInv, Initially
  <2> QED BY <2>1, <2>2, <2>4, <2>5 DEF ShapesInv, ShapesAreOfTheResults
<1>12. CASE FinishUpdate
  <2>1. /\ rpc = "finish" /\ rpc' = "finishMark"
        /\ UNCHANGED <<setup, mStarted, mFinished, reported>>
        /\ mOutputs' = IF ShapesFit(result.shapes) /\ ~IsEmpty(result.shapes) THEN result.shapes
                       ELSE mOutputs
        /\ result' = result \/ result'.status = "GENERAL_FAILURE"
        /\ result' = result => ShapesFit(result.shapes) \/ result.status = "GENERAL_FAILURE"
    BY <1>0, <1>12 DEF FinishUpdate, TypeOK
  <2>2. ~mFinished /\ mStarted
    BY <2>1 DEF HandoverInv, Over
  <2>3. ASSUME result'.status \in WithShapes
        PROVE  /\ Reports(mOutputs, result.status)'
               /\ \A o \in Outputs : setup'.dims[o] \in {0, mOutputs'[o].dims}
    <3>1. result' = result /\ ShapesFit(result.shapes)
      BY <2>1, <2>3 DEF WithShapes
    <3>2. Reports(result.shapes, result.status) /\ Initially
      BY <2>1, <2>3, <3>1 DEF ShapesInv
    <3>3. ~IsEmpty(result.shapes)
      BY <1>0, <3>2, NumOutputsAssumption DEF Reports, IsEmpty, Outputs
    <3>4. mOutputs' = result.shapes
      BY <2>1, <3>1, <3>3
    <3>5. \A o \in Outputs : isUpdatable(mOutputs[o].dims, result.shapes[o].dims)
      BY <3>1, <3>3 DEF ShapesFit
    <3>6. \A o \in Outputs : setup'.dims[o] \in {0, mOutputs'[o].dims}
      BY <2>1, <3>2, <3>4, <3>5 DEF Initially, isUpdatable
    <3> QED BY <2>1, <3>1, <3>2, <3>4, <3>6 DEF Reports, Enough
  <2> QED BY <2>1, <2>2, <2>3 DEF ShapesInv, ShapesAreOfTheResults
<1>13. CASE FinishMark
  <2>1. /\ rpc = "finishMark" /\ rpc' = "finishFlag"
        /\ UNCHANGED <<setup, mStarted, mFinished, mOutputs, reported, result>>
    BY <1>13 DEF FinishMark
  <2>2. ~mFinished /\ mStarted
    BY <2>1 DEF HandoverInv, Over
  <2> QED BY <2>1, <2>2 DEF ShapesInv, Reports, Enough, ShapesAreOfTheResults
<1>14. CASE FinishFlag
  <2>1. /\ rpc = "finishFlag" /\ rpc' = "unlock"
        /\ UNCHANGED <<setup, mStarted, mCompletion, mOutputs, reported, result>>
    BY <1>14 DEF FinishFlag
  <2>2. mStarted /\ mCompletion = CompletionOf(result.status)
    BY <2>1 DEF HandoverInv, OutcomeInv, Recorded
  <2>3. ASSUME mCompletion \in {"NO_ERROR", "OUTPUT_INSUFFICIENT_SIZE"}
        PROVE  /\ mOutputs = reported
               /\ \A o \in Outputs : setup.dims[o] \in {0, mOutputs[o].dims}
               /\ mCompletion = "NO_ERROR" => \A o \in Outputs : mOutputs[o].sufficient
    <3>1. result.status \in WithShapes /\ (mCompletion = "NO_ERROR" => result.status = "NONE")
      BY <1>0, <2>2, <2>3, SizeStatus
    <3> QED BY <2>1, <3>1 DEF ShapesInv, Reports, Enough
  <2>4. ShapesAreOfTheResults'
    BY <2>1, <2>3 DEF ShapesAreOfTheResults
  <2> QED BY <2>1, <2>2, <2>4 DEF ShapesInv
<1>15. CASE NotifyUnlock \/ RunnerReturns
  <2>1. /\ rpc \in {"unlock", "return"} /\ rpc' \in {"return", "done"}
        /\ UNCHANGED <<setup, mStarted, mFinished, mCompletion, mOutputs, reported>>
    BY <1>15 DEF NotifyUnlock, RunnerReturns
  <2>2. mStarted
    BY <2>1 DEF HandoverInv
  <2> QED BY <2>1, <2>2 DEF ShapesInv, ShapesAreOfTheResults
<1>16. CASE Terminated \/ UNCHANGED vars
  BY <1>2, <1>16 DEF Terminated, vars
<1> QED
  BY <1>1, <1>3, <1>5, <1>6, <1>7, <1>8, <1>9, <1>10, <1>11, <1>12, <1>13, <1>14, <1>15, <1>16
     DEF Next, Runner, Client

\* Whatever shapes drivers report, and however often a clash, a failure or too small an output
\* makes the CPU repeat a step or the whole, the shapes that a client is told are those of the
\* runs that made the results (StepExecutor::updateOutputShapes, finishWithoutSyncFence).
THEOREM ShapesOfTheResults == Spec => []ShapesAreOfTheResults
<1>1. ShapesInv => ShapesAreOfTheResults
  BY DEF ShapesInv
<1> QED BY <1>1, ShapesInit, ShapesStep, TypeInit, TypeStep, HandoverInit, HandoverStep,
           OutcomeInit, OutcomeStep, PTL DEF Spec
===============================================================================
