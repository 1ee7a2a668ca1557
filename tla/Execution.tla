------------------------------ MODULE Execution ------------------------------
(***************************************************************************)
(* One ANeuralNetworksExecution from its start to its end: the             *)
(* ExecutionBuilder that owns the request, the thread that runs the        *)
(* partitioned plan (asyncStartComputePartitioned) with its CPU fallbacks, *)
(* the ExecutionCallback through which the result is handed over, and the  *)
(* client threads that wait on the event, free it and free the execution.  *)
(*                                                                         *)
(* The runner is the thread that executes the plan: a thread of its own,   *)
(* or the calling client for a synchronous call and under syncExecRuntime. *)
(*                                                                         *)
(* Right before some operators stands a second one that nothing uses: the  *)
(* same place in the code with a plausible mistake, which one of the       *)
(* properties at the end must notice when it takes the operator's place.   *)
(***************************************************************************)
EXTENDS Shapes, ResultCodes, Sequences

CONSTANTS Clients,     \* client threads
          NumOutputs,  \* model outputs
          Setups       \* the executions to consider, see SetupsAssumption

Outputs == 1 .. NumOutputs

\* A step of the plan: does it run on the CPU device, and which outputs of
\* the main model does it produce?
Step == [cpu : BOOLEAN, outs : SUBSET Outputs]

\* What is fixed when the execution starts: the plan, the fallback policy, the
\* dimensions the client gave for each output, and the dimensions with which
\* each output that lies in a device memory was created.
ASSUME ClientsAssumption == Clients \cap {"free", "runner"} = {}
ASSUME NumOutputsAssumption == NumOutputs \in Nat \ {0}
ASSUME SetupsAssumption ==
    \A s \in Setups :
        /\ s.steps \in Seq(Step) /\ Len(s.steps) >= 1
        /\ s.simple \in BOOLEAN /\ s.controlFlow \in BOOLEAN /\ s.allowFallback \in BOOLEAN
        /\ s.simple => Len(s.steps) = 1 /\ ~s.controlFlow
        /\ s.dims \in [Outputs -> Dims]
        /\ DOMAIN s.memory \subseteq Outputs
        /\ s.memory \in [DOMAIN s.memory -> Dims]
        /\ \A o \in DOMAIN s.memory : Combinable(s.dims[o], s.memory[o])

VARIABLES
    setup,         \* the element of Setups this execution was made from
    \* ExecutionBuilder
    mStarted, mFinished, mCompletion,
    mOutputs,      \* dimensions and isSufficient of every output argument
    memory,        \* output -> [dims, initialized] of its DeviceMemoryValidator
    execFreed,
    \* ExecutionCallback and the event that wraps it
    mNotified, mErrorStatus, mOnFinish, mMutex, mThread, event,
    \* the runner: control point, plan controller, local variables
    rpc, mNextStepIndex, mFallbackNextStepIndex, outputShapes, allowFallback, result,
    data,          \* what each step's results hold
    reported,      \* history: the shapes that the runs of the steps reported last
    \* client threads: how compute was called, control points, statuses learnt
    mode, cpc, learnt

builderVars  == <<mStarted, mFinished, mCompletion, mOutputs, memory, execFreed>>
callbackVars == <<mNotified, mErrorStatus, mOnFinish, mMutex, mThread>>
planVars     == <<mNextStepIndex, mFallbackNextStepIndex, outputShapes, allowFallback, data,
                  reported>>
clientVars   == <<mode, cpc, learnt, event>>
vars == <<setup, builderVars, callbackVars, planVars, rpc, result, clientVars>>

kBadStepIndex == 0            \* step indexes are 1-based here
Completion == {"NO_ERROR", "OUTPUT_INSUFFICIENT_SIZE", "OTHER_ERROR"}
NoResult == [status |-> "GENERAL_FAILURE", shapes |-> NoShapes]

isSimpleCpu == setup.simple /\ setup.steps[1].cpu
InDeviceMemory(S) == S \cap DOMAIN setup.memory
createdWithUnknownShape(o) == setup.memory[o] = 0

\* ExecutionBuilder::inFlight.
NotNotified == mStarted /\ ~mNotified
inFlight == mStarted /\ ~mFinished

\* compute() refuses an execution that has already been started.
AlwaysStartable == TRUE
Startable == ~mStarted

\* The switch in finishWithoutSyncFence.
SameCompletion(status) == status
CompletionOf(status) ==
    CASE convertErrorStatusToResultCode(status) = "NO_ERROR" -> "NO_ERROR"
      [] convertErrorStatusToResultCode(status) = "OUTPUT_INSUFFICIENT_SIZE" ->
             "OUTPUT_INSUFFICIENT_SIZE"
      [] OTHER -> "OTHER_ERROR"

-------------------------------------------------------------------------------
(* What running a model may return and do to its results.                  *)

ShapesOf(S, sufficient) == [S -> [dims : Dims, sufficient : sufficient]]

\* PreparedModel::execute of a step that produces the outputs S: drivers are
\* trusted to report isSufficient = FALSE only with OUTPUT_INSUFFICIENT_SIZE.
ExecuteReturns(S) ==
    [n : {"NO_ERROR"}, shapes : ShapesOf(S, {TRUE}) \cup {NoShapes}]
    \cup [n : {"OUTPUT_INSUFFICIENT_SIZE"}, shapes : ShapesOf(S, BOOLEAN) \cup {NoShapes}]
    \cup [n : {"OP_FAILED", "MISSED_DEADLINE_TRANSIENT"}, shapes : {NoShapes}]

\* The CPU executor always has shapes for all of the outputs S, while a driver
\* may report none.
ReportsAll(r, S) == r.n \in {"NO_ERROR", "OUTPUT_INSUFFICIENT_SIZE"} => DOMAIN r.shapes = S

\* StepExecutor::computeOnCpuFallback: an output memory of unknown size cannot
\* be shadowed on the CPU, and then nothing runs.
computeOnCpuFallback(S) ==
    IF \E o \in InDeviceMemory(S) : createdWithUnknownShape(o)
    THEN [n : {"OP_FAILED"}, shapes : {NoShapes}]
    ELSE {r \in ExecuteReturns(S) : ReportsAll(r, S)}

\* What has been reported of the outputs, the latest of each.
Reported(r) == [o \in Outputs |-> IF o \in DOMAIN r.shapes THEN r.shapes[o] ELSE reported[o]]

\* The results of step i after a run that returned n: good if the run
\* succeeded on good inputs, possibly half-written if it failed.
DataAfter(i, n) ==
    IF n = "NO_ERROR"
    THEN {[data EXCEPT ![i] = IF \A j \in 1 .. i - 1 : data[j] = "good" THEN "good" ELSE "garbage"]}
    ELSE {data, [data EXCEPT ![i] = "garbage"]}

-------------------------------------------------------------------------------
Init ==
    /\ setup \in Setups
    /\ mStarted = FALSE /\ mFinished = FALSE /\ mCompletion = "OTHER_ERROR"
    /\ mOutputs = [o \in Outputs |-> [dims |-> setup.dims[o], sufficient |-> TRUE]]
    /\ memory \in [DOMAIN setup.memory -> [dims : Dims, initialized : BOOLEAN]]
    /\ \A o \in DOMAIN memory : setup.memory[o] \in {0, memory[o].dims}
    /\ execFreed = FALSE
    /\ mNotified = FALSE /\ mErrorStatus = "GENERAL_FAILURE" /\ mOnFinish = FALSE
    /\ mMutex = "free" /\ mThread = "none" /\ event = "none"
    /\ rpc = "off" /\ mNextStepIndex = 1 /\ mFallbackNextStepIndex = kBadStepIndex
    /\ outputShapes = NoShapes /\ allowFallback = FALSE /\ result = NoResult
    /\ data = [i \in DOMAIN setup.steps |-> "unset"] /\ reported = mOutputs
    /\ mode = "none" /\ cpc = [c \in Clients |-> "idle"]
    /\ learnt = [c \in Clients |-> "none"]

\* ExecutionBuilder::compute up to the point where the plan starts to run.  A
\* second call is refused with BAD_STATE.  The plan controller is new, the
\* callback is new and gets the finish function before any thread can notify it.
Compute(c, m) ==
    /\ cpc[c] = "idle" /\ ~execFreed
    /\ Startable
    /\ mStarted' = TRUE
    /\ mNotified' = FALSE /\ mErrorStatus' = "GENERAL_FAILURE" /\ mOnFinish' = TRUE
    /\ mMutex' = "free" /\ mThread' = "none"
    /\ mNextStepIndex' = 1 /\ mFallbackNextStepIndex' = kBadStepIndex
    /\ mode' = m
    /\ cpc' = [cpc EXCEPT ![c] = IF m = "thread" THEN "bind" ELSE "compute"]
    /\ outputShapes' = mOutputs
    /\ allowFallback' = (setup.allowFallback /\ ~isSimpleCpu)
    /\ rpc' = "next"
    /\ UNCHANGED <<setup, mFinished, mCompletion, mOutputs, memory, execFreed, event, result,
                   data, reported, learnt>>

\* ExecutionCallback::bindThread, after which startCompute returns the event.
BindThread(c) ==
    /\ cpc[c] = "bind"
    /\ mMutex = "free"
    /\ mThread' = "joinable"
    /\ event' = "live"
    /\ cpc' = [cpc EXCEPT ![c] = "idle"]
    /\ UNCHANGED <<setup, builderVars, mNotified, mErrorStatus, mOnFinish, mMutex, planVars, rpc,
                   result, mode, learnt>>

\* The call that ran the plan itself returns: a synchronous one with the
\* status, an asynchronous one without a thread with the event.
ComputeReturns(c) ==
    /\ cpc[c] = "compute" /\ rpc = "done"
    /\ mNotified /\ mMutex = "free"
    /\ learnt' = IF mode = "sync" THEN [learnt EXCEPT ![c] = mErrorStatus] ELSE learnt
    /\ event' = IF mode = "sync" THEN event ELSE "live"
    /\ cpc' = [cpc EXCEPT ![c] = "idle"]
    /\ UNCHANGED <<setup, builderVars, callbackVars, planVars, rpc, result, mode>>

-------------------------------------------------------------------------------
(* The runner: asyncStartComputePartitioned.                               *)

\* executionCallback->notify(status, shapes, timing) is the last thing the
\* runner does on every path.
SilentOnTimeout(n, shapes) ==
    IF MissedDeadline(n) THEN rpc' = "return" /\ UNCHANGED result
    ELSE /\ result' = [status |-> convertResultCodeToErrorStatus(n), shapes |-> shapes]
         /\ rpc' = "notify"
Notify(n, shapes) ==
    /\ result' = [status |-> convertResultCodeToErrorStatus(n), shapes |-> shapes]
    /\ rpc' = "notify"

\* plan.next() failed: a WHILE loop that timed out ends the execution, any
\* other failure may be made good by running the whole model on the CPU.  Without
\* control flow next() fails at once, or not: there was no memory for temporaries.
NextFails ==
    /\ rpc = "next" /\ ~setup.simple /\ (setup.controlFlow \/ mNextStepIndex = 1)
    /\ \/ allowFallback /\ rpc' = "fullFallback" /\ UNCHANGED result
       \/ ~allowFallback /\ Notify("OP_FAILED", NoShapes)
       \/ setup.controlFlow /\ Notify("MISSED_DEADLINE_TRANSIENT", NoShapes)
    /\ UNCHANGED <<setup, builderVars, callbackVars, planVars, clientVars>>

\* plan.next() at the end of the plan.
NextEnds ==
    /\ rpc = "next" /\ mNextStepIndex = Len(setup.steps) + 1
    /\ mNextStepIndex' = kBadStepIndex
    /\ Notify("NO_ERROR", outputShapes)
    /\ UNCHANGED <<setup, builderVars, callbackVars, mFallbackNextStepIndex, outputShapes,
                   allowFallback, data, reported, clientVars>>

\* plan.next() yields an executor for the step at mNextStepIndex.
NextStep ==
    /\ rpc = "next" /\ mNextStepIndex \in DOMAIN setup.steps
    /\ mFallbackNextStepIndex' = mNextStepIndex
    /\ mNextStepIndex' = mNextStepIndex + 1
    /\ rpc' = "step"
    /\ UNCHANGED <<setup, builderVars, callbackVars, outputShapes, allowFallback, data,
                   reported, result, clientVars>>

\* One run of a step with the outcome r merged into the global output shapes.
StepRan(i, r) ==
    /\ data' \in DataAfter(i, r.n)
    /\ outputShapes' = Merged(r.shapes, outputShapes)
    /\ reported' = Reported(r)

EffectiveCode(r) == IF MergeOk(r.shapes, outputShapes) THEN r.n ELSE "OP_FAILED"

\* executor->compute() and what the loop makes of its result.
ComputeStep ==
    LET i == mFallbackNextStepIndex
        step == setup.steps[i]
    IN  /\ rpc = "step"
        /\ \E r \in ExecuteReturns(step.outs) :
              LET stepN == EffectiveCode(r) IN
              /\ step.cpu => ReportsAll(r, step.outs)
              /\ StepRan(i, r)
              /\ \/ stepN = "NO_ERROR" /\ rpc' = "next" /\ UNCHANGED result
                 \/ stepN = "OUTPUT_INSUFFICIENT_SIZE" /\ Notify(stepN, outputShapes')
                 \/ /\ stepN \notin {"NO_ERROR", "OUTPUT_INSUFFICIENT_SIZE"}
                    /\ ~allowFallback \/ (step.cpu /\ setup.simple)
                    /\ Notify(stepN, NoShapes)
                 \/ /\ stepN \notin {"NO_ERROR", "OUTPUT_INSUFFICIENT_SIZE"}
                    /\ allowFallback /\ ~(step.cpu /\ setup.simple)
                    /\ rpc' = IF step.cpu THEN "fullFallback" ELSE "partialFallback"
                    /\ UNCHANGED result
        /\ UNCHANGED <<setup, builderVars, callbackVars, mNextStepIndex, mFallbackNextStepIndex,
                       allowFallback, clientVars>>

\* ExecutionPlan::fallback rewinds the controller to the step that failed.
NoRewind == IF mNextStepIndex \in DOMAIN setup.steps THEN mNextStepIndex
            ELSE mFallbackNextStepIndex
Rewound == mFallbackNextStepIndex

\* cpuFallbackPartial: plan.fallback() rewinds to the failed step, which is
\* compiled for the CPU and run there.  It would refuse a bad index, but at this
\* point there never is one, or the runner would be stuck here.
PartialFallback ==
    /\ rpc = "partialFallback"
    /\ mFallbackNextStepIndex # kBadStepIndex /\ mNextStepIndex # kBadStepIndex
    /\ LET i == Rewound IN
       /\ mNextStepIndex' = i + 1
       /\ \E r \in computeOnCpuFallback(setup.steps[i].outs) :
             LET fallbackN == EffectiveCode(r) IN
             /\ StepRan(i, r)
             /\ \/ fallbackN = "NO_ERROR" /\ rpc' = "next" /\ UNCHANGED result
                \/ fallbackN = "OUTPUT_INSUFFICIENT_SIZE" /\ Notify(fallbackN, outputShapes')
                \/ /\ fallbackN \notin {"NO_ERROR", "OUTPUT_INSUFFICIENT_SIZE"}
                   /\ setup.simple /\ Notify(fallbackN, NoShapes)
                \/ /\ fallbackN \notin {"NO_ERROR", "OUTPUT_INSUFFICIENT_SIZE"}
                   /\ ~setup.simple /\ rpc' = "fullFallback" /\ UNCHANGED result
    /\ UNCHANGED <<setup, builderVars, callbackVars, mFallbackNextStepIndex, allowFallback,
                   clientVars>>

\* cpuFallbackFull: the whole main model on the CPU.
FullFallback ==
    /\ rpc = "fullFallback"
    /\ \E r \in computeOnCpuFallback(Outputs) :
          /\ data' \in IF r.n = "NO_ERROR" THEN {[i \in DOMAIN data |-> "good"]}
                       ELSE {data, [i \in DOMAIN data |-> "garbage"]}
          /\ reported' = Reported(r)
          /\ Notify(r.n, r.shapes)
    /\ UNCHANGED <<setup, builderVars, callbackVars, mNextStepIndex, mFallbackNextStepIndex,
                   outputShapes, allowFallback, clientVars>>

-------------------------------------------------------------------------------
(* ExecutionCallback::notifyInternal and, under its mutex, the bound        *)
(* ExecutionBuilder::finishWithoutSyncFence.                                *)

\* An insufficient size without shapes, or another error with shapes, is a
\* malformed result and becomes a general failure.
Checked(r) ==
    IF \/ r.status = "OUTPUT_INSUFFICIENT_SIZE" /\ IsEmpty(r.shapes)
       \/ r.status \notin {"NONE", "OUTPUT_INSUFFICIENT_SIZE"} /\ ~IsEmpty(r.shapes)
    THEN NoResult
    ELSE r

NotifyStore ==
    /\ rpc = "notify" /\ mMutex = "free"
    /\ IF mNotified
       THEN /\ rpc' = "return"
            /\ UNCHANGED <<result, mNotified, mErrorStatus, mMutex>>
       ELSE /\ result' = Checked(result)
            /\ mErrorStatus' = result'.status
            /\ mNotified' = TRUE
            /\ mMutex' = "runner"
            /\ rpc' = IF mOnFinish THEN "finish" ELSE "unlock"
    /\ UNCHANGED <<setup, builderVars, mOnFinish, mThread, planVars, clientVars>>

\* ExecutionBuilder::updateOutputShapes: all or nothing.
ShapesFit(shapes) ==
    IsEmpty(shapes) \/ \A o \in Outputs : isUpdatable(mOutputs[o].dims, shapes[o].dims)

\* updateMemories: in order, up to the first device memory that was created
\* with other dimensions.
MemoryFits(outs, o) == Combinable(outs[o].dims, setup.memory[o])
MemoriesKept(outs) == memory
MemoriesAfter(outs) ==
    [o \in DOMAIN memory |->
        IF \A p \in DOMAIN memory : p <= o => MemoryFits(outs, p)
        THEN [memory[o] EXCEPT !.dims = combineDimensions(outs[o].dims, setup.memory[o])]
        ELSE memory[o]]

FlagFirst ==
    /\ rpc = "finish"
    /\ mFinished' = TRUE
    /\ mOutputs' = IF ShapesFit(result.shapes) /\ ~IsEmpty(result.shapes) THEN result.shapes
                   ELSE mOutputs
    /\ rpc' = "finishMark"
    /\ UNCHANGED <<setup, mStarted, mCompletion, memory, result, execFreed, callbackVars,
                   planVars, clientVars>>
FinishUpdate ==
    /\ rpc = "finish"
    /\ mOutputs' = IF ShapesFit(result.shapes) /\ ~IsEmpty(result.shapes) THEN result.shapes
                   ELSE mOutputs
    /\ memory' = IF ShapesFit(result.shapes) THEN MemoriesAfter(mOutputs') ELSE memory
    /\ result' = IF ShapesFit(result.shapes) /\ \A o \in DOMAIN memory : MemoryFits(mOutputs', o)
                 THEN result ELSE [result EXCEPT !.status = "GENERAL_FAILURE"]
    /\ rpc' = "finishMark"
    /\ UNCHANGED <<setup, mStarted, mFinished, mCompletion, execFreed, callbackVars, planVars,
                   clientVars>>

FinishMark ==
    /\ rpc = "finishMark"
    /\ memory' = [o \in DOMAIN memory |->
                     [memory[o] EXCEPT !.initialized = (result.status = "NONE")]]
    /\ mCompletion' = CompletionOf(result.status)
    /\ rpc' = "finishFlag"
    /\ UNCHANGED <<setup, mStarted, mFinished, mOutputs, execFreed, callbackVars, planVars, result,
                   clientVars>>

FinishFlag ==
    /\ rpc = "finishFlag"
    /\ mFinished' = TRUE
    /\ rpc' = "unlock"
    /\ UNCHANGED <<setup, mStarted, mCompletion, mOutputs, memory, execFreed, callbackVars,
                   planVars, result, clientVars>>

StatusKept == mErrorStatus
FinalStatus == IF result.status # "NONE" THEN result.status ELSE mErrorStatus

\* Back in notifyInternal: a failure reported by the finish function replaces
\* the stored status, then the lock is released and every waiter is woken.
NotifyUnlock ==
    /\ rpc = "unlock"
    /\ mErrorStatus' = FinalStatus
    /\ mOnFinish' = FALSE
    /\ mMutex' = "free"
    /\ rpc' = "return"
    /\ UNCHANGED <<setup, builderVars, mNotified, mThread, planVars, result, clientVars>>

RunnerReturns ==
    /\ rpc = "return"
    /\ rpc' = "done"
    /\ UNCHANGED <<setup, builderVars, callbackVars, planVars, result, clientVars>>

Runner == \/ NextFails \/ NextEnds \/ NextStep \/ ComputeStep \/ PartialFallback \/ FullFallback
          \/ NotifyStore \/ FinishUpdate \/ FinishMark \/ FinishFlag \/ NotifyUnlock
          \/ RunnerReturns

-------------------------------------------------------------------------------
(* Client threads.                                                          *)

\* ANeuralNetworksEvent_wait; several threads may do so at the same time.
EventWait(c) ==
    /\ cpc[c] = "idle" /\ event = "live"
    /\ cpc' = [cpc EXCEPT ![c] = "wait"]
    /\ UNCHANGED <<setup, builderVars, callbackVars, planVars, rpc, result, mode, learnt, event>>

\* ANeuralNetworksEvent_free, which waits before it deletes.  The client may
\* not free an event that another of its threads still waits on.
EventFree(c) ==
    /\ cpc[c] = "idle" /\ event = "live"
    /\ \A d \in Clients : cpc[d] = "idle"
    /\ event' = "freeing"
    /\ cpc' = [cpc EXCEPT ![c] = "freeWait"]
    /\ UNCHANGED <<setup, builderVars, callbackVars, planVars, rpc, result, mode, learnt>>

\* The predicate of mCondition.wait, evaluated under the mutex.
SpuriousWake == mMutex = "free"
Awake == mMutex = "free" /\ mNotified

NeverJoin == FALSE
MustJoin == mThread = "joinable"

\* ExecutionCallback::wait: under the mutex, once notified, the first thread to
\* come here joins the bound thread and keeps the mutex meanwhile.
WaitNotified(c) ==
    /\ cpc[c] \in {"wait", "freeWait"}
    /\ Awake
    /\ IF MustJoin
       THEN /\ mMutex' = c
            /\ cpc' = [cpc EXCEPT ![c] = IF @ = "wait" THEN "join" ELSE "freeJoin"]
       ELSE /\ cpc' = [cpc EXCEPT ![c] = IF @ = "wait" THEN "getStatus" ELSE "delete"]
            /\ UNCHANGED mMutex
    /\ UNCHANGED <<setup, builderVars, mNotified, mErrorStatus, mOnFinish, mThread, planVars, rpc,
                   result, mode, learnt, event>>

Join(c) ==
    /\ cpc[c] \in {"join", "freeJoin"} /\ rpc = "done"
    /\ mThread' = "joined"
    /\ mMutex' = "free"
    /\ cpc' = [cpc EXCEPT ![c] = IF @ = "join" THEN "getStatus" ELSE "delete"]
    /\ UNCHANGED <<setup, builderVars, mNotified, mErrorStatus, mOnFinish, planVars, rpc, result,
                   mode, learnt, event>>

\* getStatus() waits once more and reads the status after the lock is released.
GetStatus(c) ==
    /\ cpc[c] = "getStatus"
    /\ Awake
    /\ learnt' = [learnt EXCEPT ![c] = mErrorStatus]
    /\ cpc' = [cpc EXCEPT ![c] = "idle"]
    /\ UNCHANGED <<setup, builderVars, callbackVars, planVars, rpc, result, mode, event>>

\* delete e drops the last reference of the client side to the callback.
DeleteEvent(c) ==
    /\ cpc[c] = "delete"
    /\ event' = "freed"
    /\ cpc' = [cpc EXCEPT ![c] = "idle"]
    /\ UNCHANGED <<setup, builderVars, callbackVars, planVars, rpc, result, mode, learnt>>

\* ANeuralNetworksExecution_free is ignored while the execution is in flight.
\* The client may not call it while another thread is inside compute.
ExecutionFree(c) ==
    /\ cpc[c] = "idle" /\ ~execFreed
    /\ \A d \in Clients : cpc[d] \notin {"compute", "bind"}
    /\ ~inFlight
    /\ execFreed' = TRUE
    /\ UNCHANGED <<setup, mStarted, mFinished, mCompletion, mOutputs, memory, callbackVars,
                   planVars, rpc, result, clientVars>>

Client(c) == \/ \E m \in {"sync", "inline", "thread"} : Compute(c, m)
             \/ BindThread(c) \/ ComputeReturns(c)
             \/ EventWait(c) \/ EventFree(c) \/ WaitNotified(c) \/ Join(c) \/ GetStatus(c)
             \/ DeleteEvent(c) \/ ExecutionFree(c)

\* Everything was freed and no call is pending: the only way to stop.
Terminated ==
    /\ execFreed /\ event \in {"none", "freed"}
    /\ \A c \in Clients : cpc[c] = "idle"
    /\ UNCHANGED vars

Next == Runner \/ (\E c \in Clients : Client(c)) \/ Terminated

\* The runner keeps running (drivers answer or are reported dead, and a WHILE
\* loop times out), and a blocked client proceeds once it can.  Nobody has to
\* start, wait for or free anything.
Blocked(c) == BindThread(c) \/ ComputeReturns(c) \/ WaitNotified(c) \/ Join(c) \/ GetStatus(c)
              \/ DeleteEvent(c)
Fairness == WF_vars(Runner) /\ \A c \in Clients : WF_vars(Blocked(c))

Spec == Init /\ [][Next]_vars /\ Fairness

-------------------------------------------------------------------------------
(* Properties.                                                              *)

RunnerPoint == {"off", "next", "step", "partialFallback", "fullFallback", "notify", "finish",
                "finishMark", "finishFlag", "unlock", "return", "done"}
ClientPoint == {"idle", "compute", "bind", "wait", "join", "getStatus", "freeWait", "freeJoin",
                "delete"}
ShapeLists == UNION {[S -> OutputShape] : S \in SUBSET Outputs}

\* Every variable has its type.
TypeOK ==
    /\ setup \in Setups
    /\ mStarted \in BOOLEAN /\ mFinished \in BOOLEAN /\ mCompletion \in Completion
    /\ mOutputs \in [Outputs -> OutputShape]
    /\ memory \in [DOMAIN setup.memory -> [dims : Dims, initialized : BOOLEAN]]
    /\ execFreed \in BOOLEAN
    /\ mNotified \in BOOLEAN /\ mErrorStatus \in ErrorStatus /\ mOnFinish \in BOOLEAN
    /\ mMutex \in Clients \cup {"free", "runner"}
    /\ mThread \in {"none", "joinable", "joined"}
    /\ event \in {"none", "live", "freeing", "freed"}
    /\ rpc \in RunnerPoint
    /\ mNextStepIndex \in 0 .. Len(setup.steps) + 1
    /\ mFallbackNextStepIndex \in 0 .. Len(setup.steps)
    /\ outputShapes \in ShapeLists /\ allowFallback \in BOOLEAN
    /\ reported \in [Outputs -> OutputShape]
    /\ result \in [status : ErrorStatus, shapes : ShapeLists]
    /\ data \in [DOMAIN setup.steps -> {"unset", "garbage", "good"}]
    /\ mode \in {"none", "sync", "inline", "thread"}
    /\ cpc \in [Clients -> ClientPoint]
    /\ learnt \in [Clients -> ErrorStatus \cup {"none"}]

\* The points at which the runner still dereferences the ExecutionBuilder.
UsesBuilder == rpc \in RunnerPoint \ {"off", "unlock", "return", "done"}

\* Freeing the execution never pulls the builder away under the runner: from
\* the moment ANeuralNetworksExecution_free stops being ignored, the thread
\* that notifies does not touch the builder again, although it is still
\* inside notifyInternal.
NoUseAfterFree == execFreed => ~UsesBuilder

\* finishWithoutSyncFence runs at most once and while the callback's lock is
\* held: its CHECK(!mFinishedWithoutSyncFence) never aborts the process.
FinishRunsOnce == rpc \in {"finish", "finishMark", "finishFlag"} => ~mFinished /\ mMutex = "runner"

\* An execution that is reported successful has computed its outputs: every
\* step succeeded on good inputs, on its device or on the CPU, in spite of
\* the half-written results that failed attempts leave behind.
SuccessMeansComputed ==
    mFinished /\ mCompletion = "NO_ERROR" => \A i \in DOMAIN data : data[i] = "good"

\* The status a client learns, from compute or from any of the concurrent
\* waits, is the one the execution completed with, and the device memories
\* written by the execution are usable exactly if it is NONE.  The finish
\* function can turn a success into a failure after the status was stored.
ClientLearnsTheTruth ==
    \A c \in Clients :
        learnt[c] # "none" =>
            /\ mFinished
            /\ mCompletion = CompletionOf(learnt[c])
            /\ \A o \in DOMAIN memory : memory[o].initialized = (learnt[c] = "NONE")

\* After a success the runtime and the device memory agree on the dimensions
\* of every output that lies in a device memory, as far as either knows them.
MemoryDimsAgree ==
    mFinished /\ mCompletion = "NO_ERROR" =>
        \A o \in DOMAIN memory :
            /\ setup.memory[o] \in {0, memory[o].dims}
            /\ mOutputs[o].dims \in {0, memory[o].dims}

\* Once a wait has returned, the thread of the execution is gone, and the last
\* reference to the callback is never dropped with a joinable thread inside,
\* which would end the process.
JoinedBeforeReturn ==
    mode = "thread" /\ ((\E c \in Clients : learnt[c] # "none") \/ event = "freed") =>
        rpc = "done" /\ mThread = "joined"

\* A query answered once is answered the same way ever after: mFinished is
\* the last thing that finishWithoutSyncFence writes.
AnswersAreFinal ==
    [][mFinished /\ ~execFreed => UNCHANGED <<mFinished, mCompletion, mOutputs, memory>>]_vars

\* The shapes that a client can ask for are those of the runs that produced the
\* results: nothing stays of the shapes that StepExecutor::updateOutputShapes
\* had written before it met a clash, nor of a run that a fallback has
\* repeated; they keep the dimensions that the client had fixed, and after a
\* success all outputs were large enough.
ShapesAreOfTheResults ==
    mFinished /\ mCompletion \in {"NO_ERROR", "OUTPUT_INSUFFICIENT_SIZE"} =>
        /\ mOutputs = reported
        /\ \A o \in Outputs : setup.dims[o] \in {0, mOutputs[o].dims}
        /\ mCompletion = "NO_ERROR" => \A o \in Outputs : mOutputs[o].sufficient

\* Every execution that was started finishes, whichever steps and fallbacks fail.
StartedFinishes == mStarted ~> mFinished

\* Every thread that waits on the event, or frees it, comes back: the notifying
\* thread is joined with the lock held that it needed to notify.
WaitsReturn == \A c \in Clients : cpc[c] # "idle" ~> cpc[c] = "idle"

\* The execution as its client sees it.  Waiting in order to free the event is
\* not a question; a client that waits again already knows the answer.
Contract == INSTANCE ExecutionContract WITH
    Outcomes <- Completion,
    phase    <- IF mFinished THEN "finished" ELSE IF mStarted THEN "running" ELSE "ready",
    outcome  <- IF mFinished THEN mCompletion ELSE "pending",
    freed    <- execFreed,
    told     <- [c \in Clients |->
                    IF learnt[c] # "none" THEN CompletionOf(learnt[c])
                    ELSE IF \/ cpc[c] \in {"wait", "join", "getStatus"}
                            \/ cpc[c] = "compute" /\ mode = "sync"
                    THEN "asked" ELSE "nothing"]

\* The runtime keeps the promise: callbacks, locks, threads, fallbacks and the
\* order of the writes in finishWithoutSyncFence cannot be told from a single
\* atomic completion.
KeepsContract == Contract!Spec
===============================================================================
