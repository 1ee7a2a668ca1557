--------------------------- MODULE FencedExecution ---------------------------
(***************************************************************************)
(* ANeuralNetworksExecution_startComputeWithDependencies: the steps of a   *)
(* plan are launched one after the other, each with the sync fence of the  *)
(* one before to wait for, and the devices work on them asynchronously.    *)
(* The client gets an event as soon as the last step is launched.          *)
(*                                                                         *)
(* A fence is named after what signals it: a dependency, or the step whose *)
(* device was handed it.  0 stands for the invalid file descriptor -1.     *)
(*                                                                         *)
(* An operator that nothing uses, right before another one, is the same    *)
(* place in the code with a plausible mistake.                             *)
(***************************************************************************)
EXTENDS Integers, Sequences

CONSTANTS Dependencies,  \* events of other executions
          Setups         \* the executions to consider, see SetupsAssumption

\* How a step is executed: by a driver that hands out fences, by one that is
\* older than HAL 1.3 and runs synchronously, or on the CPU; and whether some of
\* its outputs are pointers.
Step == [device : {"fenced", "legacy", "cpu"}, pointers : BOOLEAN]

\* A dependency is backed by a sync fence or by an ExecutionCallback.
ASSUME DependenciesAssumption == Dependencies \cap Nat = {}
ASSUME SetupsAssumption ==
    \A s \in Setups :
        /\ s.steps \in Seq(Step) /\ Len(s.steps) >= 1
        \* the control flow interpreted before each step and before the end
        /\ s.branches \in [1 .. Len(s.steps) + 1 -> {"none", "if", "while"}]
        /\ s.allowFallback \in BOOLEAN
        \* may the process run out of file descriptors when a fence is handed over?
        /\ s.fdsRunOut \in BOOLEAN
        /\ DOMAIN s.deps \subseteq Dependencies
        /\ s.deps \in [DOMAIN s.deps -> {"fence", "callback"}]

VARIABLES
    setup,
    dep,            \* state of the dependencies
    \* ExecutionBuilder
    mStarted, mFinished, mCompletion, mSyncFenceFd, execFreed,
    initialized,    \* the device memory that holds an output
    \* startComputeFenced, in the thread of the client
    rpc, mNextStepIndex, syncFence, waitFor,
    \* the devices
    task, waits,    \* the work launched for each step and the fences it waits for
    data,           \* what each step's results hold
    \* the client
    event, waiting, learnt

builderVars == <<mStarted, mFinished, mCompletion, mSyncFenceFd, execFreed, initialized>>
launchVars  == <<rpc, mNextStepIndex, syncFence, waitFor>>
deviceVars  == <<task, waits, data>>
clientVars  == <<event, waiting, learnt>>
vars == <<setup, dep, builderVars, launchVars, deviceVars, clientVars>>

Steps == DOMAIN setup.steps
Current == mNextStepIndex - 1     \* the step that next() has yielded
StepAt(i) == setup.steps[i]

Branch == setup.branches[mNextStepIndex]

isSimple == Len(setup.steps) = 1 /\ \A i \in DOMAIN setup.branches : setup.branches[i] = "none"
isSimpleCpu == isSimple /\ StepAt(1).device = "cpu"
allowFallback == setup.allowFallback /\ ~isSimpleCpu

DependenciesBy(kind) == {d \in DOMAIN setup.deps : setup.deps[d] = kind}

\* What polling a sync fence finds.
FenceState(f) ==
    IF f \in Dependencies THEN dep[f]
    ELSE IF task[f] \in {"queued", "running"} THEN "active" ELSE task[f]

\* syncWait(fd, -1) returns once the fence is signaled or in error.
Resolved(fences) == \A f \in fences : FenceState(f) # "active"
AllSignaled(fences) == \A f \in fences : FenceState(f) = "signaled"

\* The fence of the last step, as a set.
FenceSet(fd) == IF fd = 0 THEN {} ELSE {fd}

\* ExecutionBuilder::isFinished and completedWith.
hasSyncFence == mSyncFenceFd # 0
FinishedOnceLaunched == mFinished \/ hasSyncFence
isFinished == mFinished \/ (hasSyncFence /\ FenceState(mSyncFenceFd) # "active")
WithoutFence == mCompletion
completedWith ==
    IF ~hasSyncFence THEN mCompletion
    ELSE IF FenceState(mSyncFenceFd) = "signaled" THEN "NO_ERROR" ELSE "OTHER_ERROR"

inFlight == mStarted /\ ~isFinished

\* The inputs of step i hold what they should: everything it depends on is over
\* and the steps before it are computed.
InputsReady(i) == Resolved(DOMAIN setup.deps) /\ \A j \in 1 .. i - 1 : data[j] = "good"
Computed(i) == IF InputsReady(i) THEN "good" ELSE "garbage"

-------------------------------------------------------------------------------
Init ==
    /\ setup \in Setups
    /\ dep = [d \in DOMAIN setup.deps |-> "active"]
    /\ mStarted = FALSE /\ mFinished = FALSE /\ mCompletion = "OTHER_ERROR"
    /\ mSyncFenceFd = 0 /\ execFreed = FALSE
    /\ initialized \in BOOLEAN
    /\ rpc = "off" /\ mNextStepIndex = 1 /\ syncFence = 0 /\ waitFor = {}
    /\ task = [i \in Steps |-> "none"] /\ waits = [i \in Steps |-> {}]
    /\ data = [i \in Steps |-> "unset"]
    /\ event = "none" /\ waiting = FALSE /\ learnt = "none"

\* A dependency, which is an execution of its own, completes normally or not.
DependencyEnds(d) ==
    /\ d \in DOMAIN dep /\ dep[d] = "active"
    /\ \E s \in {"signaled", "error"} : dep' = [dep EXCEPT ![d] = s]
    /\ UNCHANGED <<setup, builderVars, launchVars, deviceVars, clientVars>>

\* The call begins with waiting for the dependencies that have no fence.
StartComputeWithDependencies ==
    /\ rpc = "off" /\ ~execFreed
    /\ rpc' = "dependencies"
    /\ UNCHANGED <<setup, dep, builderVars, mNextStepIndex, syncFence, waitFor, deviceVars,
                   clientVars>>

\* ExecutionBuilder::computeFenced is entered with the fences of the others.
WaitDependencies ==
    /\ rpc = "dependencies"
    /\ Resolved(DependenciesBy("callback"))
    /\ mStarted' = TRUE
    /\ waitFor' = DependenciesBy("fence")
    /\ rpc' = "next"
    /\ UNCHANGED <<setup, dep, mFinished, mCompletion, mSyncFenceFd, execFreed, initialized,
                   mNextStepIndex, syncFence, deviceVars, clientVars>>

\* computeFenced returns n; only with NO_ERROR does the client get an event.
KeepFence(n, fence) ==
    /\ mSyncFenceFd' = syncFence
    /\ event' = IF n = "NO_ERROR" THEN "live" ELSE "none"
    /\ rpc' = "returned"
AlwaysAnEvent(n, fence) == mSyncFenceFd' = fence /\ event' = "live" /\ rpc' = "returned"
Returns(n, fence) ==
    /\ mSyncFenceFd' = fence
    /\ event' = IF n = "NO_ERROR" THEN "live" ELSE "none"
    /\ rpc' = "returned"

\* finishWithoutSyncFence of an execution that was computed, or not.
FinishWithoutSyncFence(ok) ==
    /\ initialized' = ok
    /\ mCompletion' = IF ok THEN "NO_ERROR" ELSE "OTHER_ERROR"
    /\ mFinished' = TRUE

-------------------------------------------------------------------------------
(* startComputeFenced.                                                      *)

AtEnd == mNextStepIndex > Len(setup.steps)

\* IfStep and WhileStep read a condition that the last step may still be
\* computing; waitForLastStepSyncFence.
ConditionIsReadable == Resolved(FenceSet(syncFence))

TakenAtOnce == TRUE
BranchTaken == Branch # "none" => ConditionIsReadable /\ AllSignaled(FenceSet(syncFence))

\* The end of the plan: without a fence everything is done already.
NextEnds ==
    /\ rpc = "next" /\ AtEnd /\ BranchTaken
    /\ IF syncFence = 0 THEN FinishWithoutSyncFence(TRUE)
       ELSE UNCHANGED <<mFinished, mCompletion, initialized>>
    /\ Returns("NO_ERROR", syncFence)
    /\ UNCHANGED <<setup, dep, mStarted, execFreed, mNextStepIndex, syncFence, waitFor, deviceVars,
                   waiting, learnt>>

NextStep ==
    /\ rpc = "next" /\ ~AtEnd /\ BranchTaken
    /\ mNextStepIndex' = mNextStepIndex + 1
    /\ rpc' = "step"
    /\ UNCHANGED <<setup, dep, builderVars, syncFence, waitFor, deviceVars, clientVars>>

\* next() fails: there was no memory for temporaries when the controller was made,
\* the fence of the last step is in error, the condition cannot be read, or the loop
\* takes too long, which is noticed before any waiting and which no fallback can make
\* good.
NextFails ==
    /\ rpc = "next" /\ (Branch # "none" \/ (mNextStepIndex = 1 /\ ~isSimple))
    /\ \/ /\ ConditionIsReadable /\ allowFallback
          /\ rpc' = "fallback"
          /\ UNCHANGED <<mSyncFenceFd, event>>
       \/ ConditionIsReadable /\ ~allowFallback /\ Returns("OP_FAILED", 0)
       \/ Branch = "while" /\ Returns("MISSED_DEADLINE_TRANSIENT", 0)
    /\ UNCHANGED <<setup, dep, mStarted, mFinished, mCompletion, execFreed, initialized,
                   mNextStepIndex, syncFence, waitFor, deviceVars, waiting, learnt>>

NoFence(fence) == {}
NextWaitFor(fence) == FenceSet(fence)

\* What the loop makes of a step that returned n and a fence.
StepReturns(n, fence) ==
    /\ syncFence' = fence
    /\ waitFor' = NextWaitFor(fence)
    /\ \/ n = "NO_ERROR" /\ rpc' = "next" /\ UNCHANGED <<mSyncFenceFd, event>>
       \/ n # "NO_ERROR" /\ ~allowFallback /\ Returns(n, 0)
       \/ n # "NO_ERROR" /\ allowFallback /\ rpc' = "fallback" /\ UNCHANGED <<mSyncFenceFd, event>>
    /\ UNCHANGED <<setup, dep, mStarted, mFinished, mCompletion, execFreed, initialized,
                   mNextStepIndex, waiting, learnt>>

\* A synchronous step: an older driver, the CPU, or a driver that answers with no
\* fence.  It waits for the fences itself and fails if one is in error.
RunStep ==
    /\ rpc = "step" /\ Resolved(waitFor)
    /\ \/ /\ AllSignaled(waitFor)
          /\ data' = [data EXCEPT ![Current] = Computed(Current)]
          /\ StepReturns("NO_ERROR", 0)
       \/ /\ data' \in {data, [data EXCEPT ![Current] = "garbage"]}
          /\ StepReturns("OP_FAILED", 0)
    /\ UNCHANGED <<task, waits>>

\* A driver accepts the work and hands out a fence.  With outputs in pointers the
\* runtime waits for the fence in order to copy them.
LaunchStep ==
    /\ rpc = "step" /\ StepAt(Current).device = "fenced"
    /\ task' = [task EXCEPT ![Current] = "queued"]
    /\ waits' = [waits EXCEPT ![Current] = waitFor]
    /\ IF StepAt(Current).pointers
       THEN /\ rpc' = "copy"
            /\ UNCHANGED <<setup, dep, builderVars, mNextStepIndex, syncFence, waitFor, clientVars>>
       ELSE StepReturns("NO_ERROR", Current)
    /\ UNCHANGED data

\* The driver accepts the work, but its fence cannot be duplicated: a failure
\* without a fence, and the device works all the same.
LoseFence ==
    /\ rpc = "step" /\ StepAt(Current).device = "fenced" /\ setup.fdsRunOut
    /\ task' = [task EXCEPT ![Current] = "queued"]
    /\ waits' = [waits EXCEPT ![Current] = waitFor]
    /\ StepReturns("OP_FAILED", 0)
    /\ UNCHANGED data

\* The driver refuses, or the runtime gives up before it asks one.
RefuseStep ==
    /\ rpc = "step" /\ StepAt(Current).device = "fenced"
    /\ StepReturns("OP_FAILED", 0)
    /\ UNCHANGED deviceVars

CopyOutputs ==
    /\ rpc = "copy" /\ Resolved({Current})
    /\ StepReturns(IF FenceState(Current) = "signaled" THEN "NO_ERROR" ELSE "OP_FAILED", Current)
    /\ UNCHANGED deviceVars

\* The fallback waits for the fences the client gave, and then the CPU computes
\* the whole model while a device may still be busy with a step.
Fallback ==
    /\ rpc = "fallback" /\ Resolved(DependenciesBy("fence"))
    /\ \/ /\ ~AllSignaled(DependenciesBy("fence"))
          /\ Returns("OP_FAILED", 0)
          /\ UNCHANGED <<mFinished, mCompletion, initialized, data>>
       \/ /\ AllSignaled(DependenciesBy("fence"))
          /\ FinishWithoutSyncFence(TRUE)
          /\ data' = [i \in Steps |-> IF task[i] = "running" THEN "garbage" ELSE "good"]
          /\ Returns("NO_ERROR", 0)
       \/ /\ AllSignaled(DependenciesBy("fence"))
          /\ FinishWithoutSyncFence(FALSE)
          /\ data' = [i \in Steps |-> "garbage"]
          /\ Returns("OP_FAILED", 0)
    /\ UNCHANGED <<setup, dep, mStarted, execFreed, mNextStepIndex, syncFence, waitFor, task, waits,
                   waiting, learnt>>

Runner == \/ WaitDependencies \/ NextEnds \/ NextStep \/ NextFails \/ RunStep \/ LaunchStep
          \/ LoseFence \/ RefuseStep \/ CopyOutputs \/ Fallback

-------------------------------------------------------------------------------
(* Devices.  A driver puts its fence in error when one it waits for is.     *)

DeviceStarts(i) ==
    /\ task[i] = "queued" /\ Resolved(waits[i])
    /\ IF AllSignaled(waits[i])
       THEN task' = [task EXCEPT ![i] = "running"] /\ data' = [data EXCEPT ![i] = "garbage"]
       ELSE task' = [task EXCEPT ![i] = "error"] /\ UNCHANGED data
    /\ UNCHANGED <<setup, dep, builderVars, launchVars, waits, clientVars>>

DeviceEnds(i) ==
    /\ task[i] = "running"
    /\ \/ task' = [task EXCEPT ![i] = "signaled"] /\ data' = [data EXCEPT ![i] = Computed(i)]
       \/ task' = [task EXCEPT ![i] = "error"] /\ UNCHANGED data
    /\ UNCHANGED <<setup, dep, builderVars, launchVars, waits, clientVars>>

Device(i) == DeviceStarts(i) \/ DeviceEnds(i)

-------------------------------------------------------------------------------
(* The client, once the call has returned.                                  *)

EventWait ==
    /\ event = "live" /\ ~waiting /\ learnt = "none"
    /\ waiting' = TRUE
    /\ UNCHANGED <<setup, dep, builderVars, launchVars, deviceVars, event, learnt>>

\* SyncFenceEvent::wait and getStatus; an event without a fence is a success.
EventWaitReturns ==
    /\ waiting
    /\ Resolved(FenceSet(mSyncFenceFd))
    /\ learnt' = IF AllSignaled(FenceSet(mSyncFenceFd)) THEN "NO_ERROR" ELSE "OTHER_ERROR"
    /\ waiting' = FALSE
    /\ UNCHANGED <<setup, dep, builderVars, launchVars, deviceVars, event>>

\* ANeuralNetworksExecution_free, ignored while the execution is in flight.  The
\* event has duplicated the fence.
ExecutionFree ==
    /\ rpc \in {"off", "returned"} /\ ~execFreed
    /\ ~inFlight
    /\ execFreed' = TRUE
    /\ UNCHANGED <<setup, dep, mStarted, mFinished, mCompletion, mSyncFenceFd, initialized,
                   launchVars, deviceVars, clientVars>>

\* Everything is over: the call has returned or was never made, and no device
\* and no client is busy.
Terminated ==
    /\ rpc = "returned" \/ (rpc = "off" /\ execFreed)
    /\ Resolved(DOMAIN dep \cup {i \in Steps : task[i] # "none"}) /\ ~waiting
    /\ UNCHANGED vars

Next == \/ StartComputeWithDependencies \/ Runner
        \/ \E d \in Dependencies : DependencyEnds(d)
        \/ \E i \in Steps : Device(i)
        \/ EventWait \/ EventWaitReturns \/ ExecutionFree \/ Terminated

\* Dependencies end, devices work, and the thread inside a call keeps running.
Fairness == /\ WF_vars(Runner) /\ WF_vars(EventWaitReturns)
            /\ WF_vars(\E d \in Dependencies : DependencyEnds(d))
            /\ WF_vars(\E i \in Steps : Device(i))

Spec == Init /\ [][Next]_vars /\ Fairness

-------------------------------------------------------------------------------
(* Properties.                                                              *)

Fences == Dependencies \cup Steps

\* Every variable has its type, and the execution never has both a fence and a
\* completion without one, on which isFinished would abort the process.
TypeOK ==
    /\ setup \in Setups /\ dep \in [DOMAIN setup.deps -> {"active", "signaled", "error"}]
    /\ mStarted \in BOOLEAN /\ mFinished \in BOOLEAN
    /\ mCompletion \in {"NO_ERROR", "OTHER_ERROR"}
    /\ mSyncFenceFd \in Steps \cup {0}
    /\ ~(mFinished /\ hasSyncFence)
    /\ execFreed \in BOOLEAN /\ initialized \in BOOLEAN
    /\ rpc \in {"off", "dependencies", "next", "step", "copy", "fallback", "returned"}
    /\ mNextStepIndex \in 1 .. Len(setup.steps) + 1 /\ syncFence \in Steps \cup {0}
    /\ waitFor \subseteq Fences
    /\ task \in [Steps -> {"none", "queued", "running", "signaled", "error"}]
    /\ waits \in [Steps -> SUBSET Fences]
    /\ data \in [Steps -> {"unset", "garbage", "good"}]
    /\ event \in {"none", "live"} /\ waiting \in BOOLEAN
    /\ learnt \in {"none", "NO_ERROR", "OTHER_ERROR"}

\* A success means that the outputs are ready, whoever asks: what every step
\* computed is in place, and no device is still working on it.
SuccessMeansReady ==
    isFinished /\ completedWith = "NO_ERROR" => \A i \in Steps : data[i] = "good"

\* The steps are serialized although all are launched at once: a device works
\* on a step only when all dependencies are over and every step before it has
\* ended well.  Branches and double-buffered loops rely on it.
StepsSerialized ==
    \A i \in Steps : task[i] = "running" =>
        /\ Resolved(DependenciesBy("callback")) /\ AllSignaled(DependenciesBy("fence"))
        /\ \A j \in 1 .. i - 1 : task[j] \in {"none", "signaled"}

\* An execution is not freed as long as a device works for it.
DevicesDoneBeforeFree == execFreed => \A i \in Steps : task[i] \notin {"queued", "running"}

\* The condition of an IF or a WHILE is read only after the steps before it
\* have computed it.
ConditionsAreComputed ==
    [][rpc = "next" /\ mNextStepIndex' # mNextStepIndex /\ Branch # "none" =>
           \A j \in 1 .. mNextStepIndex - 1 : data[j] = "good"]_vars

\* The execution as its client sees it; what it is told by the event is what
\* the execution itself says.  Only the safety part: the liveness part fails
\* for a call that returns an error without having finished the execution.
Contract == INSTANCE ExecutionContract WITH
    Clients  <- {"client"},
    Outcomes <- {"NO_ERROR", "OTHER_ERROR"},
    phase    <- IF isFinished THEN "finished" ELSE IF mStarted THEN "running" ELSE "ready",
    outcome  <- IF isFinished THEN completedWith ELSE "pending",
    freed    <- execFreed,
    told     <- [c \in {"client"} |->
                    IF learnt # "none" THEN learnt ELSE IF waiting THEN "asked" ELSE "nothing"]

\* One outcome, which never changes and which the event reports.
KeepsContract == Contract!Init /\ [][Contract!Next]_(Contract!vars)

\* An event that was handed out is signaled.
EventIsSignaled == event = "live" ~> isFinished

-------------------------------------------------------------------------------
(* Statements of the documentation that the code does not keep.             *)

\* NeuralNetworks.h: if any of the events in dependencies does not complete
\* normally, the execution will fail.
FailedDependencyFailsExecution ==
    isFinished /\ completedWith = "NO_ERROR" => AllSignaled(DOMAIN setup.deps)

\* NeuralNetworks.h: the execution will wait for all the depending events to be
\* signaled before starting the evaluation.  Reading a condition is part of it.
NothingBeforeDependencies ==
    [][rpc = "next" /\ mNextStepIndex' # mNextStepIndex /\ Branch # "none" =>
           Resolved(DOMAIN setup.deps)]_vars

\* NeuralNetworks.h: the buffer of a memory object is initialized after the
\* memory object is used as an output in a successful execution, and it will
\* return to the uninitialized state if that execution fails.
MemoryTellsTheOutcome == isFinished => (initialized <=> completedWith = "NO_ERROR")
===============================================================================
