------------------------------ MODULE FencedProof ------------------------------
(***************************************************************************)
(* Proofs about FencedExecution, for any number of steps and dependencies  *)
(* and for any kind of device and branch.  What holds only as long as the  *)
(* CPU fallback never finds a device at work says so: FallbackIsAlone.     *)
(***************************************************************************)
EXTENDS FencedExecution, TLAPS

-------------------------------------------------------------------------------
(* The inductive invariant.                                                 *)

Launching == rpc \notin {"off", "dependencies"}
Busy(i) == task[i] \in {"queued", "running"}

\* The type invariant, with what keeps its indexes in range: nothing is finished
\* or handed to the client before the call returns, and a step is yielded before
\* it is run.
TypeInv ==
    /\ TypeOK
    /\ waitFor \subseteq DOMAIN setup.deps \cup Steps
    /\ rpc # "returned" => ~mFinished /\ mSyncFenceFd = 0 /\ event = "none"
    /\ rpc \in {"step", "copy"} => Current \in Steps

DependenciesSignaled == AllSignaled(DependenciesBy("fence"))
CallbacksResolved    == Resolved(DependenciesBy("callback"))

\* The steps up to n have ended well, and nothing that they depend on is missing.
Ready(n) ==
    /\ DependenciesSignaled
    /\ \A j \in 1 .. n : /\ task[j] \in {"none", "signaled"}
                         /\ ~mFinished => data[j] = "good"

\* The fences that step n + 1 waits for stand for all that comes before it.
Settled(fences, n) ==
    \/ n = 0 /\ fences = DependenciesBy("fence")
    \/ n >= 1 /\ fences = {} /\ Ready(n)
    \/ n >= 1 /\ fences = {n} /\ task[n] # "none"

Progress(i) ==
    /\ i <= Current /\ Settled(waits[i], i - 1)
    /\ task[i] = "running" => Ready(i - 1)
    /\ task[i] = "signaled" => Ready(i)
    /\ task[i] = "error" => \A j \in 1 .. i : ~Busy(j)

PipelineInv ==
    /\ Launching => CallbacksResolved
    /\ ~Launching => mNextStepIndex = 1 /\ syncFence = 0 /\ \A i \in Steps : task[i] = "none"
    /\ \A i \in Steps : task[i] # "none" => Progress(i)
    /\ rpc = "next" => /\ Settled(waitFor, Current)
                       /\ waitFor = FenceSet(syncFence) \/ (Current = 0 /\ syncFence = 0)
    /\ rpc \in {"step", "copy"} => /\ Settled(waitFor, Current - 1)
                                   /\ task[Current] = "none" <=> rpc = "step"

\* When the CPU computes the whole model no device is at work.  The code does not
\* see to it: the fallback waits for the fences of the client, and for no others.
Alone == Fallback => \A i \in Steps : ~Busy(i)
FallbackIsAlone == [][Alone]_vars

\* Executions in which the fallback is alone: it may come only if no fence can be
\* lost and no step but the last can leave work behind.
NoDeviceLeftBehind ==
    setup.allowFallback =>
        /\ ~setup.fdsRunOut
        /\ \A i \in 1 .. Len(setup.steps) - 1 :
               StepAt(i).device = "fenced" => StepAt(i).pointers

\* Where the work is of which the fallback could get in the way.
LeftInv ==
    /\ rpc = "fallback" => setup.allowFallback
    /\ setup.allowFallback =>
           \A i \in Steps : Busy(i) =>
               /\ i = Current
               /\ rpc = "copy" \/ (i = Len(setup.steps) /\ rpc \in {"next", "returned"})
               /\ rpc = "next" => syncFence = i

\* What is said of the outcome, by the builder and by the event.
FinishInv ==
    /\ mStarted <=> Launching
    /\ mSyncFenceFd # 0 => mSyncFenceFd = Len(setup.steps) /\ task[mSyncFenceFd] # "none"
    /\ event = "live" => mSyncFenceFd # 0 \/ (mFinished /\ mCompletion = "NO_ERROR")
    /\ waiting \/ learnt # "none" => event = "live"
    /\ ~(waiting /\ learnt # "none")
    /\ learnt # "none" => isFinished /\ learnt = completedWith
    /\ execFreed => rpc \in {"off", "returned"} /\ (mStarted => isFinished)

\* An execution that is finished without a fence needs no device any more.
DoneInv ==
    mFinished => /\ \A i \in Steps : ~Busy(i)
                 /\ mCompletion = "NO_ERROR" => \A i \in Steps : data[i] = "good"

-------------------------------------------------------------------------------
(* Types.                                                                   *)

\* What the assumption says of the execution at hand.
LEMMA SetupFacts ==
    ASSUME setup \in Setups
    PROVE  /\ setup.steps \in Seq(Step) /\ Len(setup.steps) \in Nat \ {0}
           /\ Steps = 1 .. Len(setup.steps)
           /\ DOMAIN setup.deps \subseteq Dependencies
           /\ setup.deps \in [DOMAIN setup.deps -> {"fence", "callback"}]
           /\ \A i \in Steps : i \notin Dependencies /\ i \in Nat \ {0}
           /\ 0 \notin Dependencies
BY SetupsAssumption, DependenciesAssumption DEF Steps

\* A fence is one of a dependency or of a step, or no fence.
LEMMA FenceSetType ==
    ASSUME NEW fd \in Steps \cup {0}
    PROVE  FenceSet(fd) \subseteq Steps
BY DEF FenceSet

\* Nothing has been launched initially.
LEMMA TypeInit == Init => TypeInv
<1> SUFFICES ASSUME Init PROVE TypeInv
  OBVIOUS
<1>1. setup \in Setups
  BY DEF Init
<1>2. 1 \in 1 .. Len(setup.steps) + 1 /\ dep \in [DOMAIN setup.deps -> {"active", "signaled", "error"}]
  BY <1>1, SetupFacts DEF Init
<1>3. /\ task \in [Steps -> {"none", "queued", "running", "signaled", "error"}]
      /\ waits \in [Steps -> SUBSET Fences]
      /\ data \in [Steps -> {"unset", "garbage", "good"}]
  BY DEF Init
<1> QED BY <1>1, <1>2, <1>3 DEF Init, TypeInv, TypeOK, hasSyncFence

\* What the loop makes of a step: the fence goes to the next one, or the call
\* returns an error, or the fallback takes over.
LEMMA StepOutcome ==
    ASSUME TypeInv, rpc \in {"step", "copy"}, NEW n, NEW fence, StepReturns(n, fence)
    PROVE  /\ UNCHANGED <<setup, dep, builderVars, mNextStepIndex, clientVars>>
           /\ syncFence' = fence /\ waitFor' = FenceSet(fence)
           /\ rpc' = IF n = "NO_ERROR" THEN "next"
                     ELSE IF allowFallback THEN "fallback" ELSE "returned"
<1>1. mSyncFenceFd = 0 /\ event = "none"
  BY DEF TypeInv
<1>2. /\ UNCHANGED <<setup, dep, mStarted, mFinished, mCompletion, execFreed, initialized,
                     mNextStepIndex, waiting, learnt>>
      /\ syncFence' = fence /\ waitFor' = FenceSet(fence)
      /\ mSyncFenceFd' = 0 /\ event' = "none"
  BY <1>1, Zenon DEF StepReturns, Returns, NextWaitFor
<1>3. rpc' = IF n = "NO_ERROR" THEN "next" ELSE IF allowFallback THEN "fallback" ELSE "returned"
  BY Zenon DEF StepReturns, Returns
<1> QED BY <1>1, <1>2, <1>3 DEF builderVars, clientVars

\* The execution stays the one it is.
LEMMA SameSetup == [Next]_vars => UNCHANGED <<setup, Steps>>
<1>1. [Next]_vars => UNCHANGED setup
  BY Zenon
     DEF Next, vars, Runner, Device, StartComputeWithDependencies, WaitDependencies, NextEnds,
         NextStep, NextFails, RunStep, LaunchStep, LoseFence, RefuseStep, CopyOutputs, StepReturns, Fallback,
         DependencyEnds, DeviceStarts, DeviceEnds, EventWait, EventWaitReturns, ExecutionFree,
         Terminated
<1> QED BY <1>1 DEF Steps

\* A completion without a fence is well typed.
LEMMA FinishType ==
    ASSUME NEW ok \in BOOLEAN, FinishWithoutSyncFence(ok)
    PROVE  /\ initialized' \in BOOLEAN /\ mCompletion' \in {"NO_ERROR", "OTHER_ERROR"}
           /\ mFinished' = TRUE
BY DEF FinishWithoutSyncFence

\* Every step keeps the types, and the flags wait for the return.
LEMMA TypeStep == TypeInv /\ [Next]_vars => TypeInv'
<1> SUFFICES ASSUME TypeInv, [Next]_vars PROVE TypeInv'
  OBVIOUS
<1> USE DEF builderVars, launchVars, deviceVars, clientVars
<1>0. /\ TypeOK /\ setup \in Setups /\ Len(setup.steps) \in Nat \ {0}
      /\ Steps = 1 .. Len(setup.steps)
      /\ waitFor \subseteq DOMAIN setup.deps \cup Steps
      /\ DOMAIN setup.deps \subseteq Dependencies
      /\ rpc # "returned" => ~mFinished /\ mSyncFenceFd = 0 /\ event = "none"
      /\ rpc \in {"step", "copy"} => Current \in Steps
  BY SetupFacts DEF TypeInv, TypeOK
<1>a. UNCHANGED <<setup, Steps>>
  BY SameSetup
<1> USE DEF TypeOK, hasSyncFence, Fences
<1>1. CASE StartComputeWithDependencies
  BY <1>0, <1>a, <1>1 DEF StartComputeWithDependencies, TypeInv
<1>2. CASE WaitDependencies
  <2>1. DependenciesBy("fence") \subseteq DOMAIN setup.deps
    BY DEF DependenciesBy
  <2> QED BY <1>0, <1>a, <1>2, <2>1 DEF WaitDependencies, TypeInv
<1>3. CASE NextEnds
  <2>1. /\ initialized' \in BOOLEAN /\ mCompletion' \in {"NO_ERROR", "OTHER_ERROR"}
        /\ mFinished' \in BOOLEAN /\ (mFinished' => syncFence = 0)
    BY <1>0, <1>3, FinishType DEF NextEnds
  <2> QED BY <1>0, <1>a, <1>3, <2>1 DEF NextEnds, Returns, TypeInv
<1>4. CASE NextStep
  BY <1>0, <1>a, <1>4 DEF NextStep, AtEnd, TypeInv, Current
<1>5. CASE NextFails
  <2>1. /\ UNCHANGED <<setup, dep, mStarted, mFinished, mCompletion, execFreed, initialized,
                       mNextStepIndex, syncFence, waitFor, deviceVars, waiting, learnt>>
        /\ rpc = "next" /\ mSyncFenceFd' = 0 /\ event' = "none" /\ rpc' \in {"fallback", "returned"}
    BY <1>0, <1>5, Zenon DEF NextFails, Returns
  <2> QED BY <1>0, <1>a, <2>1 DEF TypeInv
<1>6. CASE RunStep
  <2>1. /\ rpc = "step" /\ UNCHANGED <<task, waits>>
        /\ \E n : StepReturns(n, 0)
        /\ data' = data \/ data' = [data EXCEPT ![Current] = "garbage"]
           \/ data' = [data EXCEPT ![Current] = Computed(Current)]
    BY <1>6 DEF RunStep
  <2>2. data' \in [Steps -> {"unset", "garbage", "good"}]
    BY <1>0, <2>1 DEF Computed
  <2>3. /\ UNCHANGED <<setup, dep, builderVars, mNextStepIndex, clientVars>>
        /\ syncFence' = 0 /\ waitFor' = {} /\ rpc' \in {"next", "fallback", "returned"}
    BY <2>1, StepOutcome DEF FenceSet
  <2> QED BY <1>0, <1>a, <2>1, <2>2, <2>3 DEF TypeInv
<1>7. CASE LaunchStep
  <2>1. /\ rpc = "step" /\ UNCHANGED data /\ Current \in Steps
        /\ task' = [task EXCEPT ![Current] = "queued"] /\ waits' = [waits EXCEPT ![Current] = waitFor]
    BY <1>0, <1>7 DEF LaunchStep
  <2>2. CASE StepAt(Current).pointers
    BY <1>0, <1>a, <1>7, <2>1, <2>2 DEF LaunchStep, TypeInv, Current
  <2>3. CASE ~StepAt(Current).pointers
    <3>1. StepReturns("NO_ERROR", Current)
      BY <1>7, <2>3 DEF LaunchStep
    <3>2. /\ UNCHANGED <<setup, dep, builderVars, mNextStepIndex, clientVars>>
          /\ syncFence' \in Steps /\ waitFor' \subseteq Steps /\ rpc' = "next"
      BY <2>1, <3>1, StepOutcome, FenceSetType
    <3> QED BY <1>0, <1>a, <2>1, <3>2 DEF TypeInv
  <2> QED BY <2>2, <2>3
<1>16. CASE LoseFence
  <2>1. /\ rpc = "step" /\ UNCHANGED data /\ Current \in Steps /\ StepReturns("OP_FAILED", 0)
        /\ task' = [task EXCEPT ![Current] = "queued"] /\ waits' = [waits EXCEPT ![Current] = waitFor]
    BY <1>0, <1>16 DEF LoseFence
  <2>2. /\ UNCHANGED <<setup, dep, builderVars, mNextStepIndex, clientVars>>
        /\ syncFence' = 0 /\ waitFor' = {} /\ rpc' \in {"fallback", "returned"}
    BY <2>1, StepOutcome DEF FenceSet
  <2> QED BY <1>0, <1>a, <2>1, <2>2 DEF TypeInv
<1>8. CASE RefuseStep
  <2>1. /\ UNCHANGED <<setup, dep, builderVars, mNextStepIndex, clientVars, deviceVars>>
        /\ syncFence' = 0 /\ waitFor' = {} /\ rpc = "step" /\ rpc' \in {"next", "fallback", "returned"}
    BY <1>8, StepOutcome DEF RefuseStep, FenceSet
  <2> QED BY <1>0, <1>a, <2>1 DEF TypeInv
<1>9. CASE CopyOutputs
  <2>1. rpc = "copy" /\ Current \in Steps /\ UNCHANGED deviceVars /\ \E n : StepReturns(n, Current)
    BY <1>0, <1>9 DEF CopyOutputs
  <2>2. /\ UNCHANGED <<setup, dep, builderVars, mNextStepIndex, clientVars>>
        /\ syncFence' \in Steps /\ waitFor' \subseteq Steps
        /\ rpc' \in {"next", "fallback", "returned"}
    BY <2>1, StepOutcome, FenceSetType
  <2> QED BY <1>0, <1>a, <2>1, <2>2 DEF TypeInv
<1>10. CASE Fallback
  <2>1. /\ rpc = "fallback" /\ rpc' = "returned" /\ mSyncFenceFd' = 0 /\ event' \in {"none", "live"}
        /\ UNCHANGED <<setup, dep, mStarted, execFreed, mNextStepIndex, syncFence, waitFor, task,
                       waits, waiting, learnt>>
    BY <1>10 DEF Fallback, Returns
  <2>2. data' \in [Steps -> {"unset", "garbage", "good"}]
    BY <1>0, <1>10 DEF Fallback
  <2>3. /\ initialized' \in BOOLEAN /\ mCompletion' \in {"NO_ERROR", "OTHER_ERROR"}
        /\ mFinished' \in BOOLEAN
    BY <1>0, <1>10, FinishType DEF Fallback
  <2> QED BY <1>0, <1>a, <2>1, <2>2, <2>3 DEF TypeInv
<1>11. ASSUME NEW d \in Dependencies, DependencyEnds(d) PROVE TypeInv'
  BY <1>0, <1>a, <1>11 DEF DependencyEnds, TypeInv, Current
<1>12. ASSUME NEW i \in Steps, DeviceStarts(i) PROVE TypeInv'
  BY SMTT(40), <1>0, <1>a, <1>12 DEF DeviceStarts, TypeInv, Current
<1>13. ASSUME NEW i \in Steps, DeviceEnds(i) PROVE TypeInv'
  <2>1. data' \in [Steps -> {"unset", "garbage", "good"}]
    BY <1>0, <1>13 DEF DeviceEnds, Computed
  <2> QED BY SMTT(40), <1>0, <1>a, <1>13, <2>1 DEF DeviceEnds, TypeInv, Current
<1>14. CASE EventWait \/ EventWaitReturns \/ ExecutionFree
  <2>1. learnt' \in {"none", "NO_ERROR", "OTHER_ERROR"}
    BY <1>0, <1>14 DEF EventWait, EventWaitReturns, ExecutionFree
  <2>2. waiting' \in BOOLEAN /\ execFreed' \in BOOLEAN
    BY <1>0, <1>14 DEF EventWait, EventWaitReturns, ExecutionFree
  <2>3. UNCHANGED <<dep, mStarted, mFinished, mCompletion, mSyncFenceFd, initialized, launchVars,
                    deviceVars, event>>
    BY <1>14 DEF EventWait, EventWaitReturns, ExecutionFree
  <2> QED BY <1>0, <1>a, <2>1, <2>2, <2>3 DEF TypeInv, Current
<1>15. CASE Terminated \/ UNCHANGED vars
  BY <1>0, <1>a, <1>15 DEF Terminated, vars, TypeInv, Current
<1> QED
  BY <1>1, <1>2, <1>3, <1>4, <1>5, <1>6, <1>7, <1>8, <1>9, <1>10, <1>11, <1>12, <1>13, <1>14,
     <1>15, <1>16, Zenon
     DEF Next, Runner, Device

\* Every variable has its type, and an execution never has both a fence and a
\* completion without one.
THEOREM Typing == Spec => []TypeOK
<1>1. TypeInv => TypeOK
  BY DEF TypeInv
<1> QED BY <1>1, TypeInit, TypeStep, PTL DEF Spec
-------------------------------------------------------------------------------
(* The pipeline: the one fence that a step waits for stands for everything    *)
(* that comes before it.                                                      *)

\* A dependency that is over stays over.
LEMMA DependenciesStay ==
    ASSUME TypeInv, UNCHANGED setup,
           \A d \in DOMAIN setup.deps : dep[d] # "active" => dep'[d] = dep[d]
    PROVE  /\ DependenciesSignaled => DependenciesSignaled'
           /\ CallbacksResolved => CallbacksResolved'
<1>1. \A d \in DOMAIN setup.deps : FenceState(d) # "active" => FenceState(d)' = FenceState(d)
  BY SetupFacts DEF FenceState, TypeInv, TypeOK
<1>2. \A k : DependenciesBy(k) \subseteq DOMAIN setup.deps /\ DependenciesBy(k)' = DependenciesBy(k)
  BY DEF DependenciesBy
<1> QED
  BY <1>1, <1>2 DEF DependenciesSignaled, CallbacksResolved, AllSignaled, Resolved

\* Once the fences are signaled and the callbacks resolved, all dependencies are over.
LEMMA AllDependencies ==
    ASSUME TypeInv, DependenciesSignaled, CallbacksResolved
    PROVE  Resolved(DOMAIN setup.deps)
BY SetupFacts
   DEF TypeInv, TypeOK, DependenciesSignaled, CallbacksResolved, AllSignaled, Resolved,
       DependenciesBy

\* What a step of the plan waits for stands for all the steps before it.
LEMMA SettledReady ==
    ASSUME TypeInv, PipelineInv, NEW n \in Nat, n <= Len(setup.steps), NEW fences,
           Settled(fences, n), AllSignaled(fences)
    PROVE  Ready(n)
<1>1. CASE n = 0 /\ fences = DependenciesBy("fence")
  BY <1>1 DEF Ready, DependenciesSignaled
<1>2. CASE n >= 1 /\ fences = {n}
  <2>1. n \in Steps /\ n \notin Dependencies
    BY <1>2, SetupFacts DEF TypeInv, TypeOK
  <2>2. task[n] = "signaled"
    BY <1>2, <2>1 DEF AllSignaled, FenceState
  <2> QED BY <2>1, <2>2 DEF PipelineInv, Progress
<1> QED BY <1>1, <1>2 DEF Settled

\* What is ready stays so, if a step leaves alone the results it is about.
LEMMA ReadyStays ==
    ASSUME NEW n \in Nat, Ready(n), DependenciesSignaled => DependenciesSignaled',
           mFinished => mFinished',
           \A j \in 1 .. n : task'[j] = task[j] /\ (mFinished' \/ data'[j] = data[j])
    PROVE  Ready(n)'
BY DEF Ready

\* The devices take no notice of what happens on the host, unless the step that is
\* being run, which is not theirs, or the end of the execution writes results.
LEMMA ProgressStays ==
    ASSUME TypeInv, UNCHANGED <<setup, task, waits>>, Steps' = Steps,
           DependenciesSignaled => DependenciesSignaled',
           mFinished => mFinished', mNextStepIndex' \in Int, mNextStepIndex' >= mNextStepIndex,
           \A i \in Steps : task[i] # "none" => Progress(i),
           \/ mFinished'
           \/ data' = data
           \/ \A j \in Steps : j >= Current \/ data'[j] = data[j],
           \/ mFinished' \/ data' = data \/ \A i \in Steps : task[i] # "none" => i < Current
    PROVE  (\A i \in Steps : task[i] # "none" => Progress(i))'
<1> SUFFICES ASSUME NEW i \in Steps, task[i] # "none" PROVE Progress(i)'
  OBVIOUS
<1>0. i \in Nat /\ i - 1 \in Nat /\ Progress(i) /\ mNextStepIndex \in Int /\ Steps = 1 .. Len(setup.steps)
      /\ i <= Len(setup.steps) /\ Len(setup.steps) \in Nat
  BY SetupFacts DEF TypeInv, TypeOK
<1>1. ASSUME NEW n \in Nat, n <= i, Ready(n) PROVE Ready(n)'
  <2>1. \A j \in 1 .. n : mFinished' \/ data'[j] = data[j]
    BY <1>0, <1>1 DEF Current
  <2> QED BY <1>1, <2>1, ReadyStays
<1>2. Ready(i - 1) => Ready(i - 1)'
  BY <1>0, <1>1
<1>3. Ready(i) => Ready(i)'
  BY <1>0, <1>1
<1>4. Settled(waits[i], i - 1)'
  BY <1>0, <1>2 DEF Progress, Settled, DependenciesBy
<1>5. i <= Current'
  BY <1>0 DEF Progress, Current
<1> QED BY <1>0, <1>2, <1>3, <1>4, <1>5 DEF Progress, Busy

\* A device changes nothing that is ready.
LEMMA DeviceKeepsReady ==
    ASSUME TypeInv, NEW i \in Steps, Busy(i), UNCHANGED <<setup, dep, mFinished>>,
           \A j \in Steps \ {i} : task'[j] = task[j] /\ data'[j] = data[j],
           NEW n \in Nat, n <= Len(setup.steps), Ready(n)
    PROVE  n < i /\ Ready(n)'
<1>1. i \in Nat /\ Steps = 1 .. Len(setup.steps) /\ Len(setup.steps) \in Nat
  BY SetupFacts DEF TypeInv, TypeOK
<1>2. n < i
  BY <1>1 DEF Ready, Busy
<1>3. DependenciesSignaled => DependenciesSignaled'
  BY DependenciesStay
<1>4. \A j \in 1 .. n : j \in Steps \ {i}
  BY <1>1, <1>2
<1> QED BY <1>2, <1>3, <1>4, ReadyStays

\* If a device at work does not disturb what it may not, the others notice nothing.
LEMMA DeviceKeepsProgress ==
    ASSUME TypeInv, PipelineInv, NEW i \in Steps, Busy(i),
           UNCHANGED <<setup, dep, mFinished, launchVars, waits>>, Steps' = Steps,
           \A j \in Steps \ {i} : task'[j] = task[j] /\ data'[j] = data[j],
           task'[i] # "none", Progress(i)'
    PROVE  PipelineInv'
<1> USE DEF launchVars
<1>0. /\ Steps = 1 .. Len(setup.steps) /\ Len(setup.steps) \in Nat /\ mNextStepIndex \in Int
      /\ mNextStepIndex >= 1 /\ mNextStepIndex <= Len(setup.steps) + 1
      /\ rpc \in {"step", "copy"} => Current \in Steps
  BY SetupFacts DEF TypeInv, TypeOK
<1>1. \A n \in Nat : n <= Len(setup.steps) /\ Ready(n) => Ready(n)'
  BY DeviceKeepsReady
<1>2. ASSUME NEW k \in Steps \ {i}, task[k] # "none" PROVE Progress(k)'
  <2>1. k - 1 \in Nat /\ k - 1 <= Len(setup.steps) /\ k \in Nat /\ k <= Len(setup.steps) /\ Progress(k)
    BY <1>0, <1>2 DEF PipelineInv
  <2>2. (Ready(k - 1) => Ready(k - 1)') /\ (Ready(k) => Ready(k)')
    BY <1>1, <2>1
  <2>3. Settled(waits[k], k - 1)'
    BY <1>0, <2>1, <2>2 DEF Progress, Settled, DependenciesBy
  <2>4. task[k] = "error" => i \notin 1 .. k /\ \A j \in 1 .. k : ~Busy(j)'
    BY <1>0, <2>1 DEF Progress, Busy
  <2> QED BY <1>0, <1>2, <2>1, <2>2, <2>3, <2>4 DEF Progress, Current
<1>3. ASSUME NEW n \in Nat, n <= Len(setup.steps), Settled(waitFor, n) PROVE Settled(waitFor, n)'
  BY <1>0, <1>1, <1>3 DEF Settled, DependenciesBy
<1>4. CallbacksResolved => CallbacksResolved'
  BY DependenciesStay
<1>5. rpc = "next" => Settled(waitFor, Current)'
  <2>1. Current \in Nat /\ Current <= Len(setup.steps) /\ Current' = Current
    BY <1>0 DEF Current
  <2>2. PICK n \in Nat : n = Current
    BY <2>1
  <2> QED BY <1>3, <2>1, <2>2 DEF PipelineInv, Settled, Ready
<1>6. rpc \in {"step", "copy"} => Settled(waitFor, Current - 1)'
  <2> SUFFICES ASSUME rpc \in {"step", "copy"} PROVE Settled(waitFor, Current - 1)'
    OBVIOUS
  <2>1. Current - 1 \in Nat /\ Current - 1 <= Len(setup.steps) /\ Current' = Current
    BY <1>0 DEF Current
  <2>2. PICK n \in Nat : n = Current - 1
    BY <2>1
  <2> QED BY <1>3, <2>1, <2>2 DEF PipelineInv, Settled, Ready
<1>7. rpc \in {"step", "copy"} => (task[Current] = "none" <=> rpc = "step")'
  <2>1. Current' = Current
    BY DEF Current
  <2> QED BY <1>0, <2>1 DEF PipelineInv, Busy
<1>8. ~Launching => \A k \in Steps : ~Busy(k)
  BY DEF PipelineInv, Busy
<1>9. Launching' = Launching /\ Current' = Current /\ FenceSet(syncFence)' = FenceSet(syncFence)
  BY DEF Launching, Current, FenceSet
<1> QED BY <1>2, <1>4, <1>5, <1>6, <1>7, <1>8, <1>9 DEF PipelineInv

\* What the host does between two steps leaves the pipeline as it is.
LEMMA HostKeepsProgress ==
    ASSUME TypeInv, PipelineInv, UNCHANGED <<setup, dep, deviceVars, mNextStepIndex>>,
           mFinished => mFinished'
    PROVE  /\ (\A i \in Steps : task[i] # "none" => Progress(i))'
           /\ CallbacksResolved => CallbacksResolved'
<1>1. Steps' = Steps /\ mNextStepIndex \in Int
  BY DEF Steps, TypeInv, TypeOK
<1>2. DependenciesSignaled => DependenciesSignaled'
  BY DependenciesStay
<1>3. CallbacksResolved => CallbacksResolved'
  BY DependenciesStay
<1> QED BY <1>1, <1>2, <1>3, ProgressStays DEF PipelineInv, deviceVars

\* Nothing is launched before its turn.
LEMMA PipelineInit == Init => PipelineInv
<1> SUFFICES ASSUME Init PROVE PipelineInv
  OBVIOUS
<1> QED BY DEF Init, PipelineInv, Launching, Steps

\* A step that the host runs itself is over when it has been run.
LEMMA RunKeepsPipeline ==
    ASSUME TypeInv, PipelineInv, RunStep, Steps' = Steps PROVE PipelineInv'
<1>0. /\ Steps = 1 .. Len(setup.steps) /\ Len(setup.steps) \in Nat /\ mNextStepIndex \in Int
      /\ data \in [Steps -> {"unset", "garbage", "good"}]
      /\ rpc = "step" /\ Current \in Steps /\ Current - 1 \in Nat /\ Current - 1 <= Len(setup.steps)
      /\ ~mFinished /\ Launching /\ CallbacksResolved /\ task[Current] = "none"
  BY SetupFacts DEF RunStep, TypeInv, TypeOK, PipelineInv, Launching, Current
<1>1. /\ UNCHANGED <<task, waits>>
      /\ \/ /\ AllSignaled(waitFor) /\ StepReturns("NO_ERROR", 0)
            /\ data' = [data EXCEPT ![Current] = Computed(Current)]
         \/ /\ StepReturns("OP_FAILED", 0)
            /\ data' = data \/ data' = [data EXCEPT ![Current] = "garbage"]
  BY DEF RunStep
<1>2. /\ UNCHANGED <<setup, dep, builderVars, mNextStepIndex>>
      /\ syncFence' = 0 /\ waitFor' = {} /\ FenceSet(syncFence)' = {}
      /\ rpc' \in {"next", "fallback", "returned"}
  BY <1>0, <1>1, StepOutcome DEF FenceSet
<1>3. /\ DependenciesSignaled => DependenciesSignaled'
      /\ CallbacksResolved => CallbacksResolved'
  BY <1>2, DependenciesStay
<1>4. \A j \in Steps : j >= Current \/ data'[j] = data[j]
  BY <1>0, <1>1
<1>5. \A i \in Steps : task[i] # "none" => Progress(i) /\ i < Current
  BY <1>0 DEF PipelineInv, Progress
<1>6. (\A i \in Steps : task[i] # "none" => Progress(i))'
  <2>1. mNextStepIndex' \in Int /\ mNextStepIndex' >= mNextStepIndex /\ mFinished' = mFinished
    BY <1>0, <1>2 DEF builderVars
  <2> QED BY <1>1, <1>2, <1>3, <1>4, <1>5, <2>1, ProgressStays
<1>7. rpc' = "next" => Settled(waitFor, Current)'
  <2> SUFFICES ASSUME rpc' = "next" PROVE Settled(waitFor, Current)'
    OBVIOUS
  <2>1. /\ AllSignaled(waitFor) /\ data' = [data EXCEPT ![Current] = Computed(Current)]
    BY <1>0, <1>1, StepOutcome
  <2>2. PICK n \in Nat : n = Current - 1
    BY <1>0
  <2>3. Settled(waitFor, n)
    BY <1>0, <2>2 DEF PipelineInv
  <2>4. Ready(n)
    BY <1>0, <2>1, <2>2, <2>3, SettledReady
  <2>5. Resolved(DOMAIN setup.deps)
    BY <1>0, <2>4, AllDependencies DEF Ready
  <2>6. Computed(Current) = "good"
    BY <1>0, <2>2, <2>4, <2>5 DEF Computed, InputsReady, Ready
  <2>7. Ready(Current)'
    BY <1>0, <1>1, <1>2, <1>3, <2>1, <2>2, <2>4, <2>6 DEF Ready, Current
  <2> QED BY <1>0, <1>2, <2>7 DEF Settled, Current
<1>8. Launching'
  BY <1>2 DEF Launching
<1> QED BY <1>0, <1>2, <1>3, <1>6, <1>7, <1>8 DEF PipelineInv

\* A step that is launched waits for what comes before it, and the next one for it,
\* unless its fence is lost, and then there is no next one.
LEMMA LaunchKeepsPipeline ==
    ASSUME TypeInv, PipelineInv, LaunchStep \/ LoseFence, Steps' = Steps PROVE PipelineInv'
<1>a. rpc = "step"
  BY DEF LaunchStep, LoseFence
<1>0. /\ Steps = 1 .. Len(setup.steps) /\ Len(setup.steps) \in Nat /\ mNextStepIndex \in Int
      /\ task \in [Steps -> {"none", "queued", "running", "signaled", "error"}]
      /\ waits \in [Steps -> SUBSET Fences]
      /\ rpc = "step" /\ Current \in Steps /\ Current - 1 \in Nat
      /\ ~mFinished /\ Launching /\ CallbacksResolved /\ task[Current] = "none"
      /\ Settled(waitFor, Current - 1)
  BY <1>a, SetupFacts DEF TypeInv, TypeOK, PipelineInv, Launching, Current
<1>1. /\ UNCHANGED <<setup, dep, builderVars, mNextStepIndex, data>>
      /\ task' = [task EXCEPT ![Current] = "queued"] /\ waits' = [waits EXCEPT ![Current] = waitFor]
      /\ \/ rpc' = "copy" /\ UNCHANGED <<syncFence, waitFor>>
         \/ rpc' = "next" /\ syncFence' = Current /\ waitFor' = {Current}
         \/ rpc' \in {"fallback", "returned"}
  <2>1. CASE LaunchStep /\ StepAt(Current).pointers
    BY <2>1 DEF LaunchStep
  <2>2. CASE LaunchStep /\ ~StepAt(Current).pointers
    BY <1>0, <2>2, StepOutcome DEF LaunchStep, FenceSet
  <2>3. CASE LoseFence
    BY <1>0, <2>3, StepOutcome DEF LoseFence
  <2> QED BY <2>1, <2>2, <2>3
<1>2. /\ DependenciesSignaled => DependenciesSignaled'
      /\ CallbacksResolved => CallbacksResolved'
  BY <1>1, DependenciesStay
<1>3. \A n \in Nat : n < Current /\ Ready(n) => Ready(n)'
  <2> SUFFICES ASSUME NEW n \in Nat, n < Current, Ready(n) PROVE Ready(n)'
    OBVIOUS
  <2>1. \A j \in 1 .. n : task'[j] = task[j] /\ data'[j] = data[j]
    BY <1>0, <1>1
  <2> QED BY <1>1, <1>2, <2>1, ReadyStays DEF builderVars
<1>4. ASSUME NEW i \in Steps, task'[i] # "none" PROVE Progress(i)'
  <2>1. CASE i = Current
    <3>1. Settled(waits[i], i - 1)'
      BY <1>0, <1>1, <1>3, <2>1 DEF Settled, DependenciesBy
    <3> QED BY <1>0, <1>1, <2>1, <3>1 DEF Progress, Current
  <2>2. CASE i # Current
    <3>1. task[i] # "none" /\ Progress(i) /\ i < Current /\ task'[i] = task[i] /\ waits'[i] = waits[i]
      BY <1>0, <1>1, <1>4, <2>2 DEF PipelineInv, Progress
    <3>2. i \in Nat /\ i - 1 \in Nat /\ (Ready(i) => Ready(i)') /\ (Ready(i - 1) => Ready(i - 1)')
      BY <1>0, <1>3, <3>1
    <3>3. Settled(waits[i], i - 1)'
      BY <1>0, <1>1, <3>1, <3>2 DEF Progress, Settled, DependenciesBy
    <3>4. \A j \in 1 .. i : task'[j] = task[j]
      BY <1>0, <1>1, <3>1
    <3> QED BY <1>0, <1>1, <3>1, <3>2, <3>3, <3>4 DEF Progress, Busy, Current
  <2> QED BY <2>1, <2>2
<1>5. /\ rpc' = "copy" => Settled(waitFor, Current - 1)'
      /\ rpc' = "next" => Settled(waitFor, Current)' /\ waitFor' = FenceSet(syncFence)'
  <2>1. CASE rpc' = "copy"
    BY <1>0, <1>1, <1>3, <2>1 DEF Settled, DependenciesBy, Current
  <2>2. CASE rpc' = "next"
    BY <1>0, <1>1, <2>2 DEF Settled, Current, FenceSet
  <2> QED BY <1>1, <2>1, <2>2
<1>6. Launching' /\ (task[Current])' # "none"
  BY <1>0, <1>1 DEF Launching, Current
<1> QED BY <1>0, <1>1, <1>2, <1>4, <1>5, <1>6 DEF PipelineInv, Current

\* A device starts when what it waits for is over, and ends what it started.
LEMMA DeviceKeepsPipeline ==
    ASSUME TypeInv, PipelineInv, NEW i \in Steps, Device(i), Steps' = Steps PROVE PipelineInv'
<1>0. /\ Steps = 1 .. Len(setup.steps) /\ Len(setup.steps) \in Nat /\ i \in Nat
      /\ task \in [Steps -> {"none", "queued", "running", "signaled", "error"}]
      /\ data \in [Steps -> {"unset", "garbage", "good"}]
      /\ i - 1 \in Nat /\ i - 1 <= Len(setup.steps) /\ mNextStepIndex \in Int
  BY SetupFacts DEF TypeInv, TypeOK
<1>1. /\ UNCHANGED <<setup, dep, mFinished, launchVars, waits>> /\ Busy(i)
      /\ \A j \in Steps \ {i} : task'[j] = task[j] /\ data'[j] = data[j]
      /\ task'[i] \in {"running", "signaled", "error"}
  BY <1>0 DEF Device, DeviceStarts, DeviceEnds, Busy, builderVars
<1>2. Progress(i)
  BY <1>1 DEF PipelineInv, Busy
<1>3. \A n \in Nat : n <= Len(setup.steps) /\ Ready(n) => n < i /\ Ready(n)'
  BY <1>1, DeviceKeepsReady
<1>4. Settled(waits[i], i - 1)' /\ i <= Current'
  BY <1>0, <1>1, <1>2, <1>3 DEF Progress, Settled, DependenciesBy, Current, launchVars
<1>5. ASSUME NEW j \in 1 .. i, j < i PROVE j \in Steps \ {i} /\ task'[j] = task[j]
  BY <1>0, <1>1, <1>5
<1>6. CASE DeviceStarts(i) /\ AllSignaled(waits[i])
  <2>1. Ready(i - 1)
    BY <1>0, <1>2, <1>6, SettledReady DEF Progress
  <2>2. task'[i] = "running"
    BY <1>0, <1>6 DEF DeviceStarts
  <2>3. Progress(i)'
    BY <1>0, <1>3, <1>4, <2>1, <2>2 DEF Progress
  <2> QED BY <1>1, <2>2, <2>3, DeviceKeepsProgress
<1>7. CASE DeviceStarts(i) /\ ~AllSignaled(waits[i])
  <2>1. task'[i] = "error" /\ Resolved(waits[i])
    BY <1>0, <1>7 DEF DeviceStarts
  <2>2. CASE i = 1
    <3>1. \A j \in 1 .. i : ~Busy(j)'
      BY <2>1, <2>2 DEF Busy
    <3> QED BY <1>0, <1>1, <1>4, <2>1, <3>1, DeviceKeepsProgress DEF Progress
  <2>3. CASE i > 1
    <3>1. waits[i] = {i - 1} /\ task[i - 1] # "none" /\ i - 1 \in Steps
      BY <1>0, <1>2, <1>7, <2>3 DEF Progress, Settled, AllSignaled
    <3>2. task[i - 1] = "error"
      BY <1>0, <1>7, <2>1, <3>1, SetupFacts DEF AllSignaled, Resolved, FenceState, TypeInv, TypeOK
    <3>3. \A j \in 1 .. i - 1 : ~Busy(j)
      BY <3>1, <3>2 DEF PipelineInv, Progress
    <3>4. \A j \in 1 .. i : ~Busy(j)'
      BY <1>0, <1>5, <2>1, <3>3 DEF Busy
    <3> QED BY <1>0, <1>1, <1>4, <2>1, <3>4, DeviceKeepsProgress DEF Progress
  <2> QED BY <1>0, <2>2, <2>3
<1>8. CASE DeviceEnds(i)
  <2>1. Ready(i - 1) /\ Launching /\ CallbacksResolved
    BY <1>1, <1>2, <1>8 DEF DeviceEnds, Progress, PipelineInv
  <2>2. Ready(i - 1)'
    BY <1>0, <1>3, <2>1
  <2>3. CASE task'[i] = "signaled"
    <3>1. data' = [data EXCEPT ![i] = Computed(i)]
      BY <1>0, <1>8, <2>3 DEF DeviceEnds
    <3>2. ~mFinished => data'[i] = "good"
      BY <1>0, <2>1, <3>1, AllDependencies DEF Computed, InputsReady, Ready
    <3>3. Ready(i)'
      BY <1>0, <1>1, <2>2, <2>3, <3>2 DEF Ready
    <3> QED BY <1>1, <1>4, <2>3, <3>3, DeviceKeepsProgress DEF Progress
  <2>4. CASE task'[i] = "error"
    <3>1. \A j \in 1 .. i : ~Busy(j)'
      BY <1>0, <1>5, <2>1, <2>4 DEF Busy, Ready
    <3> QED BY <1>1, <1>4, <2>4, <3>1, DeviceKeepsProgress DEF Progress
  <2> QED BY <1>0, <1>8, <2>3, <2>4 DEF DeviceEnds
<1> QED BY <1>6, <1>7, <1>8 DEF Device

\* Every step keeps the pipeline in order.
LEMMA PipelineStep == TypeInv /\ PipelineInv /\ [Next]_vars => PipelineInv'
<1> SUFFICES ASSUME TypeInv, PipelineInv, [Next]_vars PROVE PipelineInv'
  OBVIOUS
<1> USE DEF builderVars, launchVars, deviceVars, clientVars
<1>0. /\ mNextStepIndex \in Int /\ mNextStepIndex >= 1 /\ mNextStepIndex <= Len(setup.steps) + 1
      /\ Steps = 1 .. Len(setup.steps) /\ Len(setup.steps) \in Nat
      /\ rpc \in {"step", "copy"} => Current \in Steps
      /\ rpc # "returned" => ~mFinished
  BY SetupFacts DEF TypeInv, TypeOK
<1>a. UNCHANGED <<setup, Steps>>
  BY SameSetup
<1>1. CASE StartComputeWithDependencies
  BY <1>a, <1>1 DEF StartComputeWithDependencies, PipelineInv, Launching
<1>2. CASE WaitDependencies
  <2>1. /\ CallbacksResolved /\ UNCHANGED <<dep, task, mNextStepIndex, syncFence>> /\ rpc' = "next"
        /\ ~Launching /\ waitFor' = DependenciesBy("fence")
    BY <1>2 DEF WaitDependencies, CallbacksResolved, Launching
  <2>2. CallbacksResolved'
    BY <1>a, <2>1, DependenciesStay
  <2>3. Settled(waitFor, Current)'
    BY <1>a, <2>1 DEF PipelineInv, Settled, Current, DependenciesBy
  <2> QED BY <1>a, <2>1, <2>2, <2>3 DEF PipelineInv, Current
<1>3. ASSUME UNCHANGED <<dep, deviceVars, mNextStepIndex>>, mFinished => mFinished',
             Launching, rpc' \in {"fallback", "returned"}
      PROVE  PipelineInv'
  BY <1>a, <1>3, HostKeepsProgress DEF PipelineInv, Launching
<1>4. CASE NextEnds \/ NextFails
  <2>1. /\ rpc = "next" /\ UNCHANGED <<dep, deviceVars, mNextStepIndex>>
        /\ rpc' \in {"fallback", "returned"}
    BY <1>4, Zenon DEF NextEnds, NextFails, Returns
  <2> QED BY <1>0, <1>3, <2>1 DEF Launching
<1>5. CASE NextStep
  <2>1. /\ rpc = "next" /\ rpc' = "step" /\ mNextStepIndex' = mNextStepIndex + 1
        /\ mNextStepIndex <= Len(setup.steps)
        /\ UNCHANGED <<dep, deviceVars, syncFence, waitFor, mFinished>>
    BY <1>0, <1>5 DEF NextStep, AtEnd
  <2>2. /\ DependenciesSignaled => DependenciesSignaled'
        /\ CallbacksResolved => CallbacksResolved'
    BY <1>a, <2>1, DependenciesStay
  <2>3. (\A i \in Steps : task[i] # "none" => Progress(i))'
    BY <1>0, <1>a, <2>1, <2>2, ProgressStays DEF PipelineInv
  <2>4. Current' = mNextStepIndex /\ Current' \in Steps /\ Current' - 1 = Current
    BY <1>0, <2>1 DEF Current
  <2>5. task[mNextStepIndex] = "none"
    BY <1>0, <2>1 DEF PipelineInv, Progress, Current
  <2>6. Settled(waitFor, Current - 1)'
    BY <1>a, <2>1, <2>2, <2>4 DEF PipelineInv, Settled, Ready, DependenciesBy
  <2> QED BY <1>a, <2>1, <2>2, <2>3, <2>4, <2>5, <2>6 DEF PipelineInv, Launching
<1>6. CASE RunStep
  BY <1>a, <1>6, RunKeepsPipeline
<1>7. CASE LaunchStep \/ LoseFence
  BY <1>a, <1>7, LaunchKeepsPipeline
<1>8. CASE RefuseStep
  <2>1. /\ rpc = "step" /\ UNCHANGED <<dep, deviceVars, mNextStepIndex, mFinished>>
        /\ rpc' \in {"fallback", "returned"}
    BY <1>8, StepOutcome DEF RefuseStep
  <2> QED BY <1>3, <2>1 DEF Launching
<1>9. CASE CopyOutputs
  <2>1. /\ rpc = "copy" /\ UNCHANGED <<dep, deviceVars, mNextStepIndex, mFinished>>
        /\ rpc' \in {"next", "fallback", "returned"} /\ waitFor' = FenceSet(Current)
        /\ syncFence' = Current
    BY <1>9, StepOutcome DEF CopyOutputs
  <2>2. Settled(waitFor, Current)' /\ waitFor' = FenceSet(syncFence)'
    BY <1>0, <2>1 DEF Settled, FenceSet, PipelineInv, Current
  <2> QED BY <1>0, <1>a, <2>1, <2>2, HostKeepsProgress DEF PipelineInv, Launching
<1>10. CASE Fallback
  <2>1. /\ rpc = "fallback" /\ rpc' = "returned" /\ UNCHANGED <<dep, task, waits, mNextStepIndex>>
        /\ mFinished' \/ UNCHANGED data
    BY <1>10 DEF Fallback, Returns, FinishWithoutSyncFence
  <2>2. /\ DependenciesSignaled => DependenciesSignaled'
        /\ CallbacksResolved => CallbacksResolved'
    BY <1>a, <2>1, DependenciesStay
  <2>3. (\A i \in Steps : task[i] # "none" => Progress(i))'
    BY <1>0, <1>a, <2>1, <2>2, ProgressStays DEF PipelineInv
  <2> QED BY <2>1, <2>2, <2>3 DEF PipelineInv, Launching
<1>11. ASSUME NEW d \in Dependencies, DependencyEnds(d) PROVE PipelineInv'
  <2>1. /\ UNCHANGED <<builderVars, launchVars, deviceVars>>
        /\ \A e \in DOMAIN setup.deps : dep[e] # "active" => dep'[e] = dep[e]
    BY <1>11 DEF DependencyEnds, TypeInv, TypeOK
  <2>2. /\ DependenciesSignaled => DependenciesSignaled'
        /\ CallbacksResolved => CallbacksResolved'
    BY <1>a, <2>1, DependenciesStay
  <2>3. (\A i \in Steps : task[i] # "none" => Progress(i))'
    BY <1>0, <1>a, <2>1, <2>2, ProgressStays DEF PipelineInv
  <2>4. \A n : Settled(waitFor, n) => Settled(waitFor, n)'
    BY <1>a, <2>1, <2>2 DEF Settled, Ready, DependenciesBy
  <2>5. /\ Settled(waitFor, Current) => Settled(waitFor, Current)'
        /\ Settled(waitFor, Current - 1) => Settled(waitFor, Current - 1)'
    BY <1>a, <2>1, <2>2 DEF Settled, Ready, DependenciesBy, Current
  <2> QED BY <1>a, <2>1, <2>2, <2>3, <2>5 DEF PipelineInv, Launching, Current, FenceSet
<1>12. ASSUME NEW i \in Steps, Device(i) PROVE PipelineInv'
  BY <1>a, <1>12, DeviceKeepsPipeline
<1>13. CASE EventWait \/ EventWaitReturns \/ ExecutionFree \/ Terminated \/ UNCHANGED vars
  <2>1. UNCHANGED <<dep, launchVars, deviceVars, mFinished>>
    BY <1>13 DEF EventWait, EventWaitReturns, ExecutionFree, Terminated, vars
  <2>2. /\ (\A i \in Steps : task[i] # "none" => Progress(i))'
        /\ CallbacksResolved => CallbacksResolved'
    BY <1>a, <2>1, HostKeepsProgress
  <2>3. DependenciesSignaled => DependenciesSignaled'
    BY <1>a, <2>1, DependenciesStay
  <2>4. /\ Settled(waitFor, Current) => Settled(waitFor, Current)'
        /\ Settled(waitFor, Current - 1) => Settled(waitFor, Current - 1)'
    BY <1>a, <2>1, <2>3 DEF Settled, Ready, DependenciesBy, Current
  <2> QED BY <1>a, <2>1, <2>2, <2>4 DEF PipelineInv, Launching, Current, FenceSet
<1> QED
  BY <1>1, <1>2, <1>4, <1>5, <1>6, <1>7, <1>8, <1>9, <1>10, <1>11, <1>12, <1>13, Zenon
     DEF Next, Runner

\* Every fence that is waited for stands for all that was launched before it.
THEOREM Pipeline == Spec => [](TypeInv /\ PipelineInv)
BY TypeInit, TypeStep, PipelineInit, PipelineStep, PTL DEF Spec

\* A device works on a step only when all dependencies are over and every step
\* before it has ended well, in spite of launching all of them at once.
THEOREM Serialized == Spec => []StepsSerialized
<1>1. TypeInv /\ PipelineInv => StepsSerialized
  <2> SUFFICES ASSUME TypeInv, PipelineInv, NEW i \in Steps, task[i] = "running"
               PROVE  /\ CallbacksResolved /\ DependenciesSignaled
                      /\ \A j \in 1 .. i - 1 : task[j] \in {"none", "signaled"}
    BY DEF StepsSerialized, CallbacksResolved, DependenciesSignaled
  <2> QED BY DEF PipelineInv, Progress, Ready
<1> QED BY <1>1, Pipeline, PTL

\* A branch is taken on a condition that has been computed.
THEOREM ConditionsComputed == Spec => ConditionsAreComputed
<1> DEFINE Taken == rpc = "next" /\ mNextStepIndex' # mNextStepIndex /\ Branch # "none" =>
                        \A j \in 1 .. mNextStepIndex - 1 : data[j] = "good"
<1>1. ASSUME TypeInv, PipelineInv, [Next]_vars PROVE [Taken]_vars
  <2> SUFFICES ASSUME rpc = "next", mNextStepIndex' # mNextStepIndex, Branch # "none"
               PROVE  \A j \in 1 .. mNextStepIndex - 1 : data[j] = "good"
    BY Zenon
  <2> USE DEF builderVars, launchVars, deviceVars, clientVars
  <2>1. NextStep
    BY <1>1, Zenon
       DEF Next, vars, Runner, Device, StartComputeWithDependencies, WaitDependencies, NextEnds,
           NextFails, RunStep, LaunchStep, LoseFence, RefuseStep, CopyOutputs, StepReturns, Fallback,
           DependencyEnds, DeviceStarts, DeviceEnds, EventWait, EventWaitReturns, ExecutionFree,
           Terminated
  <2>2. /\ Current \in Nat /\ Current <= Len(setup.steps) /\ Current = mNextStepIndex - 1
        /\ ~mFinished
    BY <1>1, SetupFacts DEF TypeInv, TypeOK, Current
  <2>3. AllSignaled(FenceSet(syncFence))
    BY <2>1 DEF NextStep, BranchTaken
  <2>4. CASE Current = 0
    BY <2>2, <2>4
  <2>5. CASE Current # 0
    <3>1. PICK n \in Nat : n = Current
      BY <2>2
    <3>2. Settled(waitFor, n) /\ AllSignaled(waitFor)
      BY <1>1, <2>3, <2>5, <3>1 DEF PipelineInv
    <3>3. Ready(n)
      BY <1>1, <2>2, <3>1, <3>2, SettledReady
    <3> QED BY <2>2, <3>1, <3>3 DEF Ready
  <2> QED BY <2>4, <2>5
<1> QED BY <1>1, Pipeline, PTL DEF Spec, ConditionsAreComputed

-------------------------------------------------------------------------------
(* The end: what the builder and the event say, and what the devices do.     *)

\* Nothing has been said initially.
LEMMA FinishInit == Init => FinishInv
BY DEF Init, FinishInv, Launching

\* Where the plan ends: a fence stands for the last step, no fence for the whole plan.
LEMMA AtTheEnd ==
    ASSUME TypeInv, PipelineInv, rpc = "next", AtEnd
    PROVE  /\ syncFence # 0 => syncFence = Len(setup.steps) /\ task[syncFence] # "none"
           /\ syncFence = 0 => Ready(Len(setup.steps))
<1>1. /\ Current = Len(setup.steps) /\ Len(setup.steps) \in Nat \ {0} /\ syncFence \in Steps \cup {0}
  BY SetupFacts DEF TypeInv, TypeOK, AtEnd, Current
<1>2. PICK n \in Nat : n = Len(setup.steps)
  BY <1>1
<1>3. Settled(waitFor, n) /\ waitFor = FenceSet(syncFence)
  BY <1>1, <1>2 DEF PipelineInv
<1>4. n >= 1 /\ ((waitFor = {} /\ Ready(n)) \/ (waitFor = {n} /\ task[n] # "none"))
  BY <1>1, <1>2, <1>3 DEF Settled
<1>5. CASE syncFence # 0
  BY <1>2, <1>3, <1>4, <1>5 DEF FenceSet
<1>6. CASE syncFence = 0
  <2>1. Ready(n)
    BY <1>3, <1>4, <1>6 DEF FenceSet
  <2> QED BY <1>2, <1>6, <2>1 DEF Ready
<1> QED BY <1>5, <1>6

\* An execution that is finished stays so, with the same outcome.
LEMMA FinishedStays ==
    ASSUME TypeInv, FinishInv, isFinished, [Next]_vars
    PROVE  isFinished' /\ completedWith' = completedWith
<1> USE DEF builderVars, launchVars, deviceVars, clientVars
<1>1. rpc = "returned"
  BY DEF TypeInv, TypeOK, isFinished, hasSyncFence
<1>2. UNCHANGED <<mFinished, mCompletion, mSyncFenceFd>>
  BY <1>1, Zenon
     DEF Next, vars, Runner, Device, StartComputeWithDependencies, WaitDependencies, NextEnds,
         NextStep, NextFails, RunStep, LaunchStep, LoseFence, RefuseStep, CopyOutputs, Fallback,
         DependencyEnds, DeviceStarts, DeviceEnds, EventWait, EventWaitReturns, ExecutionFree,
         Terminated
<1>3. ASSUME hasSyncFence PROVE FenceState(mSyncFenceFd)' = FenceState(mSyncFenceFd)
  <2>1. /\ mSyncFenceFd \in Steps /\ mSyncFenceFd \notin Dependencies /\ ~mFinished
        /\ task \in [Steps -> {"none", "queued", "running", "signaled", "error"}]
    BY <1>3, SetupFacts DEF TypeInv, TypeOK, hasSyncFence
  <2>2. task[mSyncFenceFd] \notin {"queued", "running"}
    BY <2>1 DEF isFinished, FenceState
  <2>3. UNCHANGED task \/ \E i \in Steps : Device(i)
    BY <1>1, Zenon
       DEF Next, vars, Runner, StartComputeWithDependencies, WaitDependencies, NextEnds, NextStep,
           NextFails, RunStep, LaunchStep, LoseFence, RefuseStep, CopyOutputs, Fallback, DependencyEnds,
           EventWait, EventWaitReturns, ExecutionFree, Terminated
  <2>4. task'[mSyncFenceFd] = task[mSyncFenceFd]
    <3>1. CASE UNCHANGED task
      BY <3>1
    <3>2. ASSUME NEW i \in Steps, Device(i) PROVE task'[mSyncFenceFd] = task[mSyncFenceFd]
      BY <2>1, <2>2, <3>2 DEF Device, DeviceStarts, DeviceEnds
    <3> QED BY <2>3, <3>1, <3>2
  <2> QED BY <1>2, <2>1, <2>4 DEF FenceState
<1> QED BY <1>2, <1>3 DEF isFinished, completedWith, hasSyncFence

\* A device that ends the last step tells, through its fence, a state that is final.
LEMMA FinishStep ==
    TypeInv /\ PipelineInv /\ FinishInv /\ [Next]_vars => FinishInv'
<1> SUFFICES ASSUME TypeInv, PipelineInv, FinishInv, [Next]_vars PROVE FinishInv'
  OBVIOUS
<1> USE DEF builderVars, launchVars, deviceVars, clientVars
<1>0. /\ rpc # "returned" => ~mFinished /\ mSyncFenceFd = 0 /\ event = "none"
      /\ task \in [Steps -> {"none", "queued", "running", "signaled", "error"}]
      /\ mSyncFenceFd \in Steps \cup {0} /\ Steps = 1 .. Len(setup.steps)
      /\ rpc # "returned" => ~waiting /\ learnt = "none"
      /\ rpc \in {"step", "copy"} => Current \in Steps
  BY SetupFacts DEF TypeInv, TypeOK, FinishInv
<1>a. UNCHANGED <<setup, Steps>>
  BY SameSetup
<1>b. isFinished => isFinished' /\ completedWith' = completedWith
  BY FinishedStays
<1>c. execFreed => rpc \in {"off", "returned"}
  BY DEF FinishInv
\* A step of the host before the call returns.
<1>1. ASSUME rpc # "returned", ~execFreed, mSyncFenceFd' = 0, event' = "none",
             UNCHANGED <<execFreed, waiting, learnt>>, mStarted' <=> Launching'
      PROVE  FinishInv'
  BY <1>0, <1>1 DEF FinishInv
<1>2. CASE StartComputeWithDependencies
  BY <1>0, <1>1, <1>2 DEF StartComputeWithDependencies, FinishInv, Launching
<1>3. CASE WaitDependencies
  BY <1>0, <1>1, <1>3, <1>c DEF WaitDependencies, Launching
<1>4. CASE NextStep \/ NextFails
  <2>1. /\ rpc = "next" /\ UNCHANGED <<mStarted, execFreed, waiting, learnt>>
        /\ rpc' \in {"step", "fallback", "returned"}
    BY <1>4, Zenon DEF NextStep, NextFails, Returns
  <2>2. mSyncFenceFd' = 0 /\ event' = "none"
    BY <1>0, <1>4, <2>1, Zenon DEF NextStep, NextFails, Returns
  <2> QED BY <1>1, <1>c, <2>1, <2>2 DEF FinishInv, Launching
<1>5. CASE RunStep \/ LoseFence \/ RefuseStep \/ CopyOutputs
  <2>1. /\ rpc \in {"step", "copy"} /\ \E n, fence : StepReturns(n, fence)
    BY <1>5 DEF RunStep, LoseFence, RefuseStep, CopyOutputs
  <2>2. /\ UNCHANGED <<mStarted, mSyncFenceFd, event, execFreed, waiting, learnt>>
        /\ rpc' \in {"next", "fallback", "returned"}
    BY <2>1, StepOutcome
  <2> QED BY <1>0, <1>1, <1>c, <2>1, <2>2 DEF FinishInv, Launching
<1>6. CASE LaunchStep
  <2>1. rpc = "step"
    BY <1>6 DEF LaunchStep
  <2>2. /\ UNCHANGED <<mStarted, mSyncFenceFd, event, execFreed, waiting, learnt>>
        /\ rpc' \in {"copy", "next"}
    <3>1. CASE StepAt(Current).pointers
      BY <1>6, <3>1 DEF LaunchStep
    <3>2. CASE ~StepAt(Current).pointers
      BY <1>6, <2>1, <3>2, StepOutcome DEF LaunchStep
    <3> QED BY <3>1, <3>2
  <2> QED BY <1>0, <1>1, <1>c, <2>1, <2>2 DEF FinishInv, Launching
<1>7. CASE NextEnds
  <2>1. /\ rpc = "next" /\ rpc' = "returned" /\ AtEnd /\ event' = "live" /\ mSyncFenceFd' = syncFence
        /\ UNCHANGED <<mStarted, execFreed, waiting, learnt, task>>
        /\ syncFence = 0 => mFinished' = TRUE /\ mCompletion' = "NO_ERROR"
    BY <1>7 DEF NextEnds, Returns, FinishWithoutSyncFence
  <2>2. syncFence # 0 => syncFence = Len(setup.steps) /\ task[syncFence] # "none"
    BY <2>1, AtTheEnd
  <2> QED BY <1>0, <1>a, <1>c, <2>1, <2>2 DEF FinishInv, Launching
<1>8. CASE Fallback
  <2>1. /\ rpc = "fallback" /\ rpc' = "returned" /\ mSyncFenceFd' = 0
        /\ UNCHANGED <<mStarted, execFreed, waiting, learnt, task>>
        /\ event' = "live" => mFinished' = TRUE /\ mCompletion' = "NO_ERROR"
    BY <1>8 DEF Fallback, Returns, FinishWithoutSyncFence
  <2> QED BY <1>0, <1>a, <1>c, <2>1 DEF FinishInv, Launching
<1>9. ASSUME NEW d \in Dependencies, DependencyEnds(d) PROVE FinishInv'
  BY <1>0, <1>a, <1>b, <1>9 DEF DependencyEnds, FinishInv, Launching
<1>10. ASSUME NEW i \in Steps, Device(i) PROVE FinishInv'
  <2>1. /\ UNCHANGED <<builderVars, launchVars, clientVars>>
        /\ \A j \in Steps : task[j] # "none" => task'[j] # "none"
    BY <1>0, <1>10 DEF Device, DeviceStarts, DeviceEnds
  <2> QED BY <1>0, <1>a, <1>b, <2>1 DEF FinishInv, Launching
<1>11. CASE EventWait
  BY <1>0, <1>a, <1>b, <1>11 DEF EventWait, FinishInv, Launching
<1>12. CASE EventWaitReturns
  <2>1. /\ waiting /\ ~waiting' /\ Resolved(FenceSet(mSyncFenceFd))
        /\ learnt' = IF AllSignaled(FenceSet(mSyncFenceFd)) THEN "NO_ERROR" ELSE "OTHER_ERROR"
        /\ UNCHANGED <<builderVars, launchVars, deviceVars, event>>
    BY <1>12 DEF EventWaitReturns, TypeInv, TypeOK
  <2>2. isFinished /\ learnt' = completedWith
    BY <1>0, <2>1
       DEF FinishInv, isFinished, completedWith, hasSyncFence, FenceSet, Resolved, AllSignaled,
           TypeInv, TypeOK
  <2> QED BY <1>0, <1>a, <1>b, <2>1, <2>2 DEF FinishInv, Launching
<1>13. CASE ExecutionFree
  BY <1>0, <1>a, <1>b, <1>13 DEF ExecutionFree, FinishInv, Launching, inFlight
<1>14. CASE Terminated \/ UNCHANGED vars
  BY <1>0, <1>a, <1>b, <1>14 DEF Terminated, vars, FinishInv, Launching
<1> QED
  BY <1>2, <1>3, <1>4, <1>5, <1>6, <1>7, <1>8, <1>9, <1>10, <1>11, <1>12, <1>13, <1>14, Zenon
     DEF Next, Runner

\* What the builder and the event say of the outcome.
THEOREM Finish == Spec => [](TypeInv /\ PipelineInv /\ FinishInv)
BY TypeInit, TypeStep, PipelineInit, PipelineStep, FinishInit, FinishStep, PTL DEF Spec

-------------------------------------------------------------------------------
(* The fallback: what holds when it gets in nobody's way, and where it does not. *)

\* No device is at work and no execution finished initially.
LEMMA DoneInit == Init => LeftInv /\ DoneInv
BY DEF Init, LeftInv, DoneInv, Busy

\* Where work is left when the next step comes, or the end.
LEMMA LeftStep ==
    ASSUME NoDeviceLeftBehind, TypeInv, PipelineInv, LeftInv, [Next]_vars
    PROVE  LeftInv'
<1> USE DEF builderVars, launchVars, deviceVars, clientVars
<1>0. /\ task \in [Steps -> {"none", "queued", "running", "signaled", "error"}]
      /\ Steps = 1 .. Len(setup.steps) /\ Len(setup.steps) \in Nat /\ setup \in Setups
      /\ rpc \in {"step", "copy"} => Current \in Steps
      /\ mNextStepIndex \in 1 .. Len(setup.steps) + 1 /\ Current = mNextStepIndex - 1
      /\ \A i \in Steps : i \notin Dependencies
  BY SetupFacts DEF TypeInv, TypeOK, Current
<1>a. UNCHANGED <<setup, Steps>>
  BY SameSetup
<1>b. allowFallback => setup.allowFallback
  BY DEF allowFallback
\* A step after which no device is at work that the fallback could disturb.
<1>1. ASSUME rpc' = "fallback" => setup.allowFallback,
             setup.allowFallback => \A i \in Steps : ~Busy(i)'
      PROVE  LeftInv'
  BY <1>a, <1>1 DEF LeftInv
<1>2. CASE StartComputeWithDependencies \/ WaitDependencies
  <2>1. UNCHANGED task /\ ~Launching /\ rpc' # "fallback"
    BY <1>2 DEF StartComputeWithDependencies, WaitDependencies, Launching
  <2> QED BY <1>1, <2>1 DEF PipelineInv, Busy
<1>3. CASE NextEnds
  <2>1. UNCHANGED <<task, mNextStepIndex>> /\ rpc = "next" /\ rpc' = "returned"
    BY <1>3, Zenon DEF NextEnds, Returns
  <2> QED BY <1>a, <2>1 DEF LeftInv, Busy, Current
<1>4. CASE NextStep
  <2>1. UNCHANGED task /\ rpc = "next" /\ rpc' = "step" /\ ~AtEnd
    BY <1>4 DEF NextStep
  <2>2. setup.allowFallback => \A i \in Steps : ~Busy(i)
    BY <1>0, <2>1 DEF LeftInv, AtEnd
  <2> QED BY <1>1, <2>1, <2>2 DEF Busy
<1>5. CASE NextFails
  <2>1. /\ UNCHANGED <<task, mNextStepIndex>> /\ rpc = "next"
        /\ \/ rpc' = "fallback" /\ allowFallback /\ ConditionIsReadable
           \/ rpc' = "returned"
    BY <1>5, Zenon DEF NextFails, Returns
  <2>2. CASE rpc' = "returned"
    BY <1>a, <2>1, <2>2 DEF LeftInv, Busy, Current
  <2>3. CASE rpc' = "fallback" /\ allowFallback /\ ConditionIsReadable
    <3>1. ASSUME NEW i \in Steps, Busy(i), setup.allowFallback PROVE FALSE
      <4>1. syncFence = i /\ i # 0
        BY <1>0, <2>1, <3>1 DEF LeftInv
      <4> QED
        BY <1>0, <2>3, <3>1, <4>1 DEF ConditionIsReadable, FenceSet, Resolved, FenceState, Busy
    <3> QED BY <1>1, <1>b, <2>1, <2>3, <3>1 DEF Busy
  <2> QED BY <2>1, <2>2, <2>3
<1>6. CASE RunStep \/ RefuseStep
  <2>1. rpc = "step" /\ UNCHANGED task /\ \E n : StepReturns(n, 0)
    BY <1>6 DEF RunStep, RefuseStep
  <2>2. rpc' = "fallback" => allowFallback
    BY <2>1, StepOutcome
  <2>3. setup.allowFallback => \A i \in Steps : ~Busy(i)
    BY <2>1 DEF LeftInv
  <2> QED BY <1>1, <1>b, <2>1, <2>2, <2>3 DEF Busy
<1>7. CASE LaunchStep
  <2>1. /\ rpc = "step" /\ task' = [task EXCEPT ![Current] = "queued"] /\ Current \in Steps
        /\ StepAt(Current).device = "fenced"
    BY <1>0, <1>7 DEF LaunchStep
  <2>2. \/ rpc' = "copy" /\ UNCHANGED mNextStepIndex
        \/ /\ rpc' = "next" /\ syncFence' = Current /\ UNCHANGED mNextStepIndex
           /\ ~StepAt(Current).pointers
    <3>1. CASE StepAt(Current).pointers
      BY <1>7, <3>1 DEF LaunchStep
    <3>2. CASE ~StepAt(Current).pointers
      BY <1>7, <2>1, <3>2, StepOutcome DEF LaunchStep
    <3> QED BY <3>1, <3>2
  <2>3. setup.allowFallback => \A i \in Steps \ {Current} : ~Busy(i)'
    BY <1>0, <2>1 DEF LeftInv, Busy
  <2>4. setup.allowFallback /\ ~StepAt(Current).pointers => Current = Len(setup.steps)
    BY <1>0, <2>1 DEF NoDeviceLeftBehind
  <2> QED BY <1>a, <2>2, <2>3, <2>4 DEF LeftInv, Current
<1>13. CASE LoseFence
  <2>1. rpc = "step" /\ setup.fdsRunOut /\ StepReturns("OP_FAILED", 0)
    BY <1>13 DEF LoseFence
  <2>2. ~setup.allowFallback
    BY <2>1 DEF NoDeviceLeftBehind
  <2>3. rpc' # "fallback"
    BY <1>b, <2>1, <2>2, StepOutcome
  <2> QED BY <1>1, <2>2, <2>3
<1>8. CASE CopyOutputs
  <2>1. rpc = "copy" /\ UNCHANGED task /\ Resolved({Current}) /\ \E n : StepReturns(n, Current)
    BY <1>8 DEF CopyOutputs
  <2>2. rpc' = "fallback" => allowFallback
    BY <2>1, StepOutcome
  <2>3. setup.allowFallback => \A i \in Steps : ~Busy(i)
    BY <1>0, <2>1 DEF LeftInv, Busy, Resolved, FenceState
  <2> QED BY <1>1, <1>b, <2>1, <2>2, <2>3 DEF Busy
<1>9. CASE Fallback
  <2>1. rpc = "fallback" /\ rpc' = "returned" /\ UNCHANGED task
    BY <1>9, Zenon DEF Fallback, Returns
  <2> QED BY <1>1, <2>1 DEF LeftInv, Busy
<1>10. ASSUME NEW d \in Dependencies, DependencyEnds(d) PROVE LeftInv'
  BY <1>a, <1>10 DEF DependencyEnds, LeftInv, Busy, Current
<1>11. ASSUME NEW i \in Steps, Device(i) PROVE LeftInv'
  <2>1. /\ UNCHANGED launchVars
        /\ \A j \in Steps : Busy(j)' => Busy(j)
    BY <1>0, <1>11 DEF Device, DeviceStarts, DeviceEnds, Busy
  <2> QED BY <1>a, <2>1 DEF LeftInv, Current
<1>12. CASE EventWait \/ EventWaitReturns \/ ExecutionFree \/ Terminated \/ UNCHANGED vars
  <2>1. UNCHANGED <<launchVars, task>>
    BY <1>12 DEF EventWait, EventWaitReturns, ExecutionFree, Terminated, vars
  <2> QED BY <1>a, <2>1 DEF LeftInv, Current, Busy
<1> QED
  BY <1>2, <1>3, <1>4, <1>5, <1>6, <1>7, <1>8, <1>9, <1>10, <1>11, <1>12, <1>13, Zenon
     DEF Next, Runner

\* Without a fence, the end of the plan or of the fallback is the end of all work.
LEMMA DoneStep == TypeInv /\ PipelineInv /\ DoneInv /\ [Next]_vars /\ [Alone]_vars => DoneInv'
<1> SUFFICES ASSUME TypeInv, PipelineInv, DoneInv, [Next]_vars, [Alone]_vars, mFinished'
             PROVE  DoneInv'
  BY DEF DoneInv
<1> USE DEF builderVars, launchVars, deviceVars, clientVars
<1>0. /\ task \in [Steps -> {"none", "queued", "running", "signaled", "error"}]
      /\ Steps = 1 .. Len(setup.steps) /\ Len(setup.steps) \in Nat
      /\ rpc # "returned" => ~mFinished
  BY SetupFacts DEF TypeInv, TypeOK
<1>a. UNCHANGED <<setup, Steps>>
  BY SameSetup
<1>1. CASE mFinished
  <2>1. rpc = "returned" /\ \A i \in Steps : ~Device(i)
    BY <1>0, <1>1 DEF DoneInv, Device, DeviceStarts, DeviceEnds, Busy
  <2>2. UNCHANGED <<mCompletion, task, data>>
    BY <2>1, Zenon
       DEF Next, vars, Runner, StartComputeWithDependencies, WaitDependencies, NextEnds, NextStep,
           NextFails, RunStep, LaunchStep, LoseFence, RefuseStep, CopyOutputs, Fallback, DependencyEnds,
           EventWait, EventWaitReturns, ExecutionFree, Terminated
  <2> QED BY <1>1, <1>a, <2>2 DEF DoneInv, Busy
<1>2. CASE ~mFinished
  <2>1. NextEnds \/ Fallback
    BY <1>2, Zenon
       DEF Next, vars, Runner, Device, StartComputeWithDependencies, WaitDependencies, NextStep,
           NextFails, RunStep, LaunchStep, LoseFence, RefuseStep, CopyOutputs, StepReturns, DependencyEnds,
           DeviceStarts, DeviceEnds, EventWait, EventWaitReturns, ExecutionFree, Terminated
  <2>2. CASE NextEnds
    <3>1. rpc = "next" /\ AtEnd /\ syncFence = 0 /\ UNCHANGED <<task, data>>
      BY <1>2, <2>2 DEF NextEnds
    <3>2. Ready(Len(setup.steps))
      BY <3>1, AtTheEnd
    <3>3. \A i \in Steps : task[i] \in {"none", "signaled"} /\ data[i] = "good"
      BY <1>0, <1>2, <3>2 DEF Ready
    <3> QED BY <1>a, <3>1, <3>3 DEF DoneInv, Busy
  <2>3. CASE Fallback
    <3>1. \A i \in Steps : ~Busy(i)
      BY <1>2, <2>3, Zenon DEF Alone, vars
    <3>2. /\ UNCHANGED task
          /\ mCompletion' = "NO_ERROR" =>
                 data' = [i \in Steps |-> IF task[i] = "running" THEN "garbage" ELSE "good"]
      BY <1>2, <2>3 DEF Fallback, FinishWithoutSyncFence
    <3> QED BY <1>a, <3>1, <3>2 DEF DoneInv, Busy
  <2> QED BY <2>1, <2>2, <2>3
<1> QED BY <1>1, <1>2

\* As long as the fallback is alone, the whole invariant holds.
THEOREM FallbackDone == Spec /\ FallbackIsAlone => [](TypeInv /\ PipelineInv /\ FinishInv /\ DoneInv)
BY TypeInit, TypeStep, PipelineInit, PipelineStep, FinishInit, FinishStep, DoneInit, DoneStep, PTL
   DEF Spec, FallbackIsAlone

\* In an execution that leaves no device behind the fallback is alone: all fences
\* were waited for when it starts.
THEOREM AloneByPlan == Spec /\ NoDeviceLeftBehind => FallbackIsAlone
<1>1. NoDeviceLeftBehind /\ [Next]_vars => NoDeviceLeftBehind'
  BY SameSetup DEF NoDeviceLeftBehind, StepAt
<1>2. LeftInv => [Alone]_vars
  BY DEF LeftInv, Alone, Fallback
<1> QED
  BY <1>1, <1>2, TypeInit, TypeStep, PipelineInit, PipelineStep, DoneInit, LeftStep, PTL
     DEF Spec, FallbackIsAlone

\* A success means that the outputs are ready, whoever asks, unless the CPU computes
\* them while a device is at work: run fenced_fallback shows that it may.
THEOREM ReadyWhenSuccessful == Spec /\ FallbackIsAlone => []SuccessMeansReady
<1>1. TypeInv /\ PipelineInv /\ FinishInv /\ DoneInv => SuccessMeansReady
  <2> SUFFICES ASSUME TypeInv, PipelineInv, FinishInv, DoneInv, isFinished,
                      completedWith = "NO_ERROR", NEW i \in Steps
               PROVE  data[i] = "good"
    BY DEF SuccessMeansReady
  <2>1. /\ Steps = 1 .. Len(setup.steps) /\ Len(setup.steps) \in Nat \ {0}
        /\ mSyncFenceFd \in Steps \cup {0} /\ ~(mFinished /\ hasSyncFence)
        /\ \A j \in Steps : j \notin Dependencies
    BY SetupFacts DEF TypeInv, TypeOK
  <2>2. CASE mFinished
    BY <2>1, <2>2 DEF DoneInv, completedWith
  <2>3. CASE ~mFinished
    <3>1. mSyncFenceFd = Len(setup.steps) /\ mSyncFenceFd \in Steps /\ hasSyncFence
      BY <2>1, <2>3 DEF FinishInv, isFinished, hasSyncFence
    <3>2. task[mSyncFenceFd] = "signaled"
      BY <2>1, <3>1 DEF completedWith, FenceState
    <3>3. Ready(mSyncFenceFd)
      BY <3>1, <3>2 DEF PipelineInv, Progress
    <3> QED BY <2>1, <2>3, <3>1, <3>3 DEF Ready
  <2> QED BY <2>2, <2>3
<1> QED BY <1>1, FallbackDone, PTL

\* An execution is not freed as long as a device works for it, under the same
\* condition: whatever else fails, a lost fence included, it stays in flight.
THEOREM NeverFreedWhileBusy == Spec /\ FallbackIsAlone => []DevicesDoneBeforeFree
<1>1. TypeInv /\ PipelineInv /\ FinishInv /\ DoneInv => DevicesDoneBeforeFree
  <2> SUFFICES ASSUME TypeInv, PipelineInv, FinishInv, DoneInv, execFreed, NEW i \in Steps
               PROVE  ~Busy(i)
    BY DEF DevicesDoneBeforeFree, Busy
  <2>1. /\ Steps = 1 .. Len(setup.steps) /\ Len(setup.steps) \in Nat \ {0}
        /\ mSyncFenceFd \in Steps \cup {0} /\ \A j \in Steps : j \notin Dependencies
        /\ task \in [Steps -> {"none", "queued", "running", "signaled", "error"}]
    BY SetupFacts DEF TypeInv, TypeOK
  <2>2. CASE ~mStarted
    BY <2>2 DEF FinishInv, PipelineInv, Busy
  <2>3. CASE mFinished
    BY <2>3 DEF DoneInv
  <2>4. CASE mStarted /\ ~mFinished
    <3>1. hasSyncFence /\ FenceState(mSyncFenceFd) # "active"
      BY <2>4 DEF FinishInv, isFinished
    <3>2. /\ mSyncFenceFd = Len(setup.steps) /\ mSyncFenceFd \in Steps
          /\ task[mSyncFenceFd] \in {"signaled", "error"}
      BY <2>1, <3>1 DEF FinishInv, hasSyncFence, FenceState
    <3>3. Progress(mSyncFenceFd)
      BY <3>2 DEF PipelineInv
    <3> QED BY <2>1, <3>2, <3>3 DEF Progress, Ready, Busy
  <2> QED BY <2>2, <2>3, <2>4
<1> QED BY <1>1, FallbackDone, PTL

\* Both hold in every execution whose plan and resources leave no device behind, and
\* whatever the plan in one that does not allow the fallback.
THEOREM SafeByPlan ==
    Spec /\ NoDeviceLeftBehind => []SuccessMeansReady /\ []DevicesDoneBeforeFree
BY AloneByPlan, ReadyWhenSuccessful, NeverFreedWhileBusy, PTL

-------------------------------------------------------------------------------
(* The contract: what the client of an execution is promised.               *)

\* The refinement mapping of FencedExecution, by name.
Phase  == IF isFinished THEN "finished" ELSE IF mStarted THEN "running" ELSE "ready"
Ending == IF isFinished THEN completedWith ELSE "pending"
Told   == IF learnt # "none" THEN learnt ELSE IF waiting THEN "asked" ELSE "nothing"
told   == [c \in {"client"} |-> Told]

\* The contract is instantiated with the state functions above.
LEMMA Mapping ==
    /\ Contract!Init <=> /\ Phase = "ready" /\ Ending = "pending" /\ execFreed = FALSE
                         /\ told = [c \in {"client"} |-> "nothing"]
    /\ UNCHANGED <<Phase, Ending, told, execFreed>> => UNCHANGED Contract!vars
    /\ Contract!Start <=> /\ Phase = "ready" /\ ~execFreed /\ Phase' = "running"
                          /\ \/ UNCHANGED told
                             \/ \E c \in {"client"} : told' = [told EXCEPT ![c] = "asked"]
                          /\ UNCHANGED <<Ending, execFreed>>
    /\ Contract!Finish <=> /\ Phase = "running" /\ Phase' = "finished"
                           /\ Ending' \in {"NO_ERROR", "OTHER_ERROR"}
                           /\ UNCHANGED <<told, execFreed>>
    /\ \A c : Contract!Ask(c) <=> /\ Phase # "ready" /\ told[c] = "nothing"
                                  /\ told' = [told EXCEPT ![c] = "asked"]
                                  /\ UNCHANGED <<Phase, Ending, execFreed>>
    /\ \A c : Contract!Tell(c) <=> /\ Phase = "finished" /\ told[c] = "asked"
                                   /\ told' = [told EXCEPT ![c] = Ending]
                                   /\ UNCHANGED <<Phase, Ending, execFreed>>
    /\ Contract!Free <=> /\ Phase # "running" /\ ~execFreed /\ execFreed' = TRUE
                         /\ UNCHANGED <<Phase, Ending, told>>
BY Zenon
   DEF Contract!Init, Contract!vars, Contract!Start, Contract!Finish, Contract!Ask, Contract!Tell,
       Contract!Free, Phase, Ending, told, Told

\* Who asks nothing is told nothing.
LEMMA ToldStays == UNCHANGED <<learnt, waiting>> => UNCHANGED told
BY DEF told, Told

\* The one client of the contract.
LEMMA ToldUpdate ==
    ASSUME NEW v, Told' = v
    PROVE  told' = [told EXCEPT !["client"] = v]
BY DEF told

\* Initially nothing is started, asked or freed.
LEMMA ContractInit == Init => Contract!Init
<1> SUFFICES ASSUME Init PROVE Contract!Init
  OBVIOUS
<1>1. ~mStarted /\ ~isFinished /\ learnt = "none" /\ waiting = FALSE /\ execFreed = FALSE
  BY DEF Init, isFinished, hasSyncFence
<1> QED BY <1>1, Mapping DEF Phase, Ending, told, Told

\* Whatever ends the execution without the client noticing is its end, or nothing.
LEMMA FinishOrStutter ==
    ASSUME TypeInv, FinishInv, [Next]_vars, mStarted, TypeInv',
           UNCHANGED <<mStarted, learnt, waiting, execFreed>>
    PROVE  Contract!Finish \/ UNCHANGED <<Phase, Ending, told, execFreed>>
<1>1. UNCHANGED <<told, execFreed>>
  BY ToldStays
<1>2. CASE isFinished
  <2>1. isFinished' /\ completedWith' = completedWith
    BY <1>2, FinishedStays
  <2> QED BY <1>1, <1>2, <2>1 DEF Phase, Ending
<1>3. CASE ~isFinished /\ ~isFinished'
  BY <1>1, <1>3 DEF Phase, Ending
<1>4. CASE ~isFinished /\ isFinished'
  <2>1. completedWith' \in {"NO_ERROR", "OTHER_ERROR"}
    BY DEF completedWith, TypeInv, TypeOK
  <2>2. Phase = "running" /\ Phase' = "finished" /\ Ending' \in {"NO_ERROR", "OTHER_ERROR"}
    BY <1>4, <2>1 DEF Phase, Ending
  <2> QED BY <1>1, <2>2, Mapping
<1> QED BY <1>2, <1>3, <1>4

\* Every step is a step of the contract or invisible to it.
LEMMA ContractStep ==
    TypeInv /\ PipelineInv /\ FinishInv /\ [Next]_vars => [Contract!Next]_(Contract!vars)
<1> SUFFICES ASSUME TypeInv, PipelineInv, FinishInv, [Next]_vars
             PROVE  \/ Contract!Start \/ Contract!Finish \/ Contract!Free
                    \/ Contract!Ask("client") \/ Contract!Tell("client")
                    \/ UNCHANGED <<Phase, Ending, told, execFreed>>
  BY Mapping, Zenon DEF Contract!Next
<1> USE DEF builderVars, launchVars, deviceVars, clientVars
<1>0. TypeInv' /\ FinishInv'
  BY TypeStep, FinishStep
<1>a. ~mStarted /\ ~mStarted' => UNCHANGED <<Phase, Ending>>
  <2>1. ~mStarted => ~isFinished
    BY DEF FinishInv, TypeInv, isFinished, hasSyncFence, Launching
  <2>2. ~mStarted' => ~isFinished'
    BY <1>0 DEF FinishInv, TypeInv, isFinished, hasSyncFence, Launching
  <2> QED BY <2>1, <2>2 DEF Phase, Ending
<1>1. ASSUME UNCHANGED <<mStarted, learnt, waiting, execFreed>>
      PROVE  Contract!Finish \/ UNCHANGED <<Phase, Ending, told, execFreed>>
  <2>1. CASE mStarted
    BY <1>0, <1>1, <2>1, FinishOrStutter
  <2>2. CASE ~mStarted
    BY <1>1, <1>a, <2>2, ToldStays
  <2> QED BY <2>1, <2>2
<1>2. CASE WaitDependencies
  <2>1. /\ rpc = "dependencies" /\ rpc' = "next" /\ mStarted' = TRUE
        /\ UNCHANGED <<learnt, waiting, execFreed>>
    BY <1>2 DEF WaitDependencies
  <2>2. ~mStarted /\ ~isFinished /\ ~isFinished' /\ ~execFreed
    BY <1>0, <2>1 DEF FinishInv, TypeInv, isFinished, hasSyncFence, Launching
  <2>3. Phase = "ready" /\ Phase' = "running" /\ UNCHANGED <<Ending, execFreed>>
    BY <2>1, <2>2 DEF Phase, Ending
  <2> QED BY <2>1, <2>2, <2>3, ToldStays, Mapping
<1>3. CASE StartComputeWithDependencies \/ (Runner /\ ~WaitDependencies)
           \/ (\E d \in Dependencies : DependencyEnds(d)) \/ (\E i \in Steps : Device(i))
           \/ Terminated \/ UNCHANGED vars
  <2>1. UNCHANGED <<mStarted, learnt, waiting, execFreed>>
    BY <1>3, Zenon
       DEF vars, Runner, Device, StartComputeWithDependencies, NextEnds, NextStep, NextFails,
           RunStep, LaunchStep, LoseFence, RefuseStep, CopyOutputs, StepReturns, Fallback, DependencyEnds,
           DeviceStarts, DeviceEnds, Terminated
  <2> QED BY <1>1, <2>1
<1>4. CASE EventWait
  <2>1. /\ event = "live" /\ learnt = "none" /\ ~waiting /\ waiting' = TRUE
        /\ UNCHANGED <<learnt, dep, builderVars, deviceVars>>
    BY <1>4 DEF EventWait
  <2>2. mStarted /\ UNCHANGED <<isFinished, completedWith>>
    BY <2>1 DEF FinishInv, TypeInv, Launching, isFinished, completedWith, hasSyncFence, FenceState
  <2>3. UNCHANGED <<Phase, Ending, execFreed>> /\ Phase # "ready"
    BY <2>1, <2>2 DEF Phase, Ending
  <2>4. Told = "nothing" /\ Told' = "asked"
    BY <2>1 DEF Told
  <2>5. told["client"] = "nothing" /\ told' = [told EXCEPT !["client"] = "asked"]
    BY <2>4, ToldUpdate DEF told
  <2> QED BY <2>3, <2>5, Mapping
<1>5. CASE EventWaitReturns
  <2>1. /\ waiting /\ UNCHANGED <<dep, builderVars, deviceVars>>
    BY <1>5 DEF EventWaitReturns
  <2>2. learnt' # "none"
    BY <1>5 DEF EventWaitReturns
  <2>3. /\ isFinished' /\ learnt' = completedWith' /\ learnt = "none"
        /\ UNCHANGED <<isFinished, completedWith>>
    <3>1. UNCHANGED <<isFinished, completedWith>>
      BY <2>1 DEF isFinished, completedWith, hasSyncFence, FenceState
    <3> QED BY <1>0, <2>1, <2>2, <3>1 DEF FinishInv
  <2>4. UNCHANGED <<Phase, Ending, execFreed>> /\ Phase = "finished"
    BY <2>1, <2>3 DEF Phase, Ending
  <2>5. Told = "asked" /\ Told' = Ending
    BY <2>1, <2>2, <2>3 DEF Told, Ending
  <2>6. told["client"] = "asked" /\ told' = [told EXCEPT !["client"] = Ending]
    BY <2>5, ToldUpdate DEF told
  <2> QED BY <2>4, <2>6, Mapping
<1>6. CASE ExecutionFree
  <2>1. /\ ~execFreed /\ execFreed' = TRUE /\ ~inFlight
        /\ UNCHANGED <<dep, mStarted, mFinished, mCompletion, mSyncFenceFd, deviceVars, learnt,
                       waiting>>
    BY <1>6 DEF ExecutionFree
  <2>2. UNCHANGED <<isFinished, completedWith>>
    BY <2>1 DEF isFinished, completedWith, hasSyncFence, FenceState
  <2>3. UNCHANGED <<Phase, Ending>> /\ Phase # "running"
    BY <2>1, <2>2 DEF Phase, Ending, inFlight
  <2> QED BY <2>1, <2>3, ToldStays, Mapping
<1> QED
  BY <1>2, <1>3, <1>4, <1>5, <1>6, Zenon DEF Next

\* A fenced execution keeps the same promises as any other: one start, one outcome
\* that the event reports and that never changes, and no end before the free.
THEOREM Implements == Spec => KeepsContract
BY ContractInit, ContractStep, Finish, PTL DEF Spec, KeepsContract
===============================================================================
