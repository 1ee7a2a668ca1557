# A specification of the Neural Networks runtime

This directory holds TLA+ modules for the Android Neural Networks runtime in
`src/nn`, configurations that check them with TLC, and proofs checked by TLAPS.
The subject is what the runtime does *around* the arithmetic: who runs what and
when, how a result is handed over, what happens when a part of it fails.

## The system

A client builds a model, compiles it for a set of devices and executes the
compilation as often as it likes. Partitioning splits the model into a *plan*:
steps, each for one device, with the control flow (IF, WHILE, GOTO) between them
interpreted by the runtime. A device is the CPU inside the process or a driver
service behind a HIDL interface, which may fail, answer late or die.

| Part | State | Operations | Hard behaviour | Correct when |
|---|---|---|---|---|
| Execution (`ExecutionBuilder`, `StepExecutor`) | arguments and their shapes, `mStarted`, `mFinished...`, completion, fence | set arguments, compute, startCompute, startComputeWithDependencies, queries, free | the runner is a thread of its own; a failed step is repeated on the CPU, then the whole model; the client frees while the runner returns | one outcome, final, told to everybody; a success means the outputs are computed; no use after free |
| `ExecutionCallback` and events | notified, status, shapes, bound thread, finish function, mutex | notify, wait, bindThread, setOnFinish, Event_wait, Event_free | several waiters; a join under the lock; a finish function that changes the status | no waiter is lost or told an intermediate status; the thread is joined before the object goes |
| `ExecutionPlan` and its `Controller` | steps; next step, fallback step, fence of the last step, locations of loop variables | next, fallback | rewinding after a failure; conditions that a device still computes; double buffering in loops | no step skipped or run on missing inputs |
| Fenced execution | fence of each step, fences to wait for | startComputeFenced, executeFenced of drivers, of older drivers and of the CPU | all devices work at the same time, ordered by fences only; errors travel along fences | steps serialized; success means ready; the event is signaled |
| Device memory (`Memory`, `DeviceMemoryValidator`, `BufferTracker`) | dimensions, initialized, token | create, use as input or output, copy | failed copies and executions; concurrent executions on one memory; tokens reused | initialized exactly if the last write succeeded; dimensions agree with the data |
| Driver connection (`VersionedIDevice`, `VersionedIPreparedModel`, `DeathHandler`) | connection, protected callbacks | prepareModel, execute, recoverable calls | service death at any time; a call repeated after reconnecting; an answer and a death racing | every call ends; no stale answer is taken for a new one |
| Burst (`BurstBuilder`, `ExecutionBurstController`, `ExecutionBurstServer`) | lock, two message queues, memory cache by slot | burstCompute, memory freed, terminate | polling and futex waiting on both sides; slots reused | every request answered with its own result; slots mean the same on both sides |
| `ModelBuilder`, `CompilationBuilder`, `partitionTheWork`, `ExecutionStep` | operations in run order, steps with their inputs and outputs | finish, partitionTheWork | operations in any order; operands that cross steps; referenced models; devices that cannot do everything, or fail to prepare | the plan computes what the model means |
| `CpuExecutor` | buffers of operands, uses left | run, executeSubgraph, IF, WHILE | buffers shared between subgraphs, counted by uses, doubled in loops | computes what the model means; frees what it allocates, once |
| `BlobCache`, `nnCache` | entries, total size, pending save | set, get, clean, save | eviction, size limits, deferred write | limits kept, a hit returns what was stored last |
| `TypeManager`, validation, `MetaModel`, kernels of the CPU operations, the rest of the sample drivers | | | sequential | out of scope, see below |

The client calls the execution; the execution asks the plan's controller for the
next step and hands it to a device; a driver is called through the driver
connection, or through a burst; the runner notifies the callback, which calls
back into the execution under its lock and wakes the waiters; the execution
updates the device memories it wrote.

## Modules

| Module | What it is |
|---|---|
| `ResultCodes` | result codes and error statuses, and the two conversions of `common/Utils.cpp` |
| `Shapes` | output shapes: which update of dimensions is accepted, merging, combining |
| `ExecutionContract` | abstract: started at most once, one outcome, everyone who asks is told that outcome |
| `Execution` | `compute` and `startCompute`: builder, callback, runner, client threads |
| `ExecutionProof` | theorems about `Execution`: outcome, hand-over, data |
| `ExecutionRefinement` | theorems about `Execution`: dimensions, the thread's join, `ExecutionContract` |
| `FencedExecution` | `startComputeWithDependencies`: dependencies, fences, devices |
| `FencedProof` | theorems about `FencedExecution` |
| `MemoryContract` | abstract: a memory is initialized exactly if the last call that wrote it succeeded, and only initialized memories are read |
| `DeviceMemory` | memories of a descriptor: runtime validator, driver buffers and tokens, executions, fallback, copies |
| `DeviceMemoryProof` | theorems about `DeviceMemory` |
| `VersionedDevice` | the connection to a driver service that dies and comes back: death handlers, callbacks, recoverable calls |
| `VersionedDeviceProof` | theorems about `VersionedDevice` |
| `Burst` | executions on burst objects: lock, two queues, the cache of memories on both sides |
| `BurstProof` | theorems about `Burst` |
| `Models` | models with control flow: operations, operands and their lifetimes |
| `Plans` | steps of a plan: what each reads and writes, what the controller keeps, and the shape a plan has |
| `ExecutionPlan` | build, compile, make a controller, execute step by step, fall back; how a model is partitioned and what it computes are parameters |
| `ExecutionPlanMaps` | lemmas about the controller's maps while a plan is executed |
| `ExecutionPlanProof` | theorems about `ExecutionPlan` |
| `Subgraphs` | what models mean: the definition that executions are compared with |
| `Partitioner` | run order, choice of devices, steps of a plan, step models |
| `CpuExecutor` | the CPU's execution of a model with its buffers |
| `MC*` | instances for TLC; `MCExecutionPlan` composes the six modules from `Models` to `CpuExecutor` |

In the modules that the runs check an operator that nothing uses stands right
before some operators: the same place in the code with a plausible mistake
(a dropped guard, a swapped order). Putting it in the place of the operator must
break one of the properties; `PROJECT.json` says which.

Who stands for whom: `Execution`, `FencedExecution` and `DeviceMemory` take a plan
as a sequence of steps that succeed or fail; `ExecutionPlan` is where such a plan
comes from and what its steps read and write. A device that returns at some time,
whatever happens to its service, is what `VersionedDevice` and `Burst` show.

### `Execution`

The variables keep the names of the members. `rpc` is where the runner is, that
is the thread in `asyncStartComputePartitioned`: its own thread, or the calling
client's for a synchronous call and under `syncExecRuntime`. `cpc[c]` is where the
client thread `c` is inside the API. Every step of the runner up to the next
point where another thread could see a difference is one action:

* `NextStep`, `NextEnds`, `NextFails` are `ExecutionPlan::next` as the loop sees
  it; `ComputeStep` is one run of a step with everything the loop decides on its
  result, `PartialFallback` and `FullFallback` the two fallbacks.
* `NotifyStore`, `FinishUpdate`, `FinishMark`, `FinishFlag`, `NotifyUnlock` are
  `ExecutionCallback::notifyInternal`, split so that a client thread can come in
  between each two of the writes that are not protected by the callback's mutex
  from it (`isFinished` takes no lock).
* `EventWait`, `WaitNotified`, `Join`, `GetStatus` are `ANeuralNetworksEvent_wait`,
  in which the mutex is taken twice; `EventFree`, `DeleteEvent`, `ExecutionFree`
  are the two frees.

What a device returns is any result code of `ExecuteReturns` with any shapes; it
may write garbage to its outputs when it fails. `data` is a history of what each
step's results hold, `reported` of the shapes that the runs of the steps reported
last; no guard depends on them. Dimensions are abstracted to the values of `Dims`, of
which 0 means unspecified. One element of `Setups` is a plan,
the fallback policy, and the dimensions of outputs and output memories.

Assumed of the client, as `NeuralNetworks.h:6079-6091` asks: one thread at a time
starts or frees an execution, the event is freed by one thread and not while
others wait on it. Assumed of drivers: `isSufficient = false` comes only with
OUTPUT_INSUFFICIENT_SIZE, and a call returns at some time (the driver connection
turns a death into an error). The CPU executor, unlike a driver, reports shapes for all
outputs whenever it reports any (`CpuExecutor.cpp:668`). `next()` may fail at any step of
a plan with control flow; without control flow it fails at the first step only, when there
was no memory for temporaries (`ExecutionPlan.cpp:760`).

### `FencedExecution`

A fence is named after what signals it, a dependency or a step. `task[i]` is what
the device does for step `i`, `waits[i]` the fences it was given. `FenceState` is
`syncWait`. A step on a `fenced` device may also be run at once, without a fence
(the HAL allows it and the sample driver does it), or be refused; or it is accepted and
its fence lost (`LoseFence`): `executeFenced` cannot duplicate the fence and returns a
failure while the device works (`Manager.cpp:518-524`). That may happen in setups with
`fdsRunOut`, since the lack of file descriptors is the reason. The other calls of `dup` do
nothing worse: of a fence to wait for, before the launch, which is `RefuseStep`, and
of the fence that an event holds, which a CHECK aborts on (`Event.h:58`). That `poll` fails
for a reason of its own is left out. `branches` are
the IF and WHILE steps of the plan in the order in which they are interpreted; an
unrolled loop is a plan with a `while` at each iteration. Shapes are left out: the
outputs of a fenced execution must be fully specified before the start
(`ExecutionBuilder.cpp:757-765`).

### `DeviceMemory`

`mem[m]` is the runtime's `Memory`: its IBuffer (named by the `ManagedBuffer` behind
it), its token and the validator's flag. `mTokenToBuffers`, `mFreeTokens` and
`mInitialized` are the driver's `BufferTracker` and `ManagedBuffer`s. A freed memory's
token is `released` until the driver learns that nobody refers to its `SampleBuffer`.
`data` is what a location holds, a history that no guard depends on. `op[t]` is the
call thread `t` is in: an execution asks the validator, sends its pools to the driver,
which resolves tokens and asks its buffers, runs, and may fall back to the CPU; a copy
and the fallback share the two calls `copyTo` and `copyFrom`; `Finish` is what
`finishWithoutSyncFence` or `Memory::copy` records. Each call into the driver is an
action of its own, so that failures, other threads and the death of the driver come
in between. A fenced execution here is one on the sample driver, which finishes it
before it answers; with a fence that outlives the call see `FencedExecution`.

Dimensions are left out: `SampleDriver::allocate` and the fallback to shared memory
both refuse a descriptor whose size is unknown, so that in a memory that exists the
dimensions are complete and a request either has the same or is refused when it is
built. An execution reads one memory and writes another; the client does not use one
memory for both. An ordinary memory, or a pointer, is `Client`: always initialized,
always good. After its death the driver stays dead; memories belong to roles of
compilations whose prepared models died with it, so that a new process sees no old
token. Assumed of the client (`NeuralNetworks.h:5943`, `:6100`): it does not free a
memory in use and orders a call that writes a memory with the calls that use it.

### `VersionedDevice`

Incarnations of the service are numbered; `gen` and `alive` are the service, `core`
is the incarnation to which `VersionedIDevice::Core` holds an interface, `told` the
death handlers that have run and `mCallbacks` what is registered with each
(`DeathHandler`). A call of a thread goes through `getDeviceAndDeathHandler`,
`Protect`, `Send`, `CallReturns`, waiting for its callback, and `Leave`, so that the
service, its death notice and other threads come in between; `Recover`, `MakeDevice`
and `CreateCore` are `recoverable()` under `mMutex`, and `wait` is
`VersionedIDevice::wait`. `Notify` is the service's answer, `serviceDied` a death
notice. HAL versions differ in conversions and are one; calls on a device without a
callback (getCapabilities, getSupportedOperations, allocate, ...) all are `allocate`.
A prepared model belongs to the incarnation that prepared it.

### `Burst`

`mCurrentlyRunning` is the flag of `BurstBuilder`, `mMutex` the controller's, and
`mMemoryIdToSlot`, `mMemoryCache`, `mFreeSlots` the `ExecutionBurstCallback`'s;
`requests` and `results` are the two queues and `mValid` the ends of them that are
still valid. `worker[b]` is where the server's thread is and `serverCache[b]` what it
has in each slot. `Send` caches the memory and writes the request;
`EnsureCacheEntriesArePresent` asks the client for slots the server does not know;
`TellServer` is the destructor of a memory, which frees it from the caches of the
bursts in `mUsedBy`; `serviceDied` invalidates both ends and wakes the receiver, one
after the other. Memories are cached, and bursts remembered, by address, and two
objects of which one lives after the other may have the same (`key`, `address`). A
packet is one element of a queue; a request has one memory and a burst one controller.

### `Models`, `Plans`, `ExecutionPlan`, `Subgraphs`, `Partitioner`, `CpuExecutor`

A value is the term of its computation, so that a result is right only if it has been
computed by the right operations from the right operands in the right order. Of
sizes only one thing is kept, that an operand's may be unknown (`g.unknown`).
Conditions are decided by the instance: `g.yes` for leaves, and the depth of a
computed term, up to `g.limit`, which ends the loops that compute with it.

`Subgraphs!Evaluate` says what a model means, without buffers, steps or devices.
`Partitioner` translates `sortIntoRunOrder`, `findBestDeviceForEachOperation`,
and `partitionTheWorkInternal` (queues of ready operations per device, the steps for
IF and WHILE with their `goto`s) as operators on records. `Plans` translates what does
not recur over models: `addOperand` and `findTempsAsStepModelOutputs` (which operands a
step model gets and returns), what `makeController` allocates, and the boundary
constants. `CpuExecutor` does the same for `executeSubgraph`, `executeOperation`,
`executeIfOperation`, `executeWhileOperation` and the freeing of buffers, over a heap
whose entries are live, static, freed or corrupted.

`ExecutionPlan` has the state of the controller under its names. `build`, `finish`
and `makeController` come before it; `NextExecution`, `NextIf`, `NextGoto`,
`WhileCondition`, `WhileBody`, `WhileExit`, `LoopTimesOut` are `next()` for each kind
of step, `NextFails`, `NextIfFails` and `WhileExitFails` its errors: there were no
temporaries, or `getBuffer` cannot map a memory of the client or of constants
(`MayBeUnmapped`; temporaries are always mapped); `compute`, `cpuFallbackPartial` and `cpuFallbackFull` run a step model, again
on the CPU, or the whole model. The four maps of the controller are looked into in
the order of the code. Any computation may fail, and then leaves anything (`Garbage`)
in its outputs. A CHECK of `setInput`, `setOutput`, `nextCompound` or
`mapInputsAndOutputs` that fails, also one that only a debug build has, leads to
`"aborted"`, which `TypeOK` excludes. One client, no driver services, no fences: these
are in the modules above.

Its constants `InRunOrder`, `Partition`, `Meant`, `Holds` and `OnCpu` are operators, to
which the `plan` run gives `finishModel` and `partitionTheWork` of `Partitioner`,
`Evaluate` and `IsTrue` of `Subgraphs`, and `run` of `CpuExecutor`. These recur over
models inside models; the state machine does not, and so can be reasoned about for
every plan. What it takes of a plan is `IsPlan` in `Plans`, and `PlansAssumption` says
that partitioning gives such a plan:

* the steps of a referenced model are in one piece, entered by its IF or WHILE only,
  and left by a `goto`, or from one step to the next, to where fewer models are active;
  a loop is left through its WHILE only;
* each referenced model has an index of its own, later than that of the model that
  refers to it, and a loop's body later than its condition;
* an IF or WHILE passes on as many operands as the models it references have
  (`validateIfOperation` and `validateWhileOperation`, `Utils.cpp:730`, `:774`), what it
  and a step model read is provided by some step if it is a temporary, and what it
  writes are temporaries or outputs, finitely many, none of
  them twice or also read
  (`ValidateHal.cpp:606-667`; so is the order of operations in `sortIntoRunOrder`);
* inputs, outputs and constants of a model are different operands, each an input or
  output once (`ModelBuilder::identifyInputsAndOutputs`).

TLC evaluates the assumption for every model, every ability of the devices and every
mode of the `plan` run.

## Runs

| Run | Instance | Shows |
|---|---|---|
| `execution` | 4 plans x fallback allowed or not x output 2 in no memory, one of known or of unknown dimensions x one of the outputs specified or none; 2 clients; `Dims = {0,2,3}`; 3.4 million states | the other safety properties of `Execution` |
| `handover` | 2 plans, 1 output, with and without a device memory; 2 clients; 115000 states | `FinishRunsOnce`, liveness, and `Execution` implements `ExecutionContract` |
| `fenced` | 1 to 3 steps on every kind of device, with IF and WHILE, 0 to 2 dependencies, one of each kind; with fallback, or without and with fences that get lost; 24000 states | all properties of `FencedExecution` |
| `fenced_fallback`, `fenced_dependency`, `fenced_condition`, `fenced_memory` | the same modules | four statements of the documentation that the code does not keep, see Findings |
| `memory` | 2 memories, 2 buffers, 2 threads, executions and copies, failures anywhere, one death of the driver; 750000 states | all properties of `DeviceMemory`, which implements `MemoryContract` |
| `connection` | 2 threads with one call each, of every kind against the others (`MCCalls`), 2 incarnations of the service, which die at any point; 385000 states | all properties of `VersionedDevice` |
| `burst` | 2 threads with up to 3 calls each, 2 memories at one address, 1 burst, a death at any point; 121000 states | all properties of `Burst` |
| `burst_address` | 2 bursts, one after the other at one address | a statement of a comment that the code does not keep, see Findings |
| `plan` | 1047 combinations of 11 models with variants, abilities of 2 devices beside the CPU, unknown sizes, modes of partitioning; 78000 states | all properties of `ExecutionPlan`, with `Partitioner`, `Subgraphs` and `CpuExecutor` as its parameters; `PlansAssumption` |

Why the bounds are enough. Two steps give a failed step with a good one before and
one after it; a third step adds, for fences, one that waits for a step that itself
waits. Two client threads give two concurrent waiters, or a waiter and one that
frees. Two specified dimensions (2 and 3) give a clash; more values give no other
result of `isUpdatable`. Two outputs, of which either one may be specified,
give a list that clashes half way, after the other output was written. Client
threads are interchangeable, and the `execution` run, which checks no liveness, uses
that symmetry. Two memories give a source and a destination, or one that gets the
token of another; with two buffers a token is freed, used again and confused; two
threads give a reader beside a reader and beside any change of tokens. The same
instance with three buffers (5.1 million states) holds too, but takes longer.
Two incarnations of a service give a call before, across and after a death, and a
recovery that finds another thread's; a second death meets the same code with other
numbers. A memory that follows another at its address, with two threads, gives a slot
that is freed and reused while a request with its old meaning is on its way. The
models of the `plan` run have, each in some combination, operands that cross steps,
constants at the boundary of branches, a loop in a loop, a branch in a loop, a loop
in a branch, a loop without end alone and around one with an end, outputs that are
read, cyclic and unsorted operations, and operations that no device or only the CPU
can do; `g.limit` gives loops of 0 to 3 iterations, that is both places of the double
buffer and a swap back.

The `memory` run leaves out fenced executions and copies of a memory to itself, whose
deviation from the documentation `fenced_memory` and the section on behaviours without a
run describe; with them, `UsableWhenInitialized` and `KeepsContract` would fail for that
reason only. The `burst` run has one burst for the same reason: `burst_address` shows
what a second one at the first one's address does to `CachedMemoriesLive`.

The `fenced` run allows the CPU fallback only for setups in which no device can be
busy when a step fails: for plans that leave no work to a device before their last
step, and without fences that get lost. The plans without fallback are run with the
losing of fences. In the other setups the fallback is wrong, which is what
`fenced_fallback` shows; with them in the `fenced` run `SuccessMeansReady` and
`DevicesDoneBeforeFree` would fail for that reason only. `LostFenceSetups` in
`MCFencedExecution` are the setups in which a lost fence is enough: in the place of
`FallbackSetups` they violate `SuccessMeansReady` in the same way.

### Properties worth a word

* `NoUseAfterFree`: the runner notifies under the callback's lock but the free
  decides without it. It is safe because `mFinishedWithoutSyncFence` is the last
  write of `finishWithoutSyncFence`, and nothing after it uses the builder.
* `ClientLearnsTheTruth`: a waiter that is woken between the store of the status and
  the finish function would see a success that became a failure. The lock prevents
  it, although `getStatus` reads the status after releasing it.
* `ShapesAreOfTheResults`: `StepExecutor::updateOutputShapes` writes while it checks, so a
  list of shapes that clashes half way leaves a part of it behind, and a driver may report
  no shapes at all, which leaves those of the run before. A client sees neither: what comes
  after a clash is a fallback whose runs report all of their outputs and are checked again.
* `SuccessMeansComputed`: the fallback of a step restarts exactly there and the full
  fallback restarts from the model's inputs, so half-written results never survive.
* `NobodyWaitsInVain`: a callback is registered, and the interface linked to death, in
  an order that leaves no moment in which neither the service nor the handler of its
  incarnation will notify it, although handlers are exchanged by `recoverable()`.
* `ModelOfLastAttempt`: a call that is repeated after a recovery has the callback of its
  first attempt, which may have got an answer before the service died; that the model in
  it is not returned is due to `linkToDeath`, which fails for it.
* `ExecutedOnce`: what a burst could not send may be executed on the regular path, what
  it has sent may not, even if the answer never comes.
* `ComputesTheModel`: the partitioner, the interpreter of control flow with its
  renaming maps and double buffers, and the CPU executor each translate the model
  once more; all agree with `Evaluate`.
* `InputsDoNotAliasOutputs`: a step may be repeated after a failure only because it did
  not overwrite its own inputs, in loops by swapping the buffers.
* `StepsSerialized`: all steps of a fenced plan are launched at once, and each waits
  only for its predecessor's fence. That chains all of them, and the dependencies.

* `SuccessReadsGood`: runtime and driver disagree after a failed execution (the
  driver still takes its output for initialized), and any step may fail or find the
  driver dead; still no call that succeeds has read anything but good data.
* `NoForeignWrites`: a request names buffers by tokens that are used again while
  another thread creates and frees memories.

### Fairness

`Execution`: weak fairness of the runner (a thread in the process; drivers answer
or are reported dead, and WHILE loops time out) and of the steps of clients that are
already inside a blocking call. Nobody has to start, wait or free.
`FencedExecution`: weak fairness of the thread inside the call, of devices and of
dependencies (a fence is eventually signaled or in error, which the sync framework
guarantees by its timeout) and of a client that waits.
`VersionedDevice`: weak fairness of each thread inside a call, of the answer to a call
that a living service has accepted, and of death notices (binder delivers them);
strong fairness of taking `mMutex`, since each owner releases it; and a service that is
dead is started again (`[]<>alive`; init restarts HAL services), without which a thread
in `wait()` blocks the others, see below.
`Burst`: weak fairness of each thread, of a server that lives and of death notices;
nothing is assumed of restarts.
`ExecutionPlan`: the thread goes on (`ThreadRuns`, which is weak fairness of its
actions written without ENABLED) and the clock of each loop does; drivers return.

## Findings

Each is the counterexample of a run that expects a violation.

1. A dependency without a fence that fails does not fail the execution
   (`NeuralNetworks.cpp:1545` drops the status of `wait`).
2. When a step fails to launch, the CPU fallback does not wait for the device that
   still works on an earlier step (`ExecutionBuilder.cpp:710`). Nor does it wait for the
   device of the failed step itself, if that has accepted the step and only the
   duplication of its fence failed (`Manager.cpp:520`).
3. An IF at the start of a plan reads its condition, a model input, before the
   dependencies' fences are signaled (`ExecutionPlan.cpp:1266`).
4. An execution whose last step is fenced never tells its output memories how it ended
   (`ExecutionBuilder.cpp:937`): they stay uninitialized after a success, and
   initialized, if they were so, after a failure.
5. A burst at the address of an earlier one is not remembered by a memory that the
   earlier one used (`Memory.cpp:229`: `emplace` keeps the expired pointer), so that the
   destructor of the memory leaves it in the new burst's cache.

### Behaviours without a run

Met while modelling; some contradict a comment, none has a run of its own.

* A copy of an uninitialized memory to itself succeeds and marks it as initialized
  (`Memory.cpp:280`); in `DeviceMemory`, `CopiesOnlyInitialized` fails for it.
* A fenced start that fails without a fallback leaves the execution in flight for ever,
  so that freeing it is always ignored; the duplicated fence descriptors are never closed.
* `VersionedIDevice::wait` holds `mMutex` while it blocks until the service is there:
  without restarts every other call that finds the device dead waits behind it
  (`VersionedInterfaces.cpp:930`; `DeadDeviceAnswers` fails under `NoRestartSpec`).
* A call with a callback that is repeated after a recovery finds the callback notified
  by the failure of the first attempt, so that the new service's answer is dropped and
  the call fails, although `VersionedInterfaces.h:542-548` says that it is tried again
  (`AnswerCounts` fails). The test of it is disabled (`TestVersionedInterfaces.cpp:1746`).
* The CPU executor frees what it allocated when it succeeds. When an operation fails,
  `freeUnusedSubgraphOperands` frees only operands without uses left, a branch leaves
  its operands to nobody, and a loop does not record the new outputs of its body
  (`CpuExecutor.cpp:1768`, `:1886`): that memory is lost.
* The temporaries of a loop body keep the dimensions they got in the first iteration,
  so that growing ones fail (`CpuExecutor.cpp:180`).
* If the shared memory for temporaries cannot be created while constants have to be
  copied into it, the constructor of the controller uses the null pointer
  (`ExecutionPlan.cpp:766`); `makeController` leaves this case out.
* An omitted operand (`NO_VALUE`) that is an input of an interpreted IF or WHILE
  has no location, which a CHECK answers by aborting (`ExecutionPlan.cpp:1217`). The
  models of the `plan` run have no omitted operands.

## Proofs

TLC checks the instances of the runs; the theorems hold for all values of the constants
that satisfy the assumptions of the modules: any number of clients, threads, steps,
outputs, memories, buffers, bursts, incarnations and calls, finite or not. The assumptions
say that names differ which stand for different things (`"free"` is no client, `Nobody`
no burst, `NoBuffer` no buffer, a memory is not a burst), that an execution has an output
and a plan a step, that the setups are well formed, and, in `ExecutionPlan`, that plans have
the shape described above. TLC evaluates them in every run.

Every invariant that the runs check is proved, but for two of `ExecutionPlan` that
are about what recursive operators compute, and so are all action properties and, of the
three refinements, what is safety. None of the invariants is inductive alone. Each proof module begins with its inductive
invariant, in layers: a layer is proved with the help of those before it, one lemma per
layer and part of the next-state relation.

| Module | Theorem | States | Condition |
|---|---|---|---|
| `ExecutionProof` | `Typing`, `NeverUsedAfterFree`, `FinishesOnce`, `Truth`, `Computed`, `FinalAnswers`, `ShapesOfTheResults` | `TypeOK`, `NoUseAfterFree`, `FinishRunsOnce`, `ClientLearnsTheTruth`, `SuccessMeansComputed`, `AnswersAreFinal`, `ShapesAreOfTheResults` | |
| `ExecutionRefinement` | `DimensionsAgree`, `Joined`, `Implements` | `MemoryDimsAgree`, `JoinedBeforeReturn`, `ExecutionContract!Safety` | |
| `FencedProof` | `Typing`, `Serialized`, `ConditionsComputed`, `Implements` | `TypeOK`, `StepsSerialized`, `ConditionsAreComputed`, `KeepsContract` | |
| | `ReadyWhenSuccessful`, `NeverFreedWhileBusy` | `SuccessMeansReady`, `DevicesDoneBeforeFree` | if always `FallbackIsAlone` |
| | `AloneByPlan`, `SafeByPlan` | `FallbackIsAlone`, and these two properties | `NoDeviceLeftBehind` |
| `DeviceMemoryProof` | `Typing`, `Exclusive`, `OnlyItsCallsWrite` | `TypeOK`, `TokensAreExclusive`, `NoForeignWrites` | |
| | `InitializedIsUsable`, `SuccessIsGood`, `Implements` | `UsableWhenInitialized`, `SuccessReadsGood`, `KeepsContract` | `PlainKinds` |
| `VersionedDeviceProof` | `Typing`, `NobodyIsForgotten`, `NoNeedlessReconnection`, `ModelIsOfLastAttempt` | `TypeOK`, `NobodyWaitsInVain`, `ReconnectsOnlyWhenDead`, `ModelOfLastAttempt` | |
| `BurstProof` | `Typing`, `AtMostOnce` | `TypeOK`, `ExecutedOnce` | |
| | `NoTrace`, `RightMemoryComputed` | `CachedMemoriesLive`, `RightMemory` | while `DistinctAddresses` |
| | `NoTraceIfClean`, `RightMemoryIfClean` | `CachedMemoriesLive`, `RightMemory` | if always `NoStaleMark` |
| `ExecutionPlanProof` | `InvHolds`, `TypeCorrect`, `GuardsHold`, `NoAliasing` | `TypeOK`, `InputsDoNotAliasOutputs` | |

Five conditions go beyond the modules' assumptions. Each excludes what the code
does not handle.

* `FallbackIsAlone`: whenever the CPU fallback runs, no device works for the execution. The
  theorems are about all executions in which that is so, with lost fences and any plan.
  Run `fenced_fallback` is the counterexample without it (finding 2).
* `NoDeviceLeftBehind`: if the CPU fallback is allowed for this execution, no fence can be
  lost and no step of its plan but the last leaves work to a device after its launch. It is
  a condition on the setup from which `FallbackIsAlone` follows (`AloneByPlan`).
* `DistinctAddresses`: no two bursts that have been created so far have the same address.
  It is a condition on states: the theorem says `[](condition => property)`, so it holds in
  every execution, and for as long, as the condition does. Run `burst_address` is the counterexample without it (finding 5). Memories may share
  theirs, which is the case that the slots are about.
* `NoStaleMark`: whatever a memory remembers under the address of a burst that lives is this
  burst. It follows from `DistinctAddresses` and says more exactly what finding 5 breaks: the
  allocator may use addresses again, as it does, when the memories that remember the old
  burst are destroyed before there is a new one at its address. These theorems are about
  executions in which it holds all the time (`Spec /\ []NoStaleMark => []property`), since
  the stale mark that has kept a memory in a cache may be gone when the memory is.
* `PlainKinds`, on the constants: calls are executions that are not fenced and copies
  between two memories. Run `fenced_memory` shows a fenced execution that leaves the state
  of its output (finding 4), and a copy of a memory to itself changes it without a write.
  It is not a condition on states because one such call spoils what comes after it.

All five hold of the instances of the runs: the first two of `fenced`, the next two of
`burst` and the last of `memory`.

### The arguments

**Execution.** `TypeInv`: a list of shapes that is under way is complete or empty, since
a partial one would not be a value of `mOutputs`; the fallback index is valid wherever
it is used. `HandoverInv`: the runner's position determines `mStarted`, `mFinished`,
`mNotified`, the owner of the mutex and whether the finish function is still bound.
From it follow `NoUseAfterFree` and `FinishRunsOnce`. `OutcomeInv`: the status in the
runner's hand, the stored status, the completion and the memories describe the same
outcome as soon as each of them is written, and a client has learnt only the stored
one; hence `ClientLearnsTheTruth` and `AnswersAreFinal`. `DataInv`: the steps before the
controller's index have good results, and a NONE on its way means that all have; hence
`SuccessMeansComputed`. `DimsInv` carries the agreement of dimensions from the update to
the notification: an update that is not rejected leaves each memory with dimensions that
it can have and that the builder knows. `ShapesInv` compares the shapes under way with
what was reported: between steps they are the same, when a step has failed they differ in
its outputs only, which the repetition on the CPU all reports, and what a full fallback
reports is complete; hence `ShapesAreOfTheResults`. `JoinInv` ties the thread to the event: a thread
that was started is bound before there is an event, joined once, by the client that has
the mutex for it, and whoever is past the wait finds it joined. The refinement maps each
step of `Execution` to a step of `ExecutionContract` or to none; it needs `OutcomeInv`
for the answers and `JoinInv` for the place where each client can be.

**Fenced execution.** `PipelineInv` is the heart: the fences that step n + 1 waits for
are `Settled`, that is they are the dependencies for n = 0, or empty because everything
before has ended well, or the fence of step n alone. A step that runs has a `Ready`
prefix; one that has ended with an error has nothing busy before it, which is how one
fence comes to stand for all. `FinishInv` says what builder and event tell, and with it
comes `KeepsContract` whatever the fallback does. `DoneInv` needs
`FallbackIsAlone`: a completion without fence leaves no device at work, since without a
fallback all devices before it have ended, and with one there is none. `LeftInv` shows that
`NoDeviceLeftBehind` is enough for that: the fence of a device that works is waited for by
the step that launched it, or it is the last.

**Device memory.** `TokenInv`: tokens in use, released and free are disjoint, and two
that are not free lead to two buffers; nothing less survives the reuse of a token from
the free list. `CallInv`: a call's memories live, no two calls meet on one that is written,
and what the driver works on is where these memories are. With these two, `NoForeignWrites`
holds for calls of any kind. `CallStateInv` says what a call that has got this far knows of its
source, and `MemoryStateInv` that a memory which counts as initialized and which nobody is
writing is `Usable`, by runtime and driver alike, or has died with the driver.

**Driver connection.** `LockInv`: who makes a connection has the mutex, and the
connection it replaces is dead. `Tied`: a call in progress has the handler of the
incarnation it goes to and is registered there before it is sent. `Asked`: a living
service that has got a call owes the answer, and a thread waits only for a handler that
had not run when the call returned; this is `NobodyWaitsInVain`, made inductive. `Answered`:
an answer is of the last attempt or of a dead incarnation, to whose model nobody can link.

**Burst.** `SlotInv` and `TakenInv`: a key's slot holds a memory of that key, what is free
is empty and free once, and the slot of a request is taken while it runs. `NoticeInv` and
`QueueInv`: as long as the service's death has not reached the sender there is one request
under way at most, in exactly one of queue, server and result queue, and it is that of the thread
that waits. This gives `ExecutedOnce`: a request that was sent cannot be both executed by
the service and repeated on the other path. `CoherenceInv`: the server has in a slot what the
client has, except in the one that a destructor is about to tell it of. On top of these,
`MarkedInv`: a burst that a memory remembers has been created, so that distinct addresses
leave no stale mark (`DistinctIsClean`). And as long as there is no such mark,
`LifeInv`: a memory that is cached in a living controller lives, remembers the burst,
and its destructor has the burst still before it. `SuccessInv` follows the memory that was
used from the server through the result queue to the outcome.

**Execution plan.** The controller renames operands as it goes: an IF gives the operands
of a branch the locations of those outside, a WHILE those of its condition and body
again in each iteration, and what a model left behind when it was last active is still
in the maps. `RunInv` says what of this can be relied on at a step, by the models that
are active there. `IsPermanent`: temporaries and copied constants are where
`makeController` put them, except that the outputs of a body may have changed their two
places, and are always in the other one of `mSourceOperandToOffsetOfTemporary2`.
`IsSound`: what an active model reads or writes has a location, which was made for an
operand of this model or of an earlier one, so that it is not a temporary of the model
itself; an output shares its location with no other operand of the model. An exception is
the condition of a loop, which gets what the body has put out although the body's number
is later: `HasCondition` says that its inputs are either those of the WHILE or these.
`IsInside`: a loop is going on only where one of its models is active, or at its WHILE.
With the order of the models' numbers this is inductive: an operand that is given to a
model which is entered was made for an earlier one, hence is none of the operands that
change. `Enter` shows that once for all of them; `Branch`, `Condition` and `Body` are an
IF, and a WHILE to its condition and to its body, `Exchange` the swap of the buffers, and
`Jump` a step that leaves models. That `setInput` and `setOutput` for lists of any length
do what one call after the other does (`SetEach`, `AsEach`) is an induction over the
naturals, from their well-foundedness. From `RunInv` follow that no CHECK fails
(`TypeCorrect`), and of `NoAliasing` that no step writes where it reads: inputs of a body
are in one place of the double buffer when its outputs are in the other. That arguments and
constants keep their values is a second invariant, `Guards`: what is an output or temporary
is in the maps that `setOutput` looks into only, and at a location that was not made for an
argument or a constant (`Protects`, and `IsSpare` for the second temporaries). `setInput` and
`setOutput` keep that because what they make a location for is an input, which is only
read, or is an output that gets the location of an output or temporary (`IsCareful`). So
each step, each copy at the end of a loop and each fallback writes around them, and a
fallback to the CPU for the whole model reads what the client has put in.

### Only model-checked

* Liveness, which TLAPS cannot treat under fairness: `StartedFinishes`, `WaitsReturn`,
  `EventIsSignaled`, `CallsReturn`, `Terminates` and the liveness half of
  `ExecutionContract`.
* `ComputesTheModel` and `CpuFreesWhatItAllocates`: they are about what
  `Subgraphs!Evaluate`, `Partitioner` and `CpuExecutor` compute, which recur over models
  inside models with RECURSIVE operators. For every model this would be an induction over
  the structure of models, which is out of the provers' reach, unlike the induction over
  naturals above.
* `PlansAssumption`, for the same reason: that `partitionTheWork` gives plans of this
  shape is checked for the models of the `plan` run and assumed of others.

## Not modelled, and why

* Numerical operations, validation, conversion between HAL versions, type tables:
  sequential functions on large data.
* Dimensions and sizes outside `Shapes`: that a size is unknown is all that the choice
  of steps and the buffers of loops depend on.
* `BlobCache` and `nnCache`: a structure that one thread at a time uses under a lock, in
  the sample code of drivers; the runtime itself does not call it.
* Measured performance, caching tokens, priorities and deadlines of a compilation.
* Argument setting before the start: checks of single calls.
* Data races on plain members (`mDeadObject`, timing): no property reads them.
* Generated tests, fuzzers, tools, ChromeOS glue, sample drivers beyond their device
  memories: not the runtime.

## What is left

In this order.

1. Lemmas about the conversions of `ResultCodes` and the updates of `Shapes`, for all
   statuses and dimensions, in a module of their own.
2. Setting of arguments before the start, with the memory pools of a request.
3. `BlobCache`: entries, eviction, sizes, against a plain map with a size limit.
