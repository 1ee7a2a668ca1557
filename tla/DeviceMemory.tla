----------------------------- MODULE DeviceMemory -----------------------------
(***************************************************************************)
(* Memories that are created from a descriptor.  Such a memory lies in a   *)
(* buffer of the driver, which the runtime names by a token in a request   *)
(* and reaches through an IBuffer when it copies, or, when the driver does *)
(* not allocate it, in shared memory.  The runtime and the driver each     *)
(* remember whether it is initialized, and each update that on their own.  *)
(*                                                                         *)
(* Modelled are the life of memories, tokens and buffers, executions of    *)
(* one step with one memory in and one out, their fallback to the CPU,     *)
(* copies, and the death of the driver.  The driver is the sample driver,  *)
(* which only allocates what has fully specified dimensions: a request     *)
(* with others is refused when it is built and dimensions never change.    *)
(*                                                                         *)
(* An operator that nothing uses, right before another one, is the same    *)
(* place in the code with a plausible mistake.                             *)
(***************************************************************************)
EXTENDS Naturals, Sequences, SequencesExt

CONSTANTS Memories,  \* handles of the client to memories of a descriptor
          Client,    \* an ordinary memory or pointer of the client, always good
          Threads,   \* threads of the client, each in one call at a time
          Buffers,   \* instances of ManagedBuffer that may exist at a time
          Kinds      \* the calls to consider, see KindsAssumption

\* An execution, a fenced one, a copy, and a copy of a memory to itself.
ASSUME KindsAssumption == Kinds \subseteq {"compute", "fenced", "copy", "selfCopy"}
NoBuffer == "nullptr"
ASSUME DistinctAssumption == /\ Memories \cap Buffers = {}
                             /\ Client \notin Memories \cup Buffers
                             /\ NoBuffer \notin Memories \cup Buffers \cup {Client}

Executions == {"compute", "fenced"}

VARIABLES
    \* runtime: Memory with its IBuffer and token, DeviceMemoryValidator
    mem,
    op,               \* the call that each thread is in
    result,           \* what the last call of each thread returned
    \* driver
    alive,
    mTokenToBuffers,  \* the entry of token 0, always null, is left out
    mFreeTokens,      \* top of the stack last
    released,         \* tokens whose IBuffer nobody refers to any more
    mInitialized,     \* of each ManagedBuffer
    \* what the buffers, and the memories outside the driver, hold
    data

trackerVars == <<mTokenToBuffers, mFreeTokens, released>>
vars == <<mem, op, result, alive, trackerVars, mInitialized, data>>

\* in, out: where the driver reads and writes; read: what the call has read.
Idle == [pc |-> "off", kind |-> "copy", src |-> Client, dst |-> Client, fallback |-> FALSE,
         in |-> Client, out |-> Client, read |-> "nothing", n |-> "NO_ERROR"]
NoMemory == [kind |-> "none", token |-> 0, buffer |-> NoBuffer, initialized |-> FALSE]

Live(m) == IF m = Client THEN TRUE ELSE mem[m].kind # "none"
OnDevice(m) == IF m = Client THEN FALSE ELSE mem[m].kind = "device"

\* An ordinary memory has no state of initialization: it always counts as such.
isInitialized(m) == IF m = Client THEN TRUE ELSE mem[m].initialized

\* Where the contents of a memory are, what is there, and writing it.
Location(m) == IF OnDevice(m) THEN mem[m].buffer ELSE m
DataAt(l) == IF l = Client THEN "good" ELSE data[l]
Put(l, d) == IF l = Client THEN data ELSE [data EXCEPT ![l] = d]

Active(t) == op[t].pc # "off"
Written(m) == \E t \in Threads : Active(t) /\ op[t].dst = m
InUse(m) == \E t \in Threads : Active(t) /\ m \in {op[t].src, op[t].dst}

-------------------------------------------------------------------------------
Init ==
    /\ mem = [m \in Memories |-> NoMemory]
    /\ op = [t \in Threads |-> Idle] /\ result = [t \in Threads |-> "none"]
    /\ alive = TRUE
    /\ mTokenToBuffers = <<>> /\ mFreeTokens = <<>> /\ released = {}
    /\ mInitialized = [b \in Buffers |-> FALSE]
    /\ data = [l \in Buffers \cup Memories |-> "garbage"]

(* BufferTracker *)

\* A ManagedBuffer is gone when no token and no running execution holds it.
Unused(b) == /\ b \notin Range(mTokenToBuffers)
             /\ \A t \in Threads : b \notin {op[t].in, op[t].out}

AfterPeek == mFreeTokens
AfterPop == Front(mFreeTokens)

\* BufferTracker::add, which reuses the token that was freed last.
Add(b, token) ==
    IF mFreeTokens = <<>>
    THEN /\ token = Len(mTokenToBuffers) + 1
         /\ mTokenToBuffers' = Append(mTokenToBuffers, b)
         /\ UNCHANGED mFreeTokens
    ELSE /\ token = Last(mFreeTokens)
         /\ mTokenToBuffers' = [mTokenToBuffers EXCEPT ![token] = b]
         /\ mFreeTokens' = AfterPop

\* BufferTracker::get.
Get(token) == IF token \in DOMAIN mTokenToBuffers THEN mTokenToBuffers[token] ELSE NoBuffer

PushedNext(token) == Append(mFreeTokens, token + 1)
PushedTwice(token) == mFreeTokens \o <<token, token>>
Pushed(token) == Append(mFreeTokens, token)

\* A buffer that is gone or new holds nothing.
Erase(b) == /\ mInitialized' = [mInitialized EXCEPT ![b] = FALSE]
            /\ data' = [data EXCEPT ![b] = "garbage"]

\* The driver drops its SampleBuffer once the last reference from the runtime
\* has gone, which it may learn later: ~Token calls BufferTracker::free.
FreeToken(token) ==
    /\ alive /\ token \in released
    /\ released' = released \ {token}
    /\ mTokenToBuffers' = [mTokenToBuffers EXCEPT ![token] = NoBuffer]
    /\ mFreeTokens' = Pushed(token)
    /\ Erase(Get(token))
    /\ UNCHANGED <<mem, op, result, alive>>

-------------------------------------------------------------------------------
(* Memories *)

\* ANeuralNetworksMemory_createFromDesc, where the driver allocates.
CreateOnDevice(m) ==
    /\ alive /\ ~Live(m)
    /\ \E b \in Buffers, token \in 1 .. Len(mTokenToBuffers) + 1 :
        /\ Unused(b)
        /\ Add(b, token)
        /\ mem' = [mem EXCEPT ![m] = [kind |-> "device", token |-> token, buffer |-> b,
                                      initialized |-> FALSE]]
        /\ Erase(b)
    /\ UNCHANGED <<op, result, alive, released>>

\* Where it does not: ashmem or a hardware buffer.
CreateOnHost(m) ==
    /\ ~Live(m)
    /\ mem' = [mem EXCEPT ![m] = [NoMemory EXCEPT !.kind = "host"]]
    /\ UNCHANGED <<op, result, alive, trackerVars, mInitialized, data>>

\* ANeuralNetworksMemory_free; no call of the client uses the memory.
MemoryFree(m) ==
    /\ Live(m) /\ ~InUse(m)
    /\ released' = IF OnDevice(m) /\ alive THEN released \cup {mem[m].token} ELSE released
    /\ mem' = [mem EXCEPT ![m] = NoMemory]
    /\ data' = [data EXCEPT ![m] = "garbage"]
    /\ UNCHANGED <<op, result, alive, mTokenToBuffers, mFreeTokens, mInitialized>>

-------------------------------------------------------------------------------
(* Calls.  The client orders its calls, so that nobody uses a memory that   *)
(* another call writes.                                                     *)

Ordered(src, dst) ==
    /\ Live(src) /\ Live(dst)
    /\ src # Client => ~Written(src)
    /\ dst # Client => ~InUse(dst)

Begin(t, o) == /\ op' = [op EXCEPT ![t] = o]
               /\ result' = [result EXCEPT ![t] = "pending"]

Refused(t) == /\ result' = [result EXCEPT ![t] = "error"]
              /\ UNCHANGED op

\* ExecutionBuilder::compute asks the validator of each input memory,
\* computeFenced does not.
NeverRefused(kind, src) == TRUE
validateInputDimensions(kind, src) == kind = "compute" => isInitialized(src)

StartExecution(t, kind, src, dst) ==
    /\ kind \in Kinds \cap Executions /\ ~Active(t)
    /\ src # dst \/ src = Client
    /\ Ordered(src, dst)
    /\ \/ /\ ~validateInputDimensions(kind, src)
          /\ Refused(t)
       \/ /\ validateInputDimensions(kind, src)
          /\ \E f \in BOOLEAN :
                Begin(t, [Idle EXCEPT !.pc = "request", !.kind = kind, !.src = src, !.dst = dst,
                                      !.fallback = f])
    /\ UNCHANGED <<mem, alive, trackerVars, mInitialized, data>>

AnySource(src) == TRUE
ValidSource(src) == isInitialized(src)

\* copyInternal: nothing is left to do when both are the same memory; a source
\* that is not initialized is noticed before anything is copied.
CopyBegins(src, dst) ==
    IF src = dst THEN [pc |-> "finish", n |-> "NO_ERROR"]
    ELSE IF ValidSource(src) THEN [pc |-> "read", n |-> "NO_ERROR"]
    ELSE [pc |-> "finish", n |-> "BAD_DATA"]

\* Memory::copy; the destination loses its state even when the source is bad.
StartCopy(t, src, dst) ==
    /\ "copy" \in Kinds /\ ~Active(t)
    /\ src # dst \/ "selfCopy" \in Kinds
    /\ Ordered(src, dst)
    /\ Begin(t, [Idle EXCEPT !.src = src, !.dst = dst,
                             !.pc = CopyBegins(src, dst).pc, !.n = CopyBegins(src, dst).n])
    /\ UNCHANGED <<mem, alive, trackerVars, mInitialized, data>>

Start(t) == \E src, dst \in Memories \cup {Client} :
                \/ \E kind \in Executions : StartExecution(t, kind, src, dst)
                \/ StartCopy(t, src, dst)

-------------------------------------------------------------------------------
(* The driver executes a request.                                           *)

\* The memory pool that stands for a memory in a request, as the driver finds it.
Pool(m) == IF OnDevice(m) THEN Get(mem[m].token) ELSE m

\* ManagedBuffer::validateRequest, for a device memory used as input.
PoolsValid(o) ==
    /\ Pool(o.src) # NoBuffer /\ Pool(o.dst) # NoBuffer
    /\ OnDevice(o.src) => mInitialized[Pool(o.src)]

\* createRunTimePoolInfos; from now on the output is being written.
DriverAccepts(t) ==
    /\ alive /\ op[t].pc = "request" /\ PoolsValid(op[t])
    /\ op' = [op EXCEPT ![t].pc = "running", ![t].in = Pool(op[t].src), ![t].out = Pool(op[t].dst)]
    /\ data' = Put(Pool(op[t].dst), "garbage")
    /\ UNCHANGED <<mem, result, alive, trackerVars, mInitialized>>

\* The request is refused: by the driver, for its pools or another reason such
\* as a deadline, or because the driver is dead.
DriverRefuses(t) ==
    /\ op[t].pc = "request"
    /\ op' = [op EXCEPT ![t].pc = "failed"]
    /\ UNCHANGED <<mem, result, alive, trackerVars, mInitialized, data>>

\* updateDeviceMemories: only a success changes the state of the output buffer.
DriverSucceeds(t) ==
    /\ alive /\ op[t].pc = "running"
    /\ op' = [op EXCEPT ![t].pc = "finish", ![t].read = DataAt(op[t].in),
                        ![t].in = Client, ![t].out = Client]
    /\ data' = Put(op[t].out, DataAt(op[t].in))
    /\ mInitialized' = [b \in Buffers |-> mInitialized[b] \/ b = op[t].out]
    /\ UNCHANGED <<mem, result, alive, trackerVars>>

\* The execution fails, or the driver dies meanwhile.
DriverFails(t) ==
    /\ op[t].pc = "running"
    /\ op' = [op EXCEPT ![t].pc = "failed", ![t].in = Client, ![t].out = Client]
    /\ UNCHANGED <<mem, result, alive, trackerVars, mInitialized, data>>

\* computeOnCpuFallback, if the compilation allows it.
Fallback(t) ==
    /\ op[t].pc = "failed"
    /\ op' = IF op[t].fallback THEN [op EXCEPT ![t].pc = "read"]
             ELSE [op EXCEPT ![t].pc = "finish", ![t].n = "OP_FAILED"]
    /\ UNCHANGED <<mem, result, alive, trackerVars, mInitialized, data>>

-------------------------------------------------------------------------------
(* A copy, and the CPU on copies of the memories.                           *)

\* SampleBuffer::copyTo; shared memory is read in place.
CopyTo(t) ==
    /\ op[t].pc = "read"
    /\ OnDevice(op[t].src) => alive /\ mInitialized[mem[op[t].src].buffer]
    /\ op' = [op EXCEPT ![t].pc = "write", ![t].read = DataAt(Location(op[t].src))]
    /\ UNCHANGED <<mem, result, alive, trackerVars, mInitialized, data>>

\* The driver is dead, does not take the buffer for initialized, or something
\* cannot be allocated, compiled or mapped.
CopyToFails(t) ==
    /\ op[t].pc = "read"
    /\ op' = [op EXCEPT ![t].pc = "finish", ![t].n = "OP_FAILED"]
    /\ UNCHANGED <<mem, result, alive, trackerVars, mInitialized, data>>

\* SampleBuffer::copyFrom; shared memory is written in place.
CopyFrom(t) ==
    /\ op[t].pc = "write"
    /\ OnDevice(op[t].dst) => alive
    /\ data' = Put(Location(op[t].dst), op[t].read)
    /\ mInitialized' = [b \in Buffers |-> mInitialized[b] \/ b = Location(op[t].dst)]
    /\ op' = [op EXCEPT ![t].pc = "finish"]
    /\ UNCHANGED <<mem, result, alive, trackerVars>>

\* The driver refuses the data, which also makes its buffer uninitialized.
CopyFromRefused(t) ==
    /\ op[t].pc = "write" /\ OnDevice(op[t].dst) /\ alive
    /\ mInitialized' = [mInitialized EXCEPT ![mem[op[t].dst].buffer] = FALSE]
    /\ op' = [op EXCEPT ![t].pc = "finish", ![t].n = "OP_FAILED"]
    /\ UNCHANGED <<mem, result, alive, trackerVars, data>>

\* The driver is dead, or the CPU fails before anything is written back; what
\* it computes in place is lost.
WriteFails(t) ==
    /\ op[t].pc = "write"
    /\ op[t].kind \in Executions \/ (OnDevice(op[t].dst) /\ ~alive)
    /\ data' = IF OnDevice(op[t].dst) THEN data ELSE Put(op[t].dst, "garbage")
    /\ op' = [op EXCEPT ![t].pc = "finish", ![t].n = "OP_FAILED"]
    /\ UNCHANGED <<mem, result, alive, trackerVars, mInitialized>>

-------------------------------------------------------------------------------
(* The call returns.                                                        *)

\* finishWithoutSyncFence and Memory::copy record how the call ended; a fenced
\* execution that fails without a fallback returns without the former.
OnlySetWhenGood(o) == mem[o.dst].initialized \/ o.n = "NO_ERROR"
InitializedAfter(o) ==
    IF o.kind = "fenced" /\ o.n # "NO_ERROR" /\ ~o.fallback
    THEN mem[o.dst].initialized
    ELSE o.n = "NO_ERROR"

Finish(t) ==
    /\ op[t].pc = "finish"
    /\ mem' = IF op[t].dst = Client THEN mem
              ELSE [mem EXCEPT ![op[t].dst].initialized = InitializedAfter(op[t])]
    /\ result' = [result EXCEPT ![t] = IF op[t].n = "NO_ERROR" THEN "NO_ERROR" ELSE "error"]
    /\ op' = [op EXCEPT ![t] = Idle]
    /\ UNCHANGED <<alive, trackerVars, mInitialized, data>>

\* The process of the driver dies, and with it all that it kept.
DriverDies ==
    /\ alive
    /\ alive' = FALSE
    /\ mTokenToBuffers' = <<>> /\ mFreeTokens' = <<>> /\ released' = {}
    /\ mInitialized' = [b \in Buffers |-> FALSE]
    /\ data' = [l \in DOMAIN data |-> IF l \in Buffers THEN "garbage" ELSE data[l]]
    /\ UNCHANGED <<mem, op, result>>

Continue(t) == \/ DriverAccepts(t) \/ DriverRefuses(t) \/ DriverSucceeds(t) \/ DriverFails(t)
               \/ Fallback(t) \/ CopyTo(t) \/ CopyToFails(t) \/ CopyFrom(t) \/ CopyFromRefused(t)
               \/ WriteFails(t) \/ Finish(t)

Next == \/ \E m \in Memories : CreateOnDevice(m) \/ CreateOnHost(m) \/ MemoryFree(m)
        \/ \E token \in released : FreeToken(token)
        \/ \E t \in Threads : Start(t) \/ Continue(t)
        \/ DriverDies

Spec == Init /\ [][Next]_vars

-------------------------------------------------------------------------------
(* Properties.                                                              *)

Locations == Buffers \cup Memories \cup {Client}

\* Every variable has its type.
TypeOK ==
    /\ mem \in [Memories -> [kind : {"none", "device", "host"}, token : Nat,
                             buffer : Buffers \cup {NoBuffer}, initialized : BOOLEAN]]
    /\ op \in [Threads -> [pc : {"off", "request", "running", "failed", "read", "write", "finish"},
                           kind : Executions \cup {"copy"}, src : Memories \cup {Client},
                           dst : Memories \cup {Client}, fallback : BOOLEAN,
                           in : Locations, out : Locations,
                           read : {"nothing", "good", "garbage"},
                           n : {"NO_ERROR", "BAD_DATA", "OP_FAILED"}]]
    /\ result \in [Threads -> {"none", "pending", "NO_ERROR", "error"}]
    /\ alive \in BOOLEAN
    /\ mTokenToBuffers \in Seq(Buffers \cup {NoBuffer})
    /\ mFreeTokens \in Seq(DOMAIN mTokenToBuffers) /\ released \subseteq DOMAIN mTokenToBuffers
    /\ mInitialized \in [Buffers -> BOOLEAN]
    /\ data \in [Buffers \cup Memories -> {"good", "garbage"}]

\* A memory that the runtime takes for initialized can be used: it holds what
\* the last call that wrote it has produced, and the driver, which keeps its own
\* account, takes it for initialized too.  Only the death of the driver breaks
\* this, and then the runtime does not notice.
UsableWhenInitialized ==
    \A m \in Memories :
        mem[m].initialized /\ ~Written(m) /\ (OnDevice(m) => alive) =>
            /\ data[Location(m)] = "good"
            /\ OnDevice(m) => mInitialized[mem[m].buffer]

\* A call that succeeds has read good data, whatever failed before it, and
\* whichever path its input took, through a token or through an IBuffer.
SuccessReadsGood ==
    \A t \in Threads : op[t].pc = "finish" /\ op[t].n = "NO_ERROR" => op[t].read # "garbage"

\* Tokens identify buffers: no two memories share one, the token of a live
\* memory leads to its own buffer, and what the free list offers is free.
TokensAreExclusive ==
    alive =>
        /\ \A m \in Memories : OnDevice(m) =>
              /\ mem[m].token \notin released
              /\ Get(mem[m].token) = mem[m].buffer
        /\ \A m1, m2 \in Memories :
              OnDevice(m1) /\ OnDevice(m2) /\ mem[m1].token = mem[m2].token => m1 = m2
        /\ \A i \in DOMAIN mFreeTokens : Get(mFreeTokens[i]) = NoBuffer

\* What a memory holds changes only through a call that writes this memory, and
\* when the driver dies: a token that is used again never lets a call write to
\* the buffer of another memory.
NoForeignWrites ==
    [][\A m \in Memories :
          mem[m].kind # "none" /\ mem'[m].kind # "none" /\ data'[Location(m)] # data[Location(m)] =>
              Written(m) \/ ~alive']_vars

\* The memories as the client sees them.  A call reads its source unless it was
\* turned away for it.
Contract == INSTANCE MemoryContract WITH
    state  <- [m \in Memories |->
                  IF mem[m].kind = "none" THEN "absent"
                  ELSE IF mem[m].initialized THEN "initialized" ELSE "uninitialized"],
    reads  <- [t \in Threads |->
                  IF Active(t) /\ op[t].n # "BAD_DATA" THEN {op[t].src} \ {Client} ELSE {}],
    writes <- [t \in Threads |-> IF Active(t) THEN {op[t].dst} \ {Client} ELSE {}]

\* The documented life of a memory: no call reads what is not initialized, and
\* the state of a memory tells how the last call that wrote it ended.
KeepsContract == Contract!Spec

-------------------------------------------------------------------------------
(* Statements of the documentation that the code does not keep.             *)

\* NeuralNetworks.h: the buffer of a memory object will return to the
\* uninitialized state if it is used as an output in a failed execution.
FailureUninitializes ==
    [][\A t \in Threads :
          op[t].pc = "finish" /\ ~Active(t)' /\ op[t].n # "NO_ERROR" /\ op[t].dst # Client =>
              ~mem'[op[t].dst].initialized]_vars

\* NeuralNetworks.h: the source of a copy must have been used as an output in a
\* successful execution, or as the destination in a successful copy.
CopiesOnlyInitialized ==
    [][\A t \in Threads :
          op[t].pc = "finish" /\ ~Active(t)' /\ op[t].kind = "copy" /\ op[t].n = "NO_ERROR" =>
              isInitialized(op[t].src)]_vars
===============================================================================
