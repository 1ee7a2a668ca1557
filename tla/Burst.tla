-------------------------------- MODULE Burst --------------------------------
(***************************************************************************)
(* Executions on burst objects: BurstBuilder, ExecutionBurstController and *)
(* its callback in the runtime, ExecutionBurstServer in the service, and   *)
(* the two message queues between them.  A request names its memories by   *)
(* slots of a cache, which the server fills by asking the client and which *)
(* the client reuses when the memory is destroyed.  The service may die.   *)
(*                                                                         *)
(* A burst here has one controller, a request one memory, and a packet is  *)
(* one element of a queue: writes to these queues are published at once.   *)
(* Memories are cached under their address, and bursts are remembered by   *)
(* memories under theirs: two that do not live at the same time may have   *)
(* the same one.  A server whose context is dropped leaves no trace.       *)
(*                                                                         *)
(* An operator that nothing uses, right before another one, is the same    *)
(* place in the code with a plausible mistake.                             *)
(***************************************************************************)
EXTENDS Naturals, Sequences

CONSTANTS Threads, Memories, Bursts,
          Nobody,     \* no thread, no memory, no burst
          Keys,       \* addresses of memories,
          key,        \* and which memory has which
          Addresses,  \* addresses of burst controllers,
          address,    \* and which burst has which
          MaxCalls    \* bound on the calls of each thread

ASSUME NamesAssumption == /\ Nobody \notin Threads \cup Memories \cup Bursts
                          /\ Memories \cap Bursts = {}
ASSUME KeyAssumption == key \in [Memories -> Keys] /\ address \in [Bursts -> Addresses]
ASSUME CallAssumption == MaxCalls \in Nat

Slots == Nat \ {0}   \* slots are numbered from 1, and 0 is none

VARIABLES
    alive,               \* the service runs
    life,                \* of each memory and burst: none, alive, in its destructor, freed
    mUsedBy,             \* of each memory: the burst remembered under each address
    mCurrentlyRunning,   \* of each burst: a thread is in burstCompute with it
    mMutex,              \* of each controller: its owner
    mMemoryIdToSlot, mMemoryCache, mFreeSlots,   \* of each ExecutionBurstCallback
    mValid,              \* of each controller: ends of the queues that are valid
    requests, results,   \* the queues
    notice,              \* how far the death of the service is handled for each burst
    worker,              \* of each server: where its thread is
    serverCache,         \* of each server: the memory in each slot, for those it knows
    pc, calls,           \* where each thread is, and how many calls it has made
    call,                \* its call: the burst and the memory
    pending,             \* addresses that are left in the destructor of a memory
    outcome, ran, on     \* result of the call; how often it ran, and on which memory

objectVars == <<life, mUsedBy, mCurrentlyRunning>>
clientVars == <<mMutex, mMemoryIdToSlot, mMemoryCache, mFreeSlots>>
queueVars == <<mValid, requests, results>>
serverVars == <<alive, notice, worker, serverCache>>
threadVars == <<pc, calls, call, pending, outcome, ran, on>>
vars == <<objectVars, clientVars, queueVars, serverVars, threadVars>>

Goto(t, l) == pc' = [pc EXCEPT ![t] = l]
NoCall == [burst |-> Nobody, memory |-> Nobody]

\* A controller lives as long as its burst, or a thread that has locked a weak pointer.
Holders(b) == {t \in Threads : call[t].burst = b /\ pc[t] # "idle"}
ControllerAlive(b) == life[b] = "alive" \/ Holders(b) # {}

-------------------------------------------------------------------------------
Init ==
    /\ alive = TRUE
    /\ life = [x \in Memories \cup Bursts |-> "none"]
    /\ mUsedBy = [m \in Memories |-> [a \in Addresses |-> Nobody]]
    /\ mCurrentlyRunning = [b \in Bursts |-> FALSE]
    /\ mMutex = [b \in Bursts |-> Nobody]
    /\ mMemoryIdToSlot = [b \in Bursts |-> [k \in Keys |-> 0]]
    /\ mMemoryCache = [b \in Bursts |-> <<>>] /\ mFreeSlots = [b \in Bursts |-> <<>>]
    /\ mValid = [b \in Bursts |-> {"sender", "receiver"}]
    /\ requests = [b \in Bursts |-> <<>>] /\ results = [b \in Bursts |-> <<>>]
    /\ notice = [b \in Bursts |-> "none"]
    /\ worker = [b \in Bursts |-> [at |-> "idle", slot |-> 0, for |-> Nobody]]
    /\ serverCache = [b \in Bursts |-> <<>>]
    /\ pc = [t \in Threads |-> "idle"] /\ calls = [t \in Threads |-> 0]
    /\ call = [t \in Threads |-> NoCall]
    /\ pending = [t \in Threads |-> {}]
    /\ outcome = [t \in Threads |-> "none"] /\ ran = [t \in Threads |-> 0]
    /\ on = [t \in Threads |-> Nobody]

(* Objects come and go: what the client may do with them *)

CreateMemory(m) ==
    /\ life[m] = "none"
    /\ \A n \in Memories : key[n] = key[m] => life[n] \in {"none", "freed"}
    /\ life' = [life EXCEPT ![m] = "alive"]
    /\ UNCHANGED <<mUsedBy, mCurrentlyRunning, clientVars, queueVars, serverVars, threadVars>>

CreateBurst(b) ==
    /\ life[b] = "none" /\ alive
    /\ \A c \in Bursts : address[c] = address[b] => ~ControllerAlive(c)
    /\ life' = [life EXCEPT ![b] = "alive"]
    /\ UNCHANGED <<mUsedBy, mCurrentlyRunning, clientVars, queueVars, serverVars, threadVars>>

\* A burst is not freed while it is computing.
FreeBurst(b) ==
    /\ life[b] = "alive" /\ ~mCurrentlyRunning[b]
    /\ life' = [life EXCEPT ![b] = "freed"]
    /\ UNCHANGED <<mUsedBy, mCurrentlyRunning, clientVars, queueVars, serverVars, threadVars>>

(* ANeuralNetworksExecution_burstCompute *)

tryLock(b) == ~mCurrentlyRunning[b]

Begin(t) ==
    /\ pc[t] = "idle" /\ calls[t] < MaxCalls
    /\ calls' = [calls EXCEPT ![t] = @ + 1]
    /\ \E b \in Bursts, m \in Memories :
        /\ life[b] = "alive" /\ life[m] = "alive"
        /\ call' = [call EXCEPT ![t] = [burst |-> b, memory |-> m]]
        /\ IF tryLock(b)
           THEN /\ mCurrentlyRunning' = [mCurrentlyRunning EXCEPT ![b] = TRUE]
                /\ Goto(t, "use")
                /\ UNCHANGED outcome
           ELSE /\ outcome' = [outcome EXCEPT ![t] = "BAD_STATE"]
                /\ Goto(t, "return")
                /\ UNCHANGED mCurrentlyRunning
    /\ UNCHANGED <<life, mUsedBy, clientVars, queueVars, serverVars, pending, ran, on>>

\* emplace: an entry that is there already stays.
Unmarked(u, b) == u
usedBy(u, b) == IF u[address[b]] = Nobody THEN [u EXCEPT ![address[b]] = b] ELSE u

Use(t) ==
    /\ pc[t] = "use"
    /\ mUsedBy' = [mUsedBy EXCEPT ![call[t].memory] = usedBy(@, call[t].burst)]
    /\ Goto(t, "compute")
    /\ UNCHANGED <<life, mCurrentlyRunning, clientVars, queueVars, serverVars, calls, call,
                   pending, outcome, ran, on>>

(* ExecutionBurstController::compute *)

\* A free slot, the one freed last, or a new one.
AllocateSlot(b) ==
    IF mFreeSlots[b] # <<>> THEN Head(mFreeSlots[b]) ELSE Len(mMemoryCache[b]) + 1
LeaveFree(free) == free
TakeFree(free) == IF free = <<>> THEN free ELSE Tail(free)

getSlot(b, m) ==
    IF mMemoryIdToSlot[b][key[m]] # 0
    THEN UNCHANGED <<mMemoryIdToSlot, mMemoryCache, mFreeSlots>>
    ELSE LET s == AllocateSlot(b) IN
         /\ mMemoryIdToSlot' = [mMemoryIdToSlot EXCEPT ![b][key[m]] = s]
         /\ mMemoryCache' = [mMemoryCache EXCEPT ![b] =
                IF s \in DOMAIN @ THEN [@ EXCEPT ![s] = m] ELSE Append(@, m)]
         /\ mFreeSlots' = [mFreeSlots EXCEPT ![b] = TakeFree(@)]

Compute(t) ==
    LET b == call[t].burst IN
    /\ pc[t] = "compute" /\ mMutex[b] = Nobody
    /\ mMutex' = [mMutex EXCEPT ![b] = t]
    /\ getSlot(b, call[t].memory)
    /\ Goto(t, "send")
    /\ UNCHANGED <<objectVars, queueVars, serverVars, calls, call, pending, outcome, ran, on>>

\* A packet may not fit into the queue.
Send(t) ==
    LET b == call[t].burst IN
    /\ pc[t] = "send"
    /\ \/ /\ "sender" \in mValid[b]
          /\ requests' = [requests EXCEPT ![b] =
                 Append(@, [slot |-> mMemoryIdToSlot[b][key[call[t].memory]], for |-> t])]
          /\ Goto(t, "polling")
          /\ UNCHANGED mMutex
       \/ /\ Goto(t, "fallback")
          /\ mMutex' = [mMutex EXCEPT ![b] = Nobody]
          /\ UNCHANGED requests
    /\ UNCHANGED <<objectVars, mMemoryIdToSlot, mMemoryCache, mFreeSlots, mValid, results,
                   serverVars, calls, call, pending, outcome, ran, on>>

\* The path that is taken when compute has ended: only what was not sent is sent again.
FailedAgain(code) == IF code = "NO_ERROR" THEN "unlock" ELSE "fallback"
AfterCompute(code) == "unlock"

Computed(t, code) ==
    /\ outcome' = [outcome EXCEPT ![t] = code]
    /\ mMutex' = [mMutex EXCEPT ![call[t].burst] = Nobody]
    /\ Goto(t, AfterCompute(code))

\* getPacketBlocking polls for a while and then waits on the futex.
StopPolling(t) ==
    /\ pc[t] = "polling"
    /\ Goto(t, "waiting")
    /\ UNCHANGED <<objectVars, clientVars, queueVars, serverVars, calls, call, pending,
                   outcome, ran, on>>

FindInvalid(t) ==
    /\ pc[t] = "polling" /\ "receiver" \notin mValid[call[t].burst]
    /\ Computed(t, "OP_FAILED")
    /\ UNCHANGED <<objectVars, mMemoryIdToSlot, mMemoryCache, mFreeSlots, queueVars,
                   serverVars, calls, call, pending, ran, on>>

\* Everything that the queue holds is one packet: with the element that invalidate() adds,
\* it cannot be deserialized.  Only after waiting the validity is looked at again.
Receive(t) ==
    LET b == call[t].burst IN
    /\ pc[t] \in {"polling", "waiting"} /\ results[b] # <<>>
    /\ results' = [results EXCEPT ![b] = <<>>]
    /\ Computed(t, IF \/ Len(results[b]) > 1 \/ Head(results[b]) = "wake up"
                      \/ pc[t] = "waiting" /\ "receiver" \notin mValid[b]
                   THEN "OP_FAILED" ELSE Head(results[b]))
    /\ UNCHANGED <<objectVars, mMemoryIdToSlot, mMemoryCache, mFreeSlots, mValid, requests,
                   serverVars, calls, call, pending, ran, on>>

\* DriverPreparedModel::execute takes the regular path when the request was not sent.
Fallback(t) ==
    /\ pc[t] = "fallback"
    /\ \E code \in IF alive THEN {"NO_ERROR", "OP_FAILED"} ELSE {"DEAD_OBJECT"} :
        /\ outcome' = [outcome EXCEPT ![t] = code]
        /\ IF alive
           THEN ran' = [ran EXCEPT ![t] = @ + 1] /\ on' = [on EXCEPT ![t] = call[t].memory]
           ELSE UNCHANGED <<ran, on>>
    /\ Goto(t, "unlock")
    /\ UNCHANGED <<objectVars, clientVars, queueVars, serverVars, calls, call, pending>>

Unlock(t) ==
    /\ pc[t] = "unlock"
    /\ mCurrentlyRunning' = [mCurrentlyRunning EXCEPT ![call[t].burst] = FALSE]
    /\ Goto(t, "return")
    /\ UNCHANGED <<life, mUsedBy, clientVars, queueVars, serverVars, calls, call, pending,
                   outcome, ran, on>>

Return(t) ==
    /\ pc[t] = "return"
    /\ Goto(t, "idle")
    /\ call' = [call EXCEPT ![t] = NoCall] /\ outcome' = [outcome EXCEPT ![t] = "none"]
    /\ ran' = [ran EXCEPT ![t] = 0] /\ on' = [on EXCEPT ![t] = Nobody]
    /\ UNCHANGED <<objectVars, clientVars, queueVars, serverVars, calls, pending>>

-------------------------------------------------------------------------------
(* The destructor of a memory *)

InUse(m) == \E t \in Threads : pc[t] # "idle" /\ call[t].memory = m

FreeMemory(t) ==
    /\ pc[t] = "idle" /\ calls[t] < MaxCalls
    /\ calls' = [calls EXCEPT ![t] = @ + 1]
    /\ \E m \in Memories :
        /\ life[m] = "alive" /\ ~InUse(m)
        /\ call' = [call EXCEPT ![t] = [NoCall EXCEPT !.memory = m]]
        /\ pending' = [pending EXCEPT ![t] = {a \in Addresses : mUsedBy[m][a] # Nobody}]
        /\ life' = [life EXCEPT ![m] = "destructor"]
    /\ Goto(t, "destroy")
    /\ UNCHANGED <<mUsedBy, mCurrentlyRunning, clientVars, queueVars, serverVars, outcome, ran,
                   on>>

\* weakBurst.lock(): the controller is freed of the memory if it is still there.
NextBurst(t) ==
    /\ pc[t] = "destroy"
    /\ \E a \in pending[t] :
        /\ pending' = [pending EXCEPT ![t] = @ \ {a}]
        /\ LET b == mUsedBy[call[t].memory][a] IN
           IF ControllerAlive(b)
           THEN call' = [call EXCEPT ![t].burst = b] /\ Goto(t, "lock")
           ELSE UNCHANGED <<call, pc>>
    /\ UNCHANGED <<objectVars, clientVars, queueVars, serverVars, calls, outcome, ran, on>>

\* ExecutionBurstController::freeMemory, the client's part
freeMemory(t) ==
    LET b == call[t].burst
        k == key[call[t].memory]
        s == mMemoryIdToSlot[b][k] IN
    /\ pc[t] = "lock" /\ mMutex[b] = Nobody
    /\ IF s = 0 THEN Goto(t, "destroy") /\ call' = [call EXCEPT ![t].burst = Nobody]
                     /\ UNCHANGED clientVars
       ELSE /\ mMutex' = [mMutex EXCEPT ![b] = t]
            /\ mMemoryIdToSlot' = [mMemoryIdToSlot EXCEPT ![b][k] = 0]
            /\ mMemoryCache' = [mMemoryCache EXCEPT ![b][s] = Nobody]
            /\ mFreeSlots' = [mFreeSlots EXCEPT ![b] = <<s>> \o @]
            /\ Goto(t, "tell server")
            /\ UNCHANGED call
    /\ UNCHANGED <<objectVars, queueVars, serverVars, calls, pending, outcome, ran, on>>

KeepEntry(b, s) == serverCache
removeCacheEntry(b, s) ==
    [serverCache EXCEPT ![b] = [x \in DOMAIN @ \ {s} |-> @[x]]]

\* The call to the server, which waits for the server's mutex, and fails if it is dead.
TellServer(t) ==
    LET b == call[t].burst IN
    /\ pc[t] = "tell server"
    /\ alive => worker[b].at \in {"idle", "received"}
    /\ serverCache' = IF alive THEN removeCacheEntry(b, Head(mFreeSlots[b])) ELSE serverCache
    /\ mMutex' = [mMutex EXCEPT ![b] = Nobody]
    /\ call' = [call EXCEPT ![t].burst = Nobody]
    /\ Goto(t, "destroy")
    /\ UNCHANGED <<objectVars, mMemoryIdToSlot, mMemoryCache, mFreeSlots, queueVars, alive,
                   notice, worker, calls, pending, outcome, ran, on>>

Destroyed(t) ==
    /\ pc[t] = "destroy" /\ pending[t] = {}
    /\ life' = [life EXCEPT ![call[t].memory] = "freed"]
    /\ mUsedBy' = [mUsedBy EXCEPT ![call[t].memory] = [a \in Addresses |-> Nobody]]
    /\ Goto(t, "return")
    /\ UNCHANGED <<mCurrentlyRunning, clientVars, queueVars, serverVars, calls, call, pending,
                   outcome, ran, on>>

-------------------------------------------------------------------------------
(* ExecutionBurstServer::task *)

ServerReceives(b) ==
    /\ alive /\ worker[b].at = "idle" /\ requests[b] # <<>>
    /\ worker' = [worker EXCEPT ![b] =
           [at |-> "received", slot |-> Head(requests[b]).slot, for |-> Head(requests[b]).for]]
    /\ requests' = [requests EXCEPT ![b] = Tail(@)]
    /\ UNCHANGED <<objectVars, clientVars, mValid, results, alive, notice, serverCache,
                   threadVars>>

\* Under the server's mutex from here on.  getMemories gives what the client has.
EnsureCacheEntriesArePresent(b) ==
    LET s == worker[b].slot IN
    /\ alive /\ worker[b].at = "received"
    /\ worker' = [worker EXCEPT ![b].at = "executing"]
    /\ serverCache' = IF s \in DOMAIN serverCache[b] \/ mMemoryCache[b][s] = Nobody
                      THEN serverCache
                      ELSE [serverCache EXCEPT ![b] = [x \in DOMAIN @ \cup {s} |->
                                IF x = s THEN mMemoryCache[b][s] ELSE @[x]]]
    /\ UNCHANGED <<objectVars, clientVars, queueVars, alive, notice, threadVars>>

ServerExecutes(b) ==
    LET s == worker[b].slot
        t == worker[b].for IN
    /\ alive /\ worker[b].at = "executing"
    /\ worker' = [worker EXCEPT ![b].at = "replied"]
    /\ IF s \in DOMAIN serverCache[b]
       THEN /\ \E code \in {"NO_ERROR", "OP_FAILED"} :
                   results' = [results EXCEPT ![b] = Append(@, code)]
            /\ ran' = [ran EXCEPT ![t] = @ + 1] /\ on' = [on EXCEPT ![t] = serverCache[b][s]]
       ELSE /\ results' = [results EXCEPT ![b] = Append(@, "OP_FAILED")]
            /\ UNCHANGED <<ran, on>>
    /\ UNCHANGED <<objectVars, clientVars, mValid, requests, alive, notice, serverCache, pc,
                   calls, call, pending, outcome>>

ServerUnlocks(b) ==
    /\ alive /\ worker[b].at = "replied"
    /\ worker' = [worker EXCEPT ![b] = [at |-> "idle", slot |-> 0, for |-> Nobody]]
    /\ UNCHANGED <<objectVars, clientVars, queueVars, alive, notice, serverCache, threadVars>>

(* Death of the service *)

ServiceDies ==
    /\ alive
    /\ alive' = FALSE
    /\ worker' = [b \in Bursts |-> [at |-> "idle", slot |-> 0, for |-> Nobody]]
    /\ serverCache' = [b \in Bursts |-> <<>>]
    /\ UNCHANGED <<objectVars, clientVars, queueVars, notice, threadVars>>

NoWakeUp(b) == UNCHANGED results
WakeUp(b) == results' = [results EXCEPT ![b] = Append(@, "wake up")]

\* BurstContextDeathHandler: both ends are made invalid, then the receiver is woken.
serviceDied(b) ==
    /\ ~alive /\ life[b] # "none" /\ ControllerAlive(b)
    /\ \/ /\ notice[b] = "none"
          /\ notice' = [notice EXCEPT ![b] = "sender"]
          /\ mValid' = [mValid EXCEPT ![b] = @ \ {"sender"}]
          /\ UNCHANGED results
       \/ /\ notice[b] = "sender"
          /\ notice' = [notice EXCEPT ![b] = "receiver"]
          /\ mValid' = [mValid EXCEPT ![b] = @ \ {"receiver"}]
          /\ UNCHANGED results
       \/ /\ notice[b] = "receiver"
          /\ notice' = [notice EXCEPT ![b] = "done"]
          /\ WakeUp(b)
          /\ UNCHANGED mValid
    /\ UNCHANGED <<objectVars, clientVars, requests, alive, worker, serverCache, threadVars>>

-------------------------------------------------------------------------------
Step(t) == \/ Use(t) \/ Compute(t) \/ Send(t) \/ StopPolling(t)
           \/ FindInvalid(t) \/ Receive(t) \/ Fallback(t) \/ Unlock(t) \/ Return(t)
           \/ NextBurst(t) \/ freeMemory(t) \/ TellServer(t) \/ Destroyed(t)
Serve(b) == \/ ServerReceives(b) \/ EnsureCacheEntriesArePresent(b)
            \/ ServerExecutes(b) \/ ServerUnlocks(b)

Next ==
    \/ \E m \in Memories : CreateMemory(m)
    \/ \E b \in Bursts : CreateBurst(b) \/ FreeBurst(b) \/ Serve(b) \/ serviceDied(b)
    \/ \E t \in Threads : Begin(t) \/ FreeMemory(t) \/ Step(t)
    \/ ServiceDies

\* Threads are scheduled, a server that runs serves, and the death of one is reported.
Spec == /\ Init /\ [][Next]_vars
        /\ \A t \in Threads : WF_vars(Step(t))
        /\ \A b \in Bursts : WF_vars(Serve(b)) /\ WF_vars(serviceDied(b))

-------------------------------------------------------------------------------
(* Properties *)

Codes == {"none", "NO_ERROR", "OP_FAILED", "DEAD_OBJECT", "BAD_STATE"}
Lives == {"none", "alive", "destructor", "freed"}
Computing == {"send", "polling", "waiting"}

\* Types; a controller computes for one thread at a time, and a slot is free or taken.
TypeOK ==
    /\ alive \in BOOLEAN /\ life \in [Memories \cup Bursts -> Lives]
    /\ mUsedBy \in [Memories -> [Addresses -> Bursts \cup {Nobody}]]
    /\ mCurrentlyRunning \in [Bursts -> BOOLEAN]
    /\ mMutex \in [Bursts -> Threads \cup {Nobody}]
    /\ \A b \in Bursts :
        /\ \A k \in Keys : mMemoryIdToSlot[b][k] \in 0 .. Len(mMemoryCache[b])
        /\ mMemoryCache[b] \in Seq(Memories \cup {Nobody}) /\ mFreeSlots[b] \in Seq(Slots)
        /\ Len(requests[b]) <= 1 /\ Len(results[b]) <= 2
        /\ \A i \in DOMAIN mFreeSlots[b] : mMemoryCache[b][mFreeSlots[b][i]] = Nobody
        /\ \A t \in Threads : call[t].burst = b /\ pc[t] \in Computing => mMutex[b] = t
    /\ outcome \in [Threads -> Codes]

\* An execution that succeeds has computed on the memory of its request, whichever memories
\* had the slot before (ExecutionBurstCallback, ExecutionBurstServer::freeMemory).
RightMemory ==
    \A t \in Threads : outcome[t] = "NO_ERROR" => on[t] = call[t].memory

\* A memory that is destroyed leaves no trace in the caches of bursts: what is cached under
\* an address is the memory that lives there (Memory::~Memory, usedBy).
CachedMemoriesLive ==
    \A b \in Bursts, k \in Keys : ControllerAlive(b) /\ mMemoryIdToSlot[b][k] # 0 =>
        life[mMemoryCache[b][mMemoryIdToSlot[b][k]]] \in {"alive", "destructor"}

\* A request is executed once at most: the regular path is taken only for one that no server
\* can have got (compute, DriverPreparedModel::execute).
ExecutedOnce == \A t \in Threads : ran[t] <= 1

\* Every call returns, whenever the service dies and whoever holds a lock.
CallsReturn == \A t \in Threads : pc[t] # "idle" ~> pc[t] = "idle"
===============================================================================
