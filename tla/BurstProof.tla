------------------------------ MODULE BurstProof ------------------------------
(***************************************************************************)
(* Proofs about Burst, for any number of threads, memories and bursts, any *)
(* addresses and any number of calls.                                      *)
(***************************************************************************)
EXTENDS Burst, SequenceTheorems, TLAPS

-------------------------------------------------------------------------------
(* The inductive invariant.                                                 *)

Places == {"idle", "use", "compute", "send", "polling", "waiting", "fallback", "unlock",
           "return", "destroy", "lock", "tell server"}
Executing == {"use", "compute", "send", "polling", "waiting", "fallback", "unlock"}
Destroying == {"destroy", "lock", "tell server"}
Awaiting == {"polling", "waiting"}
Locking == Computing \cup {"tell server"}
Living == {"alive", "destructor"}
Ends == {"sender", "receiver"}
Answers == {"NO_ERROR", "OP_FAILED", "wake up"}

\* Types, of each of the parts of the state.
ObjectTypes ==
    /\ life \in [Memories \cup Bursts -> Lives]
    /\ mUsedBy \in [Memories -> [Addresses -> Bursts \cup {Nobody}]]
    /\ mCurrentlyRunning \in [Bursts -> BOOLEAN]

ClientTypes ==
    /\ mMutex \in [Bursts -> Threads \cup {Nobody}]
    /\ mMemoryIdToSlot \in [Bursts -> [Keys -> Nat]]
    /\ mMemoryCache \in [Bursts -> Seq(Memories \cup {Nobody})]
    /\ mFreeSlots \in [Bursts -> Seq(Slots)]

QueueTypes ==
    /\ mValid \in [Bursts -> SUBSET Ends]
    /\ requests \in [Bursts -> Seq([slot : Nat, for : Threads])]
    /\ results \in [Bursts -> Seq(Answers)]

ServerTypes ==
    /\ alive \in BOOLEAN
    /\ notice \in [Bursts -> {"none", "sender", "receiver", "done"}]
    /\ worker \in [Bursts -> [at : {"idle", "received", "executing", "replied"},
                              slot : Nat, for : Threads \cup {Nobody}]]
    /\ serverCache = [b \in Bursts |-> serverCache[b]]

ThreadTypes ==
    /\ pc \in [Threads -> Places] /\ calls \in [Threads -> Nat]
    /\ call \in [Threads -> [burst : Bursts \cup {Nobody}, memory : Memories \cup {Nobody}]]
    /\ pending \in [Threads -> SUBSET Addresses]
    /\ outcome \in [Threads -> Codes] /\ ran \in [Threads -> Nat]
    /\ on = [t \in Threads |-> on[t]]

TypeInv == ObjectTypes /\ ClientTypes /\ QueueTypes /\ ServerTypes /\ ThreadTypes

\* What a thread is in, and how its call can have ended there.
CallInv(t) ==
    /\ pc[t] \in Executing => /\ call[t].burst \in Bursts /\ call[t].memory \in Memories
                              /\ life[call[t].memory] = "alive"
    /\ pc[t] \in Destroying => /\ call[t].memory \in Memories
                               /\ life[call[t].memory] = "destructor"
                               /\ \A a \in pending[t] : mUsedBy[call[t].memory][a] # Nobody
    /\ pc[t] \in {"lock", "tell server"} => call[t].burst \in Bursts
    /\ pc[t] # "idle" /\ call[t].burst \in Bursts => life[call[t].burst] # "none"
    /\ pc[t] \notin {"unlock", "return"} => outcome[t] = "none"
    /\ pc[t] \notin {"unlock", "return", "polling", "waiting"} => ran[t] = 0
    /\ ran[t] <= 1

\* A memory has one destructor, and one thread has the mutex of a controller.
OneDestructor ==
    \A t, u \in Threads : pc[t] \in Destroying /\ pc[u] \in Destroying /\ t # u =>
        call[t].memory # call[u].memory
MutexInv == \A t \in Threads : pc[t] \in Locking => mMutex[call[t].burst] = t

\* The slots of a controller: a key has a memory with that key in its slot, and what is
\* free is empty, and free once.
SlotInv(b) ==
    /\ \A k \in Keys : mMemoryIdToSlot[b][k] # 0 =>
          /\ mMemoryIdToSlot[b][k] <= Len(mMemoryCache[b])
          /\ mMemoryCache[b][mMemoryIdToSlot[b][k]] \in Memories
          /\ key[mMemoryCache[b][mMemoryIdToSlot[b][k]]] = k
    /\ \A i \in 1 .. Len(mFreeSlots[b]) : /\ mFreeSlots[b][i] <= Len(mMemoryCache[b])
                                          /\ mMemoryCache[b][mFreeSlots[b][i]] = Nobody
    /\ \A i, j \in 1 .. Len(mFreeSlots[b]) : mFreeSlots[b][i] = mFreeSlots[b][j] => i = j

\* A burst that is not there has no slots taken, a request has one, and the one that
\* the server is told of has been made free.
TakenInv ==
    /\ \A b \in Bursts : life[b] = "none" => \A k \in Keys : mMemoryIdToSlot[b][k] = 0
    /\ \A t \in Threads :
          /\ pc[t] \in Computing => mMemoryIdToSlot[call[t].burst][key[call[t].memory]] # 0
          /\ pc[t] = "tell server" => mFreeSlots[call[t].burst] # <<>>

\* Who has sent a request and waits for the result.
Asks(t, b, s) == /\ t \in Threads /\ pc[t] \in Awaiting /\ call[t].burst = b /\ ran[t] = 0
                 /\ s = mMemoryIdToSlot[b][key[call[t].memory]]

Busy(b) == worker[b].at \in {"received", "executing"}

\* Death is noticed when there is one, and the ends become invalid one after the other.
NoticeInv(b) ==
    /\ notice[b] = "none" <=> "sender" \in mValid[b]
    /\ "sender" \in mValid[b] => "receiver" \in mValid[b]
    /\ notice[b] # "none" => ~alive
    /\ ~alive => ~Busy(b) /\ DOMAIN serverCache[b] = {}
    /\ Len(results[b]) <= 2
    /\ notice[b] # "done" => Len(results[b]) <= 1

\* One request is under way at most as long as requests can be sent.
QueueInv(b) ==
    /\ Len(requests[b]) <= 1
    /\ notice[b] = "none" =>
          /\ requests[b] # <<>> => /\ Asks(requests[b][1].for, b, requests[b][1].slot)
                                   /\ ~Busy(b) /\ results[b] = <<>>
          /\ Busy(b) => Asks(worker[b].for, b, worker[b].slot) /\ results[b] = <<>>
          /\ results[b] # <<>> => \E t \in Threads : pc[t] \in Awaiting /\ call[t].burst = b

\* What the client takes for the memory in a slot is what the server has there, but
\* for the slot that a thread is about to tell the server of.
CoherenceInv(b) ==
    \A s \in DOMAIN serverCache[b] :
        /\ s \in 1 .. Len(mMemoryCache[b]) /\ serverCache[b][s] # Nobody
        /\ \/ serverCache[b][s] = mMemoryCache[b][s]
           \/ \E t \in Threads : /\ pc[t] = "tell server" /\ call[t].burst = b
                                 /\ s = mFreeSlots[b][1]

\* One memory lives at an address, and bursts are remembered under theirs.
AddressInv ==
    /\ \A m, n \in Memories : key[m] = key[n] /\ life[m] \in Living /\ life[n] \in Living
                              => m = n
    /\ \A m \in Memories, a \in Addresses :
          mUsedBy[m][a] # Nobody => address[mUsedBy[m][a]] = a

IInv == /\ TypeInv
        /\ \A t \in Threads : CallInv(t)
        /\ OneDestructor /\ MutexInv
        /\ \A b \in Bursts : SlotInv(b)
        /\ TakenInv
        /\ \A b \in Bursts : NoticeInv(b) /\ QueueInv(b) /\ CoherenceInv(b)
        /\ AddressInv

\* A memory remembers the bursts that have it cached, and its destructor has them
\* before it.
Remembered(b, n) ==
    /\ life[n] \in Living /\ mUsedBy[n][address[b]] = b
    /\ \A t \in Threads : pc[t] \in Destroying /\ call[t].memory = n =>
          \/ address[b] \in pending[t]
          \/ pc[t] = "lock" /\ call[t].burst = b

LifeInv ==
    /\ \A t \in Threads : pc[t] = "compute" =>
          mUsedBy[call[t].memory][address[call[t].burst]] = call[t].burst
    /\ \A b \in Bursts, k \in Keys : ControllerAlive(b) /\ mMemoryIdToSlot[b][k] # 0 =>
          Remembered(b, mMemoryCache[b][mMemoryIdToSlot[b][k]])

\* A success is of an execution on the memory of the call.
SuccessInv ==
    \A t \in Threads :
        /\ outcome[t] = "NO_ERROR" => on[t] = call[t].memory
        /\ pc[t] \in Awaiting /\ results[call[t].burst] # <<>>
           /\ results[call[t].burst][1] = "NO_ERROR" => on[t] = call[t].memory

-------------------------------------------------------------------------------
(* What the steps leave alone.                                              *)

\* The invariant implies the types that the runs check.
LEMMA Checked == IInv => TypeOK
<1> SUFFICES ASSUME IInv PROVE TypeOK
  OBVIOUS
<1> USE DEF IInv
<1>1. ASSUME NEW b \in Bursts
      PROVE  /\ \A k \in Keys : mMemoryIdToSlot[b][k] \in 0 .. Len(mMemoryCache[b])
             /\ mMemoryCache[b] \in Seq(Memories \cup {Nobody}) /\ mFreeSlots[b] \in Seq(Slots)
  <2>1. mMemoryCache[b] \in Seq(Memories \cup {Nobody}) /\ mFreeSlots[b] \in Seq(Slots)
    BY DEF TypeInv, ClientTypes
  <2>2. Len(mMemoryCache[b]) \in Nat
    BY <2>1
  <2>3. ASSUME NEW k \in Keys PROVE mMemoryIdToSlot[b][k] \in 0 .. Len(mMemoryCache[b])
    <3>1. mMemoryIdToSlot[b][k] \in Nat
      BY DEF TypeInv, ClientTypes
    <3>2. mMemoryIdToSlot[b][k] # 0 => mMemoryIdToSlot[b][k] <= Len(mMemoryCache[b])
      BY DEF SlotInv
    <3> QED BY <2>2, <3>1, <3>2
  <2> QED BY <2>1, <2>3
<1>2. ASSUME NEW b \in Bursts PROVE Len(requests[b]) <= 1 /\ Len(results[b]) <= 2
  BY DEF QueueInv, NoticeInv
<1>3. ASSUME NEW b \in Bursts, NEW i \in DOMAIN mFreeSlots[b]
      PROVE  mMemoryCache[b][mFreeSlots[b][i]] = Nobody
  <2>1. mFreeSlots[b] \in Seq(Slots)
    BY DEF TypeInv, ClientTypes
  <2>2. i \in 1 .. Len(mFreeSlots[b])
    BY <2>1, LenProperties
  <2> QED BY <2>2 DEF SlotInv
<1>4. ASSUME NEW b \in Bursts, NEW t \in Threads, call[t].burst = b, pc[t] \in Computing
      PROVE  mMutex[b] = t
  BY <1>4 DEF MutexInv, Locking
<1>5. /\ alive \in BOOLEAN /\ life \in [Memories \cup Bursts -> Lives]
      /\ mUsedBy \in [Memories -> [Addresses -> Bursts \cup {Nobody}]]
      /\ mCurrentlyRunning \in [Bursts -> BOOLEAN]
      /\ mMutex \in [Bursts -> Threads \cup {Nobody}]
      /\ outcome \in [Threads -> Codes]
  BY DEF TypeInv, ObjectTypes, ClientTypes, ServerTypes, ThreadTypes
<1> QED BY <1>1, <1>2, <1>3, <1>4, <1>5 DEF TypeOK

\* The other threads stay where they are.
Others(t) ==
    /\ ThreadTypes'
    /\ \A u \in Threads : u # t =>
          /\ pc'[u] = pc[u] /\ call'[u] = call[u] /\ pending'[u] = pending[u]
          /\ outcome'[u] = outcome[u] /\ ran'[u] = ran[u] /\ on'[u] = on[u]

\* What holds of the calls of the other threads, if they and the objects stay.
LEMMA OthersKept ==
    ASSUME IInv, NEW t \in Threads, Others(t), UNCHANGED <<life, mUsedBy>>
    PROVE  AddressInv' /\ \A u \in Threads : u # t => CallInv(u)'
<1>1. AddressInv'
  BY DEF IInv, AddressInv
<1>2. ASSUME NEW u \in Threads, u # t PROVE CallInv(u)'
  <2>1. CallInv(u)
    BY DEF IInv
  <2>2. pc'[u] = pc[u] /\ call'[u] = call[u] /\ pending'[u] = pending[u]
        /\ outcome'[u] = outcome[u] /\ ran'[u] = ran[u]
    BY <1>2 DEF Others
  <2> QED BY <2>1, <2>2 DEF CallInv
<1> QED BY <1>1, <1>2

\* The caches agree as long as they stay, and so do the threads that are to tell the server.
LEMMA CoherenceKept ==
    ASSUME NEW b \in Bursts, CoherenceInv(b), mMemoryCache'[b] = mMemoryCache[b],
           mFreeSlots'[b] = mFreeSlots[b], serverCache'[b] = serverCache[b],
           \A u \in Threads : pc[u] = "tell server" /\ call[u].burst = b =>
               pc'[u] = "tell server" /\ call'[u].burst = b
    PROVE  CoherenceInv(b)'
<1>1. SUFFICES ASSUME NEW s \in DOMAIN serverCache[b]
      PROVE  /\ s \in 1 .. Len(mMemoryCache[b]) /\ serverCache[b][s] # Nobody
             /\ \/ serverCache[b][s] = mMemoryCache[b][s]
                \/ \E u \in Threads : /\ pc'[u] = "tell server" /\ call'[u].burst = b
                                      /\ s = mFreeSlots[b][1]
  BY Zenon DEF CoherenceInv
<1>2. s \in 1 .. Len(mMemoryCache[b]) /\ serverCache[b][s] # Nobody
  BY Zenon DEF CoherenceInv
<1>3. CASE serverCache[b][s] = mMemoryCache[b][s]
  BY Zenon, <1>2, <1>3
<1>4. CASE \E u \in Threads : /\ pc[u] = "tell server" /\ call[u].burst = b
                             /\ s = mFreeSlots[b][1]
  BY <1>2, <1>4
<1> QED BY Zenon, <1>3, <1>4 DEF CoherenceInv

\* What of the invariant is about controllers, queues and servers.
Shared == /\ ClientTypes /\ QueueTypes /\ ServerTypes
          /\ MutexInv /\ TakenInv
          /\ \A b \in Bursts : SlotInv(b) /\ NoticeInv(b) /\ QueueInv(b) /\ CoherenceInv(b)

\* A step after which the same threads are in a controller, or await a result, keeps it.
LEMMA QuietStep ==
    ASSUME IInv,
           UNCHANGED <<clientVars, queueVars, serverVars>>,
           \A b \in Bursts : life'[b] = life[b],
           \A u \in Threads : pc[u] \in Locking \/ pc'[u] \in Locking =>
              /\ pc'[u] = pc[u] \/ (pc[u] \in Awaiting /\ pc'[u] \in Awaiting)
              /\ call'[u] = call[u] /\ ran'[u] = ran[u]
    PROVE  Shared'
<1>1. UNCHANGED <<mMutex, mMemoryIdToSlot, mMemoryCache, mFreeSlots>>
  BY DEF clientVars
<1>2. UNCHANGED <<mValid, requests, results>>
  BY DEF queueVars
<1>3. UNCHANGED <<alive, notice, worker, serverCache>>
  BY DEF serverVars
<1>4. ClientTypes' /\ QueueTypes' /\ ServerTypes'
  BY <1>1, <1>2, <1>3 DEF IInv, TypeInv, ClientTypes, QueueTypes, ServerTypes
<1>5. \A u \in Threads : pc[u] \in Locking \/ pc'[u] \in Locking =>
          /\ pc[u] \in Locking /\ (pc[u] \in Computing <=> pc'[u] \in Computing)
          /\ pc[u] = "tell server" <=> pc'[u] = "tell server"
          /\ call'[u] = call[u] /\ ran'[u] = ran[u]
  BY DEF Locking, Awaiting, Computing
<1>6. MutexInv'
  BY <1>1, <1>5 DEF IInv, MutexInv
<1>7. \A u \in Threads : pc[u] \in Computing \/ pc'[u] \in Computing
                         \/ pc[u] = "tell server" \/ pc'[u] = "tell server"
                         => pc[u] \in Locking \/ pc'[u] \in Locking
  BY DEF Locking
<1>8. TakenInv'
  BY ZenonT(40), <1>1, <1>5, <1>7 DEF IInv, TakenInv
<1>9. ASSUME NEW b \in Bursts PROVE SlotInv(b)' /\ NoticeInv(b)'
  <2>1. SlotInv(b) /\ NoticeInv(b)
    BY DEF IInv
  <2> QED BY <2>1, <1>1, <1>2, <1>3 DEF SlotInv, NoticeInv, Busy
<1>10. \A u \in Threads : pc[u] \in Awaiting => pc'[u] \in Awaiting /\ call'[u] = call[u]
                                                /\ ran'[u] = ran[u]
  BY <1>7 DEF Awaiting, Computing
<1>11. ASSUME NEW b \in Bursts PROVE QueueInv(b)'
  <2>1. QueueInv(b)
    BY DEF IInv
  <2> QED BY <2>1, <1>1, <1>2, <1>3, <1>10 DEF QueueInv, Busy, Asks
<1>12. \A u \in Threads : pc[u] = "tell server" => pc'[u] = "tell server" /\ call'[u] = call[u]
  BY <1>5, <1>7
<1>13. ASSUME NEW b \in Bursts PROVE CoherenceInv(b)'
  <2>1. CoherenceInv(b)
    BY DEF IInv
  <2> QED BY <2>1, <1>1, <1>3, <1>12, CoherenceKept
<1> QED BY <1>4, <1>6, <1>8, <1>9, <1>11, <1>13 DEF Shared

\* A step of a thread that is not, and will not be, in a controller.
LEMMA PrivateStep ==
    ASSUME IInv, NEW t \in Threads, Others(t),
           UNCHANGED <<clientVars, queueVars, serverVars>>,
           \A b \in Bursts : life'[b] = life[b],
           pc[t] \notin Locking, pc'[t] \notin Locking
    PROVE  Shared'
<1>1. \A u \in Threads : pc[u] \in Locking \/ pc'[u] \in Locking =>
          /\ pc'[u] = pc[u] \/ (pc[u] \in Awaiting /\ pc'[u] \in Awaiting)
          /\ call'[u] = call[u] /\ ran'[u] = ran[u]
  BY DEF Others
<1> QED BY Zenon, <1>1, QuietStep

\* The invariant is what the private steps keep and the rest.
LEMMA Rest == /\ IInv => Shared
              /\ /\ Shared' /\ ObjectTypes' /\ ThreadTypes' /\ OneDestructor' /\ AddressInv'
                 /\ \A t \in Threads : CallInv(t)'
                 => IInv'
BY Zenon DEF IInv, TypeInv, Shared

-------------------------------------------------------------------------------
(* Objects, and the steps of threads outside the controllers.               *)

\* What the client does with objects leaves the threads and the controllers alone.
LEMMA ObjectStep ==
    ASSUME IInv,
           UNCHANGED <<mUsedBy, clientVars, queueVars, serverVars, threadVars>>,
           ObjectTypes', AddressInv',
           \A t \in Threads : pc[t] \in Executing \cup Destroying =>
               life'[call[t].memory] = life[call[t].memory],
           \A b \in Bursts : life'[b] = "none" => life[b] = "none",
           \A b \in Bursts : life[b] = "none" /\ life'[b] # "none" =>
                 \A k \in Keys : mMemoryIdToSlot[b][k] = 0
    PROVE  IInv'
<1>1. UNCHANGED <<mMutex, mMemoryIdToSlot, mMemoryCache, mFreeSlots>>
  BY DEF clientVars
<1>2. UNCHANGED <<mValid, requests, results>>
  BY DEF queueVars
<1>3. UNCHANGED <<alive, notice, worker, serverCache>>
  BY DEF serverVars
<1>4. UNCHANGED <<pc, calls, call, pending, outcome, ran, on>>
  BY DEF threadVars
<1>5. ClientTypes' /\ QueueTypes' /\ ServerTypes' /\ ThreadTypes'
  BY <1>1, <1>2, <1>3, <1>4
     DEF IInv, TypeInv, ClientTypes, QueueTypes, ServerTypes, ThreadTypes
<1>6. MutexInv' /\ OneDestructor'
  BY <1>1, <1>4 DEF IInv, MutexInv, OneDestructor
<1>7. TakenInv'
  BY <1>1, <1>4 DEF IInv, TakenInv
<1>8. ASSUME NEW b \in Bursts PROVE SlotInv(b)' /\ NoticeInv(b)'
  <2>1. SlotInv(b) /\ NoticeInv(b)
    BY DEF IInv
  <2> QED BY <2>1, <1>1, <1>2, <1>3 DEF SlotInv, NoticeInv, Busy
<1>9. ASSUME NEW b \in Bursts PROVE QueueInv(b)'
  <2>1. QueueInv(b)
    BY DEF IInv
  <2> QED BY <2>1, <1>1, <1>2, <1>3, <1>4 DEF QueueInv, Busy, Asks
<1>10. ASSUME NEW b \in Bursts PROVE CoherenceInv(b)'
  <2>1. CoherenceInv(b)
    BY DEF IInv
  <2> QED BY <2>1, <1>1, <1>3, <1>4, CoherenceKept
<1>11. ASSUME NEW t \in Threads PROVE CallInv(t)'
  <2>1. CallInv(t)
    BY DEF IInv
  <2>2. pc[t] \in Executing \cup Destroying => life'[call[t].memory] = life[call[t].memory]
    OBVIOUS
  <2> QED BY <2>1, <2>2, <1>4 DEF CallInv
<1> QED BY <1>5, <1>6, <1>7, <1>8, <1>9, <1>10, <1>11, Rest DEF Shared

\* Creating a memory, at an address where no memory lives.
LEMMA KeptByCreateMemory ==
    ASSUME IInv, NEW m \in Memories, CreateMemory(m)
    PROVE  IInv'
<1>1. /\ life[m] = "none"
      /\ \A n \in Memories : key[n] = key[m] => life[n] \in {"none", "freed"}
      /\ life' = [life EXCEPT ![m] = "alive"]
      /\ UNCHANGED <<mUsedBy, mCurrentlyRunning, clientVars, queueVars, serverVars, threadVars>>
  BY Zenon DEF CreateMemory
<1>2. life \in [Memories \cup Bursts -> Lives]
  BY DEF IInv, TypeInv, ObjectTypes
<1>3. ObjectTypes'
  BY <1>1, <1>2 DEF IInv, TypeInv, ObjectTypes, Lives
<1>4. AddressInv'
  BY <1>1, <1>2 DEF IInv, AddressInv, Living
<1>5. \A x \in Memories \cup Bursts : life[x] # "none" => life'[x] = life[x]
  BY <1>1, <1>2
<1>6. \A x \in Memories \cup Bursts : life'[x] = "none" => life[x] = "none"
  BY <1>1, <1>2
<1>7. \A t \in Threads : pc[t] \in Executing \cup Destroying =>
          call[t].memory \in Memories /\ life[call[t].memory] # "none"
  BY DEF IInv, CallInv
<1>8. \A t \in Threads : pc[t] \in Executing \cup Destroying =>
          life'[call[t].memory] = life[call[t].memory]
  BY <1>5, <1>7
<1>9. \A b \in Bursts : life[b] = "none" => \A k \in Keys : mMemoryIdToSlot[b][k] = 0
  BY DEF IInv, TakenInv
<1>10. UNCHANGED <<mUsedBy, clientVars, queueVars, serverVars, threadVars>>
  BY <1>1
<1> QED BY <1>3, <1>4, <1>6, <1>8, <1>9, <1>10, ObjectStep

\* Creating or freeing a burst.
LEMMA KeptByBurstStep ==
    ASSUME IInv, NEW b \in Bursts, CreateBurst(b) \/ FreeBurst(b)
    PROVE  IInv'
<1>1. PICK l \in {"alive", "freed"} : life' = [life EXCEPT ![b] = l]
  BY Zenon DEF CreateBurst, FreeBurst
<1>2. UNCHANGED <<mUsedBy, mCurrentlyRunning, clientVars, queueVars, serverVars, threadVars>>
  BY Zenon DEF CreateBurst, FreeBurst
<1>3. life \in [Memories \cup Bursts -> Lives]
  BY DEF IInv, TypeInv, ObjectTypes
<1>4. ObjectTypes'
  BY <1>1, <1>2, <1>3 DEF IInv, TypeInv, ObjectTypes, Lives
<1>5. \A m \in Memories : life'[m] = life[m]
  BY <1>1, <1>3, NamesAssumption
<1>6. AddressInv'
  BY <1>2, <1>5 DEF IInv, AddressInv
<1>7. \A c \in Bursts : life'[c] = "none" => life[c] = "none"
  BY <1>1, <1>3
<1>8. \A t \in Threads : pc[t] \in Executing \cup Destroying => call[t].memory \in Memories
  BY DEF IInv, CallInv
<1>9. \A c \in Bursts : life[c] = "none" => \A k \in Keys : mMemoryIdToSlot[c][k] = 0
  BY DEF IInv, TakenInv
<1> QED BY <1>2, <1>4, <1>5, <1>6, <1>7, <1>8, <1>9, ObjectStep

\* A step of a thread that leaves the objects alone keeps the invariant, if it keeps what
\* is shared and ends in order.
LEMMA ThreadStep ==
    ASSUME IInv, NEW t \in Threads, Others(t), Shared', UNCHANGED <<life, mUsedBy>>,
           mCurrentlyRunning' \in [Bursts -> BOOLEAN], CallInv(t)',
           pc'[t] \in Destroying => pc[t] \in Destroying /\ call'[t].memory = call[t].memory
    PROVE  IInv'
<1>1. AddressInv' /\ \A u \in Threads : u # t => CallInv(u)'
  BY OthersKept
<1>2. \A u \in Threads : CallInv(u)'
  BY <1>1
<1>3. \A u \in Threads : pc'[u] \in Destroying =>
          pc[u] \in Destroying /\ call'[u].memory = call[u].memory
  BY DEF Others
<1>4. OneDestructor'
  BY <1>3 DEF IInv, OneDestructor
<1>5. ObjectTypes'
  BY DEF IInv, TypeInv, ObjectTypes
<1>6. ThreadTypes'
  BY DEF Others
<1> QED BY <1>1, <1>2, <1>4, <1>5, <1>6, Rest

\* The beginning of a call.
LEMMA KeptByBegin ==
    ASSUME IInv, NEW t \in Threads, Begin(t)
    PROVE  IInv'
<1>1. /\ pc[t] = "idle" /\ calls' = [calls EXCEPT ![t] = @ + 1]
      /\ UNCHANGED <<life, mUsedBy, clientVars, queueVars, serverVars, pending, ran, on>>
  BY Zenon DEF Begin
<1>2. PICK b \in Bursts, m \in Memories :
          /\ life[b] = "alive" /\ life[m] = "alive"
          /\ call' = [call EXCEPT ![t] = [burst |-> b, memory |-> m]]
          /\ \/ /\ mCurrentlyRunning' = [mCurrentlyRunning EXCEPT ![b] = TRUE]
                /\ pc' = [pc EXCEPT ![t] = "use"] /\ UNCHANGED outcome
             \/ /\ outcome' = [outcome EXCEPT ![t] = "BAD_STATE"]
                /\ pc' = [pc EXCEPT ![t] = "return"] /\ UNCHANGED mCurrentlyRunning
  BY Zenon DEF Begin, Goto
<1>3. ThreadTypes
  BY DEF IInv, TypeInv
<1>4. CallInv(t)
  BY DEF IInv
<1>5. Others(t) /\ CallInv(t)'
  <2>1. /\ call' \in [Threads -> [burst : Bursts \cup {Nobody}, memory : Memories \cup {Nobody}]]
        /\ call'[t].burst = b /\ call'[t].memory = m
        /\ \A u \in Threads : u # t => call'[u] = call[u]
    BY <1>2, <1>3 DEF ThreadTypes
  <2>2. calls' \in [Threads -> Nat]
    BY <1>1, <1>3 DEF ThreadTypes
  <2>3. /\ outcome' \in [Threads -> Codes]
        /\ \A u \in Threads : u # t => outcome'[u] = outcome[u]
    BY <1>2, <1>3 DEF ThreadTypes, Codes
  <2>4. pc' \in [Threads -> Places] /\ \A u \in Threads : u # t => pc'[u] = pc[u]
    BY <1>2, <1>3 DEF ThreadTypes, Places
  <2>5. \/ pc'[t] = "use" /\ outcome'[t] = outcome[t]
        \/ pc'[t] = "return"
    BY <1>2, <1>3 DEF ThreadTypes
  <2>6. UNCHANGED <<pending, ran, on, life>>
    BY <1>1
  <2>7. Others(t)
    BY <1>3, <2>1, <2>2, <2>3, <2>4, <2>6 DEF Others, ThreadTypes
  <2>8. outcome[t] = "none" /\ ran[t] = 0
    BY <1>1, <1>4 DEF CallInv
  <2>9. /\ ran'[t] = 0 /\ ran'[t] <= 1 /\ life'[call'[t].memory] = "alive"
        /\ life'[call'[t].burst] = "alive"
        /\ pc'[t] # "return" => pc'[t] = "use" /\ outcome'[t] = "none"
    BY <1>2, <2>1, <2>5, <2>6, <2>8
  <2>10. pc'[t] \in {"use", "return"}
    BY <2>5
  <2>11. call'[t].burst \in Bursts /\ call'[t].memory \in Memories
    BY <2>1
  <2>12. CallInv(t)'
    BY <2>9, <2>10, <2>11 DEF CallInv, Executing, Destroying
  <2> QED BY <2>7, <2>12
<1>6. mCurrentlyRunning' \in [Bursts -> BOOLEAN]
  <2>1. mCurrentlyRunning \in [Bursts -> BOOLEAN]
    BY DEF IInv, TypeInv, ObjectTypes
  <2> QED BY <1>2, <2>1
<1>7. pc'[t] \in {"use", "return"}
  BY <1>2, <1>3 DEF ThreadTypes
<1>8. Shared'
  <2>1. pc[t] \notin Locking /\ pc'[t] \notin Locking
    BY <1>1, <1>7 DEF Locking, Computing
  <2>2. UNCHANGED <<clientVars, queueVars, serverVars>> /\ \A c \in Bursts : life'[c] = life[c]
    BY <1>1
  <2> QED BY <1>5, <2>1, <2>2, PrivateStep
<1>9. pc'[t] \notin Destroying
  BY <1>7 DEF Destroying
<1>10. UNCHANGED <<life, mUsedBy>>
  BY <1>1
<1> QED BY <1>5, <1>6, <1>8, <1>9, <1>10, ThreadStep

\* The regular path runs what was not sent, and so has not run.
LEMMA KeptByFallback ==
    ASSUME IInv, NEW t \in Threads, Fallback(t)
    PROVE  IInv'
<1>1. /\ pc[t] = "fallback" /\ pc' = [pc EXCEPT ![t] = "unlock"]
      /\ UNCHANGED <<objectVars, clientVars, queueVars, serverVars, calls, call, pending>>
  BY Zenon DEF Fallback, Goto
<1>2. PICK code \in {"NO_ERROR", "OP_FAILED", "DEAD_OBJECT"} :
          /\ outcome' = [outcome EXCEPT ![t] = code]
          /\ \/ ran' = [ran EXCEPT ![t] = @ + 1] /\ on' = [on EXCEPT ![t] = call[t].memory]
             \/ UNCHANGED <<ran, on>>
  BY Zenon DEF Fallback
<1>3. ThreadTypes
  BY DEF IInv, TypeInv
<1>4. CallInv(t)
  BY DEF IInv
<1>5. Others(t)
  <2>1. ran' \in [Threads -> Nat] /\ \A u \in Threads : u # t => ran'[u] = ran[u]
    BY <1>2, <1>3 DEF ThreadTypes
  <2>2. on' = [u \in Threads |-> on'[u]] /\ \A u \in Threads : u # t => on'[u] = on[u]
    BY <1>2, <1>3 DEF ThreadTypes
  <2> QED BY <1>1, <1>2, <1>3, <2>1, <2>2 DEF Others, ThreadTypes, Places, Codes
<1>6. pc'[t] = "unlock"
  BY <1>1, <1>3 DEF ThreadTypes
<1>7. ran[t] = 0 /\ ran'[t] <= 1
  <2>1. ran[t] = 0
    BY <1>1, <1>4 DEF CallInv
  <2> QED BY <1>2, <1>3, <2>1 DEF ThreadTypes
<1>8. UNCHANGED <<life, mUsedBy, mCurrentlyRunning>>
  BY <1>1 DEF objectVars
<1>9. CallInv(t)'
  BY <1>1, <1>4, <1>6, <1>7, <1>8 DEF CallInv, Executing, Destroying
<1>10. Shared'
  <2>1. pc[t] \notin Locking /\ pc'[t] \notin Locking
    BY <1>1, <1>6 DEF Locking, Computing
  <2>2. UNCHANGED <<clientVars, queueVars, serverVars>>
    BY <1>1
  <2>3. \A c \in Bursts : life'[c] = life[c]
    BY <1>8
  <2> QED BY <1>5, <2>1, <2>2, <2>3, PrivateStep
<1>11. mCurrentlyRunning' \in [Bursts -> BOOLEAN]
  BY <1>8 DEF IInv, TypeInv, ObjectTypes
<1> QED BY <1>5, <1>6, <1>8, <1>9, <1>10, <1>11, ThreadStep DEF Destroying

\* The burst is given back: the thread alone changes what the invariant is about.
LEMMA KeptByUnlock ==
    ASSUME IInv, NEW t \in Threads, Unlock(t)
    PROVE  IInv'
<1>1. /\ pc[t] = "unlock" /\ pc' = [pc EXCEPT ![t] = "return"]
      /\ mCurrentlyRunning' = [mCurrentlyRunning EXCEPT ![call[t].burst] = FALSE]
      /\ UNCHANGED <<life, mUsedBy, clientVars, queueVars, serverVars, calls, call, pending,
                     outcome, ran, on>>
  BY Zenon DEF Unlock, Goto
<1>2. ThreadTypes /\ CallInv(t)
  BY DEF IInv, TypeInv
<1>3. Others(t)
  BY <1>1, <1>2 DEF Others, ThreadTypes, Places
<1>4. pc'[t] = "return"
  BY <1>1, <1>2 DEF ThreadTypes
<1>5. CallInv(t)'
  BY <1>1, <1>2, <1>4 DEF CallInv, Executing, Destroying
<1>6. Shared'
  <2>1. pc[t] \notin Locking /\ pc'[t] \notin Locking
    BY <1>1, <1>4 DEF Locking, Computing
  <2>2. UNCHANGED <<clientVars, queueVars, serverVars>> /\ \A c \in Bursts : life'[c] = life[c]
    BY <1>1
  <2> QED BY <1>3, <2>1, <2>2, PrivateStep
<1>7. mCurrentlyRunning' \in [Bursts -> BOOLEAN]
  BY <1>1 DEF IInv, TypeInv, ObjectTypes
<1>8. UNCHANGED <<life, mUsedBy>>
  BY <1>1
<1> QED BY <1>3, <1>4, <1>5, <1>6, <1>7, <1>8, ThreadStep DEF Destroying

\* The end of a call: the thread is idle, and has no burst and no result.
LEMMA KeptByReturn ==
    ASSUME IInv, NEW t \in Threads, Return(t)
    PROVE  IInv'
<1>1. /\ pc[t] = "return" /\ pc' = [pc EXCEPT ![t] = "idle"]
      /\ call' = [call EXCEPT ![t] = NoCall] /\ outcome' = [outcome EXCEPT ![t] = "none"]
      /\ ran' = [ran EXCEPT ![t] = 0] /\ on' = [on EXCEPT ![t] = Nobody]
      /\ UNCHANGED <<objectVars, clientVars, queueVars, serverVars, calls, pending>>
  BY Zenon DEF Return, Goto
<1>2. ThreadTypes
  BY DEF IInv, TypeInv
<1>3. Others(t)
  BY <1>1, <1>2 DEF Others, ThreadTypes, Places, Codes, NoCall
<1>4. pc'[t] = "idle" /\ outcome'[t] = "none" /\ ran'[t] = 0
  BY <1>1, <1>2 DEF ThreadTypes
<1>5. CallInv(t)'
  BY <1>4 DEF CallInv, Executing, Destroying
<1>6. UNCHANGED <<life, mUsedBy, mCurrentlyRunning>>
  BY <1>1 DEF objectVars
<1>7. Shared'
  <2>1. pc[t] \notin Locking /\ pc'[t] \notin Locking
    BY <1>1, <1>4 DEF Locking, Computing
  <2>2. UNCHANGED <<clientVars, queueVars, serverVars>> /\ \A c \in Bursts : life'[c] = life[c]
    BY <1>1, <1>6
  <2> QED BY <1>3, <2>1, <2>2, PrivateStep
<1>8. mCurrentlyRunning' \in [Bursts -> BOOLEAN]
  BY <1>6 DEF IInv, TypeInv, ObjectTypes
<1> QED BY <1>3, <1>4, <1>5, <1>6, <1>7, <1>8, ThreadStep DEF Destroying

\* The memory remembers the burst, unless it remembers one at that address already.
LEMMA EffectOfUse ==
    ASSUME IInv, NEW t \in Threads, Use(t)
    PROVE  /\ call[t].burst \in Bursts /\ call[t].memory \in Memories
           /\ life[call[t].memory] = "alive"
           /\ mUsedBy' \in [Memories -> [Addresses -> Bursts \cup {Nobody}]]
           /\ \A n \in Memories, a \in Addresses :
                 \/ mUsedBy'[n][a] = mUsedBy[n][a]
                 \/ /\ mUsedBy'[n][a] = call[t].burst /\ a = address[call[t].burst]
                    /\ n = call[t].memory /\ mUsedBy[n][a] = Nobody
           /\ mUsedBy'[call[t].memory][address[call[t].burst]] # Nobody
<1>1. /\ pc[t] = "use"
      /\ mUsedBy' = [mUsedBy EXCEPT ![call[t].memory] = usedBy(@, call[t].burst)]
  BY Zenon DEF Use
<1>2. /\ call[t].burst \in Bursts /\ call[t].memory \in Memories
      /\ life[call[t].memory] = "alive"
  BY <1>1 DEF IInv, CallInv, Executing
<1>3. mUsedBy \in [Memories -> [Addresses -> Bursts \cup {Nobody}]]
  BY DEF IInv, TypeInv, ObjectTypes
<1> DEFINE m == call[t].memory  b == call[t].burst
<1>4. address[b] \in Addresses
  BY <1>2, KeyAssumption
<1>5. /\ usedBy(mUsedBy[m], b) \in [Addresses -> Bursts \cup {Nobody}]
      /\ \A a \in Addresses : \/ usedBy(mUsedBy[m], b)[a] = mUsedBy[m][a]
                              \/ /\ usedBy(mUsedBy[m], b)[a] = b
                                 /\ a = address[b] /\ mUsedBy[m][a] = Nobody
      /\ usedBy(mUsedBy[m], b)[address[b]] # Nobody
  BY <1>2, <1>3, <1>4, NamesAssumption DEF usedBy
<1>6. /\ mUsedBy'[m] = usedBy(mUsedBy[m], b)
      /\ \A n \in Memories : n # m => mUsedBy'[n] = mUsedBy[n]
      /\ mUsedBy' \in [Memories -> [Addresses -> Bursts \cup {Nobody}]]
  BY <1>1, <1>2, <1>3, <1>5
<1> QED BY <1>2, <1>5, <1>6

\* The memory remembers one more burst, and forgets none.
LEMMA KeptByUse ==
    ASSUME IInv, NEW t \in Threads, Use(t)
    PROVE  IInv'
<1>1. /\ pc[t] = "use" /\ pc' = [pc EXCEPT ![t] = "compute"]
      /\ UNCHANGED <<life, mCurrentlyRunning, clientVars, queueVars, serverVars, calls, call,
                     pending, outcome, ran, on>>
  BY Zenon DEF Use, Goto
<1>2. ThreadTypes /\ CallInv(t)
  BY DEF IInv, TypeInv
<1>3. Others(t)
  BY <1>1, <1>2 DEF Others, ThreadTypes, Places
<1>4. pc'[t] = "compute"
  BY <1>1, <1>2 DEF ThreadTypes
<1>5. CallInv(t)'
  BY <1>1, <1>2, <1>4 DEF CallInv, Executing, Destroying
<1>6. Shared'
  <2>1. pc[t] \notin Locking /\ pc'[t] \notin Locking
    BY <1>1, <1>4 DEF Locking, Computing
  <2>2. UNCHANGED <<clientVars, queueVars, serverVars>> /\ \A c \in Bursts : life'[c] = life[c]
    BY <1>1
  <2> QED BY <1>3, <2>1, <2>2, PrivateStep
<1>7. ASSUME NEW u \in Threads PROVE CallInv(u)'
  <2>1. CASE u = t
    BY <1>5, <2>1
  <2>2. CASE u # t
    <3>1. CallInv(u)
      BY DEF IInv
    <3>2. /\ pc'[u] = pc[u] /\ call' = call /\ life' = life /\ pending' = pending
          /\ outcome' = outcome /\ ran' = ran
      BY <1>1, <1>3, <2>2 DEF Others
    <3>3. pc[u] \in Destroying =>
             \A a \in pending[u] : mUsedBy'[call[u].memory][a] # Nobody
      <4>1. pending[u] \subseteq Addresses
        BY <1>2 DEF ThreadTypes
      <4>2. \A n \in Memories, a \in Addresses : mUsedBy[n][a] # Nobody => mUsedBy'[n][a] # Nobody
        BY EffectOfUse
      <4>3. pc[u] \in Destroying => /\ call[u].memory \in Memories
                                    /\ \A a \in pending[u] : mUsedBy[call[u].memory][a] # Nobody
        BY <3>1 DEF CallInv
      <4> QED BY <4>1, <4>2, <4>3
    <3> QED BY <3>1, <3>2, <3>3 DEF CallInv
  <2> QED BY <2>1, <2>2
<1>8. AddressInv'
  <2>1. \A m \in Memories, a \in Addresses :
            mUsedBy'[m][a] # Nobody => address[mUsedBy'[m][a]] = a
    BY EffectOfUse DEF IInv, AddressInv
  <2>2. life' = life
    BY <1>1
  <2> QED BY <2>1, <2>2 DEF IInv, AddressInv
<1>9. ObjectTypes'
  BY <1>1, EffectOfUse DEF IInv, TypeInv, ObjectTypes
<1>10. OneDestructor'
  <2>1. \A u \in Threads : pc'[u] \in Destroying => pc[u] \in Destroying /\ call'[u] = call[u]
    BY <1>3, <1>4 DEF Others, Destroying
  <2> QED BY <2>1 DEF IInv, OneDestructor
<1> QED BY <1>3, <1>6, <1>7, <1>8, <1>9, <1>10, Rest DEF Others

\* A destructor begins: nobody else has the memory.
LEMMA EffectOfFreeMemory ==
    ASSUME IInv, NEW t \in Threads, FreeMemory(t)
    PROVE  \E m \in Memories :
              /\ life[m] = "alive" /\ life' = [life EXCEPT ![m] = "destructor"]
              /\ \A u \in Threads : pc[u] # "idle" => call[u].memory # m
              /\ call'[t].memory = m /\ call'[t].burst = Nobody
              /\ pending'[t] = {a \in Addresses : mUsedBy[m][a] # Nobody}
              /\ pc[t] = "idle" /\ pc'[t] = "destroy" /\ Others(t)
<1>1. /\ pc[t] = "idle" /\ calls' = [calls EXCEPT ![t] = @ + 1]
      /\ pc' = [pc EXCEPT ![t] = "destroy"] /\ UNCHANGED <<outcome, ran, on>>
  BY Zenon DEF FreeMemory, Goto
<1>2. PICK m \in Memories :
          /\ life[m] = "alive" /\ ~InUse(m)
          /\ call' = [call EXCEPT ![t] = [NoCall EXCEPT !.memory = m]]
          /\ pending' = [pending EXCEPT ![t] = {a \in Addresses : mUsedBy[m][a] # Nobody}]
          /\ life' = [life EXCEPT ![m] = "destructor"]
  BY Zenon DEF FreeMemory
<1>3. ThreadTypes
  BY DEF IInv, TypeInv
<1>4. [NoCall EXCEPT !.memory = m] = [burst |-> Nobody, memory |-> m]
  BY DEF NoCall
<1>5. /\ call' \in [Threads -> [burst : Bursts \cup {Nobody}, memory : Memories \cup {Nobody}]]
      /\ call'[t].memory = m /\ call'[t].burst = Nobody
      /\ \A u \in Threads : u # t => call'[u] = call[u]
  BY <1>2, <1>3, <1>4 DEF ThreadTypes
<1>6. /\ pending' \in [Threads -> SUBSET Addresses]
      /\ pending'[t] = {a \in Addresses : mUsedBy[m][a] # Nobody}
      /\ \A u \in Threads : u # t => pending'[u] = pending[u]
  BY <1>2, <1>3 DEF ThreadTypes
<1>7. calls' \in [Threads -> Nat]
  BY <1>1, <1>3 DEF ThreadTypes
<1>8. /\ pc' \in [Threads -> Places] /\ pc'[t] = "destroy"
      /\ \A u \in Threads : u # t => pc'[u] = pc[u]
  BY <1>1, <1>3 DEF ThreadTypes, Places
<1>9. Others(t)
  BY <1>1, <1>3, <1>5, <1>6, <1>7, <1>8 DEF Others, ThreadTypes
<1>10. \A u \in Threads : pc[u] # "idle" => call[u].memory # m
  BY <1>2 DEF InUse
<1> QED BY <1>1, <1>2, <1>5, <1>6, <1>8, <1>9, <1>10

\* A destructor that begins is the only one of its memory.
LEMMA KeptByFreeMemory ==
    ASSUME IInv, NEW t \in Threads, FreeMemory(t)
    PROVE  IInv'
<1>1. PICK m \in Memories :
              /\ life[m] = "alive" /\ life' = [life EXCEPT ![m] = "destructor"]
              /\ \A u \in Threads : pc[u] # "idle" => call[u].memory # m
              /\ call'[t].memory = m /\ call'[t].burst = Nobody
              /\ pending'[t] = {a \in Addresses : mUsedBy[m][a] # Nobody}
              /\ pc[t] = "idle" /\ pc'[t] = "destroy" /\ Others(t)
  BY EffectOfFreeMemory
<1>2. UNCHANGED <<mUsedBy, mCurrentlyRunning, clientVars, queueVars, serverVars, outcome, ran>>
  BY Zenon DEF FreeMemory
<1>3. life \in [Memories \cup Bursts -> Lives]
  BY DEF IInv, TypeInv, ObjectTypes
<1>4. /\ life'[m] = "destructor" /\ life' \in [Memories \cup Bursts -> Lives]
      /\ \A x \in Memories \cup Bursts : x # m => life'[x] = life[x]
  BY <1>1, <1>3 DEF Lives
<1>5. \A b \in Bursts : life'[b] = life[b]
  BY <1>4, NamesAssumption
<1>6. Shared'
  <2>1. pc[t] \notin Locking /\ pc'[t] \notin Locking
    BY <1>1 DEF Locking, Computing
  <2>2. UNCHANGED <<clientVars, queueVars, serverVars>>
    BY <1>2
  <2> QED BY <1>1, <1>5, <2>1, <2>2, PrivateStep
<1>7. ObjectTypes'
  BY <1>2, <1>4 DEF IInv, TypeInv, ObjectTypes
<1>8. AddressInv'
  <2>1. \A n \in Memories : life'[n] \in Living <=> life[n] \in Living
    BY <1>1, <1>4 DEF Living
  <2> QED BY <1>2, <2>1 DEF IInv, AddressInv
<1>9. CallInv(t)'
  <2>1. outcome'[t] = "none" /\ ran'[t] = 0
    BY <1>1, <1>2 DEF IInv, CallInv
  <2>2. \A a \in pending'[t] : mUsedBy'[call'[t].memory][a] # Nobody
    BY <1>1, <1>2
  <2> QED BY <1>1, <1>4, <2>1, <2>2, NamesAssumption DEF CallInv, Executing, Destroying
<1>10. ASSUME NEW u \in Threads, u # t PROVE CallInv(u)'
  <2>1. CallInv(u)
    BY DEF IInv
  <2>2. /\ pc'[u] = pc[u] /\ call'[u] = call[u] /\ pending'[u] = pending[u]
        /\ outcome'[u] = outcome[u] /\ ran'[u] = ran[u] /\ mUsedBy' = mUsedBy
    BY <1>1, <1>2, <1>10 DEF Others
  <2>3. pc[u] \in Executing \cup Destroying =>
           call[u].memory \in Memories /\ life'[call[u].memory] = life[call[u].memory]
    BY <2>1, <1>1, <1>4 DEF CallInv, Executing, Destroying
  <2> QED BY <2>1, <2>2, <2>3, <1>5 DEF CallInv
<1>11. OneDestructor'
  <2>1. \A u \in Threads : u # t /\ pc'[u] \in Destroying =>
            pc[u] \in Destroying /\ call'[u] = call[u] /\ call[u].memory # m
    BY <1>1 DEF Others, Destroying
  <2> QED BY <2>1, <1>1 DEF IInv, OneDestructor
<1>12. ThreadTypes' /\ \A u \in Threads : CallInv(u)'
  BY <1>1, <1>9, <1>10 DEF Others
<1> QED BY <1>6, <1>7, <1>8, <1>11, <1>12, Rest

\* A controller that is there is that of a burst that has been created.
LEMMA Created ==
    ASSUME IInv, NEW b \in Bursts, ControllerAlive(b)
    PROVE  life[b] # "none"
<1>1. CASE life[b] = "alive"
  BY <1>1
<1>2. CASE \E t \in Threads : call[t].burst = b /\ pc[t] # "idle"
  BY <1>2 DEF IInv, CallInv
<1> QED BY <1>1, <1>2 DEF ControllerAlive, Holders

\* A destructor goes on to the next address.
LEMMA EffectOfNextBurst ==
    ASSUME IInv, NEW t \in Threads, NextBurst(t)
    PROVE  \E a \in Addresses, b \in Bursts :
              /\ b = mUsedBy[call[t].memory][a]
              /\ pending'[t] = pending[t] \ {a}
              /\ call'[t].memory = call[t].memory
              /\ pc[t] = "destroy" /\ Others(t)
              /\ \/ pc'[t] = "lock" /\ call'[t].burst = b /\ ControllerAlive(b)
                 \/ pc'[t] = "destroy" /\ call' = call /\ ~ControllerAlive(b)
<1>1. pc[t] = "destroy" /\ UNCHANGED <<calls, outcome, ran, on>>
  BY Zenon DEF NextBurst
<1>2. PICK a \in pending[t] :
        /\ pending' = [pending EXCEPT ![t] = @ \ {a}]
        /\ LET b == mUsedBy[call[t].memory][a] IN
           IF ControllerAlive(b)
           THEN call' = [call EXCEPT ![t].burst = b] /\ pc' = [pc EXCEPT ![t] = "lock"]
           ELSE UNCHANGED <<call, pc>>
  BY Zenon DEF NextBurst, Goto
<1>3. ThreadTypes
  BY DEF IInv, TypeInv
<1>4. a \in Addresses /\ call[t].memory \in Memories
      /\ mUsedBy[call[t].memory][a] \in Bursts
  <2>1. a \in Addresses
    BY <1>2, <1>3 DEF ThreadTypes
  <2>2. call[t].memory \in Memories /\ mUsedBy[call[t].memory][a] # Nobody
    BY <1>1, <1>2 DEF IInv, CallInv, Destroying
  <2> QED BY <2>1, <2>2 DEF IInv, TypeInv, ObjectTypes
<1> DEFINE b == mUsedBy[call[t].memory][a]
<1>5. /\ pending' \in [Threads -> SUBSET Addresses] /\ pending'[t] = pending[t] \ {a}
      /\ \A u \in Threads : u # t => pending'[u] = pending[u]
  BY <1>2, <1>3 DEF ThreadTypes
<1>6. CASE ControllerAlive(b)
  <2>1. call' = [call EXCEPT ![t].burst = b] /\ pc' = [pc EXCEPT ![t] = "lock"]
    BY Zenon, <1>2, <1>6
  <2>2. /\ call' \in [Threads -> [burst : Bursts \cup {Nobody}, memory : Memories \cup {Nobody}]]
        /\ call'[t].memory = call[t].memory /\ call'[t].burst = b
        /\ \A u \in Threads : u # t => call'[u] = call[u]
    BY <1>3, <1>4, <2>1 DEF ThreadTypes
  <2>3. /\ pc' \in [Threads -> Places] /\ pc'[t] = "lock"
        /\ \A u \in Threads : u # t => pc'[u] = pc[u]
    BY <1>3, <2>1 DEF ThreadTypes, Places
  <2>4. Others(t)
    BY <1>1, <1>3, <1>5, <2>2, <2>3 DEF Others, ThreadTypes
  <2> QED BY <1>1, <1>4, <1>5, <1>6, <2>2, <2>3, <2>4
<1>7. CASE ~ControllerAlive(b)
  <2>1. UNCHANGED <<call, pc>>
    BY Zenon, <1>2, <1>7
  <2>2. Others(t)
    BY <1>1, <1>3, <1>5, <2>1 DEF Others, ThreadTypes
  <2> QED BY <1>1, <1>4, <1>5, <1>7, <2>1, <2>2
<1> QED BY <1>6, <1>7

\* A destructor that goes on to a burst whose controller is there.
LEMMA KeptByNextBurst ==
    ASSUME IInv, NEW t \in Threads, NextBurst(t)
    PROVE  IInv'
<1>1. PICK a \in Addresses, b \in Bursts :
              /\ b = mUsedBy[call[t].memory][a]
              /\ pending'[t] = pending[t] \ {a}
              /\ call'[t].memory = call[t].memory
              /\ pc[t] = "destroy" /\ Others(t)
              /\ \/ pc'[t] = "lock" /\ call'[t].burst = b /\ ControllerAlive(b)
                 \/ pc'[t] = "destroy" /\ call' = call /\ ~ControllerAlive(b)
  BY EffectOfNextBurst
<1>2. UNCHANGED <<objectVars, clientVars, queueVars, serverVars, calls, outcome, ran, on>>
  BY Zenon DEF NextBurst
<1>3. UNCHANGED <<life, mUsedBy, mCurrentlyRunning>>
  BY <1>2 DEF objectVars
<1>4. CallInv(t)'
  <2>1. /\ outcome'[t] = "none" /\ ran'[t] = 0 /\ call'[t].memory \in Memories
        /\ life'[call'[t].memory] = "destructor"
    BY <1>1, <1>2, <1>3 DEF IInv, CallInv, Destroying
  <2>2. \A x \in pending'[t] : mUsedBy'[call'[t].memory][x] # Nobody
    <3>1. \A x \in pending[t] : mUsedBy[call[t].memory][x] # Nobody
      BY <1>1 DEF IInv, CallInv, Destroying
    <3> QED BY <1>1, <1>3, <3>1
  <2>3. CASE pc'[t] = "lock" /\ call'[t].burst = b /\ ControllerAlive(b)
    <3>1. life'[call'[t].burst] # "none"
      BY <1>3, <2>3, Created
    <3> QED BY <2>1, <2>2, <2>3, <3>1 DEF CallInv, Executing
  <2>4. CASE pc'[t] = "destroy" /\ call' = call
    <3>1. call[t].burst \in Bursts => life'[call[t].burst] # "none"
      BY <1>1, <1>3 DEF IInv, CallInv
    <3> QED BY <2>1, <2>2, <2>4, <3>1 DEF CallInv, Executing
  <2> QED BY <1>1, <2>3, <2>4
<1>5. pc[t] \notin Locking /\ pc'[t] \notin Locking /\ pc[t] \in Destroying
  BY <1>1 DEF Locking, Computing, Destroying
<1>6. Shared'
  <2>1. UNCHANGED <<clientVars, queueVars, serverVars>> /\ \A c \in Bursts : life'[c] = life[c]
    BY <1>2, <1>3
  <2> QED BY <1>1, <1>5, <2>1, PrivateStep
<1>7. mCurrentlyRunning' \in [Bursts -> BOOLEAN]
  BY <1>3 DEF IInv, TypeInv, ObjectTypes
<1> QED BY <1>1, <1>3, <1>4, <1>5, <1>6, <1>7, ThreadStep

\* A destructor ends: the memory of no other thread is touched.
LEMMA EffectOfDestroyed ==
    ASSUME IInv, NEW t \in Threads, Destroyed(t)
    PROVE  \E m \in Memories :
              /\ m = call[t].memory /\ life[m] = "destructor" /\ pending[t] = {}
              /\ pc[t] = "destroy" /\ pc'[t] = "return" /\ Others(t)
              /\ UNCHANGED <<call, pending, outcome, ran, on>>
              /\ life' = [life EXCEPT ![m] = "freed"]
              /\ mUsedBy' = [mUsedBy EXCEPT ![m] = [a \in Addresses |-> Nobody]]
              /\ \A u \in Threads : u # t /\ pc[u] \in Executing \cup Destroying =>
                    call[u].memory \in Memories /\ call[u].memory # m
<1>1. /\ pc[t] = "destroy" /\ pending[t] = {} /\ pc' = [pc EXCEPT ![t] = "return"]
      /\ life' = [life EXCEPT ![call[t].memory] = "freed"]
      /\ mUsedBy' = [mUsedBy EXCEPT ![call[t].memory] = [a \in Addresses |-> Nobody]]
      /\ UNCHANGED <<calls, call, pending, outcome, ran, on>>
  BY Zenon DEF Destroyed, Goto
<1>2. ThreadTypes
  BY DEF IInv, TypeInv
<1>3. Others(t) /\ pc'[t] = "return"
  BY <1>1, <1>2 DEF Others, ThreadTypes, Places
<1>4. call[t].memory \in Memories /\ life[call[t].memory] = "destructor"
  BY <1>1 DEF IInv, CallInv, Destroying
<1>5. ASSUME NEW u \in Threads, u # t, pc[u] \in Executing \cup Destroying
      PROVE  call[u].memory \in Memories /\ call[u].memory # call[t].memory
  <2>1. CASE pc[u] \in Executing
    BY <1>4, <2>1 DEF IInv, CallInv
  <2>2. CASE pc[u] \in Destroying
    BY <1>1, <1>5, <2>2 DEF IInv, CallInv, OneDestructor, Destroying
  <2> QED BY <1>5, <2>1, <2>2
<1> QED BY <1>1, <1>3, <1>4, <1>5

\* A memory that is freed is that of no other call.
LEMMA KeptByDestroyed ==
    ASSUME IInv, NEW t \in Threads, Destroyed(t)
    PROVE  IInv'
<1>1. PICK m \in Memories :
              /\ m = call[t].memory /\ life[m] = "destructor" /\ pending[t] = {}
              /\ pc[t] = "destroy" /\ pc'[t] = "return" /\ Others(t)
              /\ UNCHANGED <<call, pending, outcome, ran, on>>
              /\ life' = [life EXCEPT ![m] = "freed"]
              /\ mUsedBy' = [mUsedBy EXCEPT ![m] = [a \in Addresses |-> Nobody]]
              /\ \A u \in Threads : u # t /\ pc[u] \in Executing \cup Destroying =>
                    call[u].memory \in Memories /\ call[u].memory # m
  BY EffectOfDestroyed
<1>2. UNCHANGED <<mCurrentlyRunning, clientVars, queueVars, serverVars>>
  BY Zenon DEF Destroyed
<1>3. ObjectTypes
  BY DEF IInv, TypeInv
<1>4. /\ life'[m] = "freed" /\ life' \in [Memories \cup Bursts -> Lives]
      /\ \A x \in Memories \cup Bursts : x # m => life'[x] = life[x]
  BY <1>1, <1>3 DEF ObjectTypes, Lives
<1>5. /\ mUsedBy' \in [Memories -> [Addresses -> Bursts \cup {Nobody}]]
      /\ \A n \in Memories : n # m => mUsedBy'[n] = mUsedBy[n]
      /\ \A a \in Addresses : mUsedBy'[m][a] = Nobody
  BY <1>1, <1>3 DEF ObjectTypes
<1>6. ObjectTypes'
  BY <1>2, <1>3, <1>4, <1>5 DEF ObjectTypes
<1>7. \A b \in Bursts : life'[b] = life[b]
  BY <1>4, NamesAssumption
<1>8. pc[t] \notin Locking /\ pc'[t] \notin Locking
  BY <1>1 DEF Locking, Computing
<1>9. Shared'
  BY <1>1, <1>2, <1>7, <1>8, PrivateStep
<1>10. AddressInv'
  <2>1. \A n \in Memories : life'[n] \in Living => life[n] \in Living
    BY <1>1, <1>4 DEF Living
  <2>2. \A n \in Memories, a \in Addresses :
            mUsedBy'[n][a] # Nobody => mUsedBy'[n][a] = mUsedBy[n][a]
    BY <1>5
  <2> QED BY <2>1, <2>2 DEF IInv, AddressInv
<1>11. CallInv(t)'
  <2>1. ran'[t] <= 1 /\ call' = call
    BY <1>1 DEF IInv, CallInv
  <2>2. call[t].burst \in Bursts => life'[call[t].burst] # "none"
    BY <1>1, <1>7 DEF IInv, CallInv
  <2> QED BY <1>1, <2>1, <2>2 DEF CallInv, Executing, Destroying
<1>12. ASSUME NEW u \in Threads, u # t PROVE CallInv(u)'
  <2>1. CallInv(u)
    BY DEF IInv
  <2>2. /\ pc'[u] = pc[u] /\ call'[u] = call[u] /\ pending'[u] = pending[u]
        /\ outcome'[u] = outcome[u] /\ ran'[u] = ran[u]
    BY <1>1, <1>12 DEF Others
  <2>3. pc[u] \in Executing \cup Destroying =>
           /\ call[u].memory \in Memories /\ life'[call[u].memory] = life[call[u].memory]
           /\ mUsedBy'[call[u].memory] = mUsedBy[call[u].memory]
    BY <1>1, <1>4, <1>5, <1>12
  <2> QED BY <2>1, <2>2, <2>3, <1>7 DEF CallInv
<1>13. OneDestructor'
  <2>1. \A u \in Threads : pc'[u] \in Destroying => pc[u] \in Destroying /\ call'[u] = call[u]
    BY <1>1 DEF Others, Destroying
  <2> QED BY <2>1 DEF IInv, OneDestructor
<1>14. ThreadTypes' /\ \A u \in Threads : CallInv(u)'
  BY <1>1, <1>11, <1>12 DEF Others
<1> QED BY <1>6, <1>9, <1>10, <1>13, <1>14, Rest

\* The end of polling.
LEMMA KeptByStopPolling ==
    ASSUME IInv, NEW t \in Threads, StopPolling(t)
    PROVE  IInv'
<1>1. /\ pc[t] = "polling" /\ pc' = [pc EXCEPT ![t] = "waiting"]
      /\ UNCHANGED <<objectVars, clientVars, queueVars, serverVars, calls, call, pending,
                     outcome, ran, on>>
  BY Zenon DEF StopPolling, Goto
<1>2. ThreadTypes /\ CallInv(t)
  BY DEF IInv, TypeInv
<1>3. Others(t)
  BY <1>1, <1>2 DEF Others, ThreadTypes, Places
<1>4. pc'[t] = "waiting"
  BY <1>1, <1>2 DEF ThreadTypes
<1>5. UNCHANGED <<life, mUsedBy, mCurrentlyRunning>>
  BY <1>1 DEF objectVars
<1>6. CallInv(t)'
  BY <1>1, <1>2, <1>4, <1>5 DEF CallInv, Executing, Destroying
<1>7. Shared'
  <2>1. \A u \in Threads : pc[u] \in Locking \/ pc'[u] \in Locking =>
          /\ pc'[u] = pc[u] \/ (pc[u] \in Awaiting /\ pc'[u] \in Awaiting)
          /\ call'[u] = call[u] /\ ran'[u] = ran[u]
    BY <1>1, <1>3, <1>4 DEF Others, Awaiting
  <2>2. UNCHANGED <<clientVars, queueVars, serverVars>> /\ \A c \in Bursts : life'[c] = life[c]
    BY <1>1, <1>5
  <2> QED BY Zenon, <2>1, <2>2, QuietStep
<1>8. mCurrentlyRunning' \in [Bursts -> BOOLEAN]
  BY <1>5 DEF IInv, TypeInv, ObjectTypes
<1>9. pc'[t] \notin Destroying
  BY <1>4 DEF Destroying
<1> QED BY <1>3, <1>5, <1>6, <1>7, <1>8, <1>9, ThreadStep

-------------------------------------------------------------------------------
(* The steps of threads inside the controllers.                             *)

\* While a thread has the mutex of a controller, or nobody has it, no other thread is in
\* the controller.
LEMMA Alone ==
    ASSUME IInv, NEW t \in Threads, NEW b \in Bursts, mMutex[b] \in {t, Nobody}
    PROVE  \A u \in Threads : u # t /\ pc[u] \in Locking =>
              call[u].burst \in Bursts /\ call[u].burst # b
<1> SUFFICES ASSUME NEW u \in Threads, u # t, pc[u] \in Locking
             PROVE  call[u].burst \in Bursts /\ call[u].burst # b
  OBVIOUS
<1>1. call[u].burst \in Bursts
  BY DEF IInv, CallInv, Locking, Computing, Executing
<1>2. mMutex[call[u].burst] = u
  BY DEF IInv, MutexInv
<1>3. u # Nobody
  BY NamesAssumption
<1> QED BY <1>1, <1>2, <1>3

\* A controller, its queues and its server are as before.
SameAt(c) ==
    /\ mMutex'[c] = mMutex[c] /\ mMemoryIdToSlot'[c] = mMemoryIdToSlot[c]
    /\ mMemoryCache'[c] = mMemoryCache[c] /\ mFreeSlots'[c] = mFreeSlots[c]
    /\ mValid'[c] = mValid[c] /\ requests'[c] = requests[c] /\ results'[c] = results[c]
    /\ notice'[c] = notice[c] /\ worker'[c] = worker[c] /\ serverCache'[c] = serverCache[c]

\* Other controllers do not notice what a thread does in one.
LEMMA Elsewhere ==
    ASSUME IInv, NEW t \in Threads, NEW c \in Bursts, Others(t), alive' = alive, SameAt(c),
           call[t].burst # c, call'[t].burst # c
    PROVE  SlotInv(c)' /\ NoticeInv(c)' /\ QueueInv(c)' /\ CoherenceInv(c)'
<1>1. SlotInv(c) /\ NoticeInv(c) /\ QueueInv(c) /\ CoherenceInv(c)
  BY DEF IInv
<1>2. SlotInv(c)' /\ NoticeInv(c)'
  BY <1>1 DEF SlotInv, NoticeInv, Busy, SameAt
<1>3. ASSUME NEW u \in Threads, call[u].burst = c
      PROVE  u # t /\ pc'[u] = pc[u] /\ call'[u] = call[u] /\ ran'[u] = ran[u]
  BY <1>3 DEF Others
<1>4. QueueInv(c)'
  BY ZenonT(40), <1>1, <1>3 DEF QueueInv, Busy, Asks, SameAt
<1>5. CoherenceInv(c)'
  <2>1. /\ mMemoryCache'[c] = mMemoryCache[c] /\ mFreeSlots'[c] = mFreeSlots[c]
        /\ serverCache'[c] = serverCache[c]
    BY DEF SameAt
  <2> QED BY <2>1, <1>1, <1>3, CoherenceKept
<1> QED BY <1>2, <1>4, <1>5

\* A step of a thread in a controller that it has, or takes, the mutex of: what it keeps of
\* that controller it keeps of all.
LEMMA ControllerStep ==
    ASSUME IInv, NEW t \in Threads, NEW b \in Bursts, Others(t), alive' = alive, life' = life,
           call[t].burst = b, pc[t] # "idle", mMutex[b] \in {t, Nobody},
           call'[t].burst \in {b, Nobody},
           \A c \in Bursts : c # b => SameAt(c),
           pc'[t] \in Locking => call'[t].burst = b /\ mMutex'[b] = t,
           pc'[t] \in Computing => mMemoryIdToSlot'[b][key[call'[t].memory]] # 0,
           pc'[t] = "tell server" => mFreeSlots'[b] # <<>>,
           ClientTypes', QueueTypes', ServerTypes',
           SlotInv(b)', NoticeInv(b)', QueueInv(b)', CoherenceInv(b)'
    PROVE  Shared'
<1>1. \A u \in Threads : u # t =>
          /\ pc'[u] = pc[u] /\ call'[u] = call[u]
          /\ pc[u] \in Locking => call[u].burst \in Bursts /\ call[u].burst # b
  BY Alone DEF Others
<1>2. MutexInv'
  <2>1. ASSUME NEW u \in Threads, pc'[u] \in Locking PROVE mMutex'[call'[u].burst] = u
    <3>1. CASE u = t
      BY <2>1, <3>1
    <3>2. CASE u # t
      <4>1. PICK c \in Bursts : c = call[u].burst /\ c # b /\ call'[u].burst = c
        BY <1>1, <2>1, <3>2
      <4>2. mMutex'[c] = mMutex[c]
        BY <4>1 DEF SameAt
      <4>3. mMutex[c] = u
        BY <1>1, <2>1, <3>2, <4>1 DEF IInv, MutexInv
      <4> QED BY <4>1, <4>2, <4>3
    <3> QED BY <3>1, <3>2
  <2> QED BY <2>1 DEF MutexInv
<1>3. TakenInv'
  <2>1. ASSUME NEW c \in Bursts, life'[c] = "none", NEW k \in Keys
        PROVE  mMemoryIdToSlot'[c][k] = 0
    <3>1. c # b
      BY <2>1 DEF IInv, CallInv
    <3>2. mMemoryIdToSlot'[c] = mMemoryIdToSlot[c]
      BY <3>1 DEF SameAt
    <3> QED BY <2>1, <3>2 DEF IInv, TakenInv
  <2>2. ASSUME NEW u \in Threads
        PROVE  /\ pc'[u] \in Computing =>
                     mMemoryIdToSlot'[call'[u].burst][key[call'[u].memory]] # 0
               /\ pc'[u] = "tell server" => mFreeSlots'[call'[u].burst] # <<>>
    <3>1. CASE u = t
      BY <3>1 DEF Locking
    <3>2. CASE u # t
      <4>1. pc[u] \in Computing \/ pc[u] = "tell server" => pc[u] \in Locking
        BY DEF Locking
      <4>2. CASE pc'[u] \in Computing \/ pc'[u] = "tell server"
        <5>1. pc'[u] = pc[u] /\ call'[u] = call[u] /\ pc[u] \in Locking
          BY <1>1, <3>2, <4>1, <4>2
        <5>2. PICK c \in Bursts : c = call[u].burst /\ c # b
          BY <1>1, <3>2, <5>1
        <5>3. mMemoryIdToSlot'[c] = mMemoryIdToSlot[c] /\ mFreeSlots'[c] = mFreeSlots[c]
          BY <5>2 DEF SameAt
        <5> QED BY ZenonT(40), <5>1, <5>2, <5>3 DEF IInv, TakenInv
      <4> QED BY <4>2
    <3> QED BY <3>1, <3>2
  <2> QED BY <2>1, <2>2 DEF TakenInv
<1>4. ASSUME NEW c \in Bursts
      PROVE  SlotInv(c)' /\ NoticeInv(c)' /\ QueueInv(c)' /\ CoherenceInv(c)'
  <2>1. CASE c = b
    BY <2>1
  <2>2. CASE c # b
    BY <2>2, Elsewhere, NamesAssumption
  <2> QED BY <2>1, <2>2
<1> QED BY <1>2, <1>3, <1>4 DEF Shared

\* Sending: with the mutex and a valid sender, nothing else is under way.
LEMMA NothingUnderWay ==
    ASSUME IInv, NEW t \in Threads, NEW b \in Bursts, mMutex[b] = t, pc[t] \notin Awaiting,
           "sender" \in mValid[b]
    PROVE  notice[b] = "none" /\ requests[b] = <<>> /\ results[b] = <<>> /\ ~Busy(b)
<1>1. notice[b] = "none"
  BY DEF IInv, NoticeInv
<1>2. \A u \in Threads : pc[u] \in Awaiting => call[u].burst # b
  <2>1. \A u \in Threads : pc[u] \in Awaiting => pc[u] \in Locking /\ u # t
    BY DEF Awaiting, Locking, Computing
  <2> QED BY <2>1, Alone
<1>3. QueueInv(b)
  BY DEF IInv
<1> QED BY <1>1, <1>2, <1>3 DEF QueueInv, Asks

\* A request that is sent is the only one under way, and one that is not leaves the mutex.
LEMMA KeptBySend ==
    ASSUME IInv, NEW t \in Threads, Send(t)
    PROVE  IInv'
<1>0. pc[t] = "send" /\ call[t].burst \in Bursts /\ call[t].memory \in Memories
  BY Zenon DEF Send, IInv, CallInv, Executing
<1>b. PICK b \in Bursts, r \in [slot : Nat, for : Threads] :
          /\ b = call[t].burst
          /\ r = [slot |-> mMemoryIdToSlot[b][key[call[t].memory]], for |-> t]
  <2>1. key[call[t].memory] \in Keys
    BY <1>0, KeyAssumption
  <2>2. mMemoryIdToSlot[call[t].burst][key[call[t].memory]] \in Nat
    BY <1>0, <2>1 DEF IInv, TypeInv, ClientTypes
  <2> QED BY <1>0, <2>2
<1>1. /\ pc[t] = "send"
      /\ \/ /\ "sender" \in mValid[b] /\ requests' = [requests EXCEPT ![b] = Append(@, r)]
            /\ pc' = [pc EXCEPT ![t] = "polling"] /\ UNCHANGED mMutex
         \/ /\ pc' = [pc EXCEPT ![t] = "fallback"]
            /\ mMutex' = [mMutex EXCEPT ![b] = Nobody] /\ UNCHANGED requests
      /\ UNCHANGED <<objectVars, mMemoryIdToSlot, mMemoryCache, mFreeSlots, mValid, results,
                     serverVars, calls, call, pending, outcome, ran, on>>
  BY Zenon, <1>b DEF Send, Goto
<1>2. ThreadTypes /\ ClientTypes /\ QueueTypes /\ ServerTypes /\ ObjectTypes
  BY DEF IInv, TypeInv
<1>3. /\ CallInv(t) /\ b \in Bursts /\ call[t].memory \in Memories /\ mMutex[b] = t
      /\ mMemoryIdToSlot[b][key[call[t].memory]] # 0 /\ ran[t] = 0 /\ outcome[t] = "none"
  BY <1>0, <1>b DEF IInv, CallInv, MutexInv, TakenInv, Executing, Locking, Computing
<1>4. pc' \in [Threads -> Places] /\ \A u \in Threads : u # t => pc'[u] = pc[u]
  BY <1>1, <1>2 DEF ThreadTypes, Places
<1>5. Others(t)
  BY <1>1, <1>2, <1>4 DEF Others, ThreadTypes
<1>6. pc'[t] = "polling" \/ pc'[t] = "fallback"
  BY <1>1, <1>2 DEF ThreadTypes
<1>7. UNCHANGED <<life, mUsedBy, mCurrentlyRunning>>
  BY <1>1 DEF objectVars
<1>8. CallInv(t)'
  BY <1>1, <1>3, <1>b, <1>6, <1>7 DEF CallInv, Executing, Destroying
<1>9. UNCHANGED <<alive, notice, worker, serverCache>>
  BY <1>1 DEF serverVars
<1>11. SlotInv(b) /\ NoticeInv(b) /\ QueueInv(b) /\ CoherenceInv(b)
  BY <1>3 DEF IInv
<1>12. ServerTypes' /\ SlotInv(b)' /\ NoticeInv(b)'
  BY <1>1, <1>2, <1>9, <1>11 DEF ServerTypes, SlotInv, NoticeInv, Busy
<1>13. \A u \in Threads : pc[u] = "tell server" => pc'[u] = "tell server"
  BY <1>1, <1>4
<1>14. CoherenceInv(b)'
  BY <1>1, <1>9, <1>11, <1>13, CoherenceKept
<1>15. CASE /\ "sender" \in mValid[b] /\ requests' = [requests EXCEPT ![b] = Append(@, r)]
            /\ pc' = [pc EXCEPT ![t] = "polling"] /\ UNCHANGED mMutex
  <2>1. pc'[t] = "polling"
    BY <1>2, <1>15 DEF ThreadTypes
  <2>2. notice[b] = "none" /\ requests[b] = <<>> /\ results[b] = <<>> /\ ~Busy(b)
    BY <1>1, <1>3, <1>15, NothingUnderWay DEF Awaiting
  <2>3. /\ requests'[b] = <<r>> /\ \A c \in Bursts : c # b => requests'[c] = requests[c]
        /\ requests' \in [Bursts -> Seq([slot : Nat, for : Threads])]
    <3>1. requests' = [requests EXCEPT ![b] = <<r>>]
      <4>1. Append(<<>>, r) = <<r>>
        OBVIOUS
      <4> QED BY Zenon, <1>15, <2>2, <4>1
    <3>2. <<r>> \in Seq([slot : Nat, for : Threads])
      OBVIOUS
    <3> QED BY <1>2, <1>3, <3>1, <3>2 DEF QueueTypes
  <2>4. ClientTypes' /\ QueueTypes'
    BY <1>1, <1>2, <1>15, <2>3 DEF ClientTypes, QueueTypes
  <2>5. QueueInv(b)'
    <3>1. Len(requests'[b]) = 1 /\ requests'[b][1] = r /\ requests'[b] # <<>>
      BY <2>3
    <3>2. Asks(requests[b][1].for, b, requests[b][1].slot)'
      BY <1>b, <1>1, <1>3, <2>1, <3>1 DEF Asks, Awaiting
    <3>3. results'[b] = <<>> /\ ~Busy(b)'
      BY <1>1, <1>9, <2>2 DEF Busy
    <3> QED BY <3>1, <3>2, <3>3 DEF QueueInv
  <2>6. \A c \in Bursts : c # b => SameAt(c)
    BY <1>1, <1>9, <1>15, <2>3 DEF SameAt
  <2>7. Shared'
    <3>1. /\ pc'[t] \notin {"tell server", "idle"} /\ mMutex'[b] = t /\ call' = call
          /\ mMemoryIdToSlot' = mMemoryIdToSlot
      BY <1>1, <1>3, <1>15, <2>1
    <3> QED BY <1>1, <1>3, <1>5, <1>7, <1>9, <1>12, <1>14, <2>4, <2>5, <2>6, <3>1,
               <1>b, ControllerStep
  <2>8. pc'[t] \notin Destroying /\ mCurrentlyRunning' \in [Bursts -> BOOLEAN]
    BY <1>2, <1>7, <2>1 DEF Destroying, ObjectTypes
  <2> QED BY <1>5, <1>7, <1>8, <2>7, <2>8, ThreadStep
<1>16. CASE /\ pc' = [pc EXCEPT ![t] = "fallback"]
            /\ mMutex' = [mMutex EXCEPT ![b] = Nobody] /\ UNCHANGED requests
  <2>1. pc'[t] = "fallback"
    BY <1>2, <1>16 DEF ThreadTypes
  <2>2. /\ mMutex' \in [Bursts -> Threads \cup {Nobody}]
        /\ \A c \in Bursts : c # b => mMutex'[c] = mMutex[c]
    BY <1>2, <1>16 DEF ClientTypes
  <2>3. ClientTypes' /\ QueueTypes'
    BY <1>1, <1>2, <1>16, <2>2 DEF ClientTypes, QueueTypes
  <2>4. QueueInv(b)'
    <3>1. \A u \in Threads : pc[u] \in Awaiting => pc'[u] \in Awaiting
      BY <1>1, <1>4 DEF Awaiting
    <3> QED BY <1>1, <1>9, <1>11, <1>16, <3>1 DEF QueueInv, Asks, Busy
  <2>5. \A c \in Bursts : c # b => SameAt(c)
    BY <1>1, <1>9, <1>16, <2>2 DEF SameAt
  <2>6. Shared'
    <3>1. pc'[t] \notin Locking /\ pc'[t] \notin Computing /\ pc'[t] # "tell server"
      BY <2>1 DEF Locking, Computing
    <3>2. call' = call
      BY <1>1
    <3> QED BY <1>1, <1>3, <1>5, <1>7, <1>9, <1>12, <1>14, <2>3, <2>4, <2>5, <3>1, <3>2,
               <1>b, ControllerStep
  <2>7. pc'[t] \notin Destroying /\ mCurrentlyRunning' \in [Bursts -> BOOLEAN]
    BY <1>2, <1>7, <2>1 DEF Destroying, ObjectTypes
  <2> QED BY <1>5, <1>7, <1>8, <2>6, <2>7, ThreadStep
<1> QED BY <1>1, <1>15, <1>16

\* The end of compute, which leaves the controller.
LEMMA KeptByComputed ==
    ASSUME IInv, NEW t \in Threads, NEW b \in Bursts, NEW code \in Codes,
           b = call[t].burst, pc[t] \in Awaiting, Computed(t, code),
           UNCHANGED <<objectVars, mMemoryIdToSlot, mMemoryCache, mFreeSlots, mValid, requests,
                       serverVars, calls, call, pending, ran, on>>,
           QueueTypes', \A c \in Bursts : c # b => results'[c] = results[c],
           Len(results'[b]) <= Len(results[b]), Len(results'[b]) \in Nat,
           QueueInv(b)'
    PROVE  IInv'
<1>1. /\ outcome' = [outcome EXCEPT ![t] = code] /\ pc' = [pc EXCEPT ![t] = "unlock"]
      /\ mMutex' = [mMutex EXCEPT ![b] = Nobody]
  BY Zenon DEF Computed, AfterCompute, Goto
<1>2. ThreadTypes /\ ClientTypes /\ QueueTypes /\ ServerTypes /\ ObjectTypes
  BY DEF IInv, TypeInv
<1>3. /\ CallInv(t) /\ call[t].memory \in Memories /\ mMutex[b] = t
      /\ life[call[t].burst] # "none"
  <2>1. pc[t] \in Executing /\ pc[t] \in Locking /\ pc[t] # "idle"
    BY DEF Awaiting, Executing, Locking, Computing
  <2> QED BY <2>1 DEF IInv, CallInv, MutexInv
<1>4. pc' \in [Threads -> Places] /\ pc'[t] = "unlock"
      /\ \A u \in Threads : u # t => pc'[u] = pc[u]
  BY <1>1, <1>2 DEF ThreadTypes, Places
<1>5. /\ outcome' \in [Threads -> Codes]
      /\ \A u \in Threads : u # t => outcome'[u] = outcome[u]
  BY <1>1, <1>2 DEF ThreadTypes
<1>6. Others(t)
  BY <1>2, <1>4, <1>5 DEF Others, ThreadTypes
<1>7. UNCHANGED <<life, mUsedBy, mCurrentlyRunning>>
  BY DEF objectVars
<1>8. CallInv(t)'
  <2>1. /\ life'[call'[t].memory] = "alive" /\ call'[t].memory \in Memories
        /\ call'[t].burst \in Bursts /\ life'[call'[t].burst] # "none" /\ ran'[t] <= 1
    BY <1>3, <1>7 DEF CallInv, Executing, Awaiting
  <2> QED BY <1>4, <2>1 DEF CallInv, Executing, Destroying
<1>9. UNCHANGED <<alive, notice, worker, serverCache>>
  BY DEF serverVars
<1>10. SlotInv(b) /\ NoticeInv(b) /\ CoherenceInv(b)
  BY SMTT(40) DEF IInv
<1>11. ServerTypes' /\ SlotInv(b)'
  BY <1>2, <1>9, <1>10 DEF ServerTypes, SlotInv
<1>12. NoticeInv(b)'
  <2>1. Len(results[b]) \in Nat
    BY <1>2, LenProperties DEF QueueTypes
  <2> QED BY <1>9, <1>10, <2>1 DEF NoticeInv, Busy
<1>13. \A u \in Threads : pc[u] = "tell server" => pc'[u] = "tell server"
  BY <1>4 DEF Awaiting
<1>14. CoherenceInv(b)'
  BY <1>9, <1>10, <1>13, CoherenceKept
<1>15. /\ mMutex' \in [Bursts -> Threads \cup {Nobody}]
       /\ \A c \in Bursts : c # b => mMutex'[c] = mMutex[c]
  BY <1>1, <1>2 DEF ClientTypes
<1>16. ClientTypes'
  BY <1>2, <1>15 DEF ClientTypes
<1>17. \A c \in Bursts : c # b => SameAt(c)
  BY <1>9, <1>15 DEF SameAt
<1>18. Shared'
  <2>1. pc'[t] \notin Locking /\ pc'[t] \notin Computing /\ pc'[t] # "tell server"
    BY <1>4 DEF Locking, Computing
  <2>2. call' = call /\ pc[t] # "idle"
    BY DEF Awaiting
  <2> QED BY <1>3, <1>6, <1>7, <1>9, <1>11, <1>12, <1>14, <1>16, <1>17, <2>1, <2>2,
             ControllerStep
<1>19. pc'[t] \notin Destroying /\ mCurrentlyRunning' \in [Bursts -> BOOLEAN]
  BY <1>2, <1>4, <1>7 DEF Destroying, ObjectTypes
<1> QED BY <1>6, <1>7, <1>8, <1>18, <1>19, ThreadStep

\* Polling ends when the receiver has become invalid, which is after the death.
LEMMA KeptByFindInvalid ==
    ASSUME IInv, NEW t \in Threads, FindInvalid(t)
    PROVE  IInv'
<1>1. /\ pc[t] = "polling" /\ "receiver" \notin mValid[call[t].burst]
      /\ Computed(t, "OP_FAILED")
      /\ UNCHANGED <<objectVars, mMemoryIdToSlot, mMemoryCache, mFreeSlots, queueVars,
                     serverVars, calls, call, pending, ran, on>>
  BY Zenon DEF FindInvalid
<1>2. PICK b \in Bursts : b = call[t].burst
  BY <1>1 DEF IInv, CallInv, Executing
<1>3. UNCHANGED <<mValid, requests, results>>
  BY <1>1 DEF queueVars
<1>4. QueueTypes /\ QueueTypes'
  BY <1>3 DEF IInv, TypeInv, QueueTypes
<1>5. Len(results'[b]) <= Len(results[b]) /\ Len(results'[b]) \in Nat
  <2>1. results[b] \in Seq(Answers)
    BY <1>4 DEF QueueTypes
  <2>2. Len(results[b]) \in Nat
    BY <2>1, LenProperties
  <2> QED BY <1>3, <2>2
<1>6. QueueInv(b)'
  <2>1. notice[b] # "none" /\ QueueInv(b) /\ notice' = notice
    BY <1>1, <1>2 DEF IInv, NoticeInv, serverVars
  <2> QED BY <1>3, <2>1 DEF QueueInv
<1>7. pc[t] \in Awaiting /\ "OP_FAILED" \in Codes
  BY <1>1 DEF Awaiting, Codes
<1>8. UNCHANGED <<objectVars, mMemoryIdToSlot, mMemoryCache, mFreeSlots, mValid, requests,
                  serverVars, calls, call, pending, ran, on>>
  BY <1>1, <1>3
<1> QED BY <1>1, <1>2, <1>3, <1>4, <1>5, <1>6, <1>7, <1>8, KeptByComputed

\* All that the queue of results holds is taken out of it.
LEMMA KeptByReceive ==
    ASSUME IInv, NEW t \in Threads, Receive(t)
    PROVE  IInv'
<1>1. /\ pc[t] \in Awaiting /\ results[call[t].burst] # <<>>
      /\ results' = [results EXCEPT ![call[t].burst] = <<>>]
      /\ UNCHANGED <<objectVars, mMemoryIdToSlot, mMemoryCache, mFreeSlots, mValid, requests,
                     serverVars, calls, call, pending, ran, on>>
  BY Zenon DEF Receive, Awaiting
<1>2. PICK b \in Bursts : b = call[t].burst
  BY <1>1 DEF IInv, CallInv, Executing, Awaiting
<1>3. QueueTypes
  BY DEF IInv, TypeInv
<1>4. PICK code \in Codes : Computed(t, code)
  <2>1. \/ Computed(t, "OP_FAILED")
        \/ Head(results[b]) # "wake up" /\ Computed(t, Head(results[b]))
    BY Zenon, <1>2 DEF Receive
  <2>2. Head(results[b]) \in Answers
    BY <1>1, <1>2, <1>3, HeadTailProperties DEF QueueTypes
  <2>3. Head(results[b]) # "wake up" => Head(results[b]) \in Codes
    BY <2>2 DEF Codes, Answers
  <2>4. "OP_FAILED" \in Codes
    BY DEF Codes
  <2> QED BY <2>1, <2>3, <2>4
<1>5. /\ results'[b] = <<>> /\ \A c \in Bursts : c # b => results'[c] = results[c]
      /\ QueueTypes'
  <2>1. <<>> \in Seq(Answers)
    OBVIOUS
  <2> QED BY <1>1, <1>2, <1>3, <2>1 DEF QueueTypes
<1>6. Len(results'[b]) <= Len(results[b]) /\ Len(results'[b]) \in Nat
  <2>1. results[b] \in Seq(Answers)
    BY <1>3 DEF QueueTypes
  <2>2. Len(results[b]) \in Nat /\ Len(<<>>) = 0
    BY <2>1, LenProperties
  <2> QED BY <1>5, <2>2
<1>7. QueueInv(b)'
  <2>1. QueueInv(b) /\ requests' = requests /\ notice' = notice /\ worker' = worker
    BY <1>1 DEF IInv, serverVars
  <2>2. results[b] # <<>>
    BY <1>1, <1>2
  <2> QED BY <1>5, <2>1, <2>2 DEF QueueInv, Busy
<1> QED BY <1>1, <1>2, <1>4, <1>5, <1>6, <1>7, KeptByComputed

\* An entry put into a cache, where there was one or after the last.
LEMMA PutEntry ==
    ASSUME NEW S, NEW q \in Seq(S), NEW m \in S, NEW s \in 1 .. Len(q) + 1,
           NEW r, r = IF s \in DOMAIN q THEN [q EXCEPT ![s] = m] ELSE Append(q, m)
    PROVE  /\ r \in Seq(S) /\ Len(q) <= Len(r) /\ s <= Len(r) /\ r[s] = m
           /\ \A i \in 1 .. Len(q) : i # s => r[i] = q[i]
<1>1. Len(q) \in Nat /\ DOMAIN q = 1 .. Len(q)
  BY LenProperties
<1>2. CASE s \in DOMAIN q
  BY <1>1, <1>2, ExceptSeq
<1>3. CASE s \notin DOMAIN q
  <2>1. r = Append(q, m)
    BY Zenon, <1>3
  <2>2. s = Len(q) + 1
    BY <1>1, <1>3
  <2>3. /\ Append(q, m) \in Seq(S) /\ Len(Append(q, m)) = Len(q) + 1
        /\ \A i \in 1 .. Len(q) : Append(q, m)[i] = q[i]
        /\ Append(q, m)[Len(q) + 1] = m
    BY AppendProperties
  <2>4. /\ r \in Seq(S) /\ Len(r) = Len(q) + 1 /\ r[s] = m
        /\ \A i \in 1 .. Len(q) : i # s => r[i] = q[i]
    BY Zenon, <2>1, <2>2, <2>3
  <2> QED BY <1>1, <2>2, <2>4
<1> QED BY <1>2, <1>3

\* A slot put before the free ones.
LEMMA PutFree ==
    ASSUME NEW S, NEW q \in Seq(S), NEW s \in S
    PROVE  /\ <<s>> \o q \in Seq(S) /\ Len(<<s>> \o q) = Len(q) + 1 /\ <<s>> \o q # <<>>
           /\ (<<s>> \o q)[1] = s
           /\ \A i \in 1 .. Len(q) + 1 : i # 1 => i - 1 \in 1 .. Len(q)
                                                  /\ (<<s>> \o q)[i] = q[i - 1]
<1>1. <<s>> \in Seq(S) /\ Len(<<s>>) = 1 /\ Len(q) \in Nat
  BY LenProperties
<1>2. /\ <<s>> \o q \in Seq(S) /\ Len(<<s>> \o q) = Len(<<s>>) + Len(q)
      /\ \A i \in 1 .. Len(<<s>>) + Len(q) :
            (<<s>> \o q)[i] = IF i <= Len(<<s>>) THEN <<s>>[i] ELSE q[i - Len(<<s>>)]
  BY <1>1, ConcatProperties
<1>3. Len(<<s>> \o q) # 0
  BY <1>1, <1>2
<1>4. <<s>> \o q # <<>>
  BY <1>3
<1> QED BY <1>1, <1>2, <1>4

\* The slot of a new request is free or new, and everything else stays cached.
LEMMA EffectOfGetSlot ==
    ASSUME IInv, NEW b \in Bursts, NEW m \in Memories, getSlot(b, m)
    PROVE  /\ mMemoryIdToSlot' \in [Bursts -> [Keys -> Nat]]
           /\ mMemoryCache' \in [Bursts -> Seq(Memories \cup {Nobody})]
           /\ mFreeSlots' \in [Bursts -> Seq(Slots)]
           /\ \A c \in Bursts : c # b =>
                 /\ mMemoryIdToSlot'[c] = mMemoryIdToSlot[c]
                 /\ mMemoryCache'[c] = mMemoryCache[c] /\ mFreeSlots'[c] = mFreeSlots[c]
           /\ mMemoryIdToSlot'[b][key[m]] # 0
           /\ Len(mMemoryCache[b]) <= Len(mMemoryCache'[b])
           /\ \A i \in 1 .. Len(mMemoryCache[b]) : mMemoryCache[b][i] # Nobody =>
                 mMemoryCache'[b][i] = mMemoryCache[b][i]
           /\ \A k \in Keys : mMemoryIdToSlot'[b][k] # 0 =>
                 \/ /\ mMemoryIdToSlot[b][k] # 0
                    /\ mMemoryCache'[b][mMemoryIdToSlot'[b][k]]
                          = mMemoryCache[b][mMemoryIdToSlot[b][k]]
                 \/ k = key[m] /\ mMemoryCache'[b][mMemoryIdToSlot'[b][k]] = m
           /\ SlotInv(b)'
<1>1. ClientTypes /\ SlotInv(b) /\ key[m] \in Keys
  BY KeyAssumption DEF IInv, TypeInv
<1>2. /\ mMemoryCache[b] \in Seq(Memories \cup {Nobody}) /\ Len(mMemoryCache[b]) \in Nat
      /\ mFreeSlots[b] \in Seq(Slots) /\ Len(mFreeSlots[b]) \in Nat
      /\ \A k \in Keys : mMemoryIdToSlot[b][k] \in Nat
  BY <1>1, LenProperties DEF ClientTypes
<1>3. CASE mMemoryIdToSlot[b][key[m]] # 0
  <2>1. UNCHANGED <<mMemoryIdToSlot, mMemoryCache, mFreeSlots>>
    BY Zenon, <1>3 DEF getSlot
  <2>2. SlotInv(b)'
    BY <1>1, <2>1 DEF SlotInv
  <2> QED BY <1>1, <1>2, <1>3, <2>1, <2>2 DEF ClientTypes
<1>4. CASE mMemoryIdToSlot[b][key[m]] = 0
  <2>1. PICK s : s = AllocateSlot(b)
    OBVIOUS
  <2>2. /\ mMemoryIdToSlot' = [mMemoryIdToSlot EXCEPT ![b][key[m]] = s]
        /\ mMemoryCache' = [mMemoryCache EXCEPT ![b] =
               IF s \in DOMAIN @ THEN [@ EXCEPT ![s] = m] ELSE Append(@, m)]
        /\ mFreeSlots' = [mFreeSlots EXCEPT ![b] = TakeFree(@)]
    BY Zenon, <1>4, <2>1 DEF getSlot
  <2> DEFINE q == mMemoryCache[b]
             f == mFreeSlots[b]
  <2>3. /\ s \in 1 .. Len(q) + 1
        /\ \A i \in 1 .. Len(q) : i = s => q[i] = Nobody
        /\ TakeFree(f) \in Seq(Slots)
        /\ \A i \in 1 .. Len(TakeFree(f)) :
              /\ TakeFree(f)[i] \in 1 .. Len(q) /\ TakeFree(f)[i] # s
              /\ q[TakeFree(f)[i]] = Nobody
        /\ \A i, j \in 1 .. Len(TakeFree(f)) : TakeFree(f)[i] = TakeFree(f)[j] => i = j
    <3>1. CASE f = <<>>
      <4>1. s = Len(q) + 1 /\ TakeFree(f) = f /\ Len(f) = 0
        BY <2>1, <3>1 DEF AllocateSlot, TakeFree
      <4> QED BY <1>2, <4>1
    <3>2. CASE f # <<>>
      <4>1. Len(f) # 0
        BY <1>2, <3>2, EmptySeq
      <4>2. s = f[1] /\ TakeFree(f) = Tail(f)
        BY <1>2, <2>1, <3>2 DEF AllocateSlot, TakeFree
      <4>3. \A i \in 1 .. Len(f) : f[i] \in 1 .. Len(q) /\ q[f[i]] = Nobody
        <5>1. \A i \in 1 .. Len(f) : f[i] \in Slots
          BY <1>2, ElementOfSeq
        <5>2. \A i \in 1 .. Len(f) : f[i] <= Len(q) /\ q[f[i]] = Nobody
          BY <1>1 DEF SlotInv
        <5> QED BY <1>2, <5>1, <5>2 DEF Slots
      <4>4. /\ Tail(f) \in Seq(Slots) /\ Len(Tail(f)) = Len(f) - 1
            /\ \A i \in 1 .. Len(Tail(f)) : Tail(f)[i] = f[i + 1]
        BY <1>2, <3>2, HeadTailProperties
      <4>5. \A i \in 1 .. Len(Tail(f)) : i + 1 \in 1 .. Len(f) /\ i + 1 # 1
        BY <1>2, <4>4
      <4>6. \A i, j \in 1 .. Len(f) : f[i] = f[j] => i = j
        BY <1>1 DEF SlotInv
      <4>7. 1 \in 1 .. Len(f)
        BY <1>2, <4>1
      <4>8. s \in 1 .. Len(q) /\ q[s] = Nobody
        BY <4>2, <4>3, <4>7
      <4>9. \A i \in 1 .. Len(Tail(f)) :
              /\ Tail(f)[i] \in 1 .. Len(q) /\ Tail(f)[i] # s /\ q[Tail(f)[i]] = Nobody
        BY <4>2, <4>3, <4>4, <4>5, <4>6, <4>7
      <4>10. \A i, j \in 1 .. Len(Tail(f)) : Tail(f)[i] = Tail(f)[j] => i = j
        <5> SUFFICES ASSUME NEW i \in 1 .. Len(Tail(f)), NEW j \in 1 .. Len(Tail(f)),
                            Tail(f)[i] = Tail(f)[j]
                     PROVE  i = j
          OBVIOUS
        <5>1. i + 1 = j + 1
          BY <4>4, <4>5, <4>6
        <5> QED BY <5>1
      <4>11. s \in 1 .. Len(q) + 1
        BY <1>2, <4>8
      <4> QED BY <4>2, <4>4, <4>8, <4>9, <4>10, <4>11
    <3> QED BY <3>1, <3>2
  <2>4. PICK r : r = IF s \in DOMAIN q THEN [q EXCEPT ![s] = m] ELSE Append(q, m)
    OBVIOUS
  <2>5. /\ r \in Seq(Memories \cup {Nobody}) /\ Len(q) <= Len(r) /\ s <= Len(r) /\ r[s] = m
        /\ \A i \in 1 .. Len(q) : i # s => r[i] = q[i]
    <3>1. m \in Memories \cup {Nobody} /\ q \in Seq(Memories \cup {Nobody})
          /\ s \in 1 .. Len(q) + 1
      BY <1>2, <2>3
    <3> HIDE DEF q
    <3> QED BY <2>4, <3>1, PutEntry
  <2>6. PICK g : g = TakeFree(f)
    OBVIOUS
  <2>7. /\ mMemoryCache'[b] = r /\ mMemoryCache' \in [Bursts -> Seq(Memories \cup {Nobody})]
        /\ mFreeSlots'[b] = g /\ mFreeSlots' \in [Bursts -> Seq(Slots)]
        /\ \A c \in Bursts : c # b => /\ mMemoryCache'[c] = mMemoryCache[c]
                                      /\ mFreeSlots'[c] = mFreeSlots[c]
    <3>1. mMemoryCache' = [mMemoryCache EXCEPT ![b] = r]
      BY Zenon, <2>2, <2>4
    <3>2. mFreeSlots' = [mFreeSlots EXCEPT ![b] = g]
      BY Zenon, <2>2, <2>6
    <3>3. g \in Seq(Slots)
      BY <2>3, <2>6
    <3> QED BY <1>1, <2>5, <3>1, <3>2, <3>3 DEF ClientTypes
  <2>8. s \in Nat /\ s # 0
    BY <1>2, <2>3
  <2>9. /\ mMemoryIdToSlot' \in [Bursts -> [Keys -> Nat]]
        /\ mMemoryIdToSlot'[b][key[m]] = s
        /\ \A k \in Keys : k # key[m] => mMemoryIdToSlot'[b][k] = mMemoryIdToSlot[b][k]
        /\ \A c \in Bursts : c # b => mMemoryIdToSlot'[c] = mMemoryIdToSlot[c]
    BY <1>1, <2>2, <2>8 DEF ClientTypes
  <2>10. ASSUME NEW k \in Keys, k # key[m], mMemoryIdToSlot[b][k] # 0
         PROVE  /\ mMemoryIdToSlot[b][k] <= Len(r)
                /\ r[mMemoryIdToSlot[b][k]] = q[mMemoryIdToSlot[b][k]]
                /\ q[mMemoryIdToSlot[b][k]] \in Memories
                /\ key[q[mMemoryIdToSlot[b][k]]] = k
    <3>1. /\ mMemoryIdToSlot[b][k] \in 1 .. Len(q) /\ q[mMemoryIdToSlot[b][k]] \in Memories
          /\ key[q[mMemoryIdToSlot[b][k]]] = k
      BY <1>1, <1>2, <2>10 DEF SlotInv
    <3>2. mMemoryIdToSlot[b][k] # s
      BY <2>3, <3>1, NamesAssumption
    <3>3. r[mMemoryIdToSlot[b][k]] = q[mMemoryIdToSlot[b][k]]
      BY <2>5, <3>1, <3>2
    <3>4. Len(r) \in Nat
      BY <2>5, LenProperties
    <3> QED BY <1>2, <2>5, <3>1, <3>3, <3>4
  <2>11. ASSUME NEW i \in 1 .. Len(g)
         PROVE  g[i] <= Len(r) /\ r[g[i]] = Nobody
    <3>1. Len(r) \in Nat
      BY <2>5, LenProperties
    <3> QED BY SMTT(40), <1>2, <2>3, <2>5, <2>6, <3>1
  <2>12. SlotInv(b)'
    <3>1. \A k \in Keys : mMemoryIdToSlot'[b][k] # 0 =>
            /\ mMemoryIdToSlot'[b][k] <= Len(r) /\ r[mMemoryIdToSlot'[b][k]] \in Memories
            /\ key[r[mMemoryIdToSlot'[b][k]]] = k
      BY <2>5, <2>9, <2>10
    <3>2. \A i, j \in 1 .. Len(g) : g[i] = g[j] => i = j
      BY <2>3, <2>6
    <3> QED BY <2>7, <2>11, <3>1, <3>2 DEF SlotInv
  <2>13. \A i \in 1 .. Len(q) : q[i] # Nobody => r[i] = q[i]
    BY <2>3, <2>5
  <2>14. \A k \in Keys : mMemoryIdToSlot'[b][k] # 0 =>
            \/ mMemoryIdToSlot[b][k] # 0 /\ r[mMemoryIdToSlot'[b][k]] = q[mMemoryIdToSlot[b][k]]
            \/ k = key[m] /\ r[mMemoryIdToSlot'[b][k]] = m
    BY <2>5, <2>9, <2>10
  <2> QED BY <2>5, <2>7, <2>8, <2>9, <2>12, <2>13, <2>14
<1> QED BY <1>2, <1>3, <1>4

\* As long as nobody awaits a result from a controller, its queues stay empty or dead.
LEMMA QueueKept ==
    ASSUME IInv, NEW t \in Threads, NEW b \in Bursts, mMutex[b] \in {t, Nobody},
           pc[t] \notin Awaiting, notice'[b] = notice[b], requests'[b] = requests[b],
           results'[b] = results[b], worker'[b] = worker[b]
    PROVE  QueueInv(b)'
<1>1. \A u \in Threads : pc[u] \in Awaiting => call[u].burst # b
  <2>1. \A u \in Threads : pc[u] \in Awaiting => pc[u] \in Locking /\ u # t
    BY DEF Awaiting, Locking, Computing
  <2> QED BY <2>1, Alone
<1>2. QueueInv(b)
  BY DEF IInv
<1>3. notice[b] = "none" => requests[b] = <<>> /\ results[b] = <<>> /\ ~Busy(b)
  BY <1>1, <1>2 DEF QueueInv, Asks
<1> QED BY <1>2, <1>3 DEF QueueInv, Busy

\* Computing begins with the mutex of the controller and a slot for the memory.
LEMMA EffectOfCompute ==
    ASSUME IInv, NEW t \in Threads, Compute(t)
    PROVE  \E b \in Bursts, m \in Memories :
              /\ call[t].burst = b /\ call[t].memory = m /\ life[m] = "alive"
              /\ life[b] # "none" /\ pc[t] = "compute" /\ pc'[t] = "send" /\ Others(t)
              /\ mMutex[b] = Nobody /\ mMutex' = [mMutex EXCEPT ![b] = t]
              /\ getSlot(b, m)
<1>1. /\ pc[t] = "compute" /\ mMutex[call[t].burst] = Nobody
      /\ mMutex' = [mMutex EXCEPT ![call[t].burst] = t]
      /\ getSlot(call[t].burst, call[t].memory)
      /\ pc' = [pc EXCEPT ![t] = "send"]
      /\ UNCHANGED <<calls, call, pending, outcome, ran, on>>
  BY Zenon DEF Compute, Goto
<1>2. ThreadTypes
  BY DEF IInv, TypeInv
<1>3. /\ call[t].burst \in Bursts /\ call[t].memory \in Memories
      /\ life[call[t].memory] = "alive" /\ life[call[t].burst] # "none"
  BY <1>1 DEF IInv, CallInv, Executing
<1>4. pc'[t] = "send" /\ Others(t)
  BY <1>1, <1>2 DEF Others, ThreadTypes, Places
<1> QED BY <1>1, <1>3, <1>4

\* The slot that a request takes was free, and the server had nothing in it.
LEMMA KeptByCompute ==
    ASSUME IInv, NEW t \in Threads, Compute(t)
    PROVE  IInv'
<1>1. PICK b \in Bursts, m \in Memories :
              /\ call[t].burst = b /\ call[t].memory = m /\ life[m] = "alive"
              /\ life[b] # "none" /\ pc[t] = "compute" /\ pc'[t] = "send" /\ Others(t)
              /\ mMutex[b] = Nobody /\ mMutex' = [mMutex EXCEPT ![b] = t]
              /\ getSlot(b, m)
  BY EffectOfCompute
<1>2. UNCHANGED <<objectVars, queueVars, serverVars, calls, call, pending, outcome, ran, on>>
  BY Zenon DEF Compute
<1>3. /\ UNCHANGED <<life, mUsedBy, mCurrentlyRunning>>
      /\ UNCHANGED <<mValid, requests, results>>
      /\ UNCHANGED <<alive, notice, worker, serverCache>>
  BY <1>2 DEF objectVars, queueVars, serverVars
<1>4. ClientTypes /\ QueueTypes /\ ServerTypes /\ ObjectTypes
  BY DEF IInv, TypeInv
<1>5. /\ mMutex' \in [Bursts -> Threads \cup {Nobody}] /\ mMutex'[b] = t
      /\ \A c \in Bursts : c # b => mMutex'[c] = mMutex[c]
  BY <1>1, <1>4 DEF ClientTypes
<1>6. ClientTypes' /\ QueueTypes' /\ ServerTypes'
  BY <1>1, <1>3, <1>4, <1>5, EffectOfGetSlot DEF ClientTypes, QueueTypes, ServerTypes
<1>7. \A c \in Bursts : c # b => SameAt(c)
  BY <1>1, <1>3, <1>5, EffectOfGetSlot DEF SameAt
<1>8. SlotInv(b)' /\ mMemoryIdToSlot'[b][key[m]] # 0
  BY <1>1, EffectOfGetSlot
<1>9. NoticeInv(b)'
  BY <1>3 DEF IInv, NoticeInv, Busy
<1>10. QueueInv(b)'
  BY <1>1, <1>3, QueueKept DEF Awaiting
<1>11. CoherenceInv(b)'
  <2>1. /\ Len(mMemoryCache[b]) <= Len(mMemoryCache'[b])
        /\ \A i \in 1 .. Len(mMemoryCache[b]) : mMemoryCache[b][i] # Nobody =>
              mMemoryCache'[b][i] = mMemoryCache[b][i]
        /\ Len(mMemoryCache[b]) \in Nat /\ Len(mMemoryCache'[b]) \in Nat
    BY <1>1, <1>4, <1>6, EffectOfGetSlot, LenProperties DEF ClientTypes
  <2>2. \A u \in Threads : pc[u] = "tell server" => call[u].burst # b
    <3>1. \A u \in Threads : pc[u] = "tell server" => pc[u] \in Locking /\ u # t
      BY <1>1 DEF Locking
    <3> QED BY <1>1, <3>1, Alone
  <2>3. \A s \in DOMAIN serverCache[b] :
          /\ s \in 1 .. Len(mMemoryCache[b]) /\ serverCache[b][s] # Nobody
          /\ serverCache[b][s] = mMemoryCache[b][s]
    <3>1. CoherenceInv(b)
      BY DEF IInv
    <3> QED BY <2>2, <3>1 DEF CoherenceInv
  <2>4. \A s \in DOMAIN serverCache[b] :
          /\ s \in 1 .. Len(mMemoryCache'[b]) /\ serverCache[b][s] # Nobody
          /\ serverCache[b][s] = mMemoryCache'[b][s]
    BY <2>1, <2>3
  <2>5. serverCache' = serverCache
    BY <1>3
  <2> QED BY Zenon, <2>4, <2>5 DEF CoherenceInv
<1>12. call' = call
  BY <1>2
<1>13. Shared'
  <2>1. pc[t] # "idle" /\ pc'[t] # "tell server"
    BY <1>1
  <2> QED BY <1>1, <1>3, <1>5, <1>6, <1>7, <1>8, <1>9, <1>10, <1>11, <1>12, <2>1,
             ControllerStep
<1>14. CallInv(t)'
  <2>1. outcome'[t] = "none" /\ ran'[t] = 0
    BY <1>1, <1>2 DEF IInv, CallInv
  <2> QED BY <1>1, <1>3, <1>12, <2>1 DEF CallInv, Executing, Destroying
<1>15. pc'[t] \notin Destroying /\ mCurrentlyRunning' \in [Bursts -> BOOLEAN]
  BY <1>1, <1>3, <1>4 DEF Destroying, ObjectTypes
<1> QED BY <1>1, <1>3, <1>13, <1>14, <1>15, ThreadStep

\* The client's part of a destructor frees the slot, if the burst has the memory cached.
LEMMA EffectOfFreeMemoryInBurst ==
    ASSUME IInv, NEW t \in Threads, freeMemory(t)
    PROVE  \E b \in Bursts, m \in Memories, s \in Nat :
              /\ call[t].burst = b /\ call[t].memory = m /\ life[b] # "none"
              /\ s = mMemoryIdToSlot[b][key[m]] /\ pc[t] = "lock" /\ mMutex[b] = Nobody
              /\ Others(t) /\ call'[t].memory = m
              /\ \/ /\ s = 0 /\ pc'[t] = "destroy" /\ call'[t].burst = Nobody
                    /\ UNCHANGED clientVars
                 \/ /\ s # 0 /\ pc'[t] = "tell server" /\ call' = call
                    /\ mMutex' = [mMutex EXCEPT ![b] = t]
                    /\ mMemoryIdToSlot' = [mMemoryIdToSlot EXCEPT ![b][key[m]] = 0]
                    /\ mMemoryCache' = [mMemoryCache EXCEPT ![b][s] = Nobody]
                    /\ mFreeSlots' = [mFreeSlots EXCEPT ![b] = <<s>> \o @]
<1>1. /\ pc[t] = "lock" /\ mMutex[call[t].burst] = Nobody
      /\ UNCHANGED <<calls, pending, outcome, ran, on>>
  BY Zenon DEF freeMemory
<1>2. ThreadTypes /\ ClientTypes
  BY DEF IInv, TypeInv
<1>3. /\ call[t].burst \in Bursts /\ call[t].memory \in Memories
      /\ life[call[t].burst] # "none"
  BY <1>1 DEF IInv, CallInv, Destroying
<1>4. PICK b \in Bursts, m \in Memories : b = call[t].burst /\ m = call[t].memory
  BY <1>3
<1>5. PICK s \in Nat : s = mMemoryIdToSlot[b][key[m]]
  BY <1>2, KeyAssumption DEF ClientTypes
<1>6. CASE s = 0
  <2>1. /\ pc' = [pc EXCEPT ![t] = "destroy"] /\ call' = [call EXCEPT ![t].burst = Nobody]
        /\ UNCHANGED clientVars
    BY Zenon, <1>4, <1>5, <1>6 DEF freeMemory, Goto
  <2>2. /\ pc' \in [Threads -> Places] /\ pc'[t] = "destroy"
        /\ \A u \in Threads : u # t => pc'[u] = pc[u]
    BY <1>2, <2>1 DEF ThreadTypes, Places
  <2>3. /\ call' \in [Threads -> [burst : Bursts \cup {Nobody}, memory : Memories \cup {Nobody}]]
        /\ call'[t].burst = Nobody /\ call'[t].memory = call[t].memory
        /\ \A u \in Threads : u # t => call'[u] = call[u]
    BY <1>2, <2>1 DEF ThreadTypes
  <2>4. Others(t)
    BY <1>1, <1>2, <2>2, <2>3 DEF Others, ThreadTypes
  <2>5. call'[t].burst = Nobody /\ call'[t].memory = m /\ pc'[t] = "destroy"
    BY <1>4, <2>2, <2>3
  <2>6. /\ call[t].burst = b /\ call[t].memory = m /\ life[b] # "none"
        /\ pc[t] = "lock" /\ mMutex[b] = Nobody
    BY SMTT(40), <1>1, <1>3, <1>4
  <2> QED BY <1>5, <1>6, <2>1, <2>4, <2>5, <2>6
<1>7. CASE s # 0
  <2>1. /\ pc' = [pc EXCEPT ![t] = "tell server"] /\ UNCHANGED call
        /\ mMutex' = [mMutex EXCEPT ![b] = t]
        /\ mMemoryIdToSlot' = [mMemoryIdToSlot EXCEPT ![b][key[m]] = 0]
        /\ mMemoryCache' = [mMemoryCache EXCEPT ![b][s] = Nobody]
        /\ mFreeSlots' = [mFreeSlots EXCEPT ![b] = <<s>> \o @]
    BY Zenon, <1>4, <1>5, <1>7 DEF freeMemory, Goto
  <2>2. pc'[t] = "tell server" /\ Others(t)
    BY <1>1, <1>2, <2>1 DEF Others, ThreadTypes, Places
  <2> QED BY <1>1, <1>3, <1>4, <1>5, <1>7, <2>1, <2>2
<1> QED BY <1>6, <1>7

\* The slot that is freed is the first free one, which the server is to be told of.
LEMMA KeptByFreeMemoryInBurst ==
    ASSUME IInv, NEW t \in Threads, freeMemory(t)
    PROVE  IInv'
<1>1. PICK b \in Bursts, m \in Memories, s \in Nat :
              /\ call[t].burst = b /\ call[t].memory = m /\ life[b] # "none"
              /\ s = mMemoryIdToSlot[b][key[m]] /\ pc[t] = "lock" /\ mMutex[b] = Nobody
              /\ Others(t) /\ call'[t].memory = m
              /\ \/ /\ s = 0 /\ pc'[t] = "destroy" /\ call'[t].burst = Nobody
                    /\ UNCHANGED clientVars
                 \/ /\ s # 0 /\ pc'[t] = "tell server" /\ call' = call
                    /\ mMutex' = [mMutex EXCEPT ![b] = t]
                    /\ mMemoryIdToSlot' = [mMemoryIdToSlot EXCEPT ![b][key[m]] = 0]
                    /\ mMemoryCache' = [mMemoryCache EXCEPT ![b][s] = Nobody]
                    /\ mFreeSlots' = [mFreeSlots EXCEPT ![b] = <<s>> \o @]
  BY EffectOfFreeMemoryInBurst
<1>2. UNCHANGED <<objectVars, queueVars, serverVars, calls, pending, outcome, ran, on>>
  BY Zenon DEF freeMemory
<1>3. /\ UNCHANGED <<life, mUsedBy, mCurrentlyRunning>>
      /\ UNCHANGED <<mValid, requests, results>>
      /\ UNCHANGED <<alive, notice, worker, serverCache>>
  BY <1>2 DEF objectVars, queueVars, serverVars
<1>4. ClientTypes /\ QueueTypes /\ ServerTypes /\ ObjectTypes /\ SlotInv(b) /\ CoherenceInv(b)
  BY DEF IInv, TypeInv
<1>11. /\ call[t].burst = b /\ call[t].memory = m /\ pc[t] = "lock" /\ mMutex[b] = Nobody
      /\ mMutex[b] \in {t, Nobody}
  BY <1>1
<1>12. UNCHANGED <<pending, outcome, ran>>
  BY <1>2
<1>5. /\ life[m] = "destructor" /\ outcome'[t] = "none" /\ ran'[t] = 0
      /\ \A a \in pending[t] : mUsedBy[m][a] # Nobody
  <2>1. CallInv(t) /\ pc[t] \in Destroying
    BY <1>11 DEF IInv, Destroying
  <2> QED BY <1>11, <1>12, <2>1 DEF CallInv
<1>6. pc[t] \in Destroying /\ pc[t] # "idle" /\ pc[t] \notin Awaiting /\ pc[t] \notin Locking
  BY <1>1 DEF Destroying, Awaiting, Locking, Computing
<1>7. mCurrentlyRunning' \in [Bursts -> BOOLEAN]
  BY <1>3, <1>4 DEF ObjectTypes
<1>8. CallInv(t)'
  <2>1. /\ life'[call'[t].memory] = "destructor" /\ call'[t].memory \in Memories
        /\ \A a \in pending'[t] : mUsedBy'[call'[t].memory][a] # Nobody
    BY <1>1, <1>2, <1>3, <1>5
  <2>2. /\ pc'[t] = "tell server" => call'[t].burst \in Bursts
        /\ call'[t].burst \in Bursts => life'[call'[t].burst] # "none"
        /\ pc'[t] \in {"destroy", "tell server"}
    BY <1>1, <1>3, NamesAssumption
  <2>3. pc'[t] \notin Executing
    BY <2>2 DEF Executing
  <2>4. 0 <= 1
    OBVIOUS
  <2> QED BY <1>5, <2>1, <2>2, <2>3, <2>4 DEF CallInv
<1>9. CASE s = 0 /\ pc'[t] = "destroy" /\ call'[t].burst = Nobody /\ UNCHANGED clientVars
  <2>1. pc'[t] \notin Locking
    BY <1>9 DEF Locking, Computing
  <2>2. UNCHANGED <<clientVars, queueVars, serverVars>> /\ \A c \in Bursts : life'[c] = life[c]
    BY <1>2, <1>3, <1>9
  <2>3. Shared'
    BY <1>1, <1>6, <2>1, <2>2, PrivateStep
  <2> QED BY <1>1, <1>3, <1>6, <1>7, <1>8, <2>3, ThreadStep
<1>10. CASE /\ s # 0 /\ pc'[t] = "tell server" /\ call' = call
            /\ mMutex' = [mMutex EXCEPT ![b] = t]
            /\ mMemoryIdToSlot' = [mMemoryIdToSlot EXCEPT ![b][key[m]] = 0]
            /\ mMemoryCache' = [mMemoryCache EXCEPT ![b][s] = Nobody]
            /\ mFreeSlots' = [mFreeSlots EXCEPT ![b] = <<s>> \o @]
  <2> DEFINE q == mMemoryCache[b]
             f == mFreeSlots[b]
  <2>1. /\ q \in Seq(Memories \cup {Nobody}) /\ Len(q) \in Nat
        /\ f \in Seq(Slots) /\ Len(f) \in Nat /\ key[m] \in Keys
        /\ s \in 1 .. Len(q) /\ s \in Slots /\ q[s] \in Memories /\ key[q[s]] = key[m]
        /\ \A k \in Keys : mMemoryIdToSlot[b][k] \in Nat
    <3>1. q \in Seq(Memories \cup {Nobody}) /\ f \in Seq(Slots) /\ key[m] \in Keys
      BY <1>4, KeyAssumption DEF ClientTypes
    <3>2. Len(q) \in Nat /\ Len(f) \in Nat
      BY <3>1, LenProperties
    <3>3. s <= Len(q) /\ q[s] \in Memories /\ key[q[s]] = key[m]
      BY <1>1, <1>4, <1>10, <3>1 DEF SlotInv
    <3>4. \A k \in Keys : mMemoryIdToSlot[b][k] \in Nat
      BY <1>4 DEF ClientTypes
    <3>5. s # 0
      BY Zenon, <1>10
    <3>6. s \in 1 .. Len(q) /\ s \in Slots
      BY <3>2, <3>3, <3>5 DEF Slots
    <3> QED BY <3>1, <3>2, <3>3, <3>4, <3>6
  <2>2. PICK r : r = [q EXCEPT ![s] = Nobody]
    OBVIOUS
  <2>3. /\ r \in Seq(Memories \cup {Nobody}) /\ Len(r) = Len(q) /\ r[s] = Nobody
        /\ \A i \in 1 .. Len(q) : i # s => r[i] = q[i]
    <3>1. Nobody \in Memories \cup {Nobody}
      OBVIOUS
    <3> QED BY <2>1, <2>2, <3>1, ExceptSeq
  <2>4. PICK g : g = <<s>> \o f
    OBVIOUS
  <2>5. /\ g \in Seq(Slots) /\ Len(g) = Len(f) + 1 /\ g # <<>> /\ g[1] = s
        /\ \A i \in 1 .. Len(f) + 1 : i # 1 => i - 1 \in 1 .. Len(f) /\ g[i] = f[i - 1]
    BY <2>1, <2>4, PutFree
  <2>6. /\ mMemoryCache'[b] = r /\ mMemoryCache' \in [Bursts -> Seq(Memories \cup {Nobody})]
        /\ mFreeSlots'[b] = g /\ mFreeSlots' \in [Bursts -> Seq(Slots)]
        /\ \A c \in Bursts : c # b => /\ mMemoryCache'[c] = mMemoryCache[c]
                                      /\ mFreeSlots'[c] = mFreeSlots[c]
    <3>1. mMemoryCache' = [mMemoryCache EXCEPT ![b] = r]
      BY Zenon, <1>10, <2>2
    <3>2. mFreeSlots' = [mFreeSlots EXCEPT ![b] = g]
      BY Zenon, <1>10, <2>4
    <3> QED BY <1>4, <2>3, <2>5, <3>1, <3>2 DEF ClientTypes
  <2>7. /\ mMemoryIdToSlot' \in [Bursts -> [Keys -> Nat]]
        /\ mMemoryIdToSlot'[b][key[m]] = 0
        /\ \A k \in Keys : k # key[m] => mMemoryIdToSlot'[b][k] = mMemoryIdToSlot[b][k]
        /\ \A c \in Bursts : c # b => mMemoryIdToSlot'[c] = mMemoryIdToSlot[c]
    <3>1. 0 \in Nat
      OBVIOUS
    <3> QED BY <1>4, <1>10, <2>1, <3>1 DEF ClientTypes
  <2>8. /\ mMutex' \in [Bursts -> Threads \cup {Nobody}] /\ mMutex'[b] = t
        /\ \A c \in Bursts : c # b => mMutex'[c] = mMutex[c]
    BY <1>4, <1>10 DEF ClientTypes
  <2>9. ClientTypes' /\ QueueTypes' /\ ServerTypes'
    BY <1>3, <1>4, <2>6, <2>7, <2>8 DEF ClientTypes, QueueTypes, ServerTypes
  <2>10. \A c \in Bursts : c # b => SameAt(c)
    BY <1>3, <2>6, <2>7, <2>8 DEF SameAt
  <2>11. SlotInv(b)'
    <3>1. ASSUME NEW k \in Keys, mMemoryIdToSlot'[b][k] # 0
          PROVE  /\ mMemoryIdToSlot'[b][k] <= Len(r) /\ r[mMemoryIdToSlot'[b][k]] \in Memories
                 /\ key[r[mMemoryIdToSlot'[b][k]]] = k
      <4>1. k # key[m] /\ mMemoryIdToSlot'[b][k] = mMemoryIdToSlot[b][k]
        BY <2>7, <3>1
      <4>2. /\ mMemoryIdToSlot[b][k] \in 1 .. Len(q) /\ q[mMemoryIdToSlot[b][k]] \in Memories
            /\ key[q[mMemoryIdToSlot[b][k]]] = k
        BY <1>4, <2>1, <3>1, <4>1 DEF SlotInv
      <4>3. mMemoryIdToSlot[b][k] # s
        BY <2>1, <4>1, <4>2
      <4> QED BY <2>1, <2>3, <4>1, <4>2, <4>3
    <3>2. \A i \in 1 .. Len(f) : f[i] <= Len(q) /\ q[f[i]] = Nobody
      BY <1>4 DEF SlotInv
    <3>3. \A i \in 1 .. Len(f) : f[i] \in 1 .. Len(q) /\ f[i] # s
      <4>1. \A i \in 1 .. Len(f) : f[i] \in Slots
        BY <2>1, ElementOfSeq
      <4>2. \A i \in 1 .. Len(f) : f[i] # s
        BY <2>1, <3>2, NamesAssumption
      <4> QED BY SMTT(40), <2>1, <3>2, <4>1, <4>2 DEF Slots
    <3>4. ASSUME NEW i \in 1 .. Len(g) PROVE g[i] <= Len(r) /\ r[g[i]] = Nobody
      <4>1. CASE i = 1
        BY <2>1, <2>3, <2>5, <4>1
      <4>2. CASE i # 1
        <5>1. i - 1 \in 1 .. Len(f) /\ g[i] = f[i - 1]
          BY <2>1, <2>5, <4>2
        <5> QED BY <2>1, <2>3, <3>2, <3>3, <5>1
      <4> QED BY <4>1, <4>2
    <3>5. ASSUME NEW i \in 1 .. Len(g), NEW j \in 1 .. Len(g), g[i] = g[j] PROVE i = j
      <4>1. i = 1 \/ (i - 1 \in 1 .. Len(f) /\ g[i] = f[i - 1])
        BY <2>1, <2>5
      <4>2. j = 1 \/ (j - 1 \in 1 .. Len(f) /\ g[j] = f[j - 1])
        BY <2>1, <2>5
      <4>3. i = 1 <=> j = 1
        BY <2>5, <3>3, <3>5, <4>1, <4>2
      <4>4. CASE i # 1
        <5>1. i - 1 = j - 1
          BY <1>4, <3>5, <4>1, <4>2, <4>3, <4>4 DEF SlotInv
        <5> QED BY <2>1, <2>5, <5>1
      <4> QED BY <4>3, <4>4
    <3> QED BY <2>6, <3>1, <3>4, <3>5 DEF SlotInv
  <2>12. NoticeInv(b)'
    BY <1>3 DEF IInv, NoticeInv, Busy
  <2>13. QueueInv(b)'
    BY <1>1, <1>3, <1>6, QueueKept
  <2>14. CoherenceInv(b)'
    <3>1. \A u \in Threads : pc[u] = "tell server" => call[u].burst # b
      <4>1. \A u \in Threads : pc[u] = "tell server" => pc[u] \in Locking /\ u # t
        BY <1>11 DEF Locking
      <4> QED BY <1>11, <4>1, Alone
    <3>2. \A x \in DOMAIN serverCache[b] :
            /\ x \in 1 .. Len(q) /\ serverCache[b][x] # Nobody /\ serverCache[b][x] = q[x]
      BY <1>4, <3>1 DEF CoherenceInv
    <3>3. \A x \in DOMAIN serverCache[b] :
            /\ x \in 1 .. Len(r) /\ serverCache[b][x] # Nobody
            /\ serverCache[b][x] = r[x] \/ x = g[1]
      BY <2>3, <2>5, <3>2
    <3>4. /\ serverCache' = serverCache /\ pc'[t] = "tell server" /\ call'[t].burst = b
          /\ mMemoryCache'[b] = r /\ mFreeSlots'[b] = g
      BY <1>1, <1>3, <1>10, <2>6
    <3> QED BY Zenon, <3>3, <3>4 DEF CoherenceInv
  <2>15. Shared'
    <3>1. pc'[t] \notin Computing /\ call'[t].burst = b
      BY <1>1, <1>10 DEF Computing
    <3> QED BY <1>1, <1>3, <1>6, <2>5, <2>6, <2>8, <2>9, <2>10, <2>11, <2>12, <2>13, <2>14,
               <3>1, ControllerStep
  <2> QED BY <1>1, <1>3, <1>6, <1>7, <1>8, <2>15, ThreadStep
<1> QED BY <1>1, <1>9, <1>10

\* The server's part of a destructor.
LEMMA EffectOfTellServer ==
    ASSUME IInv, NEW t \in Threads, TellServer(t)
    PROVE  \E b \in Bursts, m \in Memories :
              /\ call[t].burst = b /\ call[t].memory = m /\ mMutex[b] = t
              /\ pc[t] = "tell server" /\ pc'[t] = "destroy"
              /\ Others(t) /\ call'[t].memory = m /\ call'[t].burst = Nobody
              /\ mMutex' = [mMutex EXCEPT ![b] = Nobody]
              /\ serverCache' = IF alive
                                THEN [serverCache EXCEPT ![b] =
                                         [x \in DOMAIN @ \ {mFreeSlots[b][1]} |-> @[x]]]
                                ELSE serverCache
<1>1. /\ pc[t] = "tell server"
      /\ serverCache' = IF alive
                        THEN removeCacheEntry(call[t].burst, Head(mFreeSlots[call[t].burst]))
                        ELSE serverCache
      /\ mMutex' = [mMutex EXCEPT ![call[t].burst] = Nobody]
      /\ call' = [call EXCEPT ![t].burst = Nobody] /\ pc' = [pc EXCEPT ![t] = "destroy"]
      /\ UNCHANGED <<calls, pending, outcome, ran, on>>
  BY Zenon DEF TellServer, Goto
<1>2. ThreadTypes /\ ClientTypes
  BY DEF IInv, TypeInv
<1>3. /\ call[t].burst \in Bursts /\ call[t].memory \in Memories
      /\ mMutex[call[t].burst] = t /\ mFreeSlots[call[t].burst] # <<>>
  BY <1>1 DEF IInv, CallInv, Destroying, MutexInv, Locking, TakenInv
<1>4. PICK b \in Bursts, m \in Memories : b = call[t].burst /\ m = call[t].memory
  BY <1>3
<1>5. Head(mFreeSlots[b]) = mFreeSlots[b][1]
  BY <1>2, <1>3, <1>4 DEF ClientTypes
<1>6. serverCache' = IF alive
                     THEN [serverCache EXCEPT ![b] =
                              [x \in DOMAIN @ \ {mFreeSlots[b][1]} |-> @[x]]]
                     ELSE serverCache
  BY Zenon, <1>1, <1>4, <1>5 DEF removeCacheEntry
<1>7. /\ pc' \in [Threads -> Places] /\ pc'[t] = "destroy"
      /\ \A u \in Threads : u # t => pc'[u] = pc[u]
  BY <1>1, <1>2 DEF ThreadTypes, Places
<1>8. /\ call' \in [Threads -> [burst : Bursts \cup {Nobody}, memory : Memories \cup {Nobody}]]
      /\ call'[t].burst = Nobody /\ call'[t].memory = call[t].memory
      /\ \A u \in Threads : u # t => call'[u] = call[u]
  BY <1>1, <1>2 DEF ThreadTypes
<1>9. Others(t)
  BY <1>1, <1>2, <1>7, <1>8 DEF Others, ThreadTypes
<1>10. /\ call[t].burst = b /\ call[t].memory = m /\ mMutex[b] = t /\ pc[t] = "tell server"
       /\ pc'[t] = "destroy" /\ call'[t].memory = m /\ call'[t].burst = Nobody
       /\ mMutex' = [mMutex EXCEPT ![b] = Nobody]
  BY Zenon, <1>1, <1>3, <1>4, <1>7, <1>8
<1> QED BY Zenon, <1>6, <1>9, <1>10

\* When the server has been told, it agrees with the client again.
LEMMA KeptByTellServer ==
    ASSUME IInv, NEW t \in Threads, TellServer(t)
    PROVE  IInv'
<1>1. PICK b \in Bursts, m \in Memories :
              /\ call[t].burst = b /\ call[t].memory = m /\ mMutex[b] = t
              /\ pc[t] = "tell server" /\ pc'[t] = "destroy"
              /\ Others(t) /\ call'[t].memory = m /\ call'[t].burst = Nobody
              /\ mMutex' = [mMutex EXCEPT ![b] = Nobody]
              /\ serverCache' = IF alive
                                THEN [serverCache EXCEPT ![b] =
                                         [x \in DOMAIN @ \ {mFreeSlots[b][1]} |-> @[x]]]
                                ELSE serverCache
  BY EffectOfTellServer
<1>2. UNCHANGED <<objectVars, mMemoryIdToSlot, mMemoryCache, mFreeSlots, queueVars, alive,
                  notice, worker, calls, pending, outcome, ran, on>>
  BY Zenon DEF TellServer
<1>3. /\ UNCHANGED <<life, mUsedBy, mCurrentlyRunning>>
      /\ UNCHANGED <<mValid, requests, results>>
      /\ UNCHANGED <<alive, notice, worker, mMemoryIdToSlot, mMemoryCache, mFreeSlots>>
  BY <1>2 DEF objectVars, queueVars
<1>4. ClientTypes /\ QueueTypes /\ ServerTypes /\ ObjectTypes
  BY DEF IInv, TypeInv
<1>5. SlotInv(b) /\ NoticeInv(b) /\ CoherenceInv(b) /\ CallInv(t)
  BY DEF IInv
<1>6. /\ call[t].burst = b /\ call[t].memory = m /\ mMutex[b] = t /\ pc[t] = "tell server"
      /\ pc'[t] = "destroy" /\ call'[t].memory = m /\ call'[t].burst = Nobody
  BY Zenon, <1>1
<1>7. /\ serverCache' = [c \in Bursts |-> serverCache'[c]]
      /\ \A c \in Bursts : c # b => serverCache'[c] = serverCache[c]
      /\ DOMAIN serverCache'[b] \subseteq DOMAIN serverCache[b]
      /\ \A x \in DOMAIN serverCache'[b] :
            x # mFreeSlots[b][1] /\ serverCache'[b][x] = serverCache[b][x]
  <2>1. CASE alive
    <3>1. serverCache' = [serverCache EXCEPT ![b] =
                             [x \in DOMAIN serverCache[b] \ {mFreeSlots[b][1]} |->
                                 serverCache[b][x]]]
      BY Zenon, <1>1, <2>1
    <3> QED BY <1>4, <3>1 DEF ServerTypes
  <2>2. CASE ~alive
    <3>1. serverCache' = serverCache /\ DOMAIN serverCache[b] = {}
      BY <1>1, <1>5, <2>2 DEF NoticeInv
    <3> QED BY <1>4, <3>1 DEF ServerTypes
  <2> QED BY <2>1, <2>2
<1>8. /\ mMutex' \in [Bursts -> Threads \cup {Nobody}]
      /\ \A c \in Bursts : c # b => mMutex'[c] = mMutex[c]
  BY <1>1, <1>4 DEF ClientTypes
<1>9. ClientTypes' /\ QueueTypes' /\ ServerTypes'
  BY <1>3, <1>4, <1>7, <1>8 DEF ClientTypes, QueueTypes, ServerTypes
<1>10. \A c \in Bursts : c # b => SameAt(c)
  BY <1>3, <1>7, <1>8 DEF SameAt
<1>11. SlotInv(b)'
  BY <1>3, <1>5 DEF SlotInv
<1>12. NoticeInv(b)'
  BY <1>3, <1>5, <1>7 DEF NoticeInv, Busy
<1>13. QueueInv(b)'
  BY <1>3, <1>6, QueueKept DEF Awaiting
<1>14. CoherenceInv(b)'
  <2>1. \A u \in Threads : pc[u] = "tell server" /\ u # t => call[u].burst # b
    <3>1. \A u \in Threads : pc[u] = "tell server" => pc[u] \in Locking
      BY DEF Locking
    <3> QED BY <1>6, <3>1, Alone
  <2>2. \A x \in DOMAIN serverCache'[b] :
          /\ x \in 1 .. Len(mMemoryCache[b]) /\ serverCache'[b][x] # Nobody
          /\ serverCache'[b][x] = mMemoryCache[b][x]
    <3> SUFFICES ASSUME NEW x \in DOMAIN serverCache'[b]
                 PROVE  /\ x \in 1 .. Len(mMemoryCache[b]) /\ serverCache'[b][x] # Nobody
                        /\ serverCache'[b][x] = mMemoryCache[b][x]
      OBVIOUS
    <3>1. /\ x \in DOMAIN serverCache[b] /\ x # mFreeSlots[b][1]
          /\ serverCache'[b][x] = serverCache[b][x]
      BY <1>7
    <3>2. /\ x \in 1 .. Len(mMemoryCache[b]) /\ serverCache[b][x] # Nobody
          /\ serverCache[b][x] = mMemoryCache[b][x] \/ x = mFreeSlots[b][1]
      BY Zenon, <1>5, <3>1 DEF CoherenceInv
    <3> QED BY <3>1, <3>2
  <2> QED BY <1>3, <2>2 DEF CoherenceInv
<1>15. CallInv(t)'
  <2>1. /\ m \in Memories /\ life[m] = "destructor" /\ outcome[t] = "none" /\ ran[t] = 0
        /\ \A a \in pending[t] : mUsedBy[m][a] # Nobody
    BY <1>5, <1>6 DEF CallInv, Destroying
  <2>2. UNCHANGED <<pending, outcome, ran>>
    BY <1>2
  <2>3. call'[t].burst \notin Bursts
    BY <1>6, NamesAssumption
  <2>4. pc'[t] \notin Executing
    BY <1>6 DEF Executing
  <2>5. 0 <= 1
    OBVIOUS
  <2> QED BY <1>3, <1>6, <2>1, <2>2, <2>3, <2>4, <2>5 DEF CallInv
<1>16. Shared'
  <2>1. pc'[t] \notin Locking /\ pc'[t] \notin Computing
    BY <1>6 DEF Locking, Computing
  <2> QED BY <1>1, <1>3, <1>6, <1>9, <1>10, <1>11, <1>12, <1>13, <1>14, <2>1, ControllerStep
<1>17. pc[t] \in Destroying /\ mCurrentlyRunning' \in [Bursts -> BOOLEAN]
  BY <1>3, <1>4, <1>6 DEF Destroying, ObjectTypes
<1> QED BY <1>1, <1>3, <1>6, <1>15, <1>16, <1>17, ThreadStep

-------------------------------------------------------------------------------
(* The steps of the servers, and the death of the service.                  *)

\* What a server does for one burst leaves the threads where they are, and counts an
\* execution of a thread that awaits the result.
LEMMA ServerStep ==
    ASSUME IInv, NEW b \in Bursts,
           UNCHANGED <<objectVars, clientVars, alive, pc, calls, call, pending, outcome>>,
           ran' \in [Threads -> Nat], on' = [u \in Threads |-> on'[u]],
           \A u \in Threads : \/ ran'[u] = ran[u]
                              \/ pc[u] \in Awaiting /\ call[u].burst = b /\ ran'[u] <= 1,
           \A c \in Bursts : c # b =>
              /\ mValid'[c] = mValid[c] /\ requests'[c] = requests[c] /\ results'[c] = results[c]
              /\ notice'[c] = notice[c] /\ worker'[c] = worker[c]
              /\ serverCache'[c] = serverCache[c],
           QueueTypes', ServerTypes', NoticeInv(b)', QueueInv(b)', CoherenceInv(b)'
    PROVE  IInv'
<1>1. UNCHANGED <<life, mUsedBy, mCurrentlyRunning>>
  BY DEF objectVars
<1>2. UNCHANGED <<mMutex, mMemoryIdToSlot, mMemoryCache, mFreeSlots>>
  BY DEF clientVars
<1>3. ObjectTypes' /\ ClientTypes' /\ ThreadTypes'
  BY <1>1, <1>2 DEF IInv, TypeInv, ObjectTypes, ClientTypes, ThreadTypes
<1>4. MutexInv' /\ OneDestructor' /\ TakenInv' /\ AddressInv'
  BY ZenonT(40), <1>1, <1>2 DEF IInv, MutexInv, OneDestructor, TakenInv, AddressInv
<1>5. ASSUME NEW u \in Threads PROVE CallInv(u)'
  <2>1. CallInv(u)
    BY DEF IInv
  <2>2. \/ ran'[u] = ran[u]
        \/ pc[u] \in Awaiting /\ ran'[u] <= 1
    OBVIOUS
  <2> QED BY <1>1, <2>1, <2>2 DEF CallInv, Awaiting
<1>6. ASSUME NEW c \in Bursts
      PROVE  SlotInv(c)' /\ NoticeInv(c)' /\ QueueInv(c)' /\ CoherenceInv(c)'
  <2>1. SlotInv(c) /\ NoticeInv(c) /\ QueueInv(c) /\ CoherenceInv(c)
    BY DEF IInv
  <2>2. SlotInv(c)'
    BY <1>2, <2>1 DEF SlotInv
  <2>3. CASE c # b
    <3>1. /\ mValid'[c] = mValid[c] /\ requests'[c] = requests[c] /\ results'[c] = results[c]
          /\ notice'[c] = notice[c] /\ worker'[c] = worker[c]
          /\ serverCache'[c] = serverCache[c]
      BY <2>3
    <3>2. NoticeInv(c)'
      BY <2>1, <3>1 DEF NoticeInv, Busy
    <3>3. \A u \in Threads : call[u].burst = c => ran'[u] = ran[u]
      BY <2>3
    <3>4. QueueInv(c)'
      BY ZenonT(40), <1>2, <2>1, <3>1, <3>3 DEF QueueInv, Busy, Asks
    <3>5. CoherenceInv(c)'
      BY <1>2, <2>1, <3>1, CoherenceKept
    <3> QED BY <2>2, <3>2, <3>4, <3>5
  <2> QED BY <2>2, <2>3
<1> QED BY <1>3, <1>4, <1>5, <1>6, Rest DEF Shared

\* The request leaves the queue for the server's thread.
LEMMA KeptByServerReceives ==
    ASSUME IInv, NEW b \in Bursts, ServerReceives(b)
    PROVE  IInv'
<1>1. /\ alive /\ worker[b].at = "idle" /\ requests[b] # <<>>
      /\ worker' = [worker EXCEPT ![b] = [at |-> "received", slot |-> Head(requests[b]).slot,
                                          for |-> Head(requests[b]).for]]
      /\ requests' = [requests EXCEPT ![b] = Tail(@)]
      /\ UNCHANGED <<objectVars, clientVars, mValid, results, alive, notice, serverCache,
                     threadVars>>
  BY Zenon DEF ServerReceives
<1>2. QueueTypes /\ ServerTypes /\ ThreadTypes /\ NoticeInv(b) /\ QueueInv(b) /\ CoherenceInv(b)
  BY DEF IInv, TypeInv
<1>3. notice[b] = "none" /\ Len(requests[b]) = 1 /\ results[b] = <<>>
      /\ Asks(requests[b][1].for, b, requests[b][1].slot)
  <2>1. requests[b] \in Seq([slot : Nat, for : Threads])
    BY <1>2 DEF QueueTypes
  <2>2. Len(requests[b]) \in Nat \ {0} /\ Len(requests[b]) <= 1
    BY <1>1, <1>2, <2>1, EmptySeq DEF QueueInv
  <2>3. notice[b] = "none"
    BY <1>1, <1>2 DEF NoticeInv
  <2>4. Len(requests[b]) = 1
    <3>1. \A n \in Nat \ {0} : n <= 1 => n = 1
      OBVIOUS
    <3> QED BY Zenon, <2>2, <3>1
  <2>5. results[b] = <<>> /\ Asks(requests[b][1].for, b, requests[b][1].slot)
    BY Zenon, <1>1, <1>2, <2>3 DEF QueueInv
  <2> QED BY <2>3, <2>4, <2>5
<1>4. PICK r \in [slot : Nat, for : Threads] : r = Head(requests[b]) /\ r = requests[b][1]
  <2>1. requests[b] \in Seq([slot : Nat, for : Threads])
    BY <1>2 DEF QueueTypes
  <2>2. requests[b] # <<>>
    BY <1>1
  <2>3. Head(requests[b]) \in [slot : Nat, for : Threads]
    BY <2>1, <2>2, HeadTailProperties
  <2>4. Head(requests[b]) = requests[b][1]
    BY <2>1, <2>2
  <2> QED BY <2>3, <2>4
<1>5. /\ worker'[b] = [at |-> "received", slot |-> r.slot, for |-> r.for]
      /\ ServerTypes' /\ \A c \in Bursts : c # b => worker'[c] = worker[c]
  <2>1. worker' = [worker EXCEPT ![b] = [at |-> "received", slot |-> r.slot, for |-> r.for]]
    BY Zenon, <1>1, <1>4
  <2> QED BY <1>1, <1>2, <2>1 DEF ServerTypes
<1>6. /\ requests'[b] = <<>> /\ QueueTypes'
      /\ \A c \in Bursts : c # b => requests'[c] = requests[c]
  <2>1. requests[b] \in Seq([slot : Nat, for : Threads])
    BY <1>2 DEF QueueTypes
  <2>2. Tail(requests[b]) \in Seq([slot : Nat, for : Threads]) /\ Len(Tail(requests[b])) = 0
    BY <1>1, <1>3, <2>1, HeadTailProperties
  <2>3. Tail(requests[b]) = <<>>
    BY <2>2, EmptySeq
  <2>4. requests' = [requests EXCEPT ![b] = <<>>]
    BY Zenon, <1>1, <2>3
  <2> QED BY <1>1, <1>2, <2>2, <2>3, <2>4 DEF QueueTypes
<1>7. UNCHANGED <<pc, calls, call, pending, outcome, ran, on, mMemoryIdToSlot, mMemoryCache,
                  mFreeSlots>>
  BY <1>1 DEF threadVars, clientVars
<1>8. NoticeInv(b)'
  BY <1>1, <1>2 DEF NoticeInv
<1>9. QueueInv(b)'
  <2>1. Asks(r.for, b, r.slot)
    BY <1>3, <1>4
  <2>2. Asks(worker[b].for, b, worker[b].slot)'
    BY <1>5, <1>7, <2>1 DEF Asks
  <2>3. results'[b] = <<>> /\ Len(<<>>) = 0
    BY <1>1, <1>3
  <2> QED BY <1>6, <2>2, <2>3 DEF QueueInv
<1>10. CoherenceInv(b)'
  BY <1>1, <1>2, <1>7, CoherenceKept
<1>11. ran' \in [Threads -> Nat] /\ on' = [u \in Threads |-> on'[u]]
  BY <1>2, <1>7 DEF ThreadTypes
<1> QED BY <1>1, <1>5, <1>6, <1>7, <1>8, <1>9, <1>10, <1>11, ServerStep

\* What the server asks for is what the client has in the slot.
LEMMA KeptByEnsureCacheEntriesArePresent ==
    ASSUME IInv, NEW b \in Bursts, EnsureCacheEntriesArePresent(b)
    PROVE  IInv'
<1>1. PICK s : s = worker[b].slot
  OBVIOUS
<1>2. /\ alive /\ worker[b].at = "received"
      /\ worker' = [worker EXCEPT ![b].at = "executing"]
      /\ serverCache' = IF s \in DOMAIN serverCache[b] \/ mMemoryCache[b][s] = Nobody
                        THEN serverCache
                        ELSE [serverCache EXCEPT ![b] = [x \in DOMAIN @ \cup {s} |->
                                  IF x = s THEN mMemoryCache[b][s] ELSE @[x]]]
      /\ UNCHANGED <<objectVars, clientVars, queueVars, alive, notice, threadVars>>
  BY Zenon, <1>1 DEF EnsureCacheEntriesArePresent
<1>3. /\ QueueTypes /\ ServerTypes /\ ThreadTypes /\ ClientTypes /\ NoticeInv(b) /\ QueueInv(b)
      /\ CoherenceInv(b) /\ SlotInv(b)
  BY DEF IInv, TypeInv
<1>4. notice[b] = "none" /\ Busy(b) /\ Asks(worker[b].for, b, s) /\ results[b] = <<>>
      /\ requests[b] = <<>>
  BY <1>1, <1>2, <1>3 DEF NoticeInv, QueueInv, Busy
<1>5. s \in 1 .. Len(mMemoryCache[b])
  <2>1. PICK u \in Threads : u = worker[b].for
    BY <1>4 DEF Asks
  <2>2. /\ pc[u] \in Computing /\ call[u].burst = b /\ call[u].memory \in Memories
        /\ s = mMemoryIdToSlot[b][key[call[u].memory]]
    BY <1>4, <2>1 DEF Asks, Awaiting, Computing, IInv, CallInv, Executing
  <2>3. s # 0 /\ key[call[u].memory] \in Keys
    BY <2>2, KeyAssumption DEF IInv, TakenInv
  <2>4. s \in Nat /\ s <= Len(mMemoryCache[b])
    BY <1>3, <2>2, <2>3 DEF SlotInv, ClientTypes
  <2>5. Len(mMemoryCache[b]) \in Nat
    BY <1>3, LenProperties DEF ClientTypes
  <2> QED BY <2>3, <2>4, <2>5
<1>6. /\ UNCHANGED <<mValid, requests, results>>
      /\ UNCHANGED <<pc, calls, call, pending, outcome, ran, on>>
      /\ UNCHANGED <<mMemoryIdToSlot, mMemoryCache, mFreeSlots>>
  BY <1>2 DEF queueVars, threadVars, clientVars
<1>7. /\ worker'[b].at = "executing" /\ worker'[b].slot = s /\ worker'[b].for = worker[b].for
      /\ worker' \in [Bursts -> [at : {"idle", "received", "executing", "replied"},
                                 slot : Nat, for : Threads \cup {Nobody}]]
      /\ \A c \in Bursts : c # b => worker'[c] = worker[c]
  BY <1>1, <1>2, <1>3 DEF ServerTypes
<1>8. /\ serverCache' = [c \in Bursts |-> serverCache'[c]]
      /\ \A c \in Bursts : c # b => serverCache'[c] = serverCache[c]
      /\ \A x \in DOMAIN serverCache'[b] :
            \/ x \in DOMAIN serverCache[b] /\ serverCache'[b][x] = serverCache[b][x]
            \/ /\ x = s /\ serverCache'[b][x] = mMemoryCache[b][s]
               /\ mMemoryCache[b][s] # Nobody
  <2>1. CASE s \in DOMAIN serverCache[b] \/ mMemoryCache[b][s] = Nobody
    <3>1. serverCache' = serverCache
      BY Zenon, <1>2, <2>1
    <3> QED BY <1>3, <3>1 DEF ServerTypes
  <2>2. CASE ~(s \in DOMAIN serverCache[b] \/ mMemoryCache[b][s] = Nobody)
    <3>1. serverCache' = [serverCache EXCEPT ![b] = [x \in DOMAIN serverCache[b] \cup {s} |->
                             IF x = s THEN mMemoryCache[b][s] ELSE serverCache[b][x]]]
      BY Zenon, <1>2, <2>2
    <3> QED BY <1>3, <2>2, <3>1 DEF ServerTypes
  <2> QED BY <2>1, <2>2
<1>9. QueueTypes' /\ ServerTypes'
  BY <1>2, <1>3, <1>6, <1>7, <1>8 DEF QueueTypes, ServerTypes
<1>10. NoticeInv(b)'
  BY <1>2, <1>3, <1>6 DEF NoticeInv
<1>11. QueueInv(b)'
  <2>1. Asks(worker[b].for, b, worker[b].slot)'
    BY <1>4, <1>6, <1>7 DEF Asks
  <2> QED BY <1>3, <1>4, <1>6, <2>1 DEF QueueInv
<1>12. CoherenceInv(b)'
  <2>1. \A x \in DOMAIN serverCache'[b] :
          /\ x \in 1 .. Len(mMemoryCache[b]) /\ serverCache'[b][x] # Nobody
          /\ \/ serverCache'[b][x] = mMemoryCache[b][x]
             \/ \E u \in Threads : /\ pc[u] = "tell server" /\ call[u].burst = b
                                   /\ x = mFreeSlots[b][1]
    BY <1>3, <1>5, <1>8 DEF CoherenceInv
  <2> QED BY Zenon, <1>6, <2>1 DEF CoherenceInv
<1>13. ran' \in [Threads -> Nat] /\ on' = [u \in Threads |-> on'[u]]
  BY <1>3, <1>6 DEF ThreadTypes
<1>14. UNCHANGED <<objectVars, clientVars, alive, pc, calls, call, pending, outcome>>
  BY <1>2, <1>6
<1>15. \A c \in Bursts : c # b =>
          /\ mValid'[c] = mValid[c] /\ requests'[c] = requests[c] /\ results'[c] = results[c]
          /\ notice'[c] = notice[c] /\ worker'[c] = worker[c]
          /\ serverCache'[c] = serverCache[c]
  BY <1>2, <1>6, <1>7, <1>8
<1> QED BY <1>6, <1>9, <1>10, <1>11, <1>12, <1>13, <1>14, <1>15, ServerStep

\* An execution by the server is that of the thread that awaits the result.
LEMMA EffectOfServerExecutes ==
    ASSUME IInv, NEW b \in Bursts, ServerExecutes(b)
    PROVE  \E t \in Threads, s \in Nat, code \in {"NO_ERROR", "OP_FAILED"} :
              /\ alive /\ worker[b].at = "executing" /\ notice[b] = "none"
              /\ pc[t] \in Awaiting /\ call[t].burst = b /\ ran[t] = 0
              /\ s = mMemoryIdToSlot[b][key[call[t].memory]]
              /\ worker' = [worker EXCEPT ![b].at = "replied"]
              /\ requests[b] = <<>> /\ results[b] = <<>>
              /\ results' = [results EXCEPT ![b] = <<code>>]
              /\ \/ /\ s \in DOMAIN serverCache[b] /\ ran' = [ran EXCEPT ![t] = @ + 1]
                    /\ on' = [on EXCEPT ![t] = serverCache[b][s]]
                 \/ code = "OP_FAILED" /\ UNCHANGED <<ran, on>>
              /\ UNCHANGED <<objectVars, clientVars, mValid, requests, alive, notice,
                             serverCache, pc, calls, call, pending, outcome>>
<1>1. /\ alive /\ worker[b].at = "executing"
      /\ worker' = [worker EXCEPT ![b].at = "replied"]
      /\ UNCHANGED <<objectVars, clientVars, mValid, requests, alive, notice, serverCache, pc,
                     calls, call, pending, outcome>>
  BY Zenon DEF ServerExecutes
<1>2. NoticeInv(b) /\ QueueInv(b) /\ ServerTypes
  BY DEF IInv, TypeInv
<1>3. /\ notice[b] = "none" /\ Asks(worker[b].for, b, worker[b].slot)
      /\ results[b] = <<>> /\ requests[b] = <<>>
  BY <1>1, <1>2 DEF NoticeInv, QueueInv, Busy
<1>4. PICK t \in Threads, s \in Nat : t = worker[b].for /\ s = worker[b].slot
  BY <1>2, <1>3 DEF Asks, ServerTypes
<1>5. /\ pc[t] \in Awaiting /\ call[t].burst = b /\ ran[t] = 0
      /\ s = mMemoryIdToSlot[b][key[call[t].memory]]
  BY <1>3, <1>4 DEF Asks
<1>6. PICK code \in {"NO_ERROR", "OP_FAILED"} :
          /\ results' = [results EXCEPT ![b] = Append(@, code)]
          /\ \/ /\ s \in DOMAIN serverCache[b] /\ ran' = [ran EXCEPT ![t] = @ + 1]
                /\ on' = [on EXCEPT ![t] = serverCache[b][s]]
             \/ code = "OP_FAILED" /\ UNCHANGED <<ran, on>>
  BY Zenon, <1>4 DEF ServerExecutes
<1>7. results' = [results EXCEPT ![b] = <<code>>]
  <2>1. Append(<<>>, code) = <<code>>
    OBVIOUS
  <2> QED BY Zenon, <1>3, <1>6, <2>1
<1> QED BY ZenonT(40), <1>1, <1>3, <1>5, <1>6, <1>7

\* The server executes for a thread that waits and has not been served.
LEMMA KeptByServerExecutes ==
    ASSUME IInv, NEW b \in Bursts, ServerExecutes(b)
    PROVE  IInv'
<1>1. PICK t \in Threads, s \in Nat, code \in {"NO_ERROR", "OP_FAILED"} :
              /\ alive /\ worker[b].at = "executing" /\ notice[b] = "none"
              /\ pc[t] \in Awaiting /\ call[t].burst = b /\ ran[t] = 0
              /\ s = mMemoryIdToSlot[b][key[call[t].memory]]
              /\ worker' = [worker EXCEPT ![b].at = "replied"]
              /\ requests[b] = <<>> /\ results[b] = <<>>
              /\ results' = [results EXCEPT ![b] = <<code>>]
              /\ \/ /\ s \in DOMAIN serverCache[b] /\ ran' = [ran EXCEPT ![t] = @ + 1]
                    /\ on' = [on EXCEPT ![t] = serverCache[b][s]]
                 \/ code = "OP_FAILED" /\ UNCHANGED <<ran, on>>
              /\ UNCHANGED <<objectVars, clientVars, mValid, requests, alive, notice,
                             serverCache, pc, calls, call, pending, outcome>>
  BY EffectOfServerExecutes
<1>2. /\ alive /\ notice[b] = "none" /\ pc[t] \in Awaiting /\ call[t].burst = b /\ ran[t] = 0
      /\ requests[b] = <<>> /\ worker' = [worker EXCEPT ![b].at = "replied"]
      /\ results' = [results EXCEPT ![b] = <<code>>]
  BY Zenon, <1>1
<1>3. /\ UNCHANGED <<mValid, requests, alive, notice, serverCache>>
      /\ UNCHANGED <<objectVars, clientVars, alive, pc, calls, call, pending, outcome>>
  BY Zenon, <1>1
<1>4. /\ QueueTypes /\ ServerTypes /\ ThreadTypes /\ NoticeInv(b) /\ QueueInv(b)
      /\ CoherenceInv(b)
  BY DEF IInv, TypeInv
<1>5. /\ worker'[b].at = "replied" /\ ServerTypes'
      /\ \A c \in Bursts : c # b => worker'[c] = worker[c]
  BY ZenonT(40), <1>2, <1>3, <1>4 DEF ServerTypes
<1>6. /\ results'[b] = <<code>> /\ QueueTypes'
      /\ \A c \in Bursts : c # b => results'[c] = results[c]
  <2>1. code \in Answers
    BY DEF Answers
  <2>2. <<code>> \in Seq(Answers)
    BY <2>1
  <2> QED BY <1>2, <1>3, <1>4, <2>2 DEF QueueTypes
<1>7. UNCHANGED <<mMemoryIdToSlot, mMemoryCache, mFreeSlots>>
  BY <1>3 DEF clientVars
<1>8. /\ ran' \in [Threads -> Nat] /\ ran'[t] <= 1
      /\ \A u \in Threads : u # t => ran'[u] = ran[u]
  <2>1. ran' = [ran EXCEPT ![t] = @ + 1] \/ ran' = ran
    BY Zenon, <1>1
  <2> QED BY <1>2, <1>4, <2>1 DEF ThreadTypes
<1>9. on' = [u \in Threads |-> on'[u]]
  <2>1. on' = [on EXCEPT ![t] = serverCache[b][s]] \/ on' = on
    BY Zenon, <1>1
  <2> QED BY <1>4, <2>1 DEF ThreadTypes
<1>10. Len(results'[b]) = 1 /\ results'[b] # <<>> /\ Len(requests[b]) = 0
  BY <1>2, <1>6
<1>11. NoticeInv(b)'
  BY <1>2, <1>3, <1>4, <1>5, <1>10 DEF NoticeInv, Busy
<1>12. QueueInv(b)'
  <2>1. ~Busy(b)' /\ requests'[b] = <<>> /\ pc'[t] \in Awaiting /\ call'[t].burst = b
    BY <1>2, <1>3, <1>5 DEF Busy
  <2> QED BY <1>10, <2>1 DEF QueueInv
<1>13. CoherenceInv(b)'
  BY <1>3, <1>4, <1>7, CoherenceKept
<1>14. \A u \in Threads : \/ ran'[u] = ran[u]
                          \/ pc[u] \in Awaiting /\ call[u].burst = b /\ ran'[u] <= 1
  BY <1>2, <1>8
<1>15. \A c \in Bursts : c # b =>
          /\ mValid'[c] = mValid[c] /\ requests'[c] = requests[c] /\ results'[c] = results[c]
          /\ notice'[c] = notice[c] /\ worker'[c] = worker[c]
          /\ serverCache'[c] = serverCache[c]
  BY <1>3, <1>5, <1>6
<1> QED BY <1>3, <1>5, <1>6, <1>8, <1>9, <1>11, <1>12, <1>13, <1>14, <1>15, ServerStep

\* The server's thread is idle again.
LEMMA KeptByServerUnlocks ==
    ASSUME IInv, NEW b \in Bursts, ServerUnlocks(b)
    PROVE  IInv'
<1>1. /\ worker' = [worker EXCEPT ![b] = [at |-> "idle", slot |-> 0, for |-> Nobody]]
      /\ worker[b].at = "replied"
      /\ UNCHANGED <<objectVars, clientVars, queueVars, alive, notice, serverCache, threadVars>>
  BY Zenon DEF ServerUnlocks
<1>2. /\ QueueTypes /\ ServerTypes /\ ThreadTypes /\ NoticeInv(b) /\ QueueInv(b)
      /\ CoherenceInv(b)
  BY DEF IInv, TypeInv
<1>3. /\ UNCHANGED <<mValid, requests, results>>
      /\ UNCHANGED <<pc, calls, call, pending, outcome, ran, on>>
      /\ UNCHANGED <<mMemoryIdToSlot, mMemoryCache, mFreeSlots>>
  BY <1>1 DEF queueVars, threadVars, clientVars
<1>4. /\ worker'[b].at = "idle" /\ ServerTypes'
      /\ \A c \in Bursts : c # b => worker'[c] = worker[c]
  <2>1. 0 \in Nat
    OBVIOUS
  <2> QED BY <1>1, <1>2, <2>1 DEF ServerTypes
<1>5. QueueTypes'
  BY <1>2, <1>3 DEF QueueTypes
<1>6. NoticeInv(b)'
  BY <1>1, <1>2, <1>3, <1>4 DEF NoticeInv, Busy
<1>7. QueueInv(b)'
  BY <1>1, <1>2, <1>3, <1>4 DEF QueueInv, Busy, Asks
<1>8. CoherenceInv(b)'
  BY <1>1, <1>2, <1>3, CoherenceKept
<1>9. ran' \in [Threads -> Nat] /\ on' = [u \in Threads |-> on'[u]]
  BY <1>2, <1>3 DEF ThreadTypes
<1>10. UNCHANGED <<objectVars, clientVars, alive, pc, calls, call, pending, outcome>>
  BY <1>1, <1>3
<1>11. \A c \in Bursts : c # b =>
          /\ mValid'[c] = mValid[c] /\ requests'[c] = requests[c] /\ results'[c] = results[c]
          /\ notice'[c] = notice[c] /\ worker'[c] = worker[c]
          /\ serverCache'[c] = serverCache[c]
  BY <1>1, <1>3, <1>4
<1> QED BY <1>3, <1>4, <1>5, <1>6, <1>7, <1>8, <1>9, <1>10, <1>11, ServerStep

\* The death of the service is noticed: the queues become invalid one after the other.
LEMMA KeptByserviceDied ==
    ASSUME IInv, NEW b \in Bursts, serviceDied(b)
    PROVE  IInv'
<1>1. /\ ~alive
      /\ UNCHANGED <<objectVars, clientVars, requests, alive, worker, serverCache, threadVars>>
      /\ \/ /\ notice[b] = "none"
            /\ notice' = [notice EXCEPT ![b] = "sender"]
            /\ mValid' = [mValid EXCEPT ![b] = @ \ {"sender"}]
            /\ UNCHANGED results
         \/ /\ notice[b] = "sender"
            /\ notice' = [notice EXCEPT ![b] = "receiver"]
            /\ mValid' = [mValid EXCEPT ![b] = @ \ {"receiver"}]
            /\ UNCHANGED results
         \/ /\ notice[b] = "receiver"
            /\ notice' = [notice EXCEPT ![b] = "done"]
            /\ results' = [results EXCEPT ![b] = Append(@, "wake up")]
            /\ UNCHANGED mValid
  BY Zenon DEF serviceDied, WakeUp
<1>2. ~alive /\ UNCHANGED <<requests, worker, serverCache, alive>>
  BY Zenon, <1>1
<1>3. /\ QueueTypes /\ ServerTypes /\ ThreadTypes /\ NoticeInv(b) /\ QueueInv(b)
      /\ CoherenceInv(b)
  BY DEF IInv, TypeInv
<1>4. /\ UNCHANGED <<pc, calls, call, pending, outcome, ran, on>>
      /\ UNCHANGED <<mMemoryIdToSlot, mMemoryCache, mFreeSlots>>
  BY <1>1 DEF threadVars, clientVars
<1>5. results[b] \in Seq(Answers) /\ Len(results[b]) \in Nat
  BY <1>3, LenProperties DEF QueueTypes
<1>6. /\ Append(results[b], "wake up") \in Seq(Answers)
      /\ Len(Append(results[b], "wake up")) = Len(results[b]) + 1
  <2>1. "wake up" \in Answers
    BY DEF Answers
  <2> QED BY ZenonT(40), <1>5, <2>1, AppendProperties
<1>7. /\ results'[b] \in Seq(Answers) /\ results' \in [Bursts -> Seq(Answers)]
      /\ \A c \in Bursts : c # b => results'[c] = results[c]
      /\ \/ results'[b] = results[b]
         \/ /\ notice[b] = "receiver" /\ notice'[b] = "done"
            /\ Len(results'[b]) = Len(results[b]) + 1
  <2>1. CASE UNCHANGED results
    BY <1>3, <2>1 DEF QueueTypes
  <2>2. CASE /\ notice[b] = "receiver" /\ notice' = [notice EXCEPT ![b] = "done"]
             /\ results' = [results EXCEPT ![b] = Append(@, "wake up")]
    <3>1. results' = [results EXCEPT ![b] = Append(results[b], "wake up")]
      BY Zenon, <2>2
    <3> QED BY <1>3, <1>6, <2>2, <3>1 DEF QueueTypes, ServerTypes
  <2> QED BY Zenon, <1>1, <2>1, <2>2
<1>8. /\ notice' \in [Bursts -> {"none", "sender", "receiver", "done"}]
      /\ \A c \in Bursts : c # b => notice'[c] = notice[c]
      /\ \/ notice[b] = "none" /\ notice'[b] = "sender"
         \/ notice[b] = "sender" /\ notice'[b] = "receiver"
         \/ notice[b] = "receiver" /\ notice'[b] = "done"
  BY <1>1, <1>3 DEF ServerTypes
<1>9. /\ mValid' \in [Bursts -> SUBSET Ends]
      /\ \A c \in Bursts : c # b => mValid'[c] = mValid[c]
      /\ "sender" \notin mValid'[b]
  <2>1. \/ notice[b] = "none" /\ mValid' = [mValid EXCEPT ![b] = @ \ {"sender"}]
        \/ notice[b] = "sender" /\ mValid' = [mValid EXCEPT ![b] = @ \ {"receiver"}]
        \/ notice[b] = "receiver" /\ mValid' = mValid
    BY Zenon, <1>1
  <2> QED BY <1>3, <2>1 DEF QueueTypes, NoticeInv
<1>10. QueueTypes' /\ ServerTypes'
  BY <1>2, <1>3, <1>7, <1>8, <1>9 DEF QueueTypes, ServerTypes
<1>11. NoticeInv(b)'
  <2>1. /\ notice'[b] # "none" /\ ~alive' /\ ~Busy(b)' /\ DOMAIN serverCache'[b] = {}
    BY <1>2, <1>3, <1>8 DEF NoticeInv, Busy
  <2>2. Len(results'[b]) <= 2 /\ (notice'[b] # "done" => Len(results'[b]) <= 1)
    BY <1>3, <1>5, <1>7, <1>8 DEF NoticeInv
  <2> QED BY <1>9, <2>1, <2>2 DEF NoticeInv
<1>12. QueueInv(b)'
  BY <1>2, <1>3, <1>8 DEF QueueInv
<1>13. CoherenceInv(b)'
  BY <1>2, <1>3, <1>4, CoherenceKept
<1>14. ran' \in [Threads -> Nat] /\ on' = [u \in Threads |-> on'[u]]
  BY <1>3, <1>4 DEF ThreadTypes
<1>15. UNCHANGED <<objectVars, clientVars, alive, pc, calls, call, pending, outcome>>
  <2>1. UNCHANGED <<objectVars, clientVars>>
    BY Zenon, <1>1
  <2> QED BY <1>2, <1>4, <2>1
<1>16. \A c \in Bursts : c # b =>
          /\ mValid'[c] = mValid[c] /\ requests'[c] = requests[c] /\ results'[c] = results[c]
          /\ notice'[c] = notice[c] /\ worker'[c] = worker[c]
          /\ serverCache'[c] = serverCache[c]
  BY <1>2, <1>7, <1>8, <1>9
<1> QED BY <1>4, <1>10, <1>11, <1>12, <1>13, <1>14, <1>15, <1>16, ServerStep

\* The service dies, and with it the servers of all bursts.
LEMMA KeptByServiceDies ==
    ASSUME IInv, ServiceDies
    PROVE  IInv'
<1>1. /\ alive /\ alive' = FALSE
      /\ worker' = [b \in Bursts |-> [at |-> "idle", slot |-> 0, for |-> Nobody]]
      /\ serverCache' = [b \in Bursts |-> <<>>]
      /\ UNCHANGED <<objectVars, clientVars, queueVars, notice, threadVars>>
  BY Zenon DEF ServiceDies
<1>2. UNCHANGED <<life, mUsedBy, mCurrentlyRunning>>
  BY <1>1 DEF objectVars
<1>3. UNCHANGED <<mMutex, mMemoryIdToSlot, mMemoryCache, mFreeSlots>>
  BY <1>1 DEF clientVars
<1>4. UNCHANGED <<mValid, requests, results>>
  BY <1>1 DEF queueVars
<1>5. UNCHANGED <<pc, calls, call, pending, outcome, ran, on>>
  BY <1>1 DEF threadVars
<1>6. ObjectTypes' /\ ClientTypes' /\ QueueTypes' /\ ThreadTypes'
  BY <1>2, <1>3, <1>4, <1>5
     DEF IInv, TypeInv, ObjectTypes, ClientTypes, QueueTypes, ThreadTypes
<1>7. ServerTypes'
  <2>1. 0 \in Nat
    OBVIOUS
  <2> QED BY <1>1, <2>1 DEF IInv, TypeInv, ServerTypes
<1>8. MutexInv' /\ OneDestructor' /\ TakenInv' /\ AddressInv'
  BY <1>2, <1>3, <1>5 DEF IInv, MutexInv, OneDestructor, TakenInv, AddressInv
<1>9. ASSUME NEW u \in Threads PROVE CallInv(u)'
  BY <1>2, <1>5 DEF IInv, CallInv
<1>10. ASSUME NEW b \in Bursts
       PROVE  SlotInv(b)' /\ NoticeInv(b)' /\ QueueInv(b)' /\ CoherenceInv(b)'
  <2>1. SlotInv(b) /\ NoticeInv(b) /\ QueueInv(b)
    BY DEF IInv
  <2>2. SlotInv(b)'
    BY <1>3, <2>1 DEF SlotInv
  <2>3. worker'[b].at = "idle" /\ serverCache'[b] = <<>> /\ DOMAIN <<>> = {}
    BY <1>1
  <2>4. NoticeInv(b)'
    BY <1>1, <1>4, <2>1, <2>3 DEF NoticeInv, Busy
  <2>5. QueueInv(b)'
    BY <1>1, <1>3, <1>4, <1>5, <2>1, <2>3 DEF QueueInv, Busy, Asks
  <2>6. CoherenceInv(b)'
    BY <2>3 DEF CoherenceInv
  <2> QED BY <2>2, <2>4, <2>5, <2>6
<1> QED BY <1>6, <1>7, <1>8, <1>9, <1>10, Rest DEF Shared

-------------------------------------------------------------------------------
(* The invariant, and what follows from it for any addresses.               *)

\* The initial state satisfies the invariant.
LEMMA InvInit == Init => IInv
<1> SUFFICES ASSUME Init PROVE IInv
  OBVIOUS
<1> USE DEF Init
<1>1. 0 \in Nat /\ 0 <= 1 /\ 0 <= 2
  OBVIOUS
<1>2. \A S : <<>> \in Seq(S) /\ Len(<<>>) = 0 /\ DOMAIN <<>> = {}
  OBVIOUS
<1>3. ObjectTypes
  BY DEF ObjectTypes, Lives
<1>4. ClientTypes
  BY <1>1, <1>2 DEF ClientTypes
<1>5. QueueTypes
  BY <1>2 DEF QueueTypes, Ends
<1>6. ServerTypes
  BY <1>1 DEF ServerTypes
<1>7. ThreadTypes
  BY <1>1 DEF ThreadTypes, Places, NoCall, Codes
<1>8. \A t \in Threads : CallInv(t)
  BY <1>1 DEF CallInv, Executing, Destroying, NoCall
<1>9. OneDestructor /\ MutexInv
  BY DEF OneDestructor, MutexInv, Destroying, Locking, Computing
<1>10. ASSUME NEW b \in Bursts
       PROVE  SlotInv(b) /\ NoticeInv(b) /\ QueueInv(b) /\ CoherenceInv(b)
  <2>1. /\ mMemoryIdToSlot[b] = [k \in Keys |-> 0] /\ mFreeSlots[b] = <<>>
        /\ mValid[b] = {"sender", "receiver"} /\ requests[b] = <<>> /\ results[b] = <<>>
        /\ notice[b] = "none" /\ worker[b].at = "idle" /\ serverCache[b] = <<>>
    OBVIOUS
  <2>2. SlotInv(b)
    BY <1>2, <2>1 DEF SlotInv
  <2>3. NoticeInv(b)
    BY <1>1, <1>2, <2>1 DEF NoticeInv, Busy
  <2>4. QueueInv(b)
    BY <1>1, <1>2, <2>1 DEF QueueInv, Busy
  <2>5. CoherenceInv(b)
    BY <1>2, <2>1 DEF CoherenceInv
  <2> QED BY <2>2, <2>3, <2>4, <2>5
<1>11. TakenInv
  BY DEF TakenInv, Computing
<1>12. AddressInv
  BY DEF AddressInv, Living
<1> QED BY <1>3, <1>4, <1>5, <1>6, <1>7, <1>8, <1>9, <1>10, <1>11, <1>12 DEF IInv, TypeInv

\* Every step keeps it.
LEMMA InvNext == IInv /\ [Next]_vars => IInv'
<1> SUFFICES ASSUME IInv, [Next]_vars PROVE IInv'
  OBVIOUS
<1>1. ASSUME NEW m \in Memories, CreateMemory(m) PROVE IInv'
  BY <1>1, KeptByCreateMemory
<1>2. ASSUME NEW b \in Bursts, CreateBurst(b) \/ FreeBurst(b) PROVE IInv'
  BY <1>2, KeptByBurstStep
<1>3. ASSUME NEW b \in Bursts, Serve(b) PROVE IInv'
  BY <1>3, KeptByServerReceives, KeptByEnsureCacheEntriesArePresent, KeptByServerExecutes,
     KeptByServerUnlocks DEF Serve
<1>4. ASSUME NEW b \in Bursts, serviceDied(b) PROVE IInv'
  BY <1>4, KeptByserviceDied
<1>5. ASSUME NEW t \in Threads, Begin(t) \/ FreeMemory(t) PROVE IInv'
  BY <1>5, KeptByBegin, KeptByFreeMemory
<1>6. ASSUME NEW t \in Threads, Step(t) PROVE IInv'
  BY <1>6, KeptByUse, KeptByCompute, KeptBySend, KeptByStopPolling, KeptByFindInvalid,
     KeptByReceive, KeptByFallback, KeptByUnlock, KeptByReturn, KeptByNextBurst,
     KeptByFreeMemoryInBurst, KeptByTellServer, KeptByDestroyed DEF Step
<1>7. CASE ServiceDies
  BY <1>7, KeptByServiceDies
<1>8. CASE UNCHANGED vars
  <2>1. /\ UNCHANGED <<life, mUsedBy, mCurrentlyRunning>>
        /\ UNCHANGED <<clientVars, queueVars, serverVars, threadVars>>
    BY <1>8 DEF vars, objectVars
  <2>2. ObjectTypes' /\ AddressInv'
    BY <2>1 DEF IInv, TypeInv, ObjectTypes, AddressInv
  <2> QED BY <2>1, <2>2, ObjectStep
<1> QED BY Zenon, <1>1, <1>2, <1>3, <1>4, <1>5, <1>6, <1>7, <1>8 DEF Next

\* The inductive invariant holds in every state.
THEOREM Foundation == Spec => []IInv
BY InvInit, InvNext, PTL DEF Spec

\* Every variable keeps its type, a free slot is empty, and a controller computes for one
\* thread at a time.
THEOREM Typing == Spec => []TypeOK
BY Foundation, Checked, PTL

\* A request is executed once at most, whenever the service dies and the path is changed.
THEOREM AtMostOnce == Spec => []ExecutedOnce
<1>1. IInv => ExecutedOnce
  BY DEF IInv, CallInv, ExecutedOnce
<1> QED BY <1>1, Foundation, PTL

-------------------------------------------------------------------------------
(* What is cached lives, as long as no memory remembers a burst that is gone under the     *)
(* address of one that lives; in particular as long as no burst has had that of another.   *)

\* Whatever a memory remembers under the address of a burst that lives is this burst.
NoStaleMark ==
    \A b \in Bursts, m \in Memories :
        ControllerAlive(b) => mUsedBy[m][address[b]] \in {Nobody, b}

\* No address has been used again, for a burst, up to now.
DistinctAddresses ==
    \A b, c \in Bursts :
        life[b] # "none" /\ life[c] # "none" /\ address[b] = address[c] => b = c

\* A burst that a memory remembers has been created.
MarkedInv == \A m \in Memories, a \in Addresses :
                 mUsedBy[m][a] # Nobody => life[mUsedBy[m][a]] # "none"

\* A burst that has been created is never taken back.
LEMMA StaysCreated ==
    ASSUME IInv, [Next]_vars, NEW b \in Bursts, life[b] # "none"
    PROVE  life'[b] # "none"
<1>1. /\ life \in [Memories \cup Bursts -> Lives] /\ b \notin Memories
      /\ \A t \in Threads : pc[t] = "destroy" => call[t].memory \in Memories
  BY NamesAssumption DEF IInv, TypeInv, ObjectTypes, CallInv, Destroying
<1>2. ASSUME NEW m \in Memories, CreateMemory(m) PROVE life'[b] # "none"
  BY <1>1, <1>2 DEF CreateMemory
<1>3. ASSUME NEW c \in Bursts, CreateBurst(c) \/ FreeBurst(c) PROVE life'[b] # "none"
  <2>1. PICK l \in {"alive", "freed"} : life' = [life EXCEPT ![c] = l]
    BY Zenon, <1>3 DEF CreateBurst, FreeBurst
  <2> QED BY <1>1, <2>1
<1>4. ASSUME NEW t \in Threads, FreeMemory(t) PROVE life'[b] # "none"
  <2>1. PICK m \in Memories : life' = [life EXCEPT ![m] = "destructor"]
    BY Zenon, <1>4 DEF FreeMemory
  <2> QED BY <1>1, <2>1
<1>5. ASSUME NEW t \in Threads, Destroyed(t) PROVE life'[b] # "none"
  <2>1. pc[t] = "destroy" /\ life' = [life EXCEPT ![call[t].memory] = "freed"]
    BY Zenon, <1>5 DEF Destroyed
  <2> QED BY <1>1, <2>1
<1>6. ASSUME NEW t \in Threads, Begin(t) \/ Step(t), ~Destroyed(t) PROVE UNCHANGED life
  BY Zenon, <1>6
     DEF Begin, Step, Use, Compute, Send, StopPolling, FindInvalid, Receive, Fallback, Unlock,
         Return, NextBurst, freeMemory, TellServer, objectVars
<1>7. ASSUME NEW c \in Bursts, Serve(c) \/ serviceDied(c) PROVE UNCHANGED life
  BY Zenon, <1>7
     DEF Serve, ServerReceives, EnsureCacheEntriesArePresent, ServerExecutes, ServerUnlocks,
         serviceDied, objectVars
<1>8. ASSUME ServiceDies \/ UNCHANGED vars PROVE UNCHANGED life
  BY Zenon, <1>8 DEF ServiceDies, vars, objectVars
<1> QED BY Zenon, <1>2, <1>3, <1>4, <1>5, <1>6, <1>7, <1>8 DEF Next

\* A memory remembers a burst when it is first used with it, and forgets all at its end.
LEMMA MarkedNext == IInv /\ MarkedInv /\ [Next]_vars => MarkedInv'
<1> SUFFICES ASSUME IInv, MarkedInv, [Next]_vars PROVE MarkedInv'
  OBVIOUS
<1>1. mUsedBy \in [Memories -> [Addresses -> Bursts \cup {Nobody}]] /\ ThreadTypes
  BY DEF IInv, TypeInv, ObjectTypes
<1>2. ASSUME \A m \in Memories, a \in Addresses :
                 mUsedBy'[m][a] # Nobody => mUsedBy'[m][a] = mUsedBy[m][a]
      PROVE  MarkedInv'
  BY <1>1, <1>2, StaysCreated DEF MarkedInv
<1>3. ASSUME NEW t \in Threads, Use(t) PROVE MarkedInv'
  <2>1. life[call[t].burst] # "none" /\ call[t].burst \in Bursts
    <3>1. pc[t] = "use"
      BY Zenon, <1>3 DEF Use
    <3> QED BY <3>1 DEF IInv, CallInv, Executing
  <2>2. \A m \in Memories, a \in Addresses :
            mUsedBy'[m][a] = mUsedBy[m][a] \/ mUsedBy'[m][a] = call[t].burst
    BY <1>3, EffectOfUse
  <2>3. UNCHANGED life
    BY Zenon, <1>3 DEF Use
  <2> QED BY <2>1, <2>2, <2>3 DEF MarkedInv
<1>4. ASSUME NEW t \in Threads, Destroyed(t) PROVE MarkedInv'
  <2>1. mUsedBy' = [mUsedBy EXCEPT ![call[t].memory] = [a \in Addresses |-> Nobody]]
    BY Zenon, <1>4 DEF Destroyed
  <2>2. \A m \in Memories, a \in Addresses :
            mUsedBy'[m][a] # Nobody => mUsedBy'[m][a] = mUsedBy[m][a]
    BY <1>1, <2>1
  <2> QED BY <1>2, <2>2
<1>5. ASSUME NEW t \in Threads, Begin(t) \/ FreeMemory(t) \/ Step(t),
             ~Use(t), ~Destroyed(t)
      PROVE  UNCHANGED mUsedBy
  BY Zenon, <1>5
     DEF Begin, FreeMemory, Step, Compute, Send, StopPolling, FindInvalid, Receive, Fallback,
         Unlock, Return, NextBurst, freeMemory, TellServer, objectVars
<1>6. ASSUME NEW m \in Memories, CreateMemory(m) PROVE UNCHANGED mUsedBy
  BY Zenon, <1>6 DEF CreateMemory
<1>7. ASSUME NEW b \in Bursts, CreateBurst(b) \/ FreeBurst(b) \/ Serve(b) \/ serviceDied(b)
      PROVE  UNCHANGED mUsedBy
  BY Zenon, <1>7
     DEF CreateBurst, FreeBurst, Serve, ServerReceives, EnsureCacheEntriesArePresent,
         ServerExecutes, ServerUnlocks, serviceDied, objectVars
<1>8. ASSUME ServiceDies \/ UNCHANGED vars PROVE UNCHANGED mUsedBy
  BY Zenon, <1>8 DEF ServiceDies, vars, objectVars
<1>9. UNCHANGED mUsedBy => MarkedInv'
  BY <1>2
<1> QED BY Zenon, <1>3, <1>4, <1>5, <1>6, <1>7, <1>8, <1>9 DEF Next

\* What a controller has under a key is a memory with that key, which remembers it.
LEMMA Entry ==
    ASSUME IInv, LifeInv, NEW b \in Bursts, NEW k \in Keys,
           ControllerAlive(b), mMemoryIdToSlot[b][k] # 0
    PROVE  \E n \in Memories : /\ n = mMemoryCache[b][mMemoryIdToSlot[b][k]]
                               /\ key[n] = k /\ Remembered(b, n)
<1>1. SlotInv(b)
  BY DEF IInv
<1> QED BY <1>1 DEF SlotInv, LifeInv

\* A thread that goes on to nothing that matters here.
Passes(u) == \/ pc'[u] = pc[u] /\ call'[u] = call[u]
             \/ /\ pc[u] # "idle" /\ pc'[u] \notin Destroying \cup {"compute"}
                /\ pc'[u] = "idle" \/ call'[u] = call[u]

\* Steps that leave the memories and the caches of the clients alone.
LEMMA LifeQuiet ==
    ASSUME LifeInv, UNCHANGED <<mUsedBy, mMemoryIdToSlot, mMemoryCache, pending>>,
           \A n \in Memories : life'[n] = life[n],
           \A b \in Bursts : life'[b] = "alive" => life[b] = "alive",
           IInv, \A u \in Threads : Passes(u)
    PROVE  LifeInv'
<1>1. ASSUME NEW u \in Threads, pc'[u] = "compute"
      PROVE  mUsedBy'[call'[u].memory][address[call'[u].burst]] = call'[u].burst
  <2>1. pc[u] = "compute" /\ call'[u] = call[u]
    BY <1>1 DEF Passes
  <2> QED BY <2>1 DEF LifeInv
<1>2. ASSUME NEW b \in Bursts, NEW k \in Keys, ControllerAlive(b)', mMemoryIdToSlot'[b][k] # 0
      PROVE  Remembered(b, mMemoryCache[b][mMemoryIdToSlot[b][k]])'
  <2>1. \A u \in Threads : pc'[u] # "idle" => pc[u] # "idle" /\ call'[u] = call[u]
    BY DEF Passes
  <2>2. ControllerAlive(b)
    BY <1>2, <2>1 DEF ControllerAlive, Holders
  <2>3. PICK n \in Memories : /\ n = mMemoryCache[b][mMemoryIdToSlot[b][k]]
                              /\ Remembered(b, n)
    BY <1>2, <2>2, Entry
  <2>4. \A u \in Threads : pc'[u] \in Destroying => pc'[u] = pc[u] /\ call'[u] = call[u]
    BY DEF Passes
  <2>5. Remembered(b, n)'
    BY <2>3, <2>4 DEF Remembered
  <2> QED BY <2>3, <2>5
<1> QED BY <1>1, <1>2 DEF LifeInv

\* A new memory has not been cached.
LEMMA LifeByCreateMemory ==
    ASSUME IInv, LifeInv, NEW m \in Memories, CreateMemory(m)
    PROVE  LifeInv'
<1>1. /\ life[m] = "none" /\ life' = [life EXCEPT ![m] = "alive"]
      /\ UNCHANGED <<mUsedBy, clientVars, threadVars>>
  BY Zenon DEF CreateMemory
<1>2. UNCHANGED <<mMemoryIdToSlot, mMemoryCache, pc, call, pending>>
  BY <1>1 DEF clientVars, threadVars
<1>3. life \in [Memories \cup Bursts -> Lives]
  BY DEF IInv, TypeInv, ObjectTypes
<1>4. \A b \in Bursts : life'[b] = life[b]
  BY <1>1, <1>3, NamesAssumption
<1>5. \A n \in Memories : life[n] \in Living => life'[n] \in Living
  BY <1>1, <1>3 DEF Living
<1>6. ASSUME NEW b \in Bursts, NEW k \in Keys, ControllerAlive(b)', mMemoryIdToSlot'[b][k] # 0
      PROVE  Remembered(b, mMemoryCache[b][mMemoryIdToSlot[b][k]])'
  <2>1. ControllerAlive(b)
    BY <1>2, <1>4, <1>6 DEF ControllerAlive, Holders
  <2>2. PICK n \in Memories : /\ n = mMemoryCache[b][mMemoryIdToSlot[b][k]]
                              /\ Remembered(b, n)
    BY <1>2, <1>6, <2>1, Entry
  <2>3. Remembered(b, n)'
    BY <1>1, <1>2, <1>5, <2>2 DEF Remembered
  <2> QED BY <1>2, <2>2, <2>3
<1> QED BY <1>1, <1>2, <1>6 DEF LifeInv

\* A new burst has nothing cached, and one that is freed is not looked at any more.
LEMMA LifeByBurstStep ==
    ASSUME IInv, LifeInv, NEW c \in Bursts, CreateBurst(c) \/ FreeBurst(c)
    PROVE  LifeInv'
<1>1. PICK l \in {"alive", "freed"} : /\ life' = [life EXCEPT ![c] = l]
                                      /\ l = "alive" => life[c] = "none"
  BY Zenon DEF CreateBurst, FreeBurst
<1>2. UNCHANGED <<mUsedBy, clientVars, threadVars>>
  BY Zenon DEF CreateBurst, FreeBurst
<1>3. UNCHANGED <<mMemoryIdToSlot, mMemoryCache, pc, call, pending>>
  BY <1>2 DEF clientVars, threadVars
<1>4. life \in [Memories \cup Bursts -> Lives]
  BY DEF IInv, TypeInv, ObjectTypes
<1>5. \A n \in Memories : life'[n] = life[n]
  BY <1>1, <1>4, NamesAssumption
<1>6. \A b \in Bursts : life'[b] = "alive" => life[b] = "alive" \/ life[b] = "none"
  BY <1>1, <1>4
<1>7. ASSUME NEW b \in Bursts, NEW k \in Keys, ControllerAlive(b)', mMemoryIdToSlot'[b][k] # 0
      PROVE  Remembered(b, mMemoryCache[b][mMemoryIdToSlot[b][k]])'
  <2>1. life[b] # "none"
    BY <1>3, <1>7 DEF IInv, TakenInv
  <2>2. ControllerAlive(b)
    BY <1>3, <1>6, <1>7, <2>1 DEF ControllerAlive, Holders
  <2>3. PICK n \in Memories : /\ n = mMemoryCache[b][mMemoryIdToSlot[b][k]]
                              /\ Remembered(b, n)
    BY <1>3, <1>7, <2>2, Entry
  <2>4. Remembered(b, n)'
    BY <1>2, <1>3, <1>5, <2>3 DEF Remembered
  <2> QED BY <1>3, <2>3, <2>4
<1> QED BY <1>2, <1>3, <1>7 DEF LifeInv

\* A call begins with a burst that is there.
LEMMA LifeByBegin ==
    ASSUME IInv, LifeInv, NEW t \in Threads, Begin(t)
    PROVE  LifeInv'
<1>1. pc[t] = "idle" /\ UNCHANGED <<life, mUsedBy, clientVars, pending>>
  BY Zenon DEF Begin
<1>2. PICK c \in Bursts, m \in Memories, l \in {"use", "return"} :
          /\ life[c] = "alive" /\ call' = [call EXCEPT ![t] = [burst |-> c, memory |-> m]]
          /\ pc' = [pc EXCEPT ![t] = l]
  BY Zenon DEF Begin, Goto
<1>3. ThreadTypes
  BY DEF IInv, TypeInv
<1>4. /\ pc'[t] \in {"use", "return"} /\ call'[t].burst = c
      /\ \A u \in Threads : u # t => pc'[u] = pc[u] /\ call'[u] = call[u]
  BY <1>2, <1>3 DEF ThreadTypes
<1>5. \A u \in Threads : pc'[u] \in Destroying \cup {"compute"} =>
          u # t /\ pc'[u] = pc[u] /\ call'[u] = call[u]
  BY <1>4 DEF Destroying
<1>6. UNCHANGED <<mMemoryIdToSlot, mMemoryCache>>
  BY <1>1 DEF clientVars
<1>7. ASSUME NEW b \in Bursts, NEW k \in Keys, ControllerAlive(b)', mMemoryIdToSlot'[b][k] # 0
      PROVE  Remembered(b, mMemoryCache[b][mMemoryIdToSlot[b][k]])'
  <2>1. ControllerAlive(b)
    BY <1>1, <1>2, <1>4, <1>7 DEF ControllerAlive, Holders
  <2>2. PICK n \in Memories : /\ n = mMemoryCache[b][mMemoryIdToSlot[b][k]]
                              /\ Remembered(b, n)
    BY <1>6, <1>7, <2>1, Entry
  <2>3. Remembered(b, n)'
    BY <1>1, <1>5, <2>2 DEF Remembered
  <2> QED BY <1>6, <2>2, <2>3
<1>8. ASSUME NEW u \in Threads, pc'[u] = "compute"
      PROVE  mUsedBy'[call'[u].memory][address[call'[u].burst]] = call'[u].burst
  <2>1. pc[u] = "compute" /\ call'[u] = call[u]
    BY <1>5, <1>8
  <2> QED BY <1>1, <2>1 DEF LifeInv
<1> QED BY <1>7, <1>8 DEF LifeInv

\* The memory is marked as used by the burst of the call.
LEMMA LifeByUse ==
    ASSUME IInv, LifeInv, NoStaleMark, NEW t \in Threads, Use(t)
    PROVE  LifeInv'
<1>1. /\ pc[t] = "use" /\ pc' = [pc EXCEPT ![t] = "compute"]
      /\ UNCHANGED <<life, clientVars, call, pending>>
  BY Zenon DEF Use, Goto
<1>2. UNCHANGED <<mMemoryIdToSlot, mMemoryCache>>
  BY <1>1 DEF clientVars
<1>3. ThreadTypes
  BY DEF IInv, TypeInv
<1>4. pc'[t] = "compute" /\ \A u \in Threads : u # t => pc'[u] = pc[u]
  BY <1>1, <1>3 DEF ThreadTypes
<1>5. \A n \in Memories, a \in Addresses :
          mUsedBy[n][a] # Nobody => mUsedBy'[n][a] = mUsedBy[n][a]
  BY EffectOfUse
<1>6. mUsedBy'[call[t].memory][address[call[t].burst]] = call[t].burst
  <2>1. PICK b \in Bursts, m \in Memories : b = call[t].burst /\ m = call[t].memory
    BY <1>1 DEF IInv, CallInv, Executing
  <2>2. ControllerAlive(b)
    BY <1>1, <2>1 DEF ControllerAlive, Holders
  <2>3. mUsedBy[m][address[b]] \in {Nobody, b} /\ address[b] \in Addresses
    BY <2>2, KeyAssumption DEF NoStaleMark
  <2>4. \/ mUsedBy'[m][address[b]] = mUsedBy[m][address[b]]
        \/ mUsedBy'[m][address[b]] = b
    BY <2>1, <2>3, EffectOfUse
  <2>5. mUsedBy'[m][address[b]] # Nobody
    BY <2>1, EffectOfUse
  <2> QED BY <2>1, <2>3, <2>4, <2>5
<1>7. ASSUME NEW u \in Threads, pc'[u] = "compute"
      PROVE  mUsedBy'[call'[u].memory][address[call'[u].burst]] = call'[u].burst
  <2>1. CASE u = t
    BY <1>1, <1>6, <2>1
  <2>2. CASE u # t
    <3>1. pc[u] = "compute"
      BY <1>4, <1>7, <2>2
    <3>2. call[u].burst \in Bursts /\ call[u].memory \in Memories
      BY <3>1 DEF IInv, CallInv, Executing
    <3>3. mUsedBy[call[u].memory][address[call[u].burst]] = call[u].burst
      BY <3>1 DEF LifeInv
    <3> QED BY <1>1, <1>5, <3>2, <3>3, KeyAssumption, NamesAssumption
  <2> QED BY <2>1, <2>2
<1>8. ASSUME NEW b \in Bursts, NEW k \in Keys, ControllerAlive(b)', mMemoryIdToSlot'[b][k] # 0
      PROVE  Remembered(b, mMemoryCache[b][mMemoryIdToSlot[b][k]])'
  <2>1. ControllerAlive(b)
    BY <1>1, <1>4, <1>8 DEF ControllerAlive, Holders
  <2>2. PICK n \in Memories : /\ n = mMemoryCache[b][mMemoryIdToSlot[b][k]]
                              /\ Remembered(b, n)
    BY <1>2, <1>8, <2>1, Entry
  <2>3. mUsedBy'[n][address[b]] = b
    BY <1>5, <2>2, KeyAssumption, NamesAssumption DEF Remembered
  <2>4. \A u \in Threads : pc'[u] \in Destroying => pc'[u] = pc[u]
    BY <1>4 DEF Destroying
  <2>5. Remembered(b, n)'
    BY <1>1, <2>2, <2>3, <2>4 DEF Remembered
  <2> QED BY <1>2, <2>2, <2>5
<1> QED BY <1>7, <1>8 DEF LifeInv

\* What is new in the cache is the memory of the call, which is alive and remembers the burst.
LEMMA LifeByCompute ==
    ASSUME IInv, LifeInv, NEW t \in Threads, Compute(t)
    PROVE  LifeInv'
<1>1. PICK c \in Bursts, m \in Memories :
              /\ call[t].burst = c /\ call[t].memory = m /\ life[m] = "alive"
              /\ pc[t] = "compute" /\ pc'[t] = "send" /\ Others(t)
              /\ getSlot(c, m)
  BY EffectOfCompute
<1>2. UNCHANGED <<objectVars, call, pending>>
  BY Zenon DEF Compute
<1>3. UNCHANGED <<life, mUsedBy>>
  BY <1>2 DEF objectVars
<1>4. \A u \in Threads : /\ pc'[u] \in Destroying \cup {"compute"} => pc'[u] = pc[u]
                         /\ pc[u] \in Destroying => pc'[u] = pc[u]
  BY <1>1 DEF Others, Destroying
<1>5. \A u \in Threads : pc'[u] # "idle" => pc[u] # "idle"
  BY <1>1 DEF Others
<1>6. /\ \A b \in Bursts : b # c => /\ mMemoryIdToSlot'[b] = mMemoryIdToSlot[b]
                                    /\ mMemoryCache'[b] = mMemoryCache[b]
      /\ \A k \in Keys : mMemoryIdToSlot'[c][k] # 0 =>
            \/ /\ mMemoryIdToSlot[c][k] # 0
               /\ mMemoryCache'[c][mMemoryIdToSlot'[c][k]]
                     = mMemoryCache[c][mMemoryIdToSlot[c][k]]
            \/ mMemoryCache'[c][mMemoryIdToSlot'[c][k]] = m
  BY <1>1, EffectOfGetSlot
<1>7. ASSUME NEW b \in Bursts, NEW n \in Memories, Remembered(b, n) PROVE Remembered(b, n)'
  BY <1>2, <1>3, <1>4, <1>7 DEF Remembered
<1>8. Remembered(c, m)
  <2>1. mUsedBy[m][address[c]] = c
    BY <1>1 DEF LifeInv
  <2>2. \A u \in Threads : pc[u] \in Destroying => call[u].memory # m
    BY <1>1 DEF IInv, CallInv
  <2> QED BY <1>1, <2>1, <2>2 DEF Remembered, Living
<1>9. ASSUME NEW b \in Bursts, NEW k \in Keys, ControllerAlive(b)', mMemoryIdToSlot'[b][k] # 0
      PROVE  Remembered(b, mMemoryCache[b][mMemoryIdToSlot[b][k]])'
  <2>1. ControllerAlive(b)
    BY <1>2, <1>3, <1>5, <1>9 DEF ControllerAlive, Holders
  <2>2. \/ /\ mMemoryIdToSlot[b][k] # 0
           /\ mMemoryCache'[b][mMemoryIdToSlot'[b][k]] = mMemoryCache[b][mMemoryIdToSlot[b][k]]
        \/ b = c /\ mMemoryCache'[c][mMemoryIdToSlot'[c][k]] = m
    BY <1>6, <1>9
  <2>3. PICK n \in Memories : n = mMemoryCache'[b][mMemoryIdToSlot'[b][k]] /\ Remembered(b, n)
    BY <1>8, <2>1, <2>2, Entry
  <2> QED BY <1>7, <2>3
<1>10. ASSUME NEW u \in Threads, pc'[u] = "compute"
       PROVE  mUsedBy'[call'[u].memory][address[call'[u].burst]] = call'[u].burst
  <2>1. pc[u] = "compute" /\ call'[u] = call[u]
    BY <1>2, <1>4, <1>10
  <2> QED BY <1>3, <2>1 DEF LifeInv
<1> QED BY <1>9, <1>10 DEF LifeInv

\* A destructor begins with all the bursts that the memory remembers before it.
LEMMA LifeByFreeMemory ==
    ASSUME IInv, LifeInv, NEW t \in Threads, FreeMemory(t)
    PROVE  LifeInv'
<1>1. PICK m \in Memories :
              /\ life[m] = "alive" /\ life' = [life EXCEPT ![m] = "destructor"]
              /\ \A u \in Threads : pc[u] # "idle" => call[u].memory # m
              /\ call'[t].memory = m /\ call'[t].burst = Nobody
              /\ pending'[t] = {a \in Addresses : mUsedBy[m][a] # Nobody}
              /\ pc[t] = "idle" /\ pc'[t] = "destroy" /\ Others(t)
  BY EffectOfFreeMemory
<1>2. UNCHANGED <<mUsedBy, clientVars>>
  BY Zenon DEF FreeMemory
<1>3. UNCHANGED <<mMemoryIdToSlot, mMemoryCache>>
  BY <1>2 DEF clientVars
<1>4. life \in [Memories \cup Bursts -> Lives]
  BY DEF IInv, TypeInv, ObjectTypes
<1>5. /\ \A b \in Bursts : life'[b] = life[b]
      /\ \A n \in Memories : life[n] \in Living => life'[n] \in Living
  BY <1>1, <1>4, NamesAssumption DEF Living
<1>6. \A u \in Threads : u # t => /\ pc'[u] = pc[u] /\ call'[u] = call[u]
                                  /\ pending'[u] = pending[u]
  BY <1>1 DEF Others
<1>7. ASSUME NEW b \in Bursts, NEW n \in Memories, Remembered(b, n) PROVE Remembered(b, n)'
  <2>1. life'[n] \in Living /\ mUsedBy'[n][address[b]] = b
    BY <1>2, <1>5, <1>7 DEF Remembered
  <2>2. ASSUME NEW u \in Threads, pc'[u] \in Destroying, call'[u].memory = n
        PROVE  address[b] \in pending'[u] \/ (pc'[u] = "lock" /\ call'[u].burst = b)
    <3>1. CASE u = t
      <4>1. n = m
        BY <1>1, <2>2, <3>1
      <4>2. mUsedBy[m][address[b]] # Nobody /\ address[b] \in Addresses
        BY <1>7, <4>1, KeyAssumption, NamesAssumption DEF Remembered
      <4> QED BY <1>1, <3>1, <4>2
    <3>2. CASE u # t
      BY <1>6, <1>7, <2>2, <3>2 DEF Remembered
    <3> QED BY <3>1, <3>2
  <2> QED BY <2>1, <2>2 DEF Remembered
<1>8. ASSUME NEW b \in Bursts, NEW k \in Keys, ControllerAlive(b)', mMemoryIdToSlot'[b][k] # 0
      PROVE  Remembered(b, mMemoryCache[b][mMemoryIdToSlot[b][k]])'
  <2>1. ControllerAlive(b)
    BY <1>1, <1>5, <1>6, <1>8, NamesAssumption DEF ControllerAlive, Holders
  <2>2. PICK n \in Memories : /\ n = mMemoryCache[b][mMemoryIdToSlot[b][k]]
                              /\ Remembered(b, n)
    BY <1>3, <1>8, <2>1, Entry
  <2> QED BY <1>3, <1>7, <2>2
<1>9. ASSUME NEW u \in Threads, pc'[u] = "compute"
      PROVE  mUsedBy'[call'[u].memory][address[call'[u].burst]] = call'[u].burst
  <2>1. pc[u] = "compute" /\ call'[u] = call[u]
    BY <1>1, <1>6, <1>9
  <2> QED BY <1>2, <2>1 DEF LifeInv
<1> QED BY <1>8, <1>9 DEF LifeInv

\* A thread in a destructor goes from one step to the next.  What it no longer has before
\* it, it is at.
LEMMA LifeByDestructor ==
    ASSUME IInv, LifeInv, NEW t \in Threads, Others(t), UNCHANGED <<life, mUsedBy>>,
           pc'[t] # "compute", call'[t].memory = call[t].memory, pc[t] # "idle",
           \A b \in Bursts : call'[t].burst = b => ControllerAlive(b),
           \A b \in Bursts, k \in Keys : mMemoryIdToSlot'[b][k] # 0 =>
               /\ mMemoryIdToSlot[b][k] # 0
               /\ mMemoryCache'[b][mMemoryIdToSlot'[b][k]]
                     = mMemoryCache[b][mMemoryIdToSlot[b][k]],
           \A b \in Bursts : ControllerAlive(b) =>
               \A k \in Keys :
                  /\ mMemoryIdToSlot'[b][k] # 0
                  /\ Remembered(b, mMemoryCache[b][mMemoryIdToSlot[b][k]])
                  /\ mMemoryCache[b][mMemoryIdToSlot[b][k]] = call[t].memory
                 => address[b] \in pending'[t] \/ (pc'[t] = "lock" /\ call'[t].burst = b)
    PROVE  LifeInv'
<1>1. \A u \in Threads : u # t => /\ pc'[u] = pc[u] /\ call'[u] = call[u]
                                  /\ pending'[u] = pending[u]
  BY DEF Others
<1>2. ASSUME NEW b \in Bursts, NEW k \in Keys, ControllerAlive(b)', mMemoryIdToSlot'[b][k] # 0
      PROVE  Remembered(b, mMemoryCache[b][mMemoryIdToSlot[b][k]])'
  <2>1. ControllerAlive(b)
    <3>1. CASE life[b] = "alive"
      BY <3>1 DEF ControllerAlive
    <3>2. CASE life[b] # "alive"
      <4>1. PICK u \in Threads : call'[u].burst = b /\ pc'[u] # "idle"
        BY <1>2, <3>2 DEF ControllerAlive, Holders
      <4>2. CASE u = t
        BY <4>1, <4>2
      <4>3. CASE u # t
        BY <1>1, <4>1, <4>3 DEF ControllerAlive, Holders
      <4> QED BY <4>2, <4>3
    <3> QED BY <3>1, <3>2
  <2>2. PICK n \in Memories : /\ n = mMemoryCache[b][mMemoryIdToSlot[b][k]]
                              /\ n = mMemoryCache'[b][mMemoryIdToSlot'[b][k]]
                              /\ Remembered(b, n)
    BY <1>2, <2>1, Entry
  <2>3. ASSUME NEW u \in Threads, pc'[u] \in Destroying, call'[u].memory = n
        PROVE  address[b] \in pending'[u] \/ (pc'[u] = "lock" /\ call'[u].burst = b)
    <3>1. CASE u = t
      BY <1>2, <2>1, <2>2, <2>3, <3>1
    <3>2. CASE u # t
      BY <1>1, <2>2, <2>3, <3>2 DEF Remembered
    <3> QED BY <3>1, <3>2
  <2>4. Remembered(b, n)'
    BY <2>2, <2>3 DEF Remembered
  <2> QED BY <2>2, <2>4
<1>3. ASSUME NEW u \in Threads, pc'[u] = "compute"
      PROVE  mUsedBy'[call'[u].memory][address[call'[u].burst]] = call'[u].burst
  <2>1. pc[u] = "compute" /\ call'[u] = call[u]
    BY <1>1, <1>3
  <2> QED BY <2>1 DEF LifeInv
<1> QED BY <1>2, <1>3 DEF LifeInv

\* The burst at the address that is taken off is gone, or the one that the thread locks.
LEMMA LifeByNextBurst ==
    ASSUME IInv, LifeInv, NEW t \in Threads, NextBurst(t)
    PROVE  LifeInv'
<1>1. PICK a \in Addresses, c \in Bursts :
              /\ c = mUsedBy[call[t].memory][a]
              /\ pending'[t] = pending[t] \ {a}
              /\ call'[t].memory = call[t].memory
              /\ pc[t] = "destroy" /\ Others(t)
              /\ \/ pc'[t] = "lock" /\ call'[t].burst = c /\ ControllerAlive(c)
                 \/ pc'[t] = "destroy" /\ call' = call /\ ~ControllerAlive(c)
  BY EffectOfNextBurst
<1>2. UNCHANGED <<objectVars, clientVars>>
  BY Zenon DEF NextBurst
<1>3. UNCHANGED <<life, mUsedBy, mMemoryIdToSlot, mMemoryCache>>
  BY <1>2 DEF objectVars, clientVars
<1>4. \A b \in Bursts : call'[t].burst = b => ControllerAlive(b)
  BY <1>1 DEF ControllerAlive, Holders
<1>5. ASSUME NEW b \in Bursts, ControllerAlive(b), Remembered(b, call[t].memory)
      PROVE  address[b] \in pending'[t] \/ (pc'[t] = "lock" /\ call'[t].burst = b)
  <2>1. address[b] \in pending[t] /\ mUsedBy[call[t].memory][address[b]] = b
    BY <1>1, <1>5 DEF Remembered, Destroying
  <2>2. address[b] = a => b = c
    BY <1>1, <2>1
  <2> QED BY <1>1, <1>5, <2>1, <2>2
<1>6. pc'[t] # "compute" /\ pc[t] # "idle"
  BY <1>1
<1> QED BY <1>1, <1>3, <1>4, <1>5, <1>6, LifeByDestructor

\* The slot of the memory is freed, or the burst did not have it cached.
LEMMA LifeByFreeMemoryInBurst ==
    ASSUME IInv, LifeInv, NEW t \in Threads, freeMemory(t)
    PROVE  LifeInv'
<1>1. PICK c \in Bursts, m \in Memories, s \in Nat :
              /\ call[t].burst = c /\ call[t].memory = m /\ life[c] # "none"
              /\ s = mMemoryIdToSlot[c][key[m]] /\ pc[t] = "lock" /\ mMutex[c] = Nobody
              /\ Others(t) /\ call'[t].memory = m
              /\ \/ /\ s = 0 /\ pc'[t] = "destroy" /\ call'[t].burst = Nobody
                    /\ UNCHANGED clientVars
                 \/ /\ s # 0 /\ pc'[t] = "tell server" /\ call' = call
                    /\ mMutex' = [mMutex EXCEPT ![c] = t]
                    /\ mMemoryIdToSlot' = [mMemoryIdToSlot EXCEPT ![c][key[m]] = 0]
                    /\ mMemoryCache' = [mMemoryCache EXCEPT ![c][s] = Nobody]
                    /\ mFreeSlots' = [mFreeSlots EXCEPT ![c] = <<s>> \o @]
  BY EffectOfFreeMemoryInBurst
<1>2. UNCHANGED <<objectVars, pending>>
  BY Zenon DEF freeMemory
<1>3. UNCHANGED <<life, mUsedBy>>
  BY <1>2 DEF objectVars
<1>4. \A b \in Bursts : call'[t].burst = b => ControllerAlive(b)
  BY <1>1, NamesAssumption DEF ControllerAlive, Holders
<1>5. ClientTypes /\ SlotInv(c) /\ key[m] \in Keys
  BY KeyAssumption DEF IInv, TypeInv
<1>6. mMemoryIdToSlot'[c][key[m]] = 0
  <2>1. CASE s = 0 /\ UNCHANGED clientVars
    BY <1>1, <2>1 DEF clientVars
  <2>2. CASE mMemoryIdToSlot' = [mMemoryIdToSlot EXCEPT ![c][key[m]] = 0]
    BY <1>5, <2>2 DEF ClientTypes
  <2> QED BY <1>1, <2>1, <2>2
<1>7. ASSUME NEW b \in Bursts, NEW k \in Keys, mMemoryIdToSlot'[b][k] # 0
      PROVE  /\ mMemoryIdToSlot[b][k] # 0
             /\ mMemoryCache'[b][mMemoryIdToSlot'[b][k]] = mMemoryCache[b][mMemoryIdToSlot[b][k]]
  <2>1. CASE UNCHANGED clientVars
    BY <1>7, <2>1 DEF clientVars
  <2>2. CASE /\ s # 0 /\ mMemoryIdToSlot' = [mMemoryIdToSlot EXCEPT ![c][key[m]] = 0]
             /\ mMemoryCache' = [mMemoryCache EXCEPT ![c][s] = Nobody]
    <3>1. mMemoryIdToSlot'[b][k] = mMemoryIdToSlot[b][k]
      BY <1>5, <1>7, <2>2 DEF ClientTypes
    <3>2. CASE b # c
      BY <1>5, <1>7, <2>2, <3>1, <3>2 DEF ClientTypes
    <3>3. CASE b = c
      <4>1. k # key[m]
        BY <1>6, <1>7, <3>3
      <4>2. mMemoryIdToSlot[b][k] # s
        <5>1. key[mMemoryCache[c][s]] = key[m]
          BY <1>1, <1>5, <2>2 DEF SlotInv
        <5>2. key[mMemoryCache[c][mMemoryIdToSlot[c][k]]] = k
          BY <1>5, <1>7, <3>1, <3>3 DEF SlotInv
        <5> QED BY <3>3, <4>1, <5>1, <5>2
      <4>3. mMemoryCache'[c] = [mMemoryCache[c] EXCEPT ![s] = Nobody]
        BY <1>5, <2>2 DEF ClientTypes
      <4>4. /\ mMemoryCache[c] \in Seq(Memories \cup {Nobody})
            /\ mMemoryIdToSlot[c][k] \in 1 .. Len(mMemoryCache[c])
        <5>1. mMemoryIdToSlot[c][k] \in Nat /\ mMemoryCache[c] \in Seq(Memories \cup {Nobody})
          BY <1>5 DEF ClientTypes
        <5>2. mMemoryIdToSlot[c][k] # 0 /\ mMemoryIdToSlot[c][k] <= Len(mMemoryCache[c])
          BY <1>5, <1>7, <3>1, <3>3 DEF SlotInv
        <5>3. Len(mMemoryCache[c]) \in Nat
          BY <5>1, LenProperties
        <5> QED BY <5>1, <5>2, <5>3
      <4>5. DOMAIN mMemoryCache[c] = 1 .. Len(mMemoryCache[c])
        BY <4>4, LenProperties
      <4>6. mMemoryCache'[c][mMemoryIdToSlot[c][k]] = mMemoryCache[c][mMemoryIdToSlot[c][k]]
        BY <3>3, <4>2, <4>3, <4>4, <4>5
      <4> QED BY <1>7, <3>1, <3>3, <4>6
    <3> QED BY <3>2, <3>3
  <2> QED BY <1>1, <2>1, <2>2
<1>8. ASSUME NEW b \in Bursts, ControllerAlive(b), NEW k \in Keys, mMemoryIdToSlot'[b][k] # 0,
             Remembered(b, mMemoryCache[b][mMemoryIdToSlot[b][k]]),
             mMemoryCache[b][mMemoryIdToSlot[b][k]] = call[t].memory
      PROVE  address[b] \in pending'[t] \/ (pc'[t] = "lock" /\ call'[t].burst = b)
  <2>1. mMemoryIdToSlot[b][k] # 0
    BY <1>7, <1>8
  <2>2. key[m] = k
    <3>1. PICK n \in Memories : n = mMemoryCache[b][mMemoryIdToSlot[b][k]] /\ key[n] = k
      BY <1>8, <2>1, Entry
    <3> QED BY <1>1, <1>8, <3>1
  <2>3. b # c
    BY <1>6, <1>8, <2>2
  <2>4. address[b] \in pending[t] \/ (pc[t] = "lock" /\ call[t].burst = b)
    BY <1>1, <1>8 DEF Remembered, Destroying
  <2> QED BY <1>1, <1>2, <2>3, <2>4
<1>9. pc'[t] # "compute" /\ pc[t] # "idle" /\ call'[t].memory = call[t].memory
  BY <1>1
<1> QED BY <1>1, <1>3, <1>4, <1>7, <1>8, <1>9, LifeByDestructor

\* The server's part of a destructor changes nothing on the client's side.
LEMMA LifeByTellServer ==
    ASSUME IInv, LifeInv, NEW t \in Threads, TellServer(t)
    PROVE  LifeInv'
<1>1. /\ pc[t] = "tell server" /\ pc'[t] = "destroy" /\ Others(t)
      /\ call'[t].memory = call[t].memory /\ call'[t].burst = Nobody
  <2>1. PICK b \in Bursts, m \in Memories :
              /\ call[t].burst = b /\ call[t].memory = m /\ mMutex[b] = t
              /\ pc[t] = "tell server" /\ pc'[t] = "destroy"
              /\ Others(t) /\ call'[t].memory = m /\ call'[t].burst = Nobody
    BY Zenon, EffectOfTellServer
  <2> QED BY <2>1
<1>2. UNCHANGED <<objectVars, mMemoryIdToSlot, mMemoryCache, pending>>
  BY Zenon DEF TellServer
<1>3. UNCHANGED <<life, mUsedBy>>
  BY <1>2 DEF objectVars
<1>4. \A b \in Bursts : call'[t].burst = b => ControllerAlive(b)
  BY <1>1, NamesAssumption
<1>5. ASSUME NEW b \in Bursts, Remembered(b, call[t].memory) PROVE address[b] \in pending'[t]
  BY <1>1, <1>2, <1>5 DEF Remembered, Destroying
<1>6. pc'[t] # "compute" /\ pc[t] # "idle"
  BY <1>1
<1> QED BY <1>1, <1>2, <1>3, <1>4, <1>5, <1>6, LifeByDestructor

\* When a destructor ends, no burst that is there remembers the memory.
LEMMA LifeByDestroyed ==
    ASSUME IInv, LifeInv, NEW t \in Threads, Destroyed(t)
    PROVE  LifeInv'
<1>1. PICK m \in Memories :
              /\ m = call[t].memory /\ life[m] = "destructor" /\ pending[t] = {}
              /\ pc[t] = "destroy" /\ pc'[t] = "return" /\ Others(t)
              /\ UNCHANGED <<call, pending>>
              /\ life' = [life EXCEPT ![m] = "freed"]
              /\ mUsedBy' = [mUsedBy EXCEPT ![m] = [a \in Addresses |-> Nobody]]
              /\ \A u \in Threads : u # t /\ pc[u] \in Executing \cup Destroying =>
                    call[u].memory \in Memories /\ call[u].memory # m
  BY EffectOfDestroyed
<1>2. UNCHANGED clientVars
  BY Zenon DEF Destroyed
<1>3. UNCHANGED <<mMemoryIdToSlot, mMemoryCache>>
  BY <1>2 DEF clientVars
<1>4. ObjectTypes
  BY DEF IInv, TypeInv
<1>5. /\ \A b \in Bursts : life'[b] = life[b]
      /\ \A n \in Memories : n # m => life'[n] = life[n] /\ mUsedBy'[n] = mUsedBy[n]
  BY <1>1, <1>4, NamesAssumption DEF ObjectTypes
<1>6. \A u \in Threads : pc'[u] \in Destroying \cup {"compute"} => u # t /\ pc'[u] = pc[u]
  BY <1>1 DEF Others, Destroying
<1>7. ASSUME NEW b \in Bursts, NEW k \in Keys, ControllerAlive(b)', mMemoryIdToSlot'[b][k] # 0
      PROVE  Remembered(b, mMemoryCache[b][mMemoryIdToSlot[b][k]])'
  <2>1. \A u \in Threads : pc'[u] # "idle" => pc[u] # "idle"
    BY <1>1 DEF Others
  <2>2. ControllerAlive(b)
    BY <1>1, <1>5, <1>7, <2>1 DEF ControllerAlive, Holders
  <2>3. PICK n \in Memories : /\ n = mMemoryCache[b][mMemoryIdToSlot[b][k]]
                              /\ Remembered(b, n)
    BY <1>3, <1>7, <2>2, Entry
  <2>4. n # m
    BY <1>1, <2>3 DEF Remembered, Destroying
  <2>5. Remembered(b, n)'
    BY <1>1, <1>5, <1>6, <2>3, <2>4 DEF Remembered
  <2> QED BY <1>3, <2>3, <2>5
<1>8. ASSUME NEW u \in Threads, pc'[u] = "compute"
      PROVE  mUsedBy'[call'[u].memory][address[call'[u].burst]] = call'[u].burst
  <2>1. pc[u] = "compute" /\ u # t /\ call'[u] = call[u]
    BY <1>1, <1>6, <1>8
  <2>2. call[u].memory \in Memories /\ call[u].memory # m
    BY <1>1, <2>1 DEF Executing
  <2> QED BY <1>5, <2>1, <2>2 DEF LifeInv
<1> QED BY <1>7, <1>8 DEF LifeInv

\* The steps of a thread that are outside the destructor and do not add to a cache.
LEMMA LifeByPassing ==
    ASSUME IInv, LifeInv, NEW t \in Threads,
           \/ Send(t) \/ StopPolling(t) \/ FindInvalid(t) \/ Receive(t)
           \/ Fallback(t) \/ Unlock(t) \/ Return(t)
    PROVE  LifeInv'
<1>1. /\ UNCHANGED <<life, mUsedBy, pending>>
      /\ UNCHANGED <<mMemoryIdToSlot, mMemoryCache>>
  BY Zenon DEF Send, StopPolling, FindInvalid, Receive, Fallback, Unlock, Return, objectVars,
               clientVars
<1>2. PICK l \in {"polling", "waiting", "fallback", "unlock", "return", "idle"} :
          pc' = [pc EXCEPT ![t] = l] /\ (l = "idle" \/ call' = call)
  BY Zenon DEF Send, StopPolling, FindInvalid, Receive, Fallback, Unlock, Return, Computed,
               AfterCompute, Goto
<1>3. pc[t] # "idle" /\ \A u \in Threads : u # t => call'[u] = call[u]
  <2>1. pc[t] \in {"send", "polling", "waiting", "fallback", "unlock", "return"}
    BY Zenon DEF Send, StopPolling, FindInvalid, Receive, Fallback, Unlock, Return
  <2>2. call' = call \/ call' = [call EXCEPT ![t] = NoCall]
    BY Zenon DEF Send, StopPolling, FindInvalid, Receive, Fallback, Unlock, Return
  <2> QED BY <2>1, <2>2 DEF IInv, TypeInv, ThreadTypes
<1>4. ThreadTypes
  BY DEF IInv, TypeInv
<1>5. pc'[t] = l /\ \A u \in Threads : u # t => pc'[u] = pc[u]
  BY <1>2, <1>4 DEF ThreadTypes
<1>6. \A u \in Threads : Passes(u)
  BY <1>2, <1>3, <1>5 DEF Passes, Destroying
<1> QED BY <1>1, <1>6, LifeQuiet

\* The steps of the servers and the death of the service.
LEMMA LifeByService ==
    ASSUME IInv, LifeInv, (\E b \in Bursts : Serve(b) \/ serviceDied(b)) \/ ServiceDies
    PROVE  LifeInv'
<1>1. UNCHANGED <<objectVars, clientVars, pc, call, pending>>
  BY Zenon DEF Serve, ServerReceives, EnsureCacheEntriesArePresent, ServerExecutes,
               ServerUnlocks, serviceDied, ServiceDies, threadVars
<1>2. UNCHANGED <<life, mUsedBy, mMemoryIdToSlot, mMemoryCache>>
  BY <1>1 DEF objectVars, clientVars
<1>3. \A u \in Threads : Passes(u)
  BY <1>1 DEF Passes
<1> QED BY <1>1, <1>2, <1>3, LifeQuiet

\* Every step keeps it, unless a memory remembers a burst that is gone.
LEMMA LifeNext == NoStaleMark /\ IInv /\ LifeInv /\ [Next]_vars => LifeInv'
<1> SUFFICES ASSUME NoStaleMark, IInv, LifeInv, [Next]_vars PROVE LifeInv'
  OBVIOUS
<1>1. ASSUME NEW m \in Memories, CreateMemory(m) PROVE LifeInv'
  BY <1>1, LifeByCreateMemory
<1>2. ASSUME NEW b \in Bursts, CreateBurst(b) \/ FreeBurst(b) PROVE LifeInv'
  BY <1>2, LifeByBurstStep
<1>3. ASSUME NEW b \in Bursts, Serve(b) \/ serviceDied(b) PROVE LifeInv'
  BY <1>3, LifeByService
<1>4. ASSUME NEW t \in Threads, Begin(t) \/ FreeMemory(t) PROVE LifeInv'
  BY <1>4, LifeByBegin, LifeByFreeMemory
<1>5. ASSUME NEW t \in Threads, Step(t) PROVE LifeInv'
  BY <1>5, LifeByUse, LifeByCompute, LifeByPassing, LifeByNextBurst, LifeByFreeMemoryInBurst,
     LifeByTellServer, LifeByDestroyed DEF Step
<1>6. CASE ServiceDies
  BY <1>6, LifeByService
<1>7. CASE UNCHANGED vars
  <2>1. UNCHANGED <<life, mUsedBy, mMemoryIdToSlot, mMemoryCache, pc, call, pending>>
    BY <1>7 DEF vars, objectVars, clientVars, threadVars
  <2>2. \A u \in Threads : Passes(u)
    BY <2>1 DEF Passes
  <2> QED BY <2>1, <2>2, LifeQuiet
<1> QED BY Zenon, <1>1, <1>2, <1>3, <1>4, <1>5, <1>6, <1>7 DEF Next

\* As long as no two bursts have had the same address no memory remembers a wrong one.
LEMMA DistinctIsClean == IInv /\ MarkedInv /\ DistinctAddresses => NoStaleMark
<1> SUFFICES ASSUME IInv, MarkedInv, DistinctAddresses, NEW b \in Bursts, NEW m \in Memories,
                    ControllerAlive(b), mUsedBy[m][address[b]] # Nobody
             PROVE  mUsedBy[m][address[b]] = b
  BY DEF NoStaleMark
<1>1. address[b] \in Addresses /\ mUsedBy[m][address[b]] \in Bursts
  BY KeyAssumption DEF IInv, TypeInv, ObjectTypes
<1>2. /\ address[mUsedBy[m][address[b]]] = address[b]
      /\ life[mUsedBy[m][address[b]]] # "none"
  BY <1>1 DEF IInv, AddressInv, MarkedInv
<1>3. life[b] # "none"
  <2>1. ASSUME NEW t \in Threads, call[t].burst = b, pc[t] # "idle" PROVE life[b] # "none"
    BY Created, <2>1
  <2> QED BY <2>1 DEF ControllerAlive, Holders
<1> QED BY <1>1, <1>2, <1>3 DEF DistinctAddresses

\* An address that is used twice has been so for ever.
LEMMA StaysDistinct == IInv /\ [Next]_vars /\ DistinctAddresses' => DistinctAddresses
BY StaysCreated DEF DistinctAddresses

\* What is cached is remembered and alive, as long as no two bursts have had the same
\* address.
THEOREM Remembrance == Spec => [](IInv /\ MarkedInv /\ (DistinctAddresses => LifeInv))
<1>1. Init => LifeInv /\ MarkedInv
  BY DEF Init, LifeInv, MarkedInv
<1>2. IInv /\ MarkedInv /\ (DistinctAddresses => LifeInv) /\ [Next]_vars
      => MarkedInv' /\ (DistinctAddresses' => LifeInv')
  BY LifeNext, MarkedNext, StaysDistinct, DistinctIsClean
<1> QED BY <1>1, <1>2, Foundation, PTL DEF Spec

\* What is cached is remembered and alive in every execution in which no memory ever
\* remembers a burst that is gone under the address of one that lives.
THEOREM RemembranceIfClean == Spec /\ []NoStaleMark => [](IInv /\ LifeInv)
<1>1. Init => LifeInv
  BY DEF Init, LifeInv
<1>2. NoStaleMark /\ IInv /\ LifeInv /\ [Next]_vars => LifeInv'
  BY LifeNext
<1> QED BY <1>1, <1>2, Foundation, PTL DEF Spec

\* What Entry says of what is cached.
LEMMA CachedLives == IInv /\ LifeInv => CachedMemoriesLive
BY Entry DEF CachedMemoriesLive, Remembered, Living

\* A memory that is destroyed leaves no trace in the caches of the bursts, as long as no
\* two of them have had the same address (Memory::~Memory): run burst_address shows what
\* a second one does.
THEOREM NoTrace == Spec => [](DistinctAddresses => CachedMemoriesLive)
BY CachedLives, Remembrance, PTL

\* The same whenever addresses are used again, if the memories that remember the burst which
\* had the address are destroyed before another burst gets it: what makes a memory stay in a
\* cache is the expired entry that emplace keeps (usedBy), and nothing else.
THEOREM NoTraceIfClean == Spec /\ []NoStaleMark => []CachedMemoriesLive
BY CachedLives, RemembranceIfClean, PTL

-------------------------------------------------------------------------------
(* What is executed is on the memory of the call.                           *)

\* Steps that bring no result, and end no call with success.
LEMMA SuccessQuiet ==
    ASSUME SuccessInv, results' = results,
           \A u \in Threads : \/ /\ outcome'[u] = outcome[u] /\ on'[u] = on[u]
                                 /\ call'[u] = call[u]
                                 /\ pc'[u] \in Awaiting => pc[u] \in Awaiting
                              \/ outcome'[u] # "NO_ERROR" /\ pc'[u] \notin Awaiting
    PROVE  SuccessInv'
<1> SUFFICES ASSUME NEW u \in Threads
             PROVE  /\ outcome'[u] = "NO_ERROR" => on'[u] = call'[u].memory
                    /\ pc'[u] \in Awaiting /\ results'[call'[u].burst] # <<>>
                       /\ results'[call'[u].burst][1] = "NO_ERROR" => on'[u] = call'[u].memory
  BY DEF SuccessInv
<1>1. CASE /\ outcome'[u] = outcome[u] /\ on'[u] = on[u]
           /\ call'[u] = call[u] /\ (pc'[u] \in Awaiting => pc[u] \in Awaiting)
  BY <1>1 DEF SuccessInv
<1>2. CASE outcome'[u] # "NO_ERROR" /\ pc'[u] \notin Awaiting
  BY <1>2
<1> QED BY <1>1, <1>2

\* The steps that do not run anything.
LEMMA SuccessByPassing ==
    ASSUME IInv, SuccessInv, NEW t \in Threads,
           \/ Begin(t) \/ FreeMemory(t) \/ Use(t) \/ StopPolling(t) \/ FindInvalid(t)
           \/ Unlock(t) \/ Return(t)
    PROVE  SuccessInv'
<1>1. results' = results
  BY Zenon DEF Begin, FreeMemory, Use, StopPolling, FindInvalid, Unlock, Return, queueVars
<1>2. ThreadTypes
  BY DEF IInv, TypeInv
<1>3. CASE Begin(t) \/ FreeMemory(t)
  <2>1. pc[t] = "idle" /\ on' = on
    BY Zenon, <1>3 DEF Begin, FreeMemory
  <2>2. \/ outcome' = outcome
        \/ outcome' = [outcome EXCEPT ![t] = "BAD_STATE"]
    BY Zenon, <1>3 DEF Begin, FreeMemory
  <2>3. PICK l \in {"use", "return", "destroy"} : pc' = [pc EXCEPT ![t] = l]
    BY Zenon, <1>3 DEF Begin, FreeMemory, Goto
  <2>4. outcome[t] = "none"
    BY <2>1 DEF IInv, CallInv
  <2>5. /\ outcome'[t] # "NO_ERROR" /\ pc'[t] \notin Awaiting
        /\ \A u \in Threads : u # t => outcome'[u] = outcome[u] /\ pc'[u] = pc[u]
    BY <1>2, <2>2, <2>3, <2>4 DEF ThreadTypes, Awaiting
  <2>6. \A u \in Threads : u # t => call'[u] = call[u]
    <3>1. PICK x : call' = [call EXCEPT ![t] = x]
      BY Zenon, <1>3 DEF Begin, FreeMemory
    <3> QED BY <1>2, <3>1 DEF ThreadTypes
  <2> QED BY <1>1, <2>1, <2>5, <2>6, SuccessQuiet
<1>4. CASE Use(t) \/ StopPolling(t) \/ Unlock(t)
  <2>1. UNCHANGED <<outcome, on, call>>
    BY Zenon, <1>4 DEF Use, StopPolling, Unlock
  <2>2. \/ pc[t] = "polling" /\ pc' = [pc EXCEPT ![t] = "waiting"]
        \/ pc' = [pc EXCEPT ![t] = "compute"] \/ pc' = [pc EXCEPT ![t] = "return"]
    BY Zenon, <1>4 DEF Use, StopPolling, Unlock, Goto
  <2>3. \A u \in Threads : pc'[u] \in Awaiting => pc[u] \in Awaiting
    BY <1>2, <2>2 DEF ThreadTypes, Awaiting
  <2> QED BY <1>1, <2>1, <2>3, SuccessQuiet
<1>5. CASE FindInvalid(t)
  <2>1. /\ UNCHANGED <<call, on>> /\ outcome' = [outcome EXCEPT ![t] = "OP_FAILED"]
        /\ pc' = [pc EXCEPT ![t] = "unlock"]
    BY Zenon, <1>5 DEF FindInvalid, Computed, AfterCompute, Goto
  <2>2. /\ outcome'[t] = "OP_FAILED" /\ pc'[t] \notin Awaiting
        /\ \A u \in Threads : u # t => outcome'[u] = outcome[u] /\ pc'[u] = pc[u]
    BY <1>2, <2>1 DEF ThreadTypes, Awaiting
  <2> QED BY <1>1, <2>1, <2>2, SuccessQuiet
<1>6. CASE Return(t)
  <2>1. /\ call' = [call EXCEPT ![t] = NoCall] /\ outcome' = [outcome EXCEPT ![t] = "none"]
        /\ on' = [on EXCEPT ![t] = Nobody] /\ pc' = [pc EXCEPT ![t] = "idle"]
    BY Zenon, <1>6 DEF Return, Goto
  <2>2. /\ outcome'[t] = "none" /\ pc'[t] \notin Awaiting
        /\ \A u \in Threads : u # t => /\ outcome'[u] = outcome[u] /\ pc'[u] = pc[u]
                                       /\ call'[u] = call[u] /\ on'[u] = on[u]
    BY <1>2, <2>1 DEF ThreadTypes, Awaiting
  <2> QED BY <1>1, <2>2, SuccessQuiet
<1> QED BY <1>3, <1>4, <1>5, <1>6

\* Compute, and the steps of destructors.
LEMMA SuccessByDestructor ==
    ASSUME IInv, SuccessInv, NEW t \in Threads,
           Compute(t) \/ NextBurst(t) \/ freeMemory(t) \/ TellServer(t) \/ Destroyed(t)
    PROVE  SuccessInv'
<1>1. results' = results /\ UNCHANGED <<outcome, on>>
  BY Zenon DEF Compute, NextBurst, freeMemory, TellServer, Destroyed, queueVars
<1>2. ThreadTypes
  BY DEF IInv, TypeInv
<1>3. pc[t] \in {"compute", "destroy", "lock", "tell server"}
  BY Zenon DEF Compute, NextBurst, freeMemory, TellServer, Destroyed
<1>4. PICK l \in {"send", "destroy", "lock", "tell server", "return"} :
          pc' = [pc EXCEPT ![t] = l] \/ pc' = pc
  BY Zenon DEF Compute, NextBurst, freeMemory, TellServer, Destroyed, Goto
<1>5. \A u \in Threads : u # t => call'[u] = call[u]
  <2>1. \/ call' = call
        \/ \E b : call' = [call EXCEPT ![t].burst = b]
    BY Zenon DEF Compute, NextBurst, freeMemory, TellServer, Destroyed
  <2> QED BY <1>2, <2>1 DEF ThreadTypes
<1>6. outcome[t] = "none" /\ pc[t] \notin Awaiting
  BY <1>3 DEF IInv, CallInv, Awaiting
<1>7. pc'[t] \notin Awaiting /\ \A u \in Threads : u # t => pc'[u] = pc[u]
  BY <1>2, <1>4, <1>6 DEF ThreadTypes, Awaiting
<1> QED BY <1>1, <1>5, <1>6, <1>7, SuccessQuiet

\* When a request is sent, no result is there yet.
LEMMA SuccessBySend ==
    ASSUME IInv, SuccessInv, NEW t \in Threads, Send(t)
    PROVE  SuccessInv'
<1>1. /\ pc[t] = "send" /\ UNCHANGED <<results, call, outcome, on>>
      /\ \/ "sender" \in mValid[call[t].burst] /\ pc' = [pc EXCEPT ![t] = "polling"]
         \/ pc' = [pc EXCEPT ![t] = "fallback"]
  BY Zenon DEF Send, Goto
<1>2. ThreadTypes
  BY DEF IInv, TypeInv
<1>3. outcome[t] = "none" /\ call[t].burst \in Bursts /\ mMutex[call[t].burst] = t
  BY <1>1 DEF IInv, CallInv, MutexInv, Executing, Locking, Computing
<1>4. PICK b \in Bursts : b = call[t].burst
  BY <1>3
<1>5. "sender" \in mValid[b] => results[b] = <<>>
  BY <1>1, <1>3, <1>4, NothingUnderWay DEF Awaiting
<1>6. pc'[t] \in Awaiting => results[b] = <<>>
  BY <1>1, <1>2, <1>4, <1>5 DEF ThreadTypes, Awaiting
<1>7. \A u \in Threads : u # t => pc'[u] = pc[u]
  BY <1>1, <1>2 DEF ThreadTypes
<1> QED BY <1>1, <1>3, <1>4, <1>6, <1>7 DEF SuccessInv

\* A result is received once, and is that of the execution that has put it there.
LEMMA SuccessByReceive ==
    ASSUME IInv, SuccessInv, NEW t \in Threads, Receive(t)
    PROVE  SuccessInv'
<1>1. /\ pc[t] \in Awaiting /\ results[call[t].burst] # <<>>
      /\ results' = [results EXCEPT ![call[t].burst] = <<>>]
      /\ pc' = [pc EXCEPT ![t] = "unlock"] /\ UNCHANGED <<call, on>>
  BY Zenon DEF Receive, Computed, AfterCompute, Goto, Awaiting
<1>2. \/ outcome' = [outcome EXCEPT ![t] = "OP_FAILED"]
      \/ outcome' = [outcome EXCEPT ![t] = Head(results[call[t].burst])]
  BY Zenon DEF Receive, Computed
<1>3. ThreadTypes /\ QueueTypes
  BY DEF IInv, TypeInv
<1>4. PICK b \in Bursts : b = call[t].burst
  BY <1>1 DEF IInv, CallInv, Executing, Awaiting
<1>5. Head(results[b]) = results[b][1]
  BY <1>1, <1>3, <1>4 DEF QueueTypes
<1>6. outcome'[t] = "NO_ERROR" => on[t] = call[t].memory
  BY <1>1, <1>2, <1>3, <1>4, <1>5 DEF SuccessInv, ThreadTypes
<1>7. /\ pc'[t] \notin Awaiting
      /\ \A u \in Threads : u # t => pc'[u] = pc[u] /\ outcome'[u] = outcome[u]
  BY <1>1, <1>2, <1>3 DEF ThreadTypes, Awaiting
<1>8. \A c \in Bursts : results'[c] = <<>> \/ results'[c] = results[c]
  BY <1>1, <1>3, <1>4 DEF QueueTypes
<1>9. \A u \in Threads : pc[u] \in Awaiting => call[u].burst \in Bursts
  BY DEF IInv, CallInv, Executing, Awaiting
<1> QED BY <1>1, <1>6, <1>7, <1>8, <1>9 DEF SuccessInv

\* The regular path executes on the memory of the call.
LEMMA SuccessByFallback ==
    ASSUME IInv, SuccessInv, NEW t \in Threads, Fallback(t)
    PROVE  SuccessInv'
<1>1. /\ pc' = [pc EXCEPT ![t] = "unlock"] /\ UNCHANGED <<results, call>>
      /\ \/ on' = [on EXCEPT ![t] = call[t].memory]
         \/ outcome' = [outcome EXCEPT ![t] = "DEAD_OBJECT"] /\ on' = on
  BY Zenon DEF Fallback, Goto, queueVars
<1>2. ThreadTypes
  BY DEF IInv, TypeInv
<1>3. \E code : outcome' = [outcome EXCEPT ![t] = code]
  BY Zenon DEF Fallback
<1>4. /\ outcome'[t] = "NO_ERROR" => on'[t] = call[t].memory
      /\ pc'[t] \notin Awaiting
  BY <1>1, <1>2 DEF ThreadTypes, Awaiting
<1>5. \A u \in Threads : u # t => /\ pc'[u] = pc[u] /\ outcome'[u] = outcome[u]
                                  /\ on'[u] = on[u]
  BY <1>1, <1>2, <1>3 DEF ThreadTypes
<1> QED BY <1>1, <1>4, <1>5 DEF SuccessInv

\* The server has, in the slot of the request, the memory of the call that waits.
LEMMA SuccessByServerExecutes ==
    ASSUME IInv, LifeInv, SuccessInv, NEW b \in Bursts, ServerExecutes(b)
    PROVE  SuccessInv'
<1>1. PICK t \in Threads, s \in Nat, code \in {"NO_ERROR", "OP_FAILED"} :
              /\ alive /\ worker[b].at = "executing" /\ notice[b] = "none"
              /\ pc[t] \in Awaiting /\ call[t].burst = b /\ ran[t] = 0
              /\ s = mMemoryIdToSlot[b][key[call[t].memory]]
              /\ worker' = [worker EXCEPT ![b].at = "replied"]
              /\ requests[b] = <<>> /\ results[b] = <<>>
              /\ results' = [results EXCEPT ![b] = <<code>>]
              /\ \/ /\ s \in DOMAIN serverCache[b] /\ ran' = [ran EXCEPT ![t] = @ + 1]
                    /\ on' = [on EXCEPT ![t] = serverCache[b][s]]
                 \/ code = "OP_FAILED" /\ UNCHANGED <<ran, on>>
              /\ UNCHANGED <<objectVars, clientVars, mValid, requests, alive, notice,
                             serverCache, pc, calls, call, pending, outcome>>
  BY EffectOfServerExecutes
<1>2. ThreadTypes /\ QueueTypes
  BY DEF IInv, TypeInv
<1>3. /\ pc[t] \in Locking /\ pc[t] \in Computing /\ pc[t] \in Executing
      /\ pc[t] \notin {"idle", "tell server"}
  BY <1>1 DEF Awaiting, Locking, Computing, Executing
<1>4. mMutex[b] = t /\ s # 0 /\ call[t].memory \in Memories /\ life[call[t].memory] = "alive"
      /\ outcome[t] = "none"
  BY <1>1, <1>3 DEF IInv, CallInv, MutexInv, TakenInv, Awaiting
<1>5. PICK m \in Memories : m = call[t].memory
  BY <1>4
<1>6. \A u \in Threads : u # t /\ pc[u] \in Locking => call[u].burst # b
  BY <1>4, Alone
<1>7. s \in DOMAIN serverCache[b] => serverCache[b][s] = m
  <2> SUFFICES ASSUME s \in DOMAIN serverCache[b] PROVE serverCache[b][s] = m
    OBVIOUS
  <2>1. \A u \in Threads : ~(pc[u] = "tell server" /\ call[u].burst = b)
    BY <1>3, <1>6 DEF Locking
  <2>2. serverCache[b][s] = mMemoryCache[b][s]
    BY ZenonT(40), <2>1 DEF IInv, CoherenceInv
  <2>3. ControllerAlive(b)
    BY <1>1, <1>3 DEF ControllerAlive, Holders
  <2>4. key[m] \in Keys /\ mMemoryIdToSlot[b][key[m]] = s
    BY <1>1, <1>5, KeyAssumption
  <2>5. PICK n \in Memories : n = mMemoryCache[b][s] /\ key[n] = key[m] /\ Remembered(b, n)
    BY <1>4, <2>3, <2>4, Entry
  <2>6. n = m
    BY <1>4, <1>5, <2>5 DEF IInv, AddressInv, Remembered, Living
  <2> QED BY <2>2, <2>5, <2>6
<1>8. code = "NO_ERROR" => on'[t] = m
  BY <1>1, <1>2, <1>7 DEF ThreadTypes
<1>9. \A u \in Threads : u # t => on'[u] = on[u]
  BY <1>1, <1>2 DEF ThreadTypes
<1>10. results'[b] = <<code>> /\ \A c \in Bursts : c # b => results'[c] = results[c]
  BY <1>1, <1>2 DEF QueueTypes
<1>11. UNCHANGED <<pc, call, outcome>>
  BY <1>1
<1>12. ASSUME NEW u \in Threads
       PROVE  /\ outcome'[u] = "NO_ERROR" => on'[u] = call'[u].memory
              /\ pc'[u] \in Awaiting /\ results'[call'[u].burst] # <<>>
                 /\ results'[call'[u].burst][1] = "NO_ERROR" => on'[u] = call'[u].memory
  <2>1. CASE u = t
    <3>1. results'[call'[t].burst][1] = code
      BY <1>1, <1>10, <1>11
    <3> QED BY <1>4, <1>5, <1>8, <1>11, <2>1, <3>1
  <2>2. CASE u # t
    <3>1. pc[u] \in Awaiting => call[u].burst \in Bursts /\ call[u].burst # b
      BY <1>6, <2>2 DEF IInv, CallInv, Executing, Awaiting, Locking, Computing
    <3> QED BY <1>9, <1>10, <1>11, <2>2, <3>1 DEF SuccessInv
  <2> QED BY <2>1, <2>2
<1> QED BY <1>12 DEF SuccessInv

\* The element that wakes a receiver is no result.
LEMMA SuccessByserviceDied ==
    ASSUME IInv, SuccessInv, NEW b \in Bursts, serviceDied(b)
    PROVE  SuccessInv'
<1>1. /\ UNCHANGED <<pc, call, outcome, on>>
      /\ results' = results \/ results' = [results EXCEPT ![b] = Append(@, "wake up")]
  BY Zenon DEF serviceDied, WakeUp, threadVars
<1>2. QueueTypes
  BY DEF IInv, TypeInv
<1>3. \A u \in Threads : pc[u] \in Awaiting => call[u].burst \in Bursts
  BY DEF IInv, CallInv, Executing, Awaiting
<1>4. \A c \in Bursts : results'[c] # <<>> /\ results'[c][1] = "NO_ERROR" =>
          results[c] # <<>> /\ results[c][1] = "NO_ERROR"
  <2>1. CASE results' = results
    BY <2>1
  <2>2. CASE results' = [results EXCEPT ![b] = Append(@, "wake up")]
    <3>1. results[b] \in Seq(Answers) /\ "wake up" \in Answers
      BY <1>2 DEF QueueTypes, Answers
    <3>2. results[b] = <<>> => Append(results[b], "wake up")[1] = "wake up"
      OBVIOUS
    <3>3. results[b] # <<>> => Append(results[b], "wake up")[1] = results[b][1]
      <4>1. Len(results[b]) \in Nat /\ (results[b] # <<>> => Len(results[b]) # 0)
        BY <3>1, LenProperties, EmptySeq
      <4>2. results[b] # <<>> => 1 \in 1 .. Len(results[b])
        BY <4>1
      <4>3. \A i \in 1 .. Len(results[b]) : Append(results[b], "wake up")[i] = results[b][i]
        BY ZenonT(40), <3>1, AppendProperties
      <4> QED BY <4>2, <4>3
    <3> QED BY <1>2, <2>2, <3>2, <3>3 DEF QueueTypes
  <2> QED BY <1>1, <2>1, <2>2
<1> QED BY <1>1, <1>3, <1>4 DEF SuccessInv

\* Every step keeps it.
LEMMA SuccessNext == IInv /\ LifeInv /\ SuccessInv /\ [Next]_vars => SuccessInv'
<1> SUFFICES ASSUME IInv, LifeInv, SuccessInv, [Next]_vars PROVE SuccessInv'
  OBVIOUS
<1>1. ASSUME NEW m \in Memories, CreateMemory(m) PROVE SuccessInv'
  BY <1>1, SuccessQuiet DEF CreateMemory, threadVars, queueVars
<1>2. ASSUME NEW b \in Bursts, CreateBurst(b) \/ FreeBurst(b) PROVE SuccessInv'
  BY <1>2, SuccessQuiet DEF CreateBurst, FreeBurst, threadVars, queueVars
<1>3. ASSUME NEW b \in Bursts, Serve(b) PROVE SuccessInv'
  <2>1. CASE ServerReceives(b) \/ EnsureCacheEntriesArePresent(b) \/ ServerUnlocks(b)
    <3>1. UNCHANGED <<results, threadVars>>
      BY Zenon, <2>1 DEF ServerReceives, EnsureCacheEntriesArePresent, ServerUnlocks, queueVars
    <3> QED BY <3>1, SuccessQuiet DEF threadVars
  <2> QED BY <1>3, <2>1, SuccessByServerExecutes DEF Serve
<1>4. ASSUME NEW b \in Bursts, serviceDied(b) PROVE SuccessInv'
  BY <1>4, SuccessByserviceDied
<1>5. ASSUME NEW t \in Threads, Begin(t) \/ FreeMemory(t) PROVE SuccessInv'
  BY <1>5, SuccessByPassing
<1>6. ASSUME NEW t \in Threads, Step(t) PROVE SuccessInv'
  BY <1>6, SuccessByPassing, SuccessByDestructor, SuccessBySend, SuccessByReceive,
     SuccessByFallback DEF Step
<1>7. CASE ServiceDies
  BY <1>7, SuccessQuiet DEF ServiceDies, threadVars, queueVars
<1>8. CASE UNCHANGED vars
  BY <1>8, SuccessQuiet DEF vars, threadVars, queueVars
<1> QED BY Zenon, <1>1, <1>2, <1>3, <1>4, <1>5, <1>6, <1>7, <1>8 DEF Next

\* An execution that succeeds has computed on the memory of its request, whichever memories
\* had the slot before, as long as no two bursts have had the same address.
THEOREM RightMemoryComputed == Spec => [](DistinctAddresses => RightMemory)
<1>1. Init => SuccessInv
  BY DEF Init, SuccessInv, Awaiting
<1>2. SuccessInv => RightMemory
  BY DEF SuccessInv, RightMemory
<1>3. /\ IInv /\ (DistinctAddresses => LifeInv) /\ (DistinctAddresses => SuccessInv)
      /\ [Next]_vars
      => (DistinctAddresses' => SuccessInv')
  BY SuccessNext, StaysDistinct
<1> QED BY <1>1, <1>2, <1>3, Remembrance, PTL DEF Spec

\* The same whenever addresses of bursts are used again, if no memory ever remembers a burst
\* that is gone under the address of one that lives.
THEOREM RightMemoryIfClean == Spec /\ []NoStaleMark => []RightMemory
<1>1. Init => SuccessInv
  BY DEF Init, SuccessInv, Awaiting
<1>2. SuccessInv => RightMemory
  BY DEF SuccessInv, RightMemory
<1> QED BY <1>1, <1>2, SuccessNext, RemembranceIfClean, PTL DEF Spec

===============================================================================
