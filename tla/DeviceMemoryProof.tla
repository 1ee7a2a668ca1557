--------------------------- MODULE DeviceMemoryProof ---------------------------
(***************************************************************************)
(* Proofs about DeviceMemory, for any number of memories, threads and      *)
(* buffers.  Types, tokens and who writes what are proved for all kinds of *)
(* calls; what a memory tells of its contents is proved for executions and *)
(* copies between two memories: see PlainKinds.                            *)
(***************************************************************************)
EXTENDS DeviceMemory, SequenceTheorems, TLAPS

-------------------------------------------------------------------------------
(* The inductive invariant.                                                 *)

\* The type invariant, with what the driver's memories are made of.
TypeInv ==
    /\ TypeOK
    /\ \A m \in Memories : OnDevice(m) =>
          /\ mem[m].buffer \in Buffers
          /\ alive => mem[m].token \in DOMAIN mTokenToBuffers
    /\ \A t \in Threads : op[t].pc = "write" => op[t].read # "nothing"

\* Tokens in use, released and free are three disjoint sets, and two tokens in
\* use lead to two buffers.
TokenInv ==
    alive =>
        /\ \A m \in Memories : OnDevice(m) =>
              /\ mem[m].token \notin released
              /\ mTokenToBuffers[mem[m].token] = mem[m].buffer
        /\ \A m1, m2 \in Memories :
              OnDevice(m1) /\ OnDevice(m2) /\ mem[m1].token = mem[m2].token => m1 = m2
        /\ \A i \in DOMAIN mFreeTokens : mTokenToBuffers[mFreeTokens[i]] = NoBuffer
        /\ \A i, j \in DOMAIN mFreeTokens : mFreeTokens[i] = mFreeTokens[j] => i = j
        /\ \A k \in released : mTokenToBuffers[k] \in Buffers
        /\ \A j, k \in DOMAIN mTokenToBuffers :
              mTokenToBuffers[j] = mTokenToBuffers[k] /\ mTokenToBuffers[j] # NoBuffer => j = k

\* A call holds on to live memories, no two calls meet on one that is written,
\* and what the driver works on are the places of these memories.
CallInv ==
    /\ \A t \in Threads : Active(t) =>
          /\ Live(op[t].src) /\ Live(op[t].dst)
          /\ op[t].pc = "running" => /\ op[t].in = Location(op[t].src)
                                     /\ op[t].out = Location(op[t].dst)
    /\ \A t, u \in Threads :
          t # u /\ Active(t) /\ Active(u) /\ op[t].dst # Client =>
              op[t].dst # op[u].src /\ op[t].dst # op[u].dst

\* Executions that are not fenced, and copies between two memories.  The others
\* do break what a memory tells: a fenced execution that fails without a fallback
\* leaves the state of its output, and a copy to itself always succeeds.
PlainKinds == Kinds \subseteq {"compute", "copy"}

\* What a memory that nobody writes holds when it counts as initialized, unless
\* it died with the driver.
Usable(m) ==
    m # Client /\ (OnDevice(m) => alive) =>
        /\ data[Location(m)] = "good"
        /\ OnDevice(m) => mInitialized[mem[m].buffer]

\* How far a call has come, and what it knows of its source.
CallStateInv ==
    \A t \in Threads : Active(t) =>
        /\ op[t].kind # "fenced"
        /\ op[t].src # op[t].dst \/ op[t].src = Client
        /\ op[t].pc # "finish" => op[t].n = "NO_ERROR"
        /\ op[t].n = "NO_ERROR" => isInitialized(op[t].src)
        /\ op[t].pc = "write" => op[t].read = "good"
        /\ op[t].pc = "finish" /\ op[t].n = "NO_ERROR" =>
              op[t].read = "good" /\ Usable(op[t].dst)

MemoryStateInv ==
    \A m \in Memories :
        /\ mem[m].kind = "none" => ~mem[m].initialized
        /\ mem[m].initialized /\ ~Written(m) => Usable(m)

ResultInv == \A t \in Threads : Active(t) <=> result[t] = "pending"
-------------------------------------------------------------------------------
(* Sequences, places and their types.                                       *)

\* What the stack of free tokens has on top and below.
LEMMA FrontAndLast ==
    ASSUME NEW S, NEW s \in Seq(S), s # <<>>
    PROVE  /\ Len(s) \in Nat \ {0} /\ Last(s) = s[Len(s)] /\ Last(s) \in S
           /\ Front(s) \in Seq(S) /\ Len(Front(s)) = Len(s) - 1
           /\ \A i \in 1 .. Len(s) - 1 : Front(s)[i] = s[i]
<1>1. Len(s) \in Nat \ {0} /\ \A i \in 1 .. Len(s) : s[i] \in S
  <2>1. Len(s) = 0 => s = <<>>
    OBVIOUS
  <2> QED BY <2>1
<1>2. Last(s) = s[Len(s)] /\ Last(s) \in S
  BY <1>1 DEF Last
<1>3. /\ SubSeq(s, 1, Len(s) - 1) = [i \in 1 .. Len(s) - 1 |-> s[i]]
  BY <1>1, SubSeqProperties
<1>4. Front(s) = [i \in 1 .. Len(s) - 1 |-> s[i]]
  BY <1>3 DEF Front
<1>5. Front(s) \in Seq(S) /\ Len(Front(s)) = Len(s) - 1
  BY <1>1, <1>4
<1> QED BY <1>1, <1>2, <1>4, <1>5

\* A place of a memory is a buffer of its own or the memory itself.
LEMMA PlaceTypes ==
    ASSUME TypeInv, NEW m \in Memories \cup {Client}
    PROVE  /\ Location(m) \in Locations /\ Pool(m) \in Locations \cup {NoBuffer}
           /\ OnDevice(m) => m \in Memories /\ Location(m) \in Buffers
           /\ OnDevice(m) => Location(m) = mem[m].buffer
           /\ ~OnDevice(m) => Location(m) = m /\ Pool(m) = m
           /\ Location(m) = Client <=> m = Client
BY DistinctAssumption DEF TypeInv, TypeOK, Locations, Location, Pool, Get, OnDevice

\* What is read and written has the type of data.
LEMMA DataTypes ==
    ASSUME TypeOK, NEW l \in Locations, NEW d \in {"good", "garbage"}
    PROVE  /\ DataAt(l) \in {"good", "garbage"}
           /\ Put(l, d) \in [Buffers \cup Memories -> {"good", "garbage"}]
           /\ \A k \in Buffers \cup Memories : Put(l, d)[k] = IF k = l THEN d ELSE data[k]
BY DistinctAssumption DEF TypeOK, Locations, DataAt, Put

\* The type of a call, which only writes what it has read.
CallType ==
    [pc : {"off", "request", "running", "failed", "read", "write", "finish"},
     kind : Executions \cup {"copy"}, src : Memories \cup {Client},
     dst : Memories \cup {Client}, fallback : BOOLEAN,
     in : Locations, out : Locations,
     read : {"nothing", "good", "garbage"},
     n : {"NO_ERROR", "BAD_DATA", "OP_FAILED"}]
Call == {c \in CallType : c.pc = "write" => c.read # "nothing"}

\* The type of what the tracker of the driver keeps.
TrackerOK ==
    /\ mTokenToBuffers \in Seq(Buffers \cup {NoBuffer})
    /\ mFreeTokens \in Seq(DOMAIN mTokenToBuffers) /\ released \subseteq DOMAIN mTokenToBuffers

\* The tracker hands out a token that is new or was freed, and sets its entry.
LEMMA AddToken ==
    ASSUME TrackerOK, NEW b \in Buffers, NEW token \in 1 .. Len(mTokenToBuffers) + 1,
           Add(b, token), UNCHANGED released
    PROVE  /\ TrackerOK' /\ token \in DOMAIN mTokenToBuffers'
           /\ DOMAIN mTokenToBuffers \subseteq DOMAIN mTokenToBuffers'
           /\ DOMAIN mTokenToBuffers' \subseteq DOMAIN mTokenToBuffers \cup {token}
           /\ \A k \in DOMAIN mTokenToBuffers' :
                 mTokenToBuffers'[k] = IF k = token THEN b ELSE mTokenToBuffers[k]
           /\ \/ token \notin DOMAIN mTokenToBuffers /\ mFreeTokens = <<>> /\ mFreeTokens' = <<>>
              \/ /\ mFreeTokens # <<>> /\ token = mFreeTokens[Len(mFreeTokens)]
                 /\ Len(mFreeTokens') = Len(mFreeTokens) - 1
                 /\ \A i \in DOMAIN mFreeTokens' : /\ i \in DOMAIN mFreeTokens
                                                   /\ i # Len(mFreeTokens)
                                                   /\ mFreeTokens'[i] = mFreeTokens[i]
<1>1. CASE mFreeTokens = <<>>
  <2>1. /\ token = Len(mTokenToBuffers) + 1
        /\ mTokenToBuffers' = Append(mTokenToBuffers, b) /\ mFreeTokens' = <<>>
    BY <1>1, Zenon DEF Add
  <2> QED BY <1>1, <2>1 DEF TrackerOK
<1>2. CASE mFreeTokens # <<>>
  <2>1. /\ token = Last(mFreeTokens)
        /\ mTokenToBuffers' = [mTokenToBuffers EXCEPT ![token] = b]
        /\ mFreeTokens' = Front(mFreeTokens)
    BY <1>2, Zenon DEF Add, AfterPop
  <2>2. /\ Len(mFreeTokens) \in Nat \ {0} /\ Last(mFreeTokens) = mFreeTokens[Len(mFreeTokens)]
        /\ Last(mFreeTokens) \in DOMAIN mTokenToBuffers
        /\ Front(mFreeTokens) \in Seq(DOMAIN mTokenToBuffers)
        /\ Len(Front(mFreeTokens)) = Len(mFreeTokens) - 1
        /\ \A i \in 1 .. Len(mFreeTokens) - 1 : Front(mFreeTokens)[i] = mFreeTokens[i]
    BY <1>2, FrontAndLast DEF TrackerOK
  <2>3. mTokenToBuffers' \in Seq(Buffers \cup {NoBuffer})
        /\ DOMAIN mTokenToBuffers' = DOMAIN mTokenToBuffers
    BY <2>1, <2>2 DEF TrackerOK
  <2>4. TrackerOK'
    BY <2>1, <2>2, <2>3 DEF TrackerOK
  <2>5. \A k \in DOMAIN mTokenToBuffers' :
           mTokenToBuffers'[k] = IF k = token THEN b ELSE mTokenToBuffers[k]
    BY <2>1, <2>2 DEF TrackerOK
  <2>6. \A i \in DOMAIN mFreeTokens' : /\ i \in DOMAIN mFreeTokens /\ i # Len(mFreeTokens)
                                       /\ mFreeTokens'[i] = mFreeTokens[i]
    <3>1. /\ DOMAIN mFreeTokens = 1 .. Len(mFreeTokens)
          /\ DOMAIN mFreeTokens' = 1 .. Len(mFreeTokens) - 1
      BY <2>1, <2>2 DEF TrackerOK
    <3> QED BY <2>1, <2>2, <3>1
  <2> QED BY <1>2, <2>1, <2>2, <2>3, <2>4, <2>5, <2>6
<1> QED BY <1>1, <1>2

\* The client has no memories initially.
LEMMA TypeInit == Init => TypeInv
BY DistinctAssumption
   DEF Init, TypeInv, TypeOK, NoMemory, Idle, OnDevice, Locations, Executions

\* The parts of the type invariant.
TypeParts ==
    /\ mem \in [Memories -> [kind : {"none", "device", "host"}, token : Nat,
                             buffer : Buffers \cup {NoBuffer}, initialized : BOOLEAN]]
    /\ \A m \in Memories : OnDevice(m) =>
          /\ mem[m].buffer \in Buffers
          /\ alive => mem[m].token \in DOMAIN mTokenToBuffers
    /\ op \in [Threads -> Call]
    /\ result \in [Threads -> {"none", "pending", "NO_ERROR", "error"}]
    /\ alive \in BOOLEAN /\ TrackerOK
    /\ mInitialized \in [Buffers -> BOOLEAN]
    /\ data \in [Buffers \cup Memories -> {"good", "garbage"}]

\* The type invariant is its parts, before a step and after it.
LEMMA Parts == (TypeInv <=> TypeParts) /\ (TypeInv' <=> TypeParts')
<1>1. ASSUME NEW o
      PROVE  o \in [Threads -> Call] <=>
                 /\ o \in [Threads -> CallType]
                 /\ \A t \in Threads : o[t].pc = "write" => o[t].read # "nothing"
  <2> HIDE DEF CallType
  <2> QED BY DEF Call
<1>2. TypeInv <=> TypeParts
  BY <1>1, Zenon DEF TypeInv, TypeOK, TypeParts, CallType, TrackerOK
<1>3. TypeInv' <=> TypeParts'
  BY <1>1, Zenon DEF TypeInv, TypeOK, TypeParts, CallType, TrackerOK
<1> QED BY <1>2, <1>3

\* What happens to memories and tokens keeps the types.
LEMMA TypeMemories ==
    ASSUME TypeParts, NEW m \in Memories
    PROVE  /\ CreateOnDevice(m) => TypeParts'
           /\ CreateOnHost(m) => TypeParts'
           /\ MemoryFree(m) => TypeParts'
<1> USE DEF trackerVars
<1>1. ASSUME CreateOnDevice(m) PROVE TypeParts'
  <2>1. PICK b \in Buffers, token \in 1 .. Len(mTokenToBuffers) + 1 :
            /\ Add(b, token) /\ Erase(b)
            /\ mem' = [mem EXCEPT ![m] = [kind |-> "device", token |-> token, buffer |-> b,
                                          initialized |-> FALSE]]
    BY <1>1, Zenon DEF CreateOnDevice
  <2>2. UNCHANGED <<op, result, alive, released>>
    BY <1>1, Zenon DEF CreateOnDevice
  <2>3. TrackerOK'
    BY <2>1, <2>2, AddToken DEF TypeParts
  <2>4. token \in Nat
    BY DEF TypeParts, TrackerOK
  <2>5. \A k \in Memories : OnDevice(k)' => /\ mem'[k].buffer \in Buffers
                                            /\ alive' => mem'[k].token \in DOMAIN mTokenToBuffers'
    <3>1. /\ DOMAIN mTokenToBuffers \subseteq DOMAIN mTokenToBuffers'
          /\ token \in DOMAIN mTokenToBuffers'
      BY <2>1, <2>2, AddToken DEF TypeParts
    <3> QED BY <2>1, <2>2, <2>4, <3>1 DEF TypeParts, OnDevice
  <2>6. mem' \in [Memories -> [kind : {"none", "device", "host"}, token : Nat,
                               buffer : Buffers \cup {NoBuffer}, initialized : BOOLEAN]]
    BY <2>1, <2>4 DEF TypeParts
  <2> QED BY <2>1, <2>2, <2>3, <2>5, <2>6 DEF TypeParts, Erase
<1>2. ASSUME CreateOnHost(m) PROVE TypeParts'
  BY <1>2 DEF CreateOnHost, TypeParts, TrackerOK, OnDevice, NoMemory
<1>3. ASSUME MemoryFree(m) PROVE TypeParts'
  <2>1. released' \subseteq DOMAIN mTokenToBuffers
    BY <1>3 DEF MemoryFree, TypeParts, TrackerOK
  <2> QED BY <1>3, <2>1 DEF MemoryFree, TypeParts, TrackerOK, OnDevice, NoMemory
<1> QED BY <1>1, <1>2, <1>3

\* The fields of a call.
LEMMA CallFields ==
    ASSUME TypeParts, NEW t \in Threads
    PROVE  /\ op[t].src \in Memories \cup {Client} /\ op[t].dst \in Memories \cup {Client}
           /\ op[t].in \in Locations /\ op[t].out \in Locations
           /\ op[t].pc = "write" => op[t].read \in {"good", "garbage"}
           /\ op[t].kind \in {"compute", "fenced", "copy"} /\ op[t].fallback \in BOOLEAN
           /\ op[t].pc \in {"off", "request", "running", "failed", "read", "write", "finish"}
           /\ op[t].read \in {"nothing", "good", "garbage"}
           /\ op[t].n \in {"NO_ERROR", "BAD_DATA", "OP_FAILED"}
<1>1. op[t] \in Call
  BY DEF TypeParts
<1> QED BY <1>1 DEF Call, CallType, Executions

\* A call that goes on: it keeps its kind, its memories and its fallback.
Moves(t, pc, in, out, read, n) ==
    /\ op' \in [Threads -> Call]
    /\ \A u \in Threads : u # t => op'[u] = op[u]
    /\ op'[t].pc = pc /\ op'[t].in = in /\ op'[t].out = out
    /\ op'[t].read = read /\ op'[t].n = n
    /\ op'[t].kind = op[t].kind /\ op'[t].src = op[t].src /\ op'[t].dst = op[t].dst
    /\ op'[t].fallback = op[t].fallback

\* A call that goes on, seen as a record.
LEMMA MovedCall ==
    ASSUME op \in [Threads -> Call], NEW t \in Threads, NEW c \in Call,
           op' = [op EXCEPT ![t] = c],
           c.kind = op[t].kind, c.src = op[t].src, c.dst = op[t].dst,
           c.fallback = op[t].fallback
    PROVE  Moves(t, c.pc, c.in, c.out, c.read, c.n)
<1>1. op' \in [Threads -> Call] /\ op'[t] = c /\ \A u \in Threads : u # t => op'[u] = op[u]
  OBVIOUS
<1> QED BY <1>1 DEF Moves

\* What each step of a call makes of it.
LEMMA Moving ==
    ASSUME TypeParts, NEW t \in Threads
    PROVE  /\ DriverAccepts(t) =>
                  Moves(t, "running", Pool(op[t].src), Pool(op[t].dst), op[t].read, op[t].n)
           /\ DriverRefuses(t) =>
                  Moves(t, "failed", op[t].in, op[t].out, op[t].read, op[t].n)
           /\ DriverSucceeds(t) =>
                  Moves(t, "finish", Client, Client, DataAt(op[t].in), op[t].n)
           /\ DriverFails(t) => Moves(t, "failed", Client, Client, op[t].read, op[t].n)
           /\ Fallback(t) =>
                  \/ Moves(t, "read", op[t].in, op[t].out, op[t].read, op[t].n)
                  \/ Moves(t, "finish", op[t].in, op[t].out, op[t].read, "OP_FAILED")
           /\ CopyTo(t) =>
                  Moves(t, "write", op[t].in, op[t].out, DataAt(Location(op[t].src)), op[t].n)
           /\ CopyToFails(t) =>
                  Moves(t, "finish", op[t].in, op[t].out, op[t].read, "OP_FAILED")
           /\ CopyFrom(t) => Moves(t, "finish", op[t].in, op[t].out, op[t].read, op[t].n)
           /\ CopyFromRefused(t) \/ WriteFails(t) =>
                  Moves(t, "finish", op[t].in, op[t].out, op[t].read, "OP_FAILED")
<1>1. op \in [Threads -> Call] /\ op[t] \in Call
  BY DEF TypeParts
<1>2. op[t].src \in Memories \cup {Client} /\ op[t].dst \in Memories \cup {Client}
  BY <1>1 DEF Call, CallType
<1>3. op[t].in \in Locations /\ op[t].out \in Locations /\ Client \in Locations
  BY <1>1 DEF Call, CallType, Locations
<1>4. /\ DataAt(op[t].in) \in {"good", "garbage"}
      /\ DataAt(Location(op[t].src)) \in {"good", "garbage"}
  BY <1>2, <1>3, Parts, PlaceTypes, DataTypes DEF TypeInv
<1>5. ASSUME DriverAccepts(t)
      PROVE  Moves(t, "running", Pool(op[t].src), Pool(op[t].dst), op[t].read, op[t].n)
  <2>0. Pool(op[t].src) \in Locations /\ Pool(op[t].dst) \in Locations
    BY <1>5, <1>2, Parts, PlaceTypes DEF DriverAccepts, PoolsValid
  <2> DEFINE c == [op[t] EXCEPT !.pc = "running", !.in = Pool(op[t].src),
                                !.out = Pool(op[t].dst)]
  <2>1. op' = [op EXCEPT ![t] = c]
    BY <1>5, Zenon DEF DriverAccepts
  <2>2. /\ c \in Call /\ c.pc = "running" /\ c.in = Pool(op[t].src) /\ c.out = Pool(op[t].dst)
        /\ c.read = op[t].read /\ c.n = op[t].n
        /\ c.kind = op[t].kind /\ c.src = op[t].src /\ c.dst = op[t].dst
        /\ c.fallback = op[t].fallback
    BY <1>1, <2>0 DEF Call, CallType
  <2> HIDE DEF c
  <2> QED BY <1>1, <2>1, <2>2, MovedCall
<1>6. ASSUME DriverRefuses(t)
      PROVE  Moves(t, "failed", op[t].in, op[t].out, op[t].read, op[t].n)
  <2> DEFINE c == [op[t] EXCEPT !.pc = "failed"]
  <2>1. op' = [op EXCEPT ![t] = c]
    BY <1>6, Zenon DEF DriverRefuses
  <2>2. /\ c \in Call /\ c.pc = "failed" /\ c.in = op[t].in /\ c.out = op[t].out
        /\ c.read = op[t].read /\ c.n = op[t].n
        /\ c.kind = op[t].kind /\ c.src = op[t].src /\ c.dst = op[t].dst
        /\ c.fallback = op[t].fallback
    BY <1>1 DEF Call, CallType
  <2> HIDE DEF c
  <2> QED BY <1>1, <2>1, <2>2, MovedCall
<1>7. ASSUME DriverSucceeds(t)
      PROVE  Moves(t, "finish", Client, Client, DataAt(op[t].in), op[t].n)
  <2> DEFINE c == [op[t] EXCEPT !.pc = "finish", !.read = DataAt(op[t].in),
                                !.in = Client, !.out = Client]
  <2>1. op' = [op EXCEPT ![t] = c]
    BY <1>7, Zenon DEF DriverSucceeds
  <2>2. /\ c \in Call /\ c.pc = "finish" /\ c.in = Client /\ c.out = Client
        /\ c.read = DataAt(op[t].in) /\ c.n = op[t].n
        /\ c.kind = op[t].kind /\ c.src = op[t].src /\ c.dst = op[t].dst
        /\ c.fallback = op[t].fallback
    BY <1>1, <1>3, <1>4 DEF Call, CallType
  <2> HIDE DEF c
  <2> QED BY <1>1, <2>1, <2>2, MovedCall
<1>8. ASSUME DriverFails(t) PROVE Moves(t, "failed", Client, Client, op[t].read, op[t].n)
  <2> DEFINE c == [op[t] EXCEPT !.pc = "failed", !.in = Client, !.out = Client]
  <2>1. op' = [op EXCEPT ![t] = c]
    BY <1>8, Zenon DEF DriverFails
  <2>2. /\ c \in Call /\ c.pc = "failed" /\ c.in = Client /\ c.out = Client
        /\ c.read = op[t].read /\ c.n = op[t].n
        /\ c.kind = op[t].kind /\ c.src = op[t].src /\ c.dst = op[t].dst
        /\ c.fallback = op[t].fallback
    BY <1>1, <1>3 DEF Call, CallType
  <2> HIDE DEF c
  <2> QED BY <1>1, <2>1, <2>2, MovedCall
<1>9. ASSUME op[t].fallback, Fallback(t)
      PROVE  Moves(t, "read", op[t].in, op[t].out, op[t].read, op[t].n)
  <2> DEFINE c == [op[t] EXCEPT !.pc = "read"]
  <2>1. op' = [op EXCEPT ![t] = c]
    BY <1>9, Zenon DEF Fallback
  <2>2. /\ c \in Call /\ c.pc = "read" /\ c.in = op[t].in /\ c.out = op[t].out
        /\ c.read = op[t].read /\ c.n = op[t].n
        /\ c.kind = op[t].kind /\ c.src = op[t].src /\ c.dst = op[t].dst
        /\ c.fallback = op[t].fallback
    BY <1>1 DEF Call, CallType
  <2> HIDE DEF c
  <2> QED BY <1>1, <2>1, <2>2, MovedCall
<1>10. ASSUME ~op[t].fallback, Fallback(t)
      PROVE  Moves(t, "finish", op[t].in, op[t].out, op[t].read, "OP_FAILED")
  <2> DEFINE c == [op[t] EXCEPT !.pc = "finish", !.n = "OP_FAILED"]
  <2>1. op' = [op EXCEPT ![t] = c]
    BY <1>10, Zenon DEF Fallback
  <2>2. /\ c \in Call /\ c.pc = "finish" /\ c.in = op[t].in /\ c.out = op[t].out
        /\ c.read = op[t].read /\ c.n = "OP_FAILED"
        /\ c.kind = op[t].kind /\ c.src = op[t].src /\ c.dst = op[t].dst
        /\ c.fallback = op[t].fallback
    BY <1>1 DEF Call, CallType
  <2> HIDE DEF c
  <2> QED BY <1>1, <2>1, <2>2, MovedCall
<1>11. ASSUME CopyTo(t)
      PROVE  Moves(t, "write", op[t].in, op[t].out, DataAt(Location(op[t].src)), op[t].n)
  <2> DEFINE c == [op[t] EXCEPT !.pc = "write", !.read = DataAt(Location(op[t].src))]
  <2>1. op' = [op EXCEPT ![t] = c]
    BY <1>11, Zenon DEF CopyTo
  <2>2. /\ c \in Call /\ c.pc = "write" /\ c.in = op[t].in /\ c.out = op[t].out
        /\ c.read = DataAt(Location(op[t].src)) /\ c.n = op[t].n
        /\ c.kind = op[t].kind /\ c.src = op[t].src /\ c.dst = op[t].dst
        /\ c.fallback = op[t].fallback
    BY <1>1, <1>4 DEF Call, CallType
  <2> HIDE DEF c
  <2> QED BY <1>1, <2>1, <2>2, MovedCall
<1>12. ASSUME CopyToFails(t)
      PROVE  Moves(t, "finish", op[t].in, op[t].out, op[t].read, "OP_FAILED")
  <2> DEFINE c == [op[t] EXCEPT !.pc = "finish", !.n = "OP_FAILED"]
  <2>1. op' = [op EXCEPT ![t] = c]
    BY <1>12, Zenon DEF CopyToFails
  <2>2. /\ c \in Call /\ c.pc = "finish" /\ c.in = op[t].in /\ c.out = op[t].out
        /\ c.read = op[t].read /\ c.n = "OP_FAILED"
        /\ c.kind = op[t].kind /\ c.src = op[t].src /\ c.dst = op[t].dst
        /\ c.fallback = op[t].fallback
    BY <1>1 DEF Call, CallType
  <2> HIDE DEF c
  <2> QED BY <1>1, <2>1, <2>2, MovedCall
<1>13. ASSUME CopyFrom(t) PROVE Moves(t, "finish", op[t].in, op[t].out, op[t].read, op[t].n)
  <2> DEFINE c == [op[t] EXCEPT !.pc = "finish"]
  <2>1. op' = [op EXCEPT ![t] = c]
    BY <1>13, Zenon DEF CopyFrom
  <2>2. /\ c \in Call /\ c.pc = "finish" /\ c.in = op[t].in /\ c.out = op[t].out
        /\ c.read = op[t].read /\ c.n = op[t].n
        /\ c.kind = op[t].kind /\ c.src = op[t].src /\ c.dst = op[t].dst
        /\ c.fallback = op[t].fallback
    BY <1>1 DEF Call, CallType
  <2> HIDE DEF c
  <2> QED BY <1>1, <2>1, <2>2, MovedCall
<1>14. ASSUME CopyFromRefused(t)
      PROVE  Moves(t, "finish", op[t].in, op[t].out, op[t].read, "OP_FAILED")
  <2> DEFINE c == [op[t] EXCEPT !.pc = "finish", !.n = "OP_FAILED"]
  <2>1. op' = [op EXCEPT ![t] = c]
    BY <1>14, Zenon DEF CopyFromRefused
  <2>2. /\ c \in Call /\ c.pc = "finish" /\ c.in = op[t].in /\ c.out = op[t].out
        /\ c.read = op[t].read /\ c.n = "OP_FAILED"
        /\ c.kind = op[t].kind /\ c.src = op[t].src /\ c.dst = op[t].dst
        /\ c.fallback = op[t].fallback
    BY <1>1 DEF Call, CallType
  <2> HIDE DEF c
  <2> QED BY <1>1, <2>1, <2>2, MovedCall
<1>15. ASSUME WriteFails(t)
      PROVE  Moves(t, "finish", op[t].in, op[t].out, op[t].read, "OP_FAILED")
  <2> DEFINE c == [op[t] EXCEPT !.pc = "finish", !.n = "OP_FAILED"]
  <2>1. op' = [op EXCEPT ![t] = c]
    BY <1>15, Zenon DEF WriteFails
  <2>2. /\ c \in Call /\ c.pc = "finish" /\ c.in = op[t].in /\ c.out = op[t].out
        /\ c.read = op[t].read /\ c.n = "OP_FAILED"
        /\ c.kind = op[t].kind /\ c.src = op[t].src /\ c.dst = op[t].dst
        /\ c.fallback = op[t].fallback
    BY <1>1 DEF Call, CallType
  <2> HIDE DEF c
  <2> QED BY <1>1, <2>1, <2>2, MovedCall
<1> QED BY <1>5, <1>6, <1>7, <1>8, <1>9, <1>10, <1>11, <1>12, <1>13, <1>14, <1>15, Zenon

\* A step of a call keeps the types if what it changes has them.
LEMMA TypeCall ==
    ASSUME TypeParts, UNCHANGED <<mem, alive, trackerVars>>,
           op' \in [Threads -> Call],
           result' \in [Threads -> {"none", "pending", "NO_ERROR", "error"}],
           mInitialized' \in [Buffers -> BOOLEAN],
           data' \in [Buffers \cup Memories -> {"good", "garbage"}]
    PROVE  TypeParts'
BY DEF TypeParts, TrackerOK, OnDevice, trackerVars

\* What happens to the driver keeps the types.
LEMMA TypeTracker ==
    ASSUME TypeParts
    PROVE  /\ \A token \in released : FreeToken(token) => TypeParts'
           /\ DriverDies => TypeParts'
<1>1. ASSUME NEW token \in released, FreeToken(token) PROVE TypeParts'
  <2>1. token \in DOMAIN mTokenToBuffers /\ UNCHANGED <<mem, op, result, alive>>
    BY <1>1 DEF FreeToken, TypeParts, TrackerOK
  <2>2. /\ mTokenToBuffers' = [mTokenToBuffers EXCEPT ![token] = NoBuffer]
        /\ mFreeTokens' = Append(mFreeTokens, token) /\ released' = released \ {token}
        /\ Erase(Get(token))
    BY <1>1, Zenon DEF FreeToken, Pushed
  <2>3. TrackerOK' /\ DOMAIN mTokenToBuffers' = DOMAIN mTokenToBuffers
    BY <2>1, <2>2 DEF TypeParts, TrackerOK
  <2> QED BY <2>1, <2>2, <2>3 DEF TypeParts, Erase, OnDevice
<1>2. ASSUME DriverDies PROVE TypeParts'
  <2>1. /\ UNCHANGED <<mem, op, result>> /\ alive' = FALSE
        /\ mTokenToBuffers' = <<>> /\ mFreeTokens' = <<>> /\ released' = {}
        /\ mInitialized' = [b \in Buffers |-> FALSE]
        /\ data' = [l \in DOMAIN data |-> IF l \in Buffers THEN "garbage" ELSE data[l]]
    BY <1>2, Zenon DEF DriverDies
  <2>2. data' \in [Buffers \cup Memories -> {"good", "garbage"}]
    BY <2>1 DEF TypeParts
  <2>3. TrackerOK'
    BY <2>1 DEF TrackerOK
  <2>4. mInitialized' \in [Buffers -> BOOLEAN]
    BY <2>1
  <2> QED BY <2>1, <2>2, <2>3, <2>4 DEF TypeParts, OnDevice
<1> QED BY <1>1, <1>2

\* What the driver does keeps the types.
LEMMA TypeDriver ==
    ASSUME TypeParts, NEW t \in Threads
    PROVE  /\ DriverAccepts(t) => TypeParts'
           /\ DriverRefuses(t) => TypeParts'
           /\ DriverSucceeds(t) => TypeParts'
           /\ DriverFails(t) => TypeParts'
<1>1. ASSUME DriverAccepts(t) PROVE TypeParts'
  <2>1. /\ Pool(op[t].src) \in Locations /\ Pool(op[t].dst) \in Locations
    BY <1>1, Parts, PlaceTypes, CallFields DEF DriverAccepts, PoolsValid
  <2>2. data' \in [Buffers \cup Memories -> {"good", "garbage"}]
    BY <1>1, <2>1, Parts, DataTypes DEF DriverAccepts, TypeInv
  <2>3. UNCHANGED <<mem, result, alive, trackerVars, mInitialized>>
    BY <1>1, Zenon DEF DriverAccepts
  <2>4. op' \in [Threads -> Call]
    BY <1>1, Moving, Zenon DEF Moves
  <2> QED BY <2>2, <2>3, <2>4, TypeCall DEF TypeParts
<1>2. ASSUME DriverRefuses(t) PROVE TypeParts'
  <2>1. UNCHANGED <<mem, result, alive, trackerVars, mInitialized, data>>
    BY <1>2, Zenon DEF DriverRefuses
  <2>2. op' \in [Threads -> Call]
    BY <1>2, Moving, Zenon DEF Moves
  <2> QED BY <2>1, <2>2, TypeCall DEF TypeParts
<1>3. ASSUME DriverSucceeds(t) PROVE TypeParts'
  <2>1. op[t].in \in Locations /\ op[t].out \in Locations
    BY CallFields
  <2>2. /\ DataAt(op[t].in) \in {"good", "garbage"}
        /\ data' \in [Buffers \cup Memories -> {"good", "garbage"}]
    BY <1>3, <2>1, Parts, DataTypes DEF DriverSucceeds, TypeInv
  <2>3. /\ mInitialized' = [b \in Buffers |-> mInitialized[b] \/ b = op[t].out]
        /\ UNCHANGED <<mem, result, alive, trackerVars>>
    BY <1>3, Zenon DEF DriverSucceeds
  <2>5. op' \in [Threads -> Call]
    BY <1>3, Moving, Zenon DEF Moves
  <2>6. mInitialized' \in [Buffers -> BOOLEAN]
    BY <2>3
  <2> QED BY <2>2, <2>3, <2>5, <2>6, TypeCall DEF TypeParts
<1>4. ASSUME DriverFails(t) PROVE TypeParts'
  <2>1. UNCHANGED <<mem, result, alive, trackerVars, mInitialized, data>>
    BY <1>4, Zenon DEF DriverFails
  <2>2. op' \in [Threads -> Call]
    BY <1>4, Moving, Zenon DEF Moves
  <2> QED BY <2>1, <2>2, TypeCall DEF TypeParts
<1> QED BY <1>1, <1>2, <1>3, <1>4

\* The calls that begin.
NewExecution(kind, src, dst, f) ==
    [Idle EXCEPT !.pc = "request", !.kind = kind, !.src = src, !.dst = dst, !.fallback = f]
NewCopy(src, dst, pc, n) == [Idle EXCEPT !.src = src, !.dst = dst, !.pc = pc, !.n = n]

\* The fields of an execution that begins.
LEMMA NewExecutions ==
    ASSUME NEW kind \in Executions, NEW src \in Memories \cup {Client},
           NEW dst \in Memories \cup {Client}, NEW f \in BOOLEAN
    PROVE  LET c == NewExecution(kind, src, dst, f)
           IN  /\ c \in Call /\ c.pc = "request" /\ c.kind = kind /\ c.src = src
               /\ c.dst = dst /\ c.n = "NO_ERROR"
BY DEF NewExecution, Idle, Call, CallType, Locations

\* The fields of a copy that begins.
LEMMA NewCopies ==
    ASSUME NEW src \in Memories \cup {Client}, NEW dst \in Memories \cup {Client},
           NEW pc \in {"read", "finish"}, NEW n \in {"NO_ERROR", "BAD_DATA"}
    PROVE  LET c == NewCopy(src, dst, pc, n)
           IN  /\ c \in Call /\ c.pc = pc /\ c.kind = "copy" /\ c.src = src
               /\ c.dst = dst /\ c.n = n
BY DEF NewCopy, Idle, Call, CallType, Locations

\* How an execution begins, unless it is refused.
LEMMA BegunExecution ==
    ASSUME NEW t \in Threads, NEW kind, NEW src, NEW dst, StartExecution(t, kind, src, dst)
    PROVE  /\ UNCHANGED <<mem, alive, trackerVars, mInitialized, data>>
           /\ kind \in Kinds \cap Executions /\ ~Active(t) /\ Ordered(src, dst)
           /\ src # dst \/ src = Client
           /\ \/ /\ ~validateInputDimensions(kind, src)
                 /\ UNCHANGED op /\ result' = [result EXCEPT ![t] = "error"]
              \/ /\ validateInputDimensions(kind, src)
                 /\ result' = [result EXCEPT ![t] = "pending"]
                 /\ \E f \in BOOLEAN :
                       op' = [op EXCEPT ![t] = NewExecution(kind, src, dst, f)]
BY Zenon DEF StartExecution, Refused, Begin, NewExecution

\* How a copy begins.
LEMMA BegunCopy ==
    ASSUME NEW t \in Threads, NEW src, NEW dst, StartCopy(t, src, dst)
    PROVE  /\ UNCHANGED <<mem, alive, trackerVars, mInitialized, data>>
           /\ "copy" \in Kinds /\ ~Active(t) /\ Ordered(src, dst)
           /\ src # dst \/ "selfCopy" \in Kinds
           /\ result' = [result EXCEPT ![t] = "pending"]
           /\ \E pc \in {"read", "finish"}, n \in {"NO_ERROR", "BAD_DATA"} :
                 /\ op' = [op EXCEPT ![t] = NewCopy(src, dst, pc, n)]
                 /\ pc = "read" => isInitialized(src) /\ n = "NO_ERROR"
                 /\ n = "NO_ERROR" => pc = "read" \/ src = dst
<1> DEFINE o == CopyBegins(src, dst)
<1>1. /\ o.pc \in {"read", "finish"} /\ o.n \in {"NO_ERROR", "BAD_DATA"}
      /\ o.pc = "read" => isInitialized(src) /\ o.n = "NO_ERROR"
      /\ o.n = "NO_ERROR" => o.pc = "read" \/ src = dst
  BY DEF CopyBegins, ValidSource
<1>2. op' = [op EXCEPT ![t] = NewCopy(src, dst, o.pc, o.n)]
  BY Zenon DEF StartCopy, Begin, NewCopy
<1> HIDE DEF o
<1>3. \E pc \in {"read", "finish"}, n \in {"NO_ERROR", "BAD_DATA"} :
          /\ op' = [op EXCEPT ![t] = NewCopy(src, dst, pc, n)]
          /\ pc = "read" => isInitialized(src) /\ n = "NO_ERROR"
          /\ n = "NO_ERROR" => pc = "read" \/ src = dst
  BY <1>1, <1>2, Zenon
<1> QED BY <1>3, Zenon DEF StartCopy, Begin

\* How a call ends.
LEMMA Ended ==
    ASSUME TypeParts, NEW t \in Threads, Finish(t)
    PROVE  /\ op[t].pc = "finish" /\ op' = [op EXCEPT ![t] = Idle]
           /\ op' \in [Threads -> Call]
           /\ op'[t] = Idle /\ \A u \in Threads : u # t => op'[u] = op[u]
           /\ result' = [result EXCEPT ![t] = IF op[t].n = "NO_ERROR" THEN "NO_ERROR" ELSE "error"]
           /\ \A m \in Memories :
                 mem'[m] = IF m = op[t].dst
                           THEN [mem[m] EXCEPT !.initialized = InitializedAfter(op[t])]
                           ELSE mem[m]
           /\ \A m \in Memories :
                 /\ mem'[m].kind = mem[m].kind /\ mem'[m].buffer = mem[m].buffer
                 /\ mem'[m].token = mem[m].token
                 /\ mem'[m].initialized = IF m = op[t].dst THEN InitializedAfter(op[t])
                                          ELSE mem[m].initialized
           /\ UNCHANGED <<alive, trackerVars, mInitialized, data>>
<1>1. /\ op[t].pc = "finish" /\ op' = [op EXCEPT ![t] = Idle]
      /\ result' = [result EXCEPT ![t] = IF op[t].n = "NO_ERROR" THEN "NO_ERROR" ELSE "error"]
      /\ mem' = IF op[t].dst = Client THEN mem
                ELSE [mem EXCEPT ![op[t].dst].initialized = InitializedAfter(op[t])]
      /\ UNCHANGED <<alive, trackerVars, mInitialized, data>>
  BY Zenon DEF Finish
<1>2. Idle \in Call
  BY DEF Idle, Call, CallType, Locations
<1>3. op' \in [Threads -> Call] /\ op'[t] = Idle /\ \A u \in Threads : u # t => op'[u] = op[u]
  BY <1>1, <1>2 DEF TypeParts
<1>4. \A m \in Memories :
         mem'[m] = IF m = op[t].dst THEN [mem[m] EXCEPT !.initialized = InitializedAfter(op[t])]
                   ELSE mem[m]
  BY <1>1, DistinctAssumption DEF TypeParts, Call, CallType
<1>5. \A m \in Memories :
         /\ mem'[m].kind = mem[m].kind /\ mem'[m].buffer = mem[m].buffer
         /\ mem'[m].token = mem[m].token
         /\ mem'[m].initialized = IF m = op[t].dst THEN InitializedAfter(op[t])
                                  ELSE mem[m].initialized
  <2> SUFFICES ASSUME NEW m \in Memories
               PROVE  /\ mem'[m].kind = mem[m].kind /\ mem'[m].buffer = mem[m].buffer
                      /\ mem'[m].token = mem[m].token
                      /\ mem'[m].initialized = IF m = op[t].dst THEN InitializedAfter(op[t])
                                               ELSE mem[m].initialized
    OBVIOUS
  <2>1. mem[m] \in [kind : {"none", "device", "host"}, token : Nat,
                    buffer : Buffers \cup {NoBuffer}, initialized : BOOLEAN]
    BY DEF TypeParts
  <2>3. m # op[t].dst => mem'[m] = mem[m]
    BY <1>4
  <2>2. m = op[t].dst => mem'[m] = [mem[m] EXCEPT !.initialized = InitializedAfter(op[t])]
    BY <1>4
  <2> QED BY <2>1, <2>2, <2>3
<1> QED BY <1>1, <1>3, <1>4, <1>5

\* What a call does in the runtime keeps the types.
LEMMA TypeCalls ==
    ASSUME TypeParts, NEW t \in Threads
    PROVE  /\ Start(t) => TypeParts'
           /\ Fallback(t) => TypeParts'
           /\ CopyTo(t) => TypeParts'
           /\ CopyToFails(t) => TypeParts'
           /\ CopyFrom(t) => TypeParts'
           /\ CopyFromRefused(t) => TypeParts'
           /\ WriteFails(t) => TypeParts'
           /\ Finish(t) => TypeParts'
<1>1. ASSUME NEW src \in Memories \cup {Client}, NEW dst \in Memories \cup {Client},
             NEW kind \in Executions, StartExecution(t, kind, src, dst)
      PROVE  TypeParts'
  <2>2. op' \in [Threads -> Call]
    <3>1. \/ UNCHANGED op
          \/ \E f \in BOOLEAN : op' = [op EXCEPT ![t] = NewExecution(kind, src, dst, f)]
      BY <1>1, BegunExecution
    <3>2. \A f \in BOOLEAN : NewExecution(kind, src, dst, f) \in Call
      BY NewExecutions
    <3> QED BY <3>1, <3>2 DEF TypeParts
  <2>3. result' \in [Threads -> {"none", "pending", "NO_ERROR", "error"}]
    BY <1>1, BegunExecution DEF TypeParts
  <2>4. UNCHANGED <<mem, alive, trackerVars, mInitialized, data>>
    BY <1>1, BegunExecution, Zenon
  <2> QED BY <2>2, <2>3, <2>4, TypeCall DEF TypeParts
<1>2. ASSUME NEW src \in Memories \cup {Client}, NEW dst \in Memories \cup {Client},
             StartCopy(t, src, dst)
      PROVE  TypeParts'
  <2>1. PICK pc \in {"read", "finish"}, n \in {"NO_ERROR", "BAD_DATA"} :
            op' = [op EXCEPT ![t] = NewCopy(src, dst, pc, n)]
    BY <1>2, BegunCopy
  <2>2. NewCopy(src, dst, pc, n) \in Call
    BY NewCopies
  <2>3. op' \in [Threads -> Call]
    BY <2>1, <2>2 DEF TypeParts
  <2>4. result' \in [Threads -> {"none", "pending", "NO_ERROR", "error"}]
    BY <1>2, BegunCopy DEF TypeParts
  <2>5. UNCHANGED <<mem, alive, trackerVars, mInitialized, data>>
    BY <1>2, BegunCopy, Zenon
  <2> QED BY <2>3, <2>4, <2>5, TypeCall DEF TypeParts
<1>3. op' \in [Threads -> Call] /\ UNCHANGED <<mem, alive, trackerVars, result, mInitialized, data>>
      => TypeParts'
  BY TypeCall DEF TypeParts
<1>4. ASSUME Fallback(t) PROVE TypeParts'
  <2>1. op' \in [Threads -> Call]
    BY <1>4, Moving, Zenon DEF Moves
  <2>2. UNCHANGED <<mem, alive, trackerVars, result, mInitialized, data>>
    BY <1>4, Zenon DEF Fallback
  <2> QED BY <1>3, <2>1, <2>2
<1>5. ASSUME CopyTo(t) \/ CopyToFails(t) PROVE TypeParts'
  <2>1. op' \in [Threads -> Call]
    BY <1>5, Moving, Zenon DEF Moves
  <2>2. UNCHANGED <<mem, alive, trackerVars, result, mInitialized, data>>
    BY <1>5, Zenon DEF CopyTo, CopyToFails
  <2> QED BY <1>3, <2>1, <2>2
<1>6. ASSUME CopyFrom(t) PROVE TypeParts'
  <2>1. op' \in [Threads -> Call]
    BY <1>6, Moving, Zenon DEF Moves
  <2>2. data' \in [Buffers \cup Memories -> {"good", "garbage"}]
    <3>1. /\ op[t].dst \in Memories \cup {Client} /\ op[t].read \in {"good", "garbage"}
          /\ data' = Put(Location(op[t].dst), op[t].read)
      BY <1>6, CallFields, Zenon DEF CopyFrom
    <3>2. Location(op[t].dst) \in Locations
      BY <3>1, Parts, PlaceTypes
    <3> QED BY <3>1, <3>2, Parts, DataTypes DEF TypeInv
  <2>3. /\ mInitialized' = [b \in Buffers |-> mInitialized[b] \/ b = Location(op[t].dst)]
        /\ UNCHANGED <<mem, result, alive, trackerVars>>
    BY <1>6, Zenon DEF CopyFrom
  <2>4. mInitialized' \in [Buffers -> BOOLEAN]
    BY <2>3
  <2> QED BY <2>1, <2>2, <2>3, <2>4, TypeCall DEF TypeParts
<1>7. ASSUME CopyFromRefused(t) PROVE TypeParts'
  <2>1. op' \in [Threads -> Call]
    BY <1>7, Moving, Zenon DEF Moves
  <2>2. /\ mInitialized' = [mInitialized EXCEPT ![mem[op[t].dst].buffer] = FALSE]
        /\ UNCHANGED <<mem, result, alive, trackerVars, data>>
    BY <1>7, Zenon DEF CopyFromRefused
  <2>3. mInitialized' \in [Buffers -> BOOLEAN]
    BY <2>2 DEF TypeParts
  <2> QED BY <2>1, <2>2, <2>3, TypeCall DEF TypeParts
<1>8. ASSUME WriteFails(t) PROVE TypeParts'
  <2>1. op' \in [Threads -> Call]
    BY <1>8, Moving, Zenon DEF Moves
  <2>2. op[t].dst \in Locations
    BY DEF TypeParts, Call, CallType, Locations
  <2>3. data' \in [Buffers \cup Memories -> {"good", "garbage"}]
    BY <1>8, <2>2, Parts, DataTypes DEF WriteFails, TypeInv, TypeParts
  <2>4. UNCHANGED <<mem, result, alive, trackerVars, mInitialized>>
    BY <1>8, Zenon DEF WriteFails
  <2> QED BY <2>1, <2>3, <2>4, TypeCall DEF TypeParts
<1>9. ASSUME Finish(t) PROVE TypeParts'
  <2>1. InitializedAfter(op[t]) \in BOOLEAN \/ op[t].dst = Client
    BY CallFields DEF InitializedAfter, TypeParts
  <2>2. mem' \in [Memories -> [kind : {"none", "device", "host"}, token : Nat,
                               buffer : Buffers \cup {NoBuffer}, initialized : BOOLEAN]]
    <3>1. mem' = IF op[t].dst = Client THEN mem
                 ELSE [mem EXCEPT ![op[t].dst].initialized = InitializedAfter(op[t])]
      BY <1>9, Zenon DEF Finish
    <3> QED BY <2>1, <3>1, CallFields DEF TypeParts
  <2>3. \A m \in Memories : /\ mem'[m].kind = mem[m].kind /\ mem'[m].buffer = mem[m].buffer
                            /\ mem'[m].token = mem[m].token
    BY <1>9, Ended
  <2>4. \A m \in Memories : OnDevice(m)' => /\ mem'[m].buffer \in Buffers
                                            /\ alive' => mem'[m].token \in DOMAIN mTokenToBuffers'
    BY <1>9, <2>3, Ended DEF TypeParts, OnDevice, trackerVars
  <2>5. result' \in [Threads -> {"none", "pending", "NO_ERROR", "error"}]
    BY <1>9, Ended DEF TypeParts
  <2> QED BY <1>9, <2>2, <2>4, <2>5, Ended DEF TypeParts, TrackerOK, trackerVars
<1> QED BY <1>1, <1>2, <1>3, <1>4, <1>5, <1>6, <1>7, <1>8, <1>9, Zenon DEF Start

\* The invariant holds of every step.
LEMMA TypeNext == TypeInv /\ [Next]_vars => TypeInv'
<1> SUFFICES ASSUME TypeParts, [Next]_vars PROVE TypeParts'
  BY Parts
<1>1. ASSUME NEW m \in Memories, CreateOnDevice(m) \/ CreateOnHost(m) \/ MemoryFree(m)
      PROVE  TypeParts'
  BY <1>1, TypeMemories, Zenon
<1>2. ASSUME NEW token \in released, FreeToken(token) PROVE TypeParts'
  BY <1>2, TypeTracker, Zenon
<1>3. ASSUME NEW t \in Threads, Start(t) \/ Continue(t) PROVE TypeParts'
  BY <1>3, TypeDriver, TypeCalls, Zenon DEF Continue
<1>4. ASSUME DriverDies PROVE TypeParts'
  BY <1>4, TypeTracker, Zenon
<1>5. ASSUME UNCHANGED vars PROVE TypeParts'
  BY <1>5 DEF vars, trackerVars, TypeParts, TrackerOK, OnDevice
<1> QED BY <1>1, <1>2, <1>3, <1>4, <1>5, Zenon DEF Next

-------------------------------------------------------------------------------
(* Tokens.                                                                  *)

\* A call has no part in the life of memories and tokens.
LEMMA CallKeeps ==
    ASSUME TypeInv, NEW t \in Threads, Start(t) \/ Continue(t)
    PROVE  /\ UNCHANGED <<alive, mTokenToBuffers, mFreeTokens, released>>
           /\ \A m \in Memories :
                 /\ mem'[m].kind = mem[m].kind /\ mem'[m].buffer = mem[m].buffer
                 /\ mem'[m].token = mem[m].token
           /\ Finish(t) \/ UNCHANGED mem
<1> USE DEF trackerVars
<1>1. CASE Start(t)
  <2>1. PICK src \in Memories \cup {Client}, dst \in Memories \cup {Client} :
            (\E kind \in Executions : StartExecution(t, kind, src, dst)) \/ StartCopy(t, src, dst)
    BY <1>1, Zenon DEF Start
  <2>2. UNCHANGED <<mem, alive, trackerVars, mInitialized, data>>
    BY <2>1, BegunExecution, BegunCopy
  <2> QED BY <2>2
<1>2. CASE Finish(t)
  BY <1>2, Parts, Ended
<1>3. CASE Continue(t) /\ ~Finish(t)
  <2>1. UNCHANGED <<mem, alive, trackerVars>>
    BY <1>3, Zenon DEF Continue, DriverAccepts, DriverRefuses, DriverSucceeds, DriverFails,
                       Fallback, CopyTo, CopyToFails, CopyFrom, CopyFromRefused, WriteFails
  <2> QED BY <2>1
<1> QED BY <1>1, <1>2, <1>3

\* There are no tokens initially.
LEMMA TokenInit == Init => TokenInv
BY DEF Init, TokenInv, OnDevice, NoMemory

\* Tokens are handed out when a memory is created, released with it, and free
\* again once the driver has heard of it.
LEMMA TokenNext == TypeInv /\ TokenInv /\ [Next]_vars => TokenInv'
<1> SUFFICES ASSUME TypeInv, TokenInv, [Next]_vars PROVE TokenInv'
  OBVIOUS
<1> USE DEF trackerVars
<1>1. TypeParts
  BY Parts
<1>2. ASSUME NEW m \in Memories, CreateOnDevice(m) PROVE TokenInv'
  <2>1. PICK b \in Buffers, token \in 1 .. Len(mTokenToBuffers) + 1 :
            /\ Unused(b) /\ Add(b, token)
            /\ mem' = [mem EXCEPT ![m] = [kind |-> "device", token |-> token, buffer |-> b,
                                          initialized |-> FALSE]]
    BY <1>2, Zenon DEF CreateOnDevice
  <2>2. alive /\ alive' /\ released' = released /\ ~Live(m)
    BY <1>2 DEF CreateOnDevice
  <2>3. /\ token \in DOMAIN mTokenToBuffers'
        /\ DOMAIN mTokenToBuffers \subseteq DOMAIN mTokenToBuffers'
        /\ DOMAIN mTokenToBuffers' \subseteq DOMAIN mTokenToBuffers \cup {token}
        /\ \A k \in DOMAIN mTokenToBuffers' :
              mTokenToBuffers'[k] = IF k = token THEN b ELSE mTokenToBuffers[k]
        /\ \/ token \notin DOMAIN mTokenToBuffers /\ mFreeTokens = <<>> /\ mFreeTokens' = <<>>
           \/ /\ mFreeTokens # <<>> /\ token = mFreeTokens[Len(mFreeTokens)]
              /\ \A i \in DOMAIN mFreeTokens' : /\ i \in DOMAIN mFreeTokens
                                                /\ i # Len(mFreeTokens)
                                                /\ mFreeTokens'[i] = mFreeTokens[i]
    BY <1>1, <2>1, <2>2, AddToken DEF TypeParts
  <2>4. \A k \in DOMAIN mTokenToBuffers : mTokenToBuffers[k] # b
    BY <2>1 DEF Unused, Range
  <2>5. token \notin DOMAIN mTokenToBuffers \/ mTokenToBuffers[token] = NoBuffer
    <3>1. mFreeTokens # <<>> => Len(mFreeTokens) \in DOMAIN mFreeTokens
      BY <1>1 DEF TypeParts, TrackerOK
    <3> QED BY <2>2, <2>3, <3>1 DEF TokenInv
  <2>6. \A k \in Memories : OnDevice(k)' =>
           \/ k = m /\ mem'[k].token = token /\ mem'[k].buffer = b
           \/ k # m /\ OnDevice(k) /\ mem'[k] = mem[k]
    <3>1. /\ mem'[m] = [kind |-> "device", token |-> token, buffer |-> b, initialized |-> FALSE]
          /\ \A k \in Memories : k # m => mem'[k] = mem[k]
      BY <1>1, <2>1 DEF TypeParts
    <3>2. mem'[m].token = token /\ mem'[m].buffer = b
      BY <3>1
    <3> QED BY <3>1, <3>2 DEF OnDevice
  <2>7. \A k \in Memories : OnDevice(k) => mem[k].token # token
    BY <1>1, <2>2, <2>5, DistinctAssumption DEF TokenInv, TypeParts
  <2>8. \A k \in Memories : OnDevice(k)' => /\ mem'[k].token \notin released'
                                            /\ mTokenToBuffers'[mem'[k].token] = mem'[k].buffer
    <3>1. token \notin released
      BY <1>1, <2>2, <2>5, DistinctAssumption DEF TokenInv, TypeParts, TrackerOK
    <3> QED BY <1>1, <2>2, <2>3, <2>6, <2>7, <3>1 DEF TokenInv, TypeParts
  <2>9. \A m1, m2 \in Memories :
           OnDevice(m1)' /\ OnDevice(m2)' /\ mem'[m1].token = mem'[m2].token => m1 = m2
    BY <2>2, <2>6, <2>7 DEF TokenInv
  <2>10. /\ \A i \in DOMAIN mFreeTokens' : mTokenToBuffers'[mFreeTokens'[i]] = NoBuffer
         /\ \A i, j \in DOMAIN mFreeTokens' : mFreeTokens'[i] = mFreeTokens'[j] => i = j
    <3>1. CASE mFreeTokens = <<>>
      BY <2>3, <3>1
    <3>2. CASE mFreeTokens # <<>>
      <4>1. Len(mFreeTokens) \in DOMAIN mFreeTokens
        BY <1>1, <3>2 DEF TypeParts, TrackerOK
      <4>2. \A i \in DOMAIN mFreeTokens' : /\ i \in DOMAIN mFreeTokens
                                           /\ mFreeTokens'[i] = mFreeTokens[i]
                                           /\ mFreeTokens[i] # token
                                           /\ mFreeTokens[i] \in DOMAIN mTokenToBuffers
        BY <1>1, <2>2, <2>3, <3>2, <4>1 DEF TokenInv, TypeParts, TrackerOK
      <4> QED BY <2>2, <2>3, <4>2 DEF TokenInv
    <3> QED BY <3>1, <3>2
  <2>11. \A k \in released' : mTokenToBuffers'[k] \in Buffers
    BY <1>1, <2>1, <2>2, <2>3 DEF TokenInv, TypeParts, TrackerOK
  <2>12. \A j, k \in DOMAIN mTokenToBuffers' :
            mTokenToBuffers'[j] = mTokenToBuffers'[k] /\ mTokenToBuffers'[j] # NoBuffer => j = k
    BY <2>2, <2>3, <2>4 DEF TokenInv
  <2> QED BY <2>8, <2>9, <2>10, <2>11, <2>12, Zenon DEF TokenInv
<1>3. ASSUME NEW m \in Memories, CreateOnHost(m) PROVE TokenInv'
  BY <1>1, <1>3 DEF CreateOnHost, TokenInv, OnDevice, NoMemory, TypeParts
<1>4. ASSUME NEW m \in Memories, MemoryFree(m) PROVE TokenInv'
  BY <1>1, <1>4 DEF MemoryFree, TokenInv, OnDevice, NoMemory, TypeParts
<1>5. ASSUME NEW token \in released, FreeToken(token) PROVE TokenInv'
  <2>1. /\ alive /\ token \in DOMAIN mTokenToBuffers /\ mTokenToBuffers[token] \in Buffers
        /\ UNCHANGED <<mem, alive>>
        /\ mTokenToBuffers' = [mTokenToBuffers EXCEPT ![token] = NoBuffer]
        /\ mFreeTokens' = Append(mFreeTokens, token) /\ released' = released \ {token}
    BY <1>1, <1>5 DEF FreeToken, Pushed, TokenInv, TypeParts, TrackerOK
  <2>2. /\ DOMAIN mTokenToBuffers' = DOMAIN mTokenToBuffers
        /\ \A k \in DOMAIN mTokenToBuffers :
              mTokenToBuffers'[k] = IF k = token THEN NoBuffer ELSE mTokenToBuffers[k]
    BY <1>1, <2>1 DEF TypeParts, TrackerOK
  <2>3. /\ \A i \in DOMAIN mFreeTokens : mFreeTokens[i] \in DOMAIN mTokenToBuffers
        /\ \A i \in DOMAIN mFreeTokens' :
              \/ i \in DOMAIN mFreeTokens /\ mFreeTokens'[i] = mFreeTokens[i]
              \/ i = Len(mFreeTokens) + 1 /\ mFreeTokens'[i] = token
    BY <1>1, <2>1 DEF TypeParts, TrackerOK
  <2>4. \A i \in DOMAIN mFreeTokens : mFreeTokens[i] # token
    BY <2>1, DistinctAssumption DEF TokenInv
  <2>5. \A m \in Memories : OnDevice(m)' => /\ OnDevice(m) /\ mem[m].token # token
                                            /\ mem[m].token \in DOMAIN mTokenToBuffers
    BY <1>1, <2>1 DEF TokenInv, TypeParts, OnDevice
  <2>6. /\ \A m \in Memories : OnDevice(m)' =>
              /\ mem'[m].token \notin released'
              /\ mTokenToBuffers'[mem'[m].token] = mem'[m].buffer
        /\ \A m1, m2 \in Memories :
              OnDevice(m1)' /\ OnDevice(m2)' /\ mem'[m1].token = mem'[m2].token => m1 = m2
    BY <2>1, <2>2, <2>5 DEF TokenInv
  <2>7. /\ \A i \in DOMAIN mFreeTokens' : mTokenToBuffers'[mFreeTokens'[i]] = NoBuffer
        /\ \A i, j \in DOMAIN mFreeTokens' : mFreeTokens'[i] = mFreeTokens'[j] => i = j
    BY <2>1, <2>2, <2>3, <2>4 DEF TokenInv
  <2>8. /\ \A k \in released' : mTokenToBuffers'[k] \in Buffers
        /\ \A j, k \in DOMAIN mTokenToBuffers' :
              mTokenToBuffers'[j] = mTokenToBuffers'[k] /\ mTokenToBuffers'[j] # NoBuffer => j = k
    BY <1>1, <2>1, <2>2 DEF TokenInv, TypeParts, TrackerOK
  <2> QED BY <2>6, <2>7, <2>8, Zenon DEF TokenInv
<1>6. ASSUME NEW t \in Threads, Start(t) \/ Continue(t) PROVE TokenInv'
  <2>1. \A m \in Memories : OnDevice(m)' <=> OnDevice(m)
    BY <1>6, CallKeeps DEF OnDevice
  <2> QED BY <1>6, <2>1, CallKeeps DEF TokenInv
<1>7. ASSUME DriverDies PROVE TokenInv'
  BY <1>7 DEF DriverDies, TokenInv
<1>8. ASSUME UNCHANGED vars PROVE TokenInv'
  BY <1>8 DEF vars, TokenInv, OnDevice
<1> QED BY <1>2, <1>3, <1>4, <1>5, <1>6, <1>7, <1>8, Zenon DEF Next

\* The driver finds the place of a live memory under its token.
LEMMA PoolIsLocation ==
    ASSUME TypeInv, TokenInv, alive, NEW m \in Memories \cup {Client}
    PROVE  Pool(m) = Location(m)
BY DEF TypeInv, TokenInv, Pool, Location, Get, OnDevice

\* No two memories share a place.
LEMMA PlacesDiffer ==
    ASSUME TypeInv, TokenInv, NEW m1 \in Memories \cup {Client}, NEW m2 \in Memories \cup {Client},
           alive \/ ~OnDevice(m1), Location(m1) = Location(m2)
    PROVE  m1 = m2
<1>1. CASE OnDevice(m1) /\ OnDevice(m2)
  BY <1>1, DistinctAssumption DEF TypeInv, TokenInv, Location, OnDevice
<1>2. CASE ~(OnDevice(m1) /\ OnDevice(m2))
  BY <1>2, PlaceTypes, DistinctAssumption
<1> QED BY <1>1, <1>2

-------------------------------------------------------------------------------
(* Calls.                                                                   *)

\* Nobody calls initially.
LEMMA CallInit == Init => CallInv /\ ResultInv
BY DEF Init, CallInv, ResultInv, Active, Idle

\* A memory that is in use stays what and where it is.
LEMMA InUseStays ==
    ASSUME TypeInv, CallInv, [Next]_vars, NEW t \in Threads, Active(t),
           NEW m \in {op[t].src, op[t].dst}
    PROVE  /\ m # Client => /\ m \in Memories /\ mem'[m].kind = mem[m].kind
                            /\ mem'[m].kind # "none" /\ mem'[m].buffer = mem[m].buffer
                            /\ mem'[m].token = mem[m].token
           /\ Live(m)' /\ Location(m)' = Location(m) /\ (OnDevice(m)' <=> OnDevice(m))
<1>1. TypeParts
  BY Parts
<1>2. m \in Memories \cup {Client} /\ Live(m)
  BY <1>1, CallFields DEF CallInv
<1>3. m # Client => /\ mem'[m].kind = mem[m].kind /\ mem'[m].buffer = mem[m].buffer
                    /\ mem'[m].token = mem[m].token
  <2> SUFFICES ASSUME m \in Memories, m # Client
               PROVE  /\ mem'[m].kind = mem[m].kind /\ mem'[m].buffer = mem[m].buffer
                      /\ mem'[m].token = mem[m].token
    BY <1>2
  <2>1. ASSUME NEW k \in Memories, CreateOnDevice(k) \/ CreateOnHost(k) \/ MemoryFree(k)
        PROVE  mem'[m] = mem[m]
    <3>1. k # m
      BY <1>2, <2>1 DEF CreateOnDevice, CreateOnHost, MemoryFree, InUse
    <3> QED BY <1>1, <2>1, <3>1 DEF CreateOnDevice, CreateOnHost, MemoryFree, TypeParts
  <2>2. ASSUME NEW token \in released, FreeToken(token) PROVE mem'[m] = mem[m]
    BY <2>2 DEF FreeToken
  <2>3. ASSUME NEW u \in Threads, Start(u) \/ Continue(u)
        PROVE  /\ mem'[m].kind = mem[m].kind /\ mem'[m].buffer = mem[m].buffer
               /\ mem'[m].token = mem[m].token
    BY <2>3, CallKeeps
  <2>4. ASSUME DriverDies \/ UNCHANGED vars PROVE mem'[m] = mem[m]
    BY <2>4 DEF DriverDies, vars
  <2> QED BY <2>1, <2>2, <2>3, <2>4, Zenon DEF Next
<1> QED BY <1>2, <1>3 DEF Live, Location, OnDevice

\* A call that begins.
Started(t, c) ==
    /\ ~Active(t) /\ Ordered(c.src, c.dst)
    /\ op' = [op EXCEPT ![t] = c] /\ result' = [result EXCEPT ![t] = "pending"]
    /\ UNCHANGED <<mem, alive, trackerVars, mInitialized, data>>
    /\ c.src # c.dst \/ c.src = Client \/ "selfCopy" \in Kinds
    /\ \/ c.pc = "request" /\ c.kind \in Kinds /\ c.n = "NO_ERROR" /\ isInitialized(c.src)
       \/ c.pc = "request" /\ c.kind = "fenced" /\ c.kind \in Kinds /\ c.n = "NO_ERROR"
       \/ c.pc = "read" /\ c.kind = "copy" /\ c.n = "NO_ERROR" /\ isInitialized(c.src)
       \/ c.pc = "finish" /\ c.kind = "copy" /\ (c.n = "BAD_DATA" \/ "selfCopy" \in Kinds)

\* A call that is turned away.
TurnedAway(t) ==
    /\ ~Active(t) /\ result' = [result EXCEPT ![t] = "error"]
    /\ UNCHANGED <<op, mem, alive, trackerVars, mInitialized, data>>

\* What the client starts is a call that begins or is turned away.
LEMMA Starting ==
    ASSUME NEW t \in Threads, Start(t)
    PROVE  TurnedAway(t) \/ \E c \in Call : Started(t, c)
<1>1. ASSUME NEW kind \in Executions, NEW src \in Memories \cup {Client},
             NEW dst \in Memories \cup {Client}, StartExecution(t, kind, src, dst)
      PROVE  TurnedAway(t) \/ \E c \in Call : Started(t, c)
  <2>1. /\ UNCHANGED <<mem, alive, trackerVars, mInitialized, data>>
        /\ kind \in Kinds /\ ~Active(t) /\ Ordered(src, dst) /\ (src # dst \/ src = Client)
    BY <1>1, BegunExecution
  <2>2. CASE UNCHANGED op /\ result' = [result EXCEPT ![t] = "error"]
    BY <2>1, <2>2, Zenon DEF TurnedAway
  <2>3. CASE /\ validateInputDimensions(kind, src)
             /\ result' = [result EXCEPT ![t] = "pending"]
             /\ \E f \in BOOLEAN : op' = [op EXCEPT ![t] = NewExecution(kind, src, dst, f)]
    <3>1. PICK f \in BOOLEAN : op' = [op EXCEPT ![t] = NewExecution(kind, src, dst, f)]
      BY <2>3
    <3> DEFINE c == NewExecution(kind, src, dst, f)
    <3>2. /\ c \in Call /\ c.pc = "request" /\ c.kind = kind /\ c.src = src
          /\ c.dst = dst /\ c.n = "NO_ERROR"
      BY NewExecutions
    <3>3. op' = [op EXCEPT ![t] = c]
      BY <3>1
    <3> HIDE DEF c
    <3>4. isInitialized(src) \/ kind = "fenced"
      BY <2>3 DEF validateInputDimensions, Executions
    <3>5. Started(t, c)
      BY <2>1, <2>3, <3>2, <3>3, <3>4, Zenon DEF Started
    <3> QED BY <3>2, <3>5
  <2> QED BY <1>1, <2>2, <2>3, BegunExecution
<1>2. ASSUME NEW src \in Memories \cup {Client}, NEW dst \in Memories \cup {Client},
             StartCopy(t, src, dst)
      PROVE  \E c \in Call : Started(t, c)
  <2>1. /\ UNCHANGED <<mem, alive, trackerVars, mInitialized, data>>
        /\ ~Active(t) /\ Ordered(src, dst) /\ (src # dst \/ "selfCopy" \in Kinds)
        /\ result' = [result EXCEPT ![t] = "pending"]
    BY <1>2, BegunCopy
  <2>2. PICK pc \in {"read", "finish"}, n \in {"NO_ERROR", "BAD_DATA"} :
            /\ op' = [op EXCEPT ![t] = NewCopy(src, dst, pc, n)]
            /\ pc = "read" => isInitialized(src) /\ n = "NO_ERROR"
            /\ n = "NO_ERROR" => pc = "read" \/ src = dst
    BY <1>2, BegunCopy
  <2> DEFINE c == NewCopy(src, dst, pc, n)
  <2>3. /\ c \in Call /\ c.pc = pc /\ c.kind = "copy" /\ c.src = src
        /\ c.dst = dst /\ c.n = n
    BY NewCopies
  <2>4. op' = [op EXCEPT ![t] = c]
    BY <2>2
  <2> HIDE DEF c
  <2>5. \/ c.pc = "read" /\ c.kind = "copy" /\ c.n = "NO_ERROR" /\ isInitialized(c.src)
        \/ c.pc = "finish" /\ c.kind = "copy" /\ (c.n = "BAD_DATA" \/ "selfCopy" \in Kinds)
    BY <2>1, <2>2, <2>3
  <2>6. Started(t, c)
    BY <2>1, <2>3, <2>4, <2>5, Zenon DEF Started
  <2> QED BY <2>3, <2>6
<1> QED BY <1>1, <1>2, Zenon DEF Start

\* What goes on in a call, in one formula.
MovesOn(t) ==
    /\ Active(t) /\ UNCHANGED <<mem, result, alive, trackerVars>>
    /\ \E pc \in {"running", "failed", "read", "write", "finish"} :
       \E in, out, read, n : Moves(t, pc, in, out, read, n)

\* Every step of a call but its last makes it go on.
LEMMA MovingOn ==
    ASSUME TypeInv, NEW t \in Threads, Continue(t), ~Finish(t)
    PROVE  MovesOn(t)
<1>1. /\ UNCHANGED <<mem, result, alive, trackerVars>>
      /\ op[t].pc \in {"request", "running", "failed", "read", "write"}
  BY Zenon DEF Continue, DriverAccepts, DriverRefuses, DriverSucceeds, DriverFails,
               Fallback, CopyTo, CopyToFails, CopyFrom, CopyFromRefused, WriteFails
<1>2. Active(t)
  BY <1>1 DEF Active
<1>3. \E pc \in {"running", "failed", "read", "write", "finish"} :
      \E in, out, read, n : Moves(t, pc, in, out, read, n)
  BY Parts, Moving, Zenon DEF Continue
<1> QED BY <1>1, <1>2, <1>3, Zenon DEF MovesOn

\* The steps of the system, as the calls see them.
LEMMA CallSteps ==
    ASSUME TypeInv, [Next]_vars
    PROVE  \/ UNCHANGED <<op, result>>
           \/ \E t \in Threads : \/ TurnedAway(t)
                                 \/ \E c \in Call : Started(t, c)
                                 \/ Continue(t) /\ ~Finish(t) /\ MovesOn(t)
                                 \/ Finish(t)
<1>1. ASSUME NEW t \in Threads, Start(t)
      PROVE  TurnedAway(t) \/ \E c \in Call : Started(t, c)
  BY <1>1, Starting
<1>2. ASSUME NEW t \in Threads, Continue(t), ~Finish(t) PROVE MovesOn(t)
  BY <1>2, MovingOn
<1>3. ASSUME \/ \E m \in Memories : CreateOnDevice(m) \/ CreateOnHost(m) \/ MemoryFree(m)
             \/ \E token \in released : FreeToken(token)
             \/ DriverDies \/ UNCHANGED vars
      PROVE  UNCHANGED <<op, result>>
  BY <1>3, Zenon DEF CreateOnDevice, CreateOnHost, MemoryFree, FreeToken, DriverDies, vars
<1> QED BY <1>1, <1>2, <1>3, Zenon DEF Next

\* Where each call comes from: it is as before, has gone on, or has begun.
LEMMA CallOrigin ==
    ASSUME TypeInv, [Next]_vars, NEW u \in Threads, Active(u)'
    PROVE  \/ Active(u) /\ op'[u] = op[u]
           \/ Continue(u) /\ ~Finish(u) /\ MovesOn(u)
           \/ \E c \in Call : Started(u, c) /\ op'[u] = c
<1>1. op \in [Threads -> Call]
  BY Parts DEF TypeParts
<1>2. CASE UNCHANGED op
  BY <1>2 DEF Active
<1>3. ASSUME NEW t \in Threads, NEW c \in Call, Started(t, c)
      PROVE  \/ Active(u) /\ op'[u] = op[u]
             \/ t = u /\ op'[u] = c
  <2>1. op' = [op EXCEPT ![t] = c]
    BY <1>3 DEF Started
  <2> QED BY <1>1, <2>1 DEF Active
<1>4. ASSUME NEW t \in Threads, MovesOn(t)
      PROVE  t = u \/ (Active(u) /\ op'[u] = op[u])
  <2>1. \A k \in Threads : k # t => op'[k] = op[k]
    BY <1>4, Zenon DEF MovesOn, Moves
  <2> QED BY <2>1 DEF Active
<1>5. ASSUME NEW t \in Threads, Finish(t)
      PROVE  Active(u) /\ op'[u] = op[u]
  <2>1. op'[t] = Idle /\ \A k \in Threads : k # t => op'[k] = op[k]
    BY <1>5, Ended, Parts
  <2> QED BY <2>1 DEF Active, Idle
<1>6. \/ UNCHANGED op
      \/ \E t \in Threads : \/ \E c \in Call : Started(t, c)
                            \/ Continue(t) /\ ~Finish(t) /\ MovesOn(t)
                            \/ Finish(t)
  BY CallSteps, Zenon DEF TurnedAway
<1> QED BY <1>2, <1>3, <1>4, <1>5, <1>6, Zenon

\* Only one call changes at a time.
LEMMA OneCall ==
    ASSUME TypeInv, [Next]_vars, NEW t \in Threads, NEW u \in Threads, t # u
    PROVE  op'[t] = op[t] \/ op'[u] = op[u]
<1>1. op \in [Threads -> Call]
  BY Parts DEF TypeParts
<1>2. ASSUME NEW k \in Threads, \/ \E c \in Call : Started(k, c)
                                \/ MovesOn(k)
                                \/ Finish(k)
      PROVE  \A l \in Threads : l # k => op'[l] = op[l]
  <2>1. CASE \E c \in Call : Started(k, c)
    BY <1>1, <2>1 DEF Started
  <2>2. CASE MovesOn(k)
    BY <2>2, Zenon DEF MovesOn, Moves
  <2>3. CASE Finish(k)
    BY <2>3, Ended, Parts
  <2> QED BY <1>2, <2>1, <2>2, <2>3
<1>3. UNCHANGED op \/ \E k \in Threads : \A l \in Threads : l # k => op'[l] = op[l]
  BY <1>2, CallSteps, Zenon DEF TurnedAway
<1> QED BY <1>3

\* A call that goes on keeps its memories, and runs where they are.
LEMMA MovesOnKeeps ==
    ASSUME TypeInv, TokenInv, NEW u \in Threads, Continue(u), ~Finish(u), MovesOn(u)
    PROVE  /\ Active(u) /\ Active(u)' /\ UNCHANGED mem
           /\ op'[u].src = op[u].src /\ op'[u].dst = op[u].dst /\ op'[u].kind = op[u].kind
           /\ op'[u].pc = "running" => /\ op'[u].in = Location(op[u].src)
                                       /\ op'[u].out = Location(op[u].dst)
<1>1. /\ Active(u) /\ UNCHANGED mem
      /\ op'[u].src = op[u].src /\ op'[u].dst = op[u].dst /\ op'[u].kind = op[u].kind
      /\ op'[u].pc \in {"running", "failed", "read", "write", "finish"}
  BY Zenon DEF MovesOn, Moves
<1>2. op'[u].pc = "running" => DriverAccepts(u)
  <2>1. ASSUME NEW pc, NEW in, NEW out, NEW read, NEW n, Moves(u, pc, in, out, read, n),
               op'[u].pc = "running"
        PROVE  pc = "running"
    BY <2>1 DEF Moves
  <2>2. /\ "failed" # "running" /\ "finish" # "running" /\ "read" # "running"
        /\ "write" # "running"
    OBVIOUS
  <2> QED BY <2>1, <2>2, Moving, Parts, Zenon DEF Continue
<1>3. DriverAccepts(u) => /\ alive /\ op'[u].in = Pool(op[u].src)
                          /\ op'[u].out = Pool(op[u].dst)
  BY Moving, Parts, Zenon DEF DriverAccepts, Moves
<1>4. DriverAccepts(u) => /\ op'[u].in = Location(op[u].src)
                          /\ op'[u].out = Location(op[u].dst)
  BY <1>3, PoolIsLocation, CallFields, Parts
<1> QED BY <1>1, <1>2, <1>4 DEF Active

\* Calls hold on to their memories, and the client keeps them apart.
LEMMA CallNext == TypeInv /\ TokenInv /\ CallInv /\ [Next]_vars => CallInv'
<1> SUFFICES ASSUME TypeInv, TokenInv, CallInv, [Next]_vars PROVE CallInv'
  OBVIOUS
<1>1. ASSUME NEW u \in Threads, Active(u)'
      PROVE  /\ Live(op[u].src)' /\ Live(op[u].dst)'
             /\ op'[u].pc = "running" => /\ op'[u].in = Location(op[u].src)'
                                         /\ op'[u].out = Location(op[u].dst)'
  <2>1. CASE Active(u) /\ op'[u] = op[u]
    <3>1. ASSUME NEW m \in {op[u].src, op[u].dst}
          PROVE  Live(m)' /\ Location(m)' = Location(m)
      BY <2>1, InUseStays
    <3>2. op[u].pc = "running" => /\ op[u].in = Location(op[u].src)
                                  /\ op[u].out = Location(op[u].dst)
      BY <2>1 DEF CallInv
    <3> QED BY <2>1, <3>1, <3>2 DEF Live, Location, OnDevice
  <2>2. CASE Continue(u) /\ ~Finish(u) /\ MovesOn(u)
    <3>1. Live(op[u].src) /\ Live(op[u].dst)
      BY <2>2, MovesOnKeeps DEF CallInv
    <3> QED BY <2>2, <3>1, MovesOnKeeps DEF Live, Location, OnDevice
  <2>3. ASSUME NEW c \in Call, Started(u, c), op'[u] = c
        PROVE  /\ Live(op[u].src)' /\ Live(op[u].dst)' /\ op'[u].pc # "running"
    BY <2>3 DEF Started, Ordered, Live
  <2> QED BY <1>1, <2>1, <2>2, <2>3, CallOrigin
<1>2. ASSUME NEW t \in Threads, NEW u \in Threads, t # u, Active(t)', Active(u)',
             op'[t].dst # Client
      PROVE  op'[t].dst # op'[u].src /\ op'[t].dst # op'[u].dst
  <2>1. ASSUME NEW k \in Threads, Active(k)'
        PROVE  \/ Active(k) /\ op'[k].src = op[k].src /\ op'[k].dst = op[k].dst
               \/ \E c \in Call : Started(k, c) /\ op'[k] = c
    BY <2>1, CallOrigin, MovesOnKeeps
  <2>2. CASE /\ Active(t) /\ op'[t].src = op[t].src /\ op'[t].dst = op[t].dst
             /\ Active(u) /\ op'[u].src = op[u].src /\ op'[u].dst = op[u].dst
    BY <1>2, <2>2 DEF CallInv
  <2>3. ASSUME NEW c \in Call, Started(t, c), op'[t] = c
        PROVE  op'[t].dst # op'[u].src /\ op'[t].dst # op'[u].dst
    <3>1. op'[u] = op[u]
      BY <1>2, <2>3, OneCall DEF Started, Active
    <3>2. ~InUse(c.dst)
      BY <1>2, <2>3 DEF Started, Ordered
    <3> QED BY <1>2, <2>3, <3>1, <3>2 DEF InUse, Active
  <2>4. ASSUME NEW c \in Call, Started(u, c), op'[u] = c
        PROVE  op'[t].dst # op'[u].src /\ op'[t].dst # op'[u].dst
    <3>1. op'[t] = op[t]
      BY <1>2, <2>4, OneCall DEF Started, Active
    <3>2. /\ c.src # Client => ~Written(c.src)
          /\ c.dst # Client => ~InUse(c.dst)
      BY <2>4 DEF Started, Ordered
    <3> QED BY <1>2, <2>4, <3>1, <3>2 DEF InUse, Written, Active
  <2> QED BY <1>2, <2>1, <2>2, <2>3, <2>4
<1> QED BY <1>1, <1>2 DEF CallInv

\* A result is pending as long as the call runs.
LEMMA ResultNext == TypeInv /\ ResultInv /\ [Next]_vars => ResultInv'
<1> SUFFICES ASSUME TypeInv, ResultInv, [Next]_vars PROVE ResultInv'
  OBVIOUS
<1>1. /\ op \in [Threads -> Call]
      /\ result \in [Threads -> {"none", "pending", "NO_ERROR", "error"}]
  BY Parts DEF TypeParts
<1>2. CASE UNCHANGED <<op, result>>
  BY <1>2 DEF ResultInv, Active
<1>3. ASSUME NEW t \in Threads, TurnedAway(t) PROVE ResultInv'
  BY <1>1, <1>3 DEF TurnedAway, ResultInv, Active
<1>4. ASSUME NEW t \in Threads, NEW c \in Call, Started(t, c) PROVE ResultInv'
  BY <1>1, <1>4 DEF Started, ResultInv, Active
<1>5. ASSUME NEW t \in Threads, MovesOn(t) PROVE ResultInv'
  <2>1. /\ Active(t) /\ UNCHANGED result /\ \A u \in Threads : u # t => op'[u] = op[u]
        /\ op'[t].pc \in {"running", "failed", "read", "write", "finish"}
    BY <1>5, Zenon DEF MovesOn, Moves
  <2> QED BY <2>1 DEF ResultInv, Active
<1>6. ASSUME NEW t \in Threads, Finish(t) PROVE ResultInv'
  <2>1. /\ op'[t].pc = "off" /\ \A u \in Threads : u # t => op'[u] = op[u]
        /\ result' = [result EXCEPT ![t] = IF op[t].n = "NO_ERROR" THEN "NO_ERROR" ELSE "error"]
    BY <1>6, Ended, Parts DEF Idle
  <2> QED BY <1>1, <2>1 DEF ResultInv, Active
<1> QED BY <1>2, <1>3, <1>4, <1>5, <1>6, CallSteps, Zenon

\* The invariant that needs nothing of the kinds of calls.
THEOREM Foundation == Spec => [](TypeInv /\ TokenInv /\ CallInv /\ ResultInv)
<1>1. Init => TypeInv /\ TokenInv /\ CallInv /\ ResultInv
  BY TypeInit, TokenInit, CallInit
<1>2. TypeInv /\ TokenInv /\ CallInv /\ ResultInv /\ [Next]_vars
      => (TypeInv /\ TokenInv /\ CallInv /\ ResultInv)'
  BY TypeNext, TokenNext, CallNext, ResultNext
<1> QED BY <1>1, <1>2, PTL DEF Spec

\* Every variable has its type.
THEOREM Typing == Spec => []TypeOK
<1>1. TypeInv => TypeOK
  BY DEF TypeInv
<1> QED BY <1>1, Foundation, PTL

\* No two memories share a token, the token of a live memory leads to its own
\* buffer, and what the free list offers is free.
THEOREM Exclusive == Spec => []TokensAreExclusive
<1>1. TypeInv /\ TokenInv => TokensAreExclusive
  BY DEF TypeInv, TypeOK, TokenInv, TokensAreExclusive, Get
<1> QED BY <1>1, Foundation, PTL

-------------------------------------------------------------------------------
(* Who writes what.                                                         *)

\* A step of a call changes nothing but the place of the memory that it writes.
LEMMA CallWrites ==
    ASSUME TypeInv, TokenInv, CallInv, NEW t \in Threads, Start(t) \/ Continue(t)
    PROVE  \/ UNCHANGED <<data, mInitialized>>
           \/ /\ Active(t) /\ (alive \/ ~OnDevice(op[t].dst)) /\ op'[t] # op[t]
              /\ \A l \in Buffers \cup Memories :
                    l # Location(op[t].dst) => data'[l] = data[l]
              /\ \A b \in Buffers :
                    b # Location(op[t].dst) => mInitialized'[b] = mInitialized[b]
<1>1. /\ TypeParts /\ op[t].src \in Memories \cup {Client}
      /\ op[t].dst \in Memories \cup {Client}
      /\ Location(op[t].dst) \in Locations
  BY Parts, CallFields, PlaceTypes
<1>2. \A d : \A l \in Locations : \A k \in Buffers \cup Memories :
          k # l => Put(l, d)[k] = data[k]
  BY <1>1 DEF Put, TypeParts
<1>3. CASE Start(t)
  BY <1>3, Starting, Zenon DEF TurnedAway, Started
<1>4. CASE DriverAccepts(t)
  <2>1. /\ alive /\ op[t].pc = "request" /\ data' = Put(Pool(op[t].dst), "garbage")
        /\ UNCHANGED mInitialized
    BY <1>4, Zenon DEF DriverAccepts
  <2>2. op'[t].pc = "running"
    BY <1>1, <1>4, Moving DEF Moves
  <2> QED BY <1>1, <1>2, <2>1, <2>2, PoolIsLocation DEF Active
<1>5. CASE DriverSucceeds(t)
  <2>1. /\ alive /\ op[t].pc = "running" /\ data' = Put(op[t].out, DataAt(op[t].in))
        /\ mInitialized' = [b \in Buffers |-> mInitialized[b] \/ b = op[t].out]
    BY <1>5, Zenon DEF DriverSucceeds
  <2>2. op'[t].pc = "finish"
    BY <1>1, <1>5, Moving DEF Moves
  <2>3. op[t].out = Location(op[t].dst)
    BY <2>1 DEF CallInv, Active
  <2>4. \A b \in Buffers : b # op[t].out => mInitialized'[b] = mInitialized[b]
    BY <1>1, <2>1 DEF TypeParts
  <2> QED BY <1>1, <1>2, <2>1, <2>2, <2>3, <2>4 DEF Active
<1>6. CASE CopyFrom(t)
  <2>1. /\ op[t].pc = "write" /\ (OnDevice(op[t].dst) => alive)
        /\ data' = Put(Location(op[t].dst), op[t].read)
        /\ mInitialized' = [b \in Buffers |-> mInitialized[b] \/ b = Location(op[t].dst)]
    BY <1>6, Zenon DEF CopyFrom
  <2>2. op'[t].pc = "finish"
    BY <1>1, <1>6, Moving DEF Moves
  <2>3. \A b \in Buffers : b # Location(op[t].dst) => mInitialized'[b] = mInitialized[b]
    BY <1>1, <2>1 DEF TypeParts
  <2> QED BY <1>1, <1>2, <2>1, <2>2, <2>3 DEF Active
<1>7. CASE CopyFromRefused(t)
  <2>1. /\ op[t].pc = "write" /\ OnDevice(op[t].dst) /\ alive /\ UNCHANGED data
        /\ mInitialized' = [mInitialized EXCEPT ![mem[op[t].dst].buffer] = FALSE]
    BY <1>7, Zenon DEF CopyFromRefused
  <2>2. op'[t].pc = "finish"
    BY <1>1, <1>7, Moving DEF Moves
  <2> QED BY <1>1, <2>1, <2>2, PlaceTypes DEF Active, TypeParts
<1>8. CASE WriteFails(t)
  <2>1. /\ op[t].pc = "write" /\ UNCHANGED mInitialized
        /\ data' = IF OnDevice(op[t].dst) THEN data ELSE Put(op[t].dst, "garbage")
    BY <1>8, Zenon DEF WriteFails
  <2>2. op'[t].pc = "finish"
    BY <1>1, <1>8, Moving DEF Moves
  <2> QED BY <1>1, <1>2, <2>1, <2>2, PlaceTypes DEF Active
<1>9. CASE Continue(t) /\ ~(\/ DriverAccepts(t) \/ DriverSucceeds(t) \/ CopyFrom(t)
                            \/ CopyFromRefused(t) \/ WriteFails(t))
  BY <1>9, Zenon DEF Continue, DriverRefuses, DriverFails, Fallback, CopyTo, CopyToFails, Finish
<1> QED BY <1>3, <1>4, <1>5, <1>6, <1>7, <1>8, <1>9

\* A memory that no call writes in this step, and that does not die with the
\* driver, keeps what it holds and what the driver knows of it.
LEMMA Untouched ==
    ASSUME TypeInv, TokenInv, CallInv, [Next]_vars, NEW m \in Memories,
           mem[m].kind # "none", mem'[m].kind # "none", OnDevice(m) => alive',
           \A t \in Threads : Active(t) /\ op[t].dst = m => op'[t] = op[t]
    PROVE  /\ data'[Location(m)] = data[Location(m)]
           /\ OnDevice(m) => mInitialized'[mem[m].buffer] = mInitialized[mem[m].buffer]
<1>1. /\ TypeParts /\ m # Client
      /\ Location(m) \in Buffers \cup Memories /\ (OnDevice(m) <=> Location(m) \in Buffers)
      /\ OnDevice(m) => Location(m) = mem[m].buffer
      /\ ~OnDevice(m) => Location(m) = m
  BY Parts, PlaceTypes, DistinctAssumption DEF Locations
<1> SUFFICES /\ data'[Location(m)] = data[Location(m)]
             /\ OnDevice(m) => mInitialized'[Location(m)] = mInitialized[Location(m)]
  BY <1>1
<1>2. ASSUME NEW b \in Buffers, Erase(b), b # Location(m)
      PROVE  /\ data'[Location(m)] = data[Location(m)]
             /\ OnDevice(m) => mInitialized'[Location(m)] = mInitialized[Location(m)]
  BY <1>1, <1>2 DEF Erase, TypeParts
<1>3. ASSUME NEW k \in Memories, CreateOnDevice(k)
      PROVE  \E b \in Buffers : Erase(b) /\ b # Location(m)
  <2>1. PICK b \in Buffers : Unused(b) /\ Erase(b)
    BY <1>3, Zenon DEF CreateOnDevice
  <2>2. alive
    BY <1>3 DEF CreateOnDevice
  <2>3. OnDevice(m) => mem[m].buffer \in Range(mTokenToBuffers)
    BY <1>1, <2>2 DEF TokenInv, TypeInv, Range
  <2> QED BY <1>1, <2>1, <2>3 DEF Unused
<1>4. ASSUME NEW k \in Memories, CreateOnHost(k) PROVE UNCHANGED <<data, mInitialized>>
  BY <1>4 DEF CreateOnHost
<1>5. ASSUME NEW k \in Memories, MemoryFree(k)
      PROVE  data'[Location(m)] = data[Location(m)] /\ UNCHANGED mInitialized
  <2>1. k # m
    BY <1>1, <1>5 DEF MemoryFree, NoMemory, TypeParts
  <2> QED BY <1>1, <1>5, <2>1, DistinctAssumption DEF MemoryFree, TypeParts
<1>6. ASSUME NEW token \in released, FreeToken(token)
      PROVE  \E b \in Buffers : Erase(b) /\ b # Location(m)
  <2>1. alive /\ token \in DOMAIN mTokenToBuffers /\ Erase(Get(token))
    BY <1>1, <1>6 DEF FreeToken, TypeParts, TrackerOK
  <2>2. OnDevice(m) => mem[m].buffer # mTokenToBuffers[token]
    BY <2>1, DistinctAssumption DEF TokenInv, TypeInv
  <2>3. Get(token) \in Buffers /\ Get(token) = mTokenToBuffers[token]
    BY <2>1 DEF TokenInv, Get
  <2> QED BY <1>1, <2>1, <2>2, <2>3
<1>7. ASSUME NEW t \in Threads, Start(t) \/ Continue(t)
      PROVE  /\ data'[Location(m)] = data[Location(m)]
             /\ OnDevice(m) => mInitialized'[Location(m)] = mInitialized[Location(m)]
  <2>1. op[t].dst \in Memories \cup {Client}
    BY <1>1, CallFields
  <2>2. CASE UNCHANGED <<data, mInitialized>>
    BY <2>2
  <2>3. CASE /\ Active(t) /\ (alive \/ ~OnDevice(op[t].dst)) /\ op'[t] # op[t]
             /\ \A l \in Buffers \cup Memories :
                   l # Location(op[t].dst) => data'[l] = data[l]
             /\ \A b \in Buffers :
                   b # Location(op[t].dst) => mInitialized'[b] = mInitialized[b]
    <3>1. op[t].dst # m
      BY <2>3
    <3>2. Location(op[t].dst) # Location(m)
      BY <2>1, <2>3, <3>1, PlacesDiffer
    <3> QED BY <1>1, <2>3, <3>2
  <2> QED BY <1>7, <2>2, <2>3, CallWrites
<1>8. ASSUME DriverDies
      PROVE  ~OnDevice(m) /\ data'[Location(m)] = data[Location(m)]
  BY <1>1, <1>8, DistinctAssumption DEF DriverDies, TypeParts
<1>9. ASSUME UNCHANGED vars PROVE UNCHANGED <<data, mInitialized>>
  BY <1>9 DEF vars
<1> QED BY <1>2, <1>3, <1>4, <1>5, <1>6, <1>7, <1>8, <1>9, Zenon DEF Next

\* The property, of one step.
NoForeignWrite ==
    \A m \in Memories :
        mem[m].kind # "none" /\ mem'[m].kind # "none" /\ data'[Location(m)] # data[Location(m)] =>
            Written(m) \/ ~alive'

\* What a memory holds changes only through a call that writes this memory, and
\* when the driver dies, although tokens and buffers are used again.
THEOREM OnlyItsCallsWrite == Spec => NoForeignWrites
<1>1. TypeInv /\ TokenInv /\ CallInv /\ ResultInv /\ [Next]_vars => [NoForeignWrite]_vars
  BY Untouched DEF NoForeignWrite, Written
<1>2. Spec => [][NoForeignWrite]_vars
  BY <1>1, Foundation, PTL DEF Spec
<1> QED BY <1>2 DEF NoForeignWrites, NoForeignWrite

-------------------------------------------------------------------------------
(* What a memory tells of its contents, for executions and copies.          *)

\* Nothing is initialized initially.
LEMMA StateInit == Init => CallStateInv /\ MemoryStateInv
BY DEF Init, CallStateInv, MemoryStateInv, Active, Idle, NoMemory

\* A driver that is dead stays dead.
LEMMA DeadStaysDead == TypeInv /\ [Next]_vars /\ alive' => alive
<1>1. ASSUME NEW t \in Threads, Start(t) \/ Continue(t), TypeInv PROVE alive' = alive
  BY <1>1, CallKeeps
<1>2. ASSUME Next \/ UNCHANGED vars, ~\E t \in Threads : Start(t) \/ Continue(t), alive'
      PROVE  alive
  BY <1>2, Zenon DEF Next, CreateOnDevice, CreateOnHost, MemoryFree, FreeToken, DriverDies, vars
<1> QED BY <1>1, <1>2

\* What a step makes of a memory: it is created, released or, at the end of the
\* call that writes it, initialized or not.
LEMMA MemorySteps ==
    ASSUME TypeInv, CallInv, [Next]_vars, NEW m \in Memories
    PROVE  \/ mem[m].kind = "none" /\ ~mem'[m].initialized
           \/ mem'[m].kind = "none" /\ ~mem'[m].initialized /\ ~InUse(m)
           \/ /\ mem'[m].kind = mem[m].kind /\ mem'[m].buffer = mem[m].buffer
              /\ mem'[m].initialized = mem[m].initialized
              /\ ~\E t \in Threads : Finish(t) /\ op[t].dst = m
           \/ \E t \in Threads :
                 /\ Finish(t) /\ op[t].dst = m /\ mem[m].kind # "none"
                 /\ mem'[m].kind = mem[m].kind /\ mem'[m].buffer = mem[m].buffer
                 /\ mem'[m].initialized = InitializedAfter(op[t])
<1>1. TypeParts /\ m # Client
  BY Parts, DistinctAssumption
<1>2. ASSUME NEW t \in Threads, Start(t) \/ Continue(t), ~Finish(t)
      PROVE  UNCHANGED mem
  BY <1>2, CallKeeps
<1>3. ASSUME NEW t \in Threads, Finish(t)
      PROVE  op[t].pc = "finish" /\ UNCHANGED data /\ op'[t].pc = "off" /\ op'[t] # op[t]
  BY <1>1, <1>3, Ended DEF Idle
<1>4. ASSUME NEW k \in Memories, CreateOnDevice(k) \/ CreateOnHost(k)
      PROVE  /\ UNCHANGED op
             /\ \/ mem[m].kind = "none" /\ ~mem'[m].initialized
                \/ mem'[m] = mem[m]
  <2>1. PICK r \in [kind : {"device", "host"}, token : Nat, buffer : Buffers \cup {NoBuffer},
                    initialized : {FALSE}] : mem' = [mem EXCEPT ![k] = r]
    <3>1. CASE CreateOnDevice(k)
      <4>1. PICK b \in Buffers, token \in 1 .. Len(mTokenToBuffers) + 1 :
                mem' = [mem EXCEPT ![k] = [kind |-> "device", token |-> token, buffer |-> b,
                                           initialized |-> FALSE]]
        BY <3>1, Zenon DEF CreateOnDevice
      <4>2. [kind |-> "device", token |-> token, buffer |-> b, initialized |-> FALSE]
            \in [kind : {"device", "host"}, token : Nat, buffer : Buffers \cup {NoBuffer},
                 initialized : {FALSE}]
        BY <1>1 DEF TypeParts, TrackerOK
      <4> QED BY <4>1, <4>2
    <3>2. CASE CreateOnHost(k)
      <4>1. [NoMemory EXCEPT !.kind = "host"]
            \in [kind : {"device", "host"}, token : Nat, buffer : Buffers \cup {NoBuffer},
                 initialized : {FALSE}]
        BY DEF NoMemory
      <4> QED BY <3>2, <4>1 DEF CreateOnHost
    <3> QED BY <1>4, <3>1, <3>2
  <2>2. UNCHANGED op /\ ~Live(k)
    BY <1>4, Zenon DEF CreateOnDevice, CreateOnHost
  <2>3. k # Client
    BY DistinctAssumption
  <2> QED BY <1>1, <2>1, <2>2, <2>3 DEF TypeParts, Live
<1>5. ASSUME NEW k \in Memories, MemoryFree(k)
      PROVE  /\ UNCHANGED op
             /\ \/ mem'[m].kind = "none" /\ ~mem'[m].initialized /\ ~InUse(m)
                \/ mem'[m] = mem[m]
  BY <1>1, <1>5 DEF MemoryFree, TypeParts, NoMemory
<1>6. ASSUME NEW t \in Threads, Finish(t)
      PROVE  /\ mem'[m].kind = mem[m].kind /\ mem'[m].buffer = mem[m].buffer
             /\ mem'[m].initialized = IF m = op[t].dst THEN InitializedAfter(op[t])
                                      ELSE mem[m].initialized
             /\ \A u \in Threads : u # t => op'[u] = op[u]
             /\ m = op[t].dst => mem[m].kind # "none"
  <2>1. Active(t)
    BY <1>3, <1>6 DEF Active
  <2> QED BY <1>1, <1>6, <2>1, Ended DEF CallInv, Live
<1>7. ASSUME NEW t \in Threads, Finish(t), NEW u \in Threads, Finish(u) PROVE t = u
  BY <1>3, <1>6, <1>7
<1>8. CASE \E t \in Threads : Finish(t)
  BY <1>6, <1>7, <1>8
<1>9. CASE ~\E t \in Threads : Finish(t)
  <2>1. CASE \E t \in Threads : Start(t) \/ Continue(t)
    BY <1>2, <1>9, <2>1
  <2>2. CASE \/ \E token \in released : FreeToken(token)
             \/ DriverDies \/ UNCHANGED vars
    <3>1. UNCHANGED mem
      BY <2>2, Zenon DEF FreeToken, DriverDies, vars
    <3> QED BY <1>9, <3>1
  <2>3. CASE \E k \in Memories : CreateOnDevice(k) \/ CreateOnHost(k) \/ MemoryFree(k)
    BY <1>4, <1>5, <1>9, <2>3
  <2> QED BY <2>1, <2>2, <2>3, Zenon DEF Next
<1> QED BY <1>8, <1>9

\* A usable memory stays usable as long as nobody writes it.
LEMMA UsableStays ==
    ASSUME TypeInv, TokenInv, CallInv, [Next]_vars, NEW m \in Memories, Usable(m),
           mem[m].kind # "none", mem'[m].kind = mem[m].kind, mem'[m].buffer = mem[m].buffer,
           \A t \in Threads : Active(t) /\ op[t].dst = m => op'[t] = op[t]
    PROVE  Usable(m)'
<1>1. m # Client /\ (OnDevice(m)' <=> OnDevice(m)) /\ Location(m)' = Location(m)
  BY DistinctAssumption DEF OnDevice, Location
<1> QED BY <1>1, Untouched, DeadStaysDead DEF Usable

\* A call that does not end goes on writing its memory.
LEMMA StaysActive ==
    ASSUME TypeInv, [Next]_vars, NEW t \in Threads, Active(t), ~Finish(t)
    PROVE  Active(t)' /\ op'[t].dst = op[t].dst
<1>1. op \in [Threads -> Call]
  BY Parts DEF TypeParts
<1>2. CASE UNCHANGED op
  BY <1>2 DEF Active
<1>3. ASSUME NEW k \in Threads, NEW c \in Call, Started(k, c) PROVE op'[t] = op[t]
  BY <1>1, <1>3 DEF Started
<1>4. ASSUME NEW k \in Threads, MovesOn(k)
      PROVE  \/ op'[t] = op[t]
             \/ /\ op'[t].pc \in {"running", "failed", "read", "write", "finish"}
                /\ op'[t].dst = op[t].dst
  BY <1>4, Zenon DEF MovesOn, Moves
<1>5. ASSUME NEW k \in Threads, Finish(k) PROVE op'[t] = op[t]
  BY <1>5, Ended, Parts
<1>6. \/ UNCHANGED op \/ op'[t] = op[t]
      \/ /\ op'[t].pc \in {"running", "failed", "read", "write", "finish"}
         /\ op'[t].dst = op[t].dst
  BY <1>3, <1>4, <1>5, CallSteps, Zenon DEF TurnedAway
<1> QED BY <1>2, <1>6 DEF Active

\* The state of a memory says how the call that wrote it ended.
LEMMA MemoryStateNext ==
    TypeInv /\ TokenInv /\ CallInv /\ CallStateInv /\ MemoryStateInv /\ [Next]_vars
    => MemoryStateInv'
<1> SUFFICES ASSUME TypeInv, TokenInv, CallInv, CallStateInv, MemoryStateInv, [Next]_vars,
                    NEW m \in Memories
             PROVE  /\ mem'[m].kind = "none" => ~mem'[m].initialized
                    /\ mem'[m].initialized /\ ~Written(m)' => Usable(m)'
  BY DEF MemoryStateInv
<1>1. CASE ~mem'[m].initialized
  BY <1>1
<1>2. CASE /\ mem'[m].kind = mem[m].kind /\ mem'[m].buffer = mem[m].buffer
           /\ mem'[m].initialized = mem[m].initialized
           /\ ~\E t \in Threads : Finish(t) /\ op[t].dst = m
  <2>1. mem[m].initialized => mem[m].kind # "none"
    BY DEF MemoryStateInv
  <2>2. ~Written(m)' => \A t \in Threads : ~(Active(t) /\ op[t].dst = m)
    BY <1>2, StaysActive DEF Written
  <2>3. mem'[m].initialized /\ ~Written(m)' => Usable(m)
    BY <1>2, <2>2 DEF MemoryStateInv, Written
  <2> QED BY <1>2, <2>1, <2>2, <2>3, UsableStays
<1>3. ASSUME NEW t \in Threads, Finish(t), op[t].dst = m, mem[m].kind # "none",
             mem'[m].kind = mem[m].kind, mem'[m].buffer = mem[m].buffer,
             mem'[m].initialized = InitializedAfter(op[t])
      PROVE  mem'[m].kind # "none" /\ (mem'[m].initialized => Usable(m)')
  <2>1. Active(t) /\ op[t].pc = "finish" /\ UNCHANGED <<alive, data, mInitialized>>
    BY <1>3 DEF Finish, Active
  <2>2. mem'[m].initialized => op[t].n = "NO_ERROR"
    BY <1>3, <2>1 DEF InitializedAfter, CallStateInv
  <2>3. mem'[m].initialized => Usable(m)
    BY <1>3, <2>1, <2>2 DEF CallStateInv
  <2> QED BY <1>3, <2>1, <2>3 DEF Usable, OnDevice, Location
<1> QED BY <1>1, <1>2, <1>3, MemorySteps

\* A call that is not the one to step keeps what it relies on.
LEMMA OthersState ==
    ASSUME TypeInv, TokenInv, CallInv, CallStateInv, [Next]_vars,
           NEW u \in Threads, Active(u), op'[u] = op[u]
    PROVE  /\ isInitialized(op[u].src) => isInitialized(op[u].src)'
           /\ Usable(op[u].dst) => Usable(op[u].dst)'
<1>1. op[u].src \in Memories \cup {Client} /\ op[u].dst \in Memories \cup {Client}
  BY Parts, CallFields
<1>2. ASSUME NEW t \in Threads, Finish(t) PROVE t # u /\ Active(t)
  BY <1>2, Ended, Parts DEF Idle, Active
<1>3. ASSUME NEW m \in Memories, m \in {op[u].src, op[u].dst}
      PROVE  mem'[m].kind = mem[m].kind /\ mem[m].kind # "none" /\ mem'[m].buffer = mem[m].buffer
             /\ mem'[m].kind # "none"
  BY <1>3, InUseStays, DistinctAssumption
<1>4. ASSUME NEW m \in Memories, m = op[u].src
      PROVE  mem'[m].initialized = mem[m].initialized
  <2>1. ASSUME NEW t \in Threads, Finish(t) PROVE op[t].dst # m
    BY <1>2, <1>4, <2>1, DistinctAssumption DEF CallInv
  <2> QED BY <1>3, <1>4, <2>1, MemorySteps
<1>5. ASSUME NEW m \in Memories, m = op[u].dst, Usable(m) PROVE Usable(m)'
  <2>1. ASSUME NEW t \in Threads, Active(t), op[t].dst = m PROVE op'[t] = op[t]
    BY <1>5, <2>1, DistinctAssumption DEF CallInv
  <2> QED BY <1>3, <1>5, <2>1, UsableStays
<1>6. isInitialized(op[u].src) => isInitialized(op[u].src)'
  BY <1>1, <1>4 DEF isInitialized
<1>7. Usable(op[u].dst) => Usable(op[u].dst)'
  BY <1>1, <1>5 DEF Usable
<1> QED BY <1>6, <1>7

\* What a call reads is good, as long as its source is initialized.
LEMMA SourceIsGood ==
    ASSUME TypeInv, CallInv, CallStateInv, MemoryStateInv, NEW t \in Threads, Active(t),
           op[t].n = "NO_ERROR", OnDevice(op[t].src) => alive
    PROVE  DataAt(Location(op[t].src)) = "good"
<1>1. op[t].src \in Memories \cup {Client}
  BY Parts, CallFields
<1>2. CASE op[t].src = Client
  BY <1>1, <1>2, PlaceTypes DEF DataAt
<1>3. CASE op[t].src # Client
  <2>1. op[t].src \in Memories /\ mem[op[t].src].initialized
    BY <1>1, <1>3 DEF CallStateInv, isInitialized
  <2>2. ~Written(op[t].src)
    <3>1. op[t].src # op[t].dst
      BY <1>3 DEF CallStateInv
    <3> QED BY <1>3, <3>1 DEF CallInv, Written
  <2>3. Usable(op[t].src)
    BY <2>1, <2>2 DEF MemoryStateInv
  <2>4. Location(op[t].src) # Client
    BY <1>1, <1>3, PlaceTypes
  <2> QED BY <1>3, <2>3, <2>4 DEF Usable, DataAt
<1> QED BY <1>2, <1>3

\* Good data makes the memory that it is written to usable.
LEMMA WrittenIsUsable ==
    ASSUME TypeInv, NEW m \in Memories \cup {Client}, UNCHANGED <<mem, alive>>,
           data' = Put(Location(m), "good"),
           mInitialized' = [b \in Buffers |-> mInitialized[b] \/ b = Location(m)]
    PROVE  Usable(m)'
<1>1. /\ Location(m) \in Locations /\ (Location(m) = Client <=> m = Client)
      /\ OnDevice(m) => Location(m) = mem[m].buffer /\ Location(m) \in Buffers
      /\ TypeParts
  BY PlaceTypes, Parts
<1>2. m # Client => data'[Location(m)] = "good"
  BY <1>1 DEF Put, TypeParts, Locations
<1>3. OnDevice(m) => mInitialized'[mem[m].buffer] = TRUE
  BY <1>1
<1> QED BY <1>2, <1>3 DEF Usable, OnDevice, Location

\* What a call has come to, of one call.
CallState(t) ==
    /\ op[t].kind # "fenced"
    /\ op[t].src # op[t].dst \/ op[t].src = Client
    /\ op[t].pc # "finish" => op[t].n = "NO_ERROR"
    /\ op[t].n = "NO_ERROR" => isInitialized(op[t].src)
    /\ op[t].pc = "write" => op[t].read = "good"
    /\ op[t].pc = "finish" /\ op[t].n = "NO_ERROR" => op[t].read = "good" /\ Usable(op[t].dst)

\* A call that goes on.
LEMMA MovedState ==
    ASSUME TypeInv, TokenInv, CallInv, CallStateInv, MemoryStateInv,
           NEW t \in Threads, Continue(t), ~Finish(t)
    PROVE  CallState(t)'
<1>1. /\ TypeParts /\ MovesOn(t) /\ Active(t)
      /\ op[t].src \in Memories \cup {Client} /\ op[t].dst \in Memories \cup {Client}
      /\ UNCHANGED <<mem, alive>>
  BY Parts, CallFields, MovingOn, Zenon DEF MovesOn
<1>2. /\ op'[t].src = op[t].src /\ op'[t].dst = op[t].dst /\ op'[t].kind = op[t].kind
  BY <1>1, Zenon DEF MovesOn, Moves
<1>3. /\ op[t].kind # "fenced" /\ (op[t].src # op[t].dst \/ op[t].src = Client)
      /\ op[t].pc # "finish" => op[t].n = "NO_ERROR"
      /\ op[t].n = "NO_ERROR" => isInitialized(op[t].src)
      /\ op[t].pc = "write" => op[t].read = "good"
  BY <1>1 DEF CallStateInv
<1>4. isInitialized(op[t].src) => isInitialized(op[t].src)'
  BY <1>1, <1>2 DEF isInitialized
<1>5. CASE op'[t].n = "OP_FAILED" /\ op'[t].pc = "finish"
  BY <1>2, <1>3, <1>5 DEF CallState
<1>6. ASSUME op[t].n = "NO_ERROR", op'[t].n = op[t].n,
             op'[t].pc = "write" => op'[t].read = "good",
             op'[t].pc = "finish" => op'[t].read = "good" /\ Usable(op[t].dst)'
      PROVE  CallState(t)'
  BY <1>2, <1>3, <1>4, <1>6 DEF CallState, Usable, OnDevice, Location
<1>7. CASE DriverAccepts(t) \/ DriverRefuses(t) \/ DriverFails(t)
  <2>1. /\ op[t].pc # "finish" /\ op'[t].n = op[t].n
        /\ op'[t].pc # "write" /\ op'[t].pc # "finish"
    BY <1>1, <1>7, Moving DEF Moves, DriverAccepts, DriverRefuses, DriverFails
  <2> QED BY SMTT(40), <1>3, <1>6, <2>1
<1>8. CASE DriverSucceeds(t)
  <2>1. /\ alive /\ op[t].pc = "running" /\ data' = Put(op[t].out, DataAt(op[t].in))
        /\ mInitialized' = [b \in Buffers |-> mInitialized[b] \/ b = op[t].out]
    BY <1>8, Zenon DEF DriverSucceeds
  <2>2. op'[t].pc = "finish" /\ op'[t].read = DataAt(op[t].in) /\ op'[t].n = op[t].n
    BY <1>1, <1>8, Moving DEF Moves
  <2>3. /\ op[t].in = Location(op[t].src) /\ op[t].out = Location(op[t].dst)
        /\ op[t].n = "NO_ERROR"
    BY <1>1, <1>3, <2>1 DEF CallInv
  <2>4. DataAt(op[t].in) = "good"
    BY <1>1, <2>1, <2>3, SourceIsGood
  <2>5. Usable(op[t].dst)'
    <3>1. ASSUME NEW m \in Memories \cup {Client}, m = op[t].dst PROVE Usable(m)'
      BY <1>1, <2>1, <2>3, <2>4, <3>1, WrittenIsUsable
    <3> QED BY <1>1, <1>2, <3>1 DEF Usable, OnDevice, Location
  <2> QED BY <1>6, <2>2, <2>3, <2>4, <2>5
<1>9. CASE Fallback(t)
  <2>1. \/ op'[t].pc = "read" /\ op'[t].n = op[t].n
        \/ op'[t].pc = "finish" /\ op'[t].n = "OP_FAILED"
    BY <1>1, <1>9, Moving, Zenon DEF Moves
  <2>2. op[t].pc = "failed"
    BY <1>9 DEF Fallback
  <2> QED BY <1>3, <1>5, <1>6, <2>1, <2>2
<1>10. CASE CopyTo(t)
  <2>1. op[t].pc = "read" /\ (OnDevice(op[t].src) => alive)
    BY <1>10 DEF CopyTo
  <2>2. /\ op'[t].pc = "write" /\ op'[t].read = DataAt(Location(op[t].src))
        /\ op'[t].n = op[t].n
    BY <1>1, <1>10, Moving DEF Moves
  <2>3. DataAt(Location(op[t].src)) = "good"
    BY <1>1, <1>3, <2>1, SourceIsGood
  <2> QED BY <1>3, <1>6, <2>1, <2>2, <2>3
<1>11. CASE CopyFrom(t)
  <2>1. /\ op[t].pc = "write" /\ data' = Put(Location(op[t].dst), op[t].read)
        /\ mInitialized' = [b \in Buffers |-> mInitialized[b] \/ b = Location(op[t].dst)]
    BY <1>11, Zenon DEF CopyFrom
  <2>2. op'[t].pc = "finish" /\ op'[t].read = op[t].read /\ op'[t].n = op[t].n
    BY <1>1, <1>11, Moving DEF Moves
  <2>3. Usable(op[t].dst)'
    <3>1. ASSUME NEW m \in Memories \cup {Client}, m = op[t].dst PROVE Usable(m)'
      BY <1>1, <1>3, <2>1, <3>1, WrittenIsUsable
    <3> QED BY <1>1, <1>2, <3>1 DEF Usable, OnDevice, Location
  <2> QED BY <1>3, <1>6, <2>1, <2>2, <2>3
<1>12. CASE CopyToFails(t) \/ CopyFromRefused(t) \/ WriteFails(t)
  <2>1. op'[t].pc = "finish" /\ op'[t].n = "OP_FAILED"
    BY <1>1, <1>12, Moving, Zenon DEF Moves
  <2> QED BY <1>5, <2>1
<1> QED BY <1>7, <1>8, <1>9, <1>10, <1>11, <1>12, Zenon DEF Continue

\* What a call knows of its source holds until it ends.
LEMMA CallStateNext ==
    ASSUME PlainKinds
    PROVE  TypeInv /\ TokenInv /\ CallInv /\ CallStateInv /\ MemoryStateInv /\ [Next]_vars
           => CallStateInv'
<1> SUFFICES ASSUME TypeInv, TokenInv, CallInv, CallStateInv, MemoryStateInv, [Next]_vars,
                    NEW t \in Threads, Active(t)'
             PROVE  CallState(t)'
  BY DEF CallStateInv, CallState
<1>1. CASE Active(t) /\ op'[t] = op[t]
  <2>1. CallState(t)
    BY <1>1 DEF CallStateInv, CallState
  <2>2. /\ isInitialized(op[t].src) => isInitialized(op[t].src)'
        /\ Usable(op[t].dst) => Usable(op[t].dst)'
    BY <1>1, OthersState
  <2> QED BY <1>1, <2>1, <2>2 DEF CallState
<1>2. CASE Continue(t) /\ ~Finish(t)
  BY <1>2, MovedState
<1>3. ASSUME NEW c \in Call, Started(t, c), op'[t] = c
      PROVE  CallState(t)'
  <2>1. "fenced" \notin Kinds /\ "selfCopy" \notin Kinds
    BY DEF PlainKinds
  <2>2. UNCHANGED mem
    BY <1>3, Zenon DEF Started
  <2>3. /\ c.kind # "fenced" /\ (c.src # c.dst \/ c.src = Client)
        /\ c.pc \in {"request", "read", "finish"}
        /\ c.pc # "finish" => c.n = "NO_ERROR" /\ isInitialized(c.src)
        /\ c.pc = "finish" => c.n = "BAD_DATA"
    BY <1>3, <2>1 DEF Started
  <2>4. isInitialized(c.src)' = isInitialized(c.src)
    BY <2>2 DEF isInitialized
  <2> QED BY <1>3, <2>3, <2>4 DEF CallState, isInitialized
<1> QED BY <1>1, <1>2, <1>3, CallOrigin

\* The invariant of executions and copies.
THEOREM Contents ==
    ASSUME PlainKinds
    PROVE  Spec => [](CallStateInv /\ MemoryStateInv)
<1>1. Init => CallStateInv /\ MemoryStateInv
  BY StateInit
<1>2. TypeInv /\ TokenInv /\ CallInv /\ ResultInv /\ CallStateInv /\ MemoryStateInv /\ [Next]_vars
      => (CallStateInv /\ MemoryStateInv)'
  BY CallStateNext, MemoryStateNext
<1> QED BY <1>1, <1>2, Foundation, PTL DEF Spec

\* Unless fenced executions and copies to itself come in, a memory that counts as
\* initialized can be used by the runtime and the driver.
THEOREM InitializedIsUsable ==
    ASSUME PlainKinds
    PROVE  Spec => []UsableWhenInitialized
<1>1. MemoryStateInv => UsableWhenInitialized
  BY DistinctAssumption DEF MemoryStateInv, Usable, UsableWhenInitialized
<1> QED BY <1>1, Contents, PTL

\* Unless those come in, a call that succeeds has read good data.
THEOREM SuccessIsGood ==
    ASSUME PlainKinds
    PROVE  Spec => []SuccessReadsGood
<1>1. CallStateInv => SuccessReadsGood
  BY DEF CallStateInv, SuccessReadsGood, Active
<1> QED BY <1>1, Contents, PTL

-------------------------------------------------------------------------------
(* The contract with the client.                                            *)

\* The memories as the client sees them.
stateOf  == [m \in Memories |-> IF mem[m].kind = "none" THEN "absent"
                                ELSE IF mem[m].initialized THEN "initialized"
                                ELSE "uninitialized"]
readsOf  == [t \in Threads |-> IF Active(t) /\ op[t].n # "BAD_DATA"
                               THEN {op[t].src} \ {Client} ELSE {}]
writesOf == [t \in Threads |-> IF Active(t) THEN {op[t].dst} \ {Client} ELSE {}]

\* The actions of the contract in terms of what the client sees.
LEMMA Mapping ==
    /\ UNCHANGED <<stateOf, readsOf, writesOf, result>> => UNCHANGED Contract!vars
    /\ \A m \in Memories :
          /\ /\ stateOf[m] = "absent" /\ stateOf' = [stateOf EXCEPT ![m] = "uninitialized"]
             /\ UNCHANGED <<readsOf, writesOf, result>>
             => Contract!Next
          /\ /\ stateOf[m] # "absent"
             /\ \A t \in Threads : m \notin readsOf[t] \cup writesOf[t]
             /\ stateOf' = [stateOf EXCEPT ![m] = "absent"]
             /\ UNCHANGED <<readsOf, writesOf, result>>
             => Contract!Next
    /\ \A t \in Threads :
          /\ /\ result[t] # "pending" /\ result' = [result EXCEPT ![t] = "error"]
             /\ UNCHANGED <<stateOf, readsOf, writesOf>>
             => Contract!Next
          /\ \A R, W \in SUBSET Memories :
                /\ result[t] # "pending" /\ UNCHANGED stateOf
                /\ \A m \in R : stateOf[m] = "initialized"
                /\ \A m \in W : /\ stateOf[m] # "absent"
                                /\ \A u \in Threads : m \notin readsOf[u] \cup writesOf[u]
                /\ readsOf' = [readsOf EXCEPT ![t] = R]
                /\ writesOf' = [writesOf EXCEPT ![t] = W]
                /\ result' = [result EXCEPT ![t] = "pending"]
                => Contract!Next
          /\ \A r \in {"NO_ERROR", "error"} :
                /\ result[t] = "pending" /\ result' = [result EXCEPT ![t] = r]
                /\ stateOf' = [m \in Memories |->
                                  IF m \notin writesOf[t] THEN stateOf[m]
                                  ELSE IF r = "NO_ERROR" THEN "initialized"
                                  ELSE "uninitialized"]
                /\ readsOf' = [readsOf EXCEPT ![t] = {}]
                /\ writesOf' = [writesOf EXCEPT ![t] = {}]
                => Contract!Next
<1>1. UNCHANGED <<stateOf, readsOf, writesOf, result>> => UNCHANGED Contract!vars
  BY Zenon DEF stateOf, readsOf, writesOf, Contract!vars
<1>2. ASSUME NEW m \in Memories, stateOf[m] = "absent",
             stateOf' = [stateOf EXCEPT ![m] = "uninitialized"],
             UNCHANGED <<readsOf, writesOf, result>>
      PROVE  Contract!Next
  BY <1>2, Zenon DEF stateOf, readsOf, writesOf, Contract!Next, Contract!Create
<1>3. ASSUME NEW m \in Memories, stateOf[m] # "absent",
             \A t \in Threads : m \notin readsOf[t] \cup writesOf[t],
             stateOf' = [stateOf EXCEPT ![m] = "absent"],
             UNCHANGED <<readsOf, writesOf, result>>
      PROVE  Contract!Next
  BY <1>3, Zenon DEF stateOf, readsOf, writesOf, Contract!Next, Contract!Free, Contract!Used
<1>4. ASSUME NEW t \in Threads, result[t] # "pending", result' = [result EXCEPT ![t] = "error"],
             UNCHANGED <<stateOf, readsOf, writesOf>>
      PROVE  Contract!Next
  BY <1>4, Zenon DEF stateOf, readsOf, writesOf, Contract!Next, Contract!Refuse
<1>5. ASSUME NEW t \in Threads, NEW R \in SUBSET Memories, NEW W \in SUBSET Memories,
             result[t] # "pending", UNCHANGED stateOf,
             \A m \in R : stateOf[m] = "initialized",
             \A m \in W : /\ stateOf[m] # "absent"
                          /\ \A u \in Threads : m \notin readsOf[u] \cup writesOf[u],
             readsOf' = [readsOf EXCEPT ![t] = R], writesOf' = [writesOf EXCEPT ![t] = W],
             result' = [result EXCEPT ![t] = "pending"]
      PROVE  Contract!Next
  <2>1. Contract!Call(t, R, W)
    <3>1. \A m \in W : stateOf[m] # "absent" /\ ~Contract!Used(m)
      BY <1>5, Zenon DEF stateOf, readsOf, writesOf, Contract!Used
    <3> QED BY <1>5, <3>1, Zenon DEF stateOf, readsOf, writesOf, Contract!Call
  <2> QED BY <2>1, Zenon DEF Contract!Next
<1>6. ASSUME NEW t \in Threads, NEW r \in {"NO_ERROR", "error"},
             result[t] = "pending", result' = [result EXCEPT ![t] = r],
             stateOf' = [m \in Memories |->
                            IF m \notin writesOf[t] THEN stateOf[m]
                            ELSE IF r = "NO_ERROR" THEN "initialized" ELSE "uninitialized"],
             readsOf' = [readsOf EXCEPT ![t] = {}], writesOf' = [writesOf EXCEPT ![t] = {}]
      PROVE  Contract!Next
  BY <1>6, Zenon DEF stateOf, readsOf, writesOf, Contract!Next, Contract!Return
<1> QED BY <1>1, <1>2, <1>3, <1>4, <1>5, <1>6, Zenon

\* A memory is used by the calls that read and write it.
LEMMA UsedIsInUse ==
    ASSUME NEW m \in Memories, NEW t \in Threads, m \in readsOf[t] \cup writesOf[t]
    PROVE  InUse(m)
BY DEF readsOf, writesOf, InUse

\* What only the driver sees is invisible to the client.
LEMMA Invisible ==
    ASSUME UNCHANGED <<mem, result>>, op \in [Threads -> Call], op' \in [Threads -> Call],
           \A t \in Threads : /\ op'[t].src = op[t].src /\ op'[t].dst = op[t].dst
                              /\ Active(t)' <=> Active(t)
                              /\ op'[t].n # "BAD_DATA" <=> op[t].n # "BAD_DATA"
    PROVE  UNCHANGED <<stateOf, readsOf, writesOf, result>>
BY DEF stateOf, readsOf, writesOf

\* Every step is a step of the contract or invisible to the client.
LEMMA ContractStep ==
    ASSUME PlainKinds
    PROVE  TypeInv /\ TokenInv /\ CallInv /\ ResultInv /\ CallStateInv /\ MemoryStateInv
           /\ [Next]_vars => [Contract!Next]_(Contract!vars)
<1> SUFFICES ASSUME TypeInv, TokenInv, CallInv, ResultInv, CallStateInv, MemoryStateInv,
                    [Next]_vars
             PROVE  Contract!Next \/ UNCHANGED <<stateOf, readsOf, writesOf, result>>
  BY Mapping, Zenon
<1>1. /\ TypeParts /\ op \in [Threads -> Call] /\ \A m \in Memories : m # Client
  BY Parts, DistinctAssumption DEF TypeParts
<1>2. ASSUME NEW m \in Memories, CreateOnDevice(m) \/ CreateOnHost(m) PROVE Contract!Next
  <2>1. UNCHANGED <<op, result>> /\ mem[m].kind = "none"
    BY <1>1, <1>2 DEF CreateOnDevice, CreateOnHost, Live
  <2>2. /\ mem'[m].kind # "none" /\ ~mem'[m].initialized
        /\ \A k \in Memories : k # m => mem'[k] = mem[k]
    BY <1>1, <1>2 DEF TypeParts, CreateOnDevice, CreateOnHost, NoMemory
  <2>3. stateOf[m] = "absent" /\ stateOf' = [stateOf EXCEPT ![m] = "uninitialized"]
    BY <2>1, <2>2 DEF stateOf
  <2>4. UNCHANGED <<readsOf, writesOf, result>>
    BY <2>1 DEF readsOf, writesOf, Active
  <2> QED BY <2>3, <2>4, Mapping, Zenon
<1>3. ASSUME NEW m \in Memories, MemoryFree(m) PROVE Contract!Next
  <2>1. /\ UNCHANGED <<op, result>> /\ mem[m].kind # "none" /\ ~InUse(m)
        /\ mem' = [mem EXCEPT ![m] = NoMemory]
    BY <1>1, <1>3 DEF MemoryFree, Live
  <2>2. stateOf[m] # "absent" /\ stateOf' = [stateOf EXCEPT ![m] = "absent"]
    BY <1>1, <2>1 DEF stateOf, NoMemory, TypeParts
  <2>3. UNCHANGED <<readsOf, writesOf, result>>
    BY <2>1 DEF readsOf, writesOf, Active
  <2>4. \A t \in Threads : m \notin readsOf[t] \cup writesOf[t]
    BY <2>1, UsedIsInUse
  <2> QED BY <2>2, <2>3, <2>4, Mapping, Zenon
<1>4. ASSUME NEW t \in Threads, TurnedAway(t) PROVE Contract!Next
  <2>1. /\ result[t] # "pending" /\ result' = [result EXCEPT ![t] = "error"]
        /\ UNCHANGED <<op, mem>>
    BY <1>4 DEF TurnedAway, ResultInv
  <2>2. UNCHANGED <<stateOf, readsOf, writesOf>>
    BY <2>1 DEF stateOf, readsOf, writesOf, Active
  <2> QED BY <2>1, <2>2, Mapping, Zenon
<1>5. ASSUME NEW t \in Threads, NEW c \in Call, Started(t, c) PROVE Contract!Next
  <2> DEFINE R == IF c.n # "BAD_DATA" THEN {c.src} \ {Client} ELSE {}
             W == {c.dst} \ {Client}
  <2>1. /\ ~Active(t) /\ result[t] # "pending" /\ UNCHANGED mem
        /\ result' = [result EXCEPT ![t] = "pending"] /\ op' = [op EXCEPT ![t] = c]
        /\ Ordered(c.src, c.dst) /\ c.pc # "off"
        /\ c.n # "BAD_DATA" => isInitialized(c.src)
    BY <1>5 DEF Started, ResultInv, PlainKinds
  <2>2. c.src \in Memories \cup {Client} /\ c.dst \in Memories \cup {Client}
    BY DEF Call, CallType
  <2>3. R \in SUBSET Memories /\ W \in SUBSET Memories
    BY <2>2
  <2>4. UNCHANGED stateOf
    BY <2>1 DEF stateOf
  <2>5. \A m \in R : stateOf[m] = "initialized"
    BY <1>1, <2>1, <2>2 DEF stateOf, isInitialized, Ordered, Live
  <2>6. \A m \in W : /\ stateOf[m] # "absent"
                     /\ \A u \in Threads : m \notin readsOf[u] \cup writesOf[u]
    BY <1>1, <2>1, <2>2, UsedIsInUse DEF stateOf, Ordered, Live
  <2>7. readsOf' = [readsOf EXCEPT ![t] = R] /\ writesOf' = [writesOf EXCEPT ![t] = W]
    BY <1>1, <2>1 DEF readsOf, writesOf, Active
  <2> HIDE DEF R, W
  <2> QED BY <2>1, <2>3, <2>4, <2>5, <2>6, <2>7, Mapping, Zenon
<1>6. ASSUME NEW t \in Threads, Continue(t), ~Finish(t)
      PROVE  UNCHANGED <<stateOf, readsOf, writesOf, result>>
  <2>1. MovesOn(t)
    BY <1>6, MovingOn
  <2>2. /\ UNCHANGED <<mem, result>> /\ op' \in [Threads -> Call]
        /\ \A u \in Threads : u # t => op'[u] = op[u]
    BY <2>1, Zenon DEF MovesOn, Moves
  <2>3. /\ Active(t) /\ Active(t)' /\ op'[t].src = op[t].src /\ op'[t].dst = op[t].dst
    BY <1>6, <2>1, MovesOnKeeps
  <2>4. op[t].n = "NO_ERROR"
    <3>1. op[t].pc \in {"request", "running", "failed", "read", "write"}
      BY <1>6, Zenon DEF Continue, DriverAccepts, DriverRefuses, DriverSucceeds, DriverFails,
                         Fallback, CopyTo, CopyToFails, CopyFrom, CopyFromRefused, WriteFails
    <3> QED BY <2>3, <3>1 DEF CallStateInv
  <2>5. op'[t].n = op[t].n \/ op'[t].n = "OP_FAILED"
    BY <1>1, <1>6, Moving, Zenon DEF Continue, Moves
  <2>6. \A u \in Threads : /\ op'[u].src = op[u].src /\ op'[u].dst = op[u].dst
                           /\ Active(u)' <=> Active(u)
                           /\ op'[u].n # "BAD_DATA" <=> op[u].n # "BAD_DATA"
    BY <2>2, <2>3, <2>4, <2>5 DEF Active
  <2> QED BY <1>1, <2>2, <2>6, Invisible
<1>7. ASSUME NEW t \in Threads, Finish(t) PROVE Contract!Next
  <2> DEFINE r == IF op[t].n = "NO_ERROR" THEN "NO_ERROR" ELSE "error"
  <2>1. /\ op[t].pc = "finish" /\ op'[t].pc = "off" /\ op' \in [Threads -> Call]
        /\ \A u \in Threads : u # t => op'[u] = op[u]
        /\ result' = [result EXCEPT ![t] = r]
        /\ \A m \in Memories :
              /\ mem'[m].kind = mem[m].kind
              /\ mem'[m].initialized = IF m = op[t].dst THEN InitializedAfter(op[t])
                                       ELSE mem[m].initialized
    BY <1>1, <1>7, Ended DEF Idle
  <2>2. Active(t) /\ ~Active(t)' /\ r \in {"NO_ERROR", "error"}
    BY <2>1 DEF Active
  <2>3. InitializedAfter(op[t]) <=> op[t].n = "NO_ERROR"
    BY <2>2 DEF CallStateInv, InitializedAfter
  <2>4. Live(op[t].dst) /\ op[t].dst \in Memories \cup {Client}
    BY <1>1, <2>2, CallFields DEF CallInv
  <2>5. writesOf[t] = {op[t].dst} \ {Client}
    BY <2>2 DEF writesOf
  <2>6. stateOf' = [m \in Memories |-> IF m \notin writesOf[t] THEN stateOf[m]
                                      ELSE IF r = "NO_ERROR" THEN "initialized"
                                      ELSE "uninitialized"]
    <3> SUFFICES ASSUME NEW m \in Memories
                 PROVE  (IF mem'[m].kind = "none" THEN "absent"
                         ELSE IF mem'[m].initialized THEN "initialized" ELSE "uninitialized")
                        = IF m \notin writesOf[t] THEN stateOf[m]
                          ELSE IF r = "NO_ERROR" THEN "initialized" ELSE "uninitialized"
      BY DEF stateOf
    <3>1. CASE m = op[t].dst
      <4>1. mem'[m].kind # "none" /\ m \in writesOf[t]
        BY <1>1, <2>1, <2>4, <2>5, <3>1 DEF Live
      <4>2. mem'[m].initialized <=> r = "NO_ERROR"
        BY <2>1, <2>3, <3>1
      <4> QED BY <4>1, <4>2
    <3>2. CASE m # op[t].dst
      BY <2>1, <2>5, <3>2 DEF stateOf
    <3> QED BY <3>1, <3>2
  <2>7. readsOf' = [readsOf EXCEPT ![t] = {}] /\ writesOf' = [writesOf EXCEPT ![t] = {}]
    BY ZenonT(40), <2>1, <2>2 DEF readsOf, writesOf, Active
  <2>8. result[t] = "pending"
    BY <2>2 DEF ResultInv
  <2> HIDE DEF r
  <2> QED BY <2>1, <2>2, <2>6, <2>7, <2>8, Mapping, Zenon
<1>8. ASSUME NEW token \in released, FreeToken(token)
      PROVE  UNCHANGED <<stateOf, readsOf, writesOf, result>>
  <2>1. UNCHANGED <<mem, op, result>>
    BY <1>8, Zenon DEF FreeToken
  <2> QED BY <2>1 DEF stateOf, readsOf, writesOf, Active
<1>9. ASSUME DriverDies \/ UNCHANGED vars
      PROVE  UNCHANGED <<stateOf, readsOf, writesOf, result>>
  <2>1. UNCHANGED <<mem, op, result>>
    BY <1>9, Zenon DEF DriverDies, vars
  <2> QED BY <2>1 DEF stateOf, readsOf, writesOf, Active
<1> QED BY <1>2, <1>3, <1>4, <1>5, <1>6, <1>7, <1>8, <1>9, Starting, Zenon DEF Next

\* The client has no memories and no calls initially.
LEMMA ContractInit == Init => Contract!Init
<1> SUFFICES ASSUME Init PROVE Contract!Init
  OBVIOUS
<1>1. /\ stateOf = [m \in Memories |-> "absent"] /\ readsOf = [t \in Threads |-> {}]
      /\ writesOf = [t \in Threads |-> {}] /\ result = [t \in Threads |-> "none"]
  BY DEF Init, stateOf, readsOf, writesOf, Active, NoMemory, Idle
<1> QED BY <1>1, Zenon DEF stateOf, readsOf, writesOf, Contract!Init

\* With executions and copies between two memories, the runtime keeps what the
\* documentation of ANeuralNetworksMemory_createFromDesc promises.
THEOREM Implements ==
    ASSUME PlainKinds
    PROVE  Spec => KeepsContract
<1>1. Init => Contract!Init
  BY ContractInit
<1>2. TypeInv /\ TokenInv /\ CallInv /\ ResultInv /\ CallStateInv /\ MemoryStateInv
      /\ [Next]_vars => [Contract!Next]_(Contract!vars)
  BY ContractStep
<1> QED BY <1>1, <1>2, Foundation, Contents, PTL DEF Spec, KeepsContract, Contract!Spec

===============================================================================
