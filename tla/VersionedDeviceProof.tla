------------------------- MODULE VersionedDeviceProof -------------------------
(***************************************************************************)
(* Proofs about VersionedDevice, for any number of threads, incarnations   *)
(* of the service and sequences of calls.                                  *)
(***************************************************************************)
EXTENDS VersionedDevice, TLAPS

-------------------------------------------------------------------------------
(* The inductive invariant.                                                 *)

\* The type invariant, with the calls that are still to be made.
TypeInv == TypeOK /\ todo \in [Threads -> Seq(AllKinds)]

\* Its parts: what each thread has of its own, what they share, and that a
\* callback is registered with the handler of its call alone.
ThreadTypes ==
    /\ task \in [Threads -> 0 .. MaxGen]
    /\ pc \in [Threads -> Places] /\ kind \in [Threads -> AllKinds \cup {"none"}]
    /\ used \in [Threads -> 0 .. MaxGen] /\ via \in [Threads -> Handlers]
    /\ again \in [Threads -> BOOLEAN] /\ fresh \in [Threads -> 0 .. MaxGen]
    /\ ret \in [Threads -> {"ok", "error", "dead"}]
    /\ cb \in [Threads -> Callbacks] /\ result \in [Threads -> Codes]

SharedTypes ==
    /\ gen \in Gens /\ alive \in BOOLEAN /\ core \in Gens
    /\ told \subseteq Handlers /\ mCallbacks \in [Handlers -> SUBSET Threads]
    /\ mMutex \in Threads \cup {Nobody}
    /\ prepared \in [Models -> 0 .. MaxGen]
    /\ todo \in [Threads -> Seq(AllKinds)]

Registered == \A t \in Threads, h \in Handlers : t \in mCallbacks[h] =>
                 h = via[t] /\ pc[t] \in {"send", "calling", "waiting", "leaving"}

\* Incarnations are numbered as they come, and a handler runs for a dead one.
ServiceInv ==
    /\ core <= gen
    /\ \A t \in Threads : used[t] <= gen /\ fresh[t] <= gen
    /\ \A p \in Models : prepared[p] <= gen
    /\ \A h \in told : Linked(h) \in 1 .. gen /\ ~Connected(Linked(h))

\* Who replaces the connection holds the mutex, and the connection is dead.
LockInv ==
    \A t \in Threads : /\ pc[t] \in {"make", "link"} <=> mMutex = t
                       /\ mMutex = t => ~Connected(core)

\* The places that each kind of call comes to.
Placed(t) ==
    /\ pc[t] \in {"getDevice", "recover"} => kind[t] \in Recoverable
    /\ pc[t] \in {"protect", "waiting", "leaving"} => kind[t] \in Asynchronous
    /\ pc[t] = "lock" => kind[t] = "wait"
    /\ pc[t] \in {"make", "link"} => kind[t] \in Recoverable \cup {"wait"}
    /\ pc[t] \in {"idle", "getDevice", "lock"} => cb[t] = Pending
    /\ kind[t] \in Preparations => prepared[t] = 0

\* A call in progress has the handler of the incarnation that it goes to, and its
\* callback is registered there before the call is sent.
Tied(t) ==
    /\ pc[t] \in {"protect", "send", "calling", "waiting", "leaving"} =>
          used[t] # 0 /\ Linked(via[t]) = used[t]
    /\ pc[t] \in {"send", "calling", "waiting", "leaving"} =>
          (kind[t] \in Asynchronous <=> t \in mCallbacks[via[t]])

\* A live service that has got the call is to answer it, and a thread only waits
\* for a callback whose handler had not run when the call returned.
Asked(t) ==
    /\ task[t] # 0 => /\ task[t] = used[t] /\ pc[t] \in {"calling", "waiting", "leaving"}
                      /\ kind[t] \in Asynchronous
    /\ pc[t] = "calling" /\ kind[t] \in Asynchronous /\ cb[t] = Pending =>
          (Connected(used[t]) => task[t] = used[t])
    /\ pc[t] = "waiting" /\ cb[t] = Pending =>
          /\ via[t] \notin told
          /\ Connected(used[t]) => task[t] = used[t]

\* An answer is of the last attempt or from a dead incarnation, and only a call to
\* a dead one is repeated.
Answered(t) ==
    /\ cb[t].is = "answer" => /\ cb[t].by \in 1 .. gen
                              /\ cb[t].by = used[t] \/ ~Connected(cb[t].by)
    /\ pc[t] \in {"recover", "make", "link"} /\ kind[t] # "wait" =>
          ret[t] = "dead" /\ ~Connected(used[t])
    /\ pc[t] \in {"waiting", "leaving"} /\ ret[t] = "dead" => ~Connected(used[t])

CallInv == \A t \in Threads : Placed(t) /\ Tied(t) /\ Asked(t) /\ Answered(t)

IInv == TypeInv /\ ServiceInv /\ LockInv /\ CallInv

-------------------------------------------------------------------------------
(* What the steps of a thread change.                                       *)

\* The names of handlers and answers are what they look like.
LEMMA Names ==
    /\ 1 \in Gens /\ MaxGen \in Nat /\ Gens = 1 .. MaxGen
    /\ \A g \in Gens : /\ DeviceHandler(g) \in Handlers /\ Answer(g) \in Callbacks
                       /\ Linked(DeviceHandler(g)) = g
                       /\ Answer(g).is = "answer" /\ Answer(g).by = g /\ Answer(g) # Pending
    /\ \A p \in Models : ModelHandler(p) \in Handlers /\ Linked(ModelHandler(p)) = prepared[p]
    /\ Pending \in Callbacks /\ Dead \in Callbacks /\ Failure \in Callbacks
    /\ Pending.is = "pending" /\ Dead.is = "dead" /\ Failure.is = "failure" /\ Pending.by = 0
    /\ Pending # Dead /\ Pending # Failure
    /\ \A h \in Handlers : \/ \E g \in Gens : h = DeviceHandler(g)
                           \/ \E p \in Models : h = ModelHandler(p)
    /\ \A p, q \in Models : ModelHandler(p) = ModelHandler(q) => p = q
    /\ \A c \in Callbacks : \/ c = Pending \/ c = Dead \/ c = Failure
                            \/ \E g \in Gens : c = Answer(g)
<1>1. 1 \in Gens /\ MaxGen \in Nat /\ Gens = 1 .. MaxGen
  BY GenAssumption DEF Gens
<1>2. \A g \in Gens : /\ DeviceHandler(g) \in Handlers /\ Linked(DeviceHandler(g)) = g
  BY DEF Handlers, DeviceHandler, Linked
<1>3. \A g \in Gens : /\ Answer(g) \in Callbacks /\ Answer(g).is = "answer" /\ Answer(g).by = g
                      /\ Answer(g) # Pending
  BY DEF Callbacks, Answer, Pending
<1>4. \A p \in Models : ModelHandler(p) \in Handlers /\ Linked(ModelHandler(p)) = prepared[p]
  BY DEF Handlers, ModelHandler, Linked
<1>5. /\ Pending \in Callbacks /\ Dead \in Callbacks /\ Failure \in Callbacks
      /\ Pending.is = "pending" /\ Dead.is = "dead" /\ Failure.is = "failure"
      /\ Pending.by = 0
  BY DEF Callbacks, Pending, Dead, Failure
<1>6. Pending # Dead /\ Pending # Failure
  BY <1>5
<1>7. \A h \in Handlers : \/ \E g \in Gens : h = DeviceHandler(g)
                          \/ \E p \in Models : h = ModelHandler(p)
  BY DEF Handlers, DeviceHandler, ModelHandler
<1>8. \A p, q \in Models : ModelHandler(p) = ModelHandler(q) => p = q
  BY DEF ModelHandler
<1>9. \A c \in Callbacks : \/ c = Pending \/ c = Dead \/ c = Failure
                           \/ \E g \in Gens : c = Answer(g)
  BY DEF Callbacks
<1> QED BY <1>1, <1>2, <1>3, <1>4, <1>5, <1>6, <1>7, <1>8, <1>9

\* The type invariant is its parts, before a step and after it.
LEMMA Parts ==
    /\ TypeInv <=> ThreadTypes /\ SharedTypes /\ Registered
    /\ TypeInv' <=> ThreadTypes' /\ SharedTypes' /\ Registered'
BY Zenon DEF TypeInv, TypeOK, ThreadTypes, SharedTypes, Registered

\* The other threads stay where they are.
Others(t) ==
    /\ ThreadTypes'
    /\ \A u \in Threads : u # t =>
          /\ pc'[u] = pc[u] /\ kind'[u] = kind[u] /\ used'[u] = used[u] /\ via'[u] = via[u]
          /\ fresh'[u] = fresh[u] /\ ret'[u] = ret[u] /\ cb'[u] = cb[u] /\ task'[u] = task[u]

\* A thread is back in the client.
LEMMA Returned ==
    ASSUME ThreadTypes, NEW t \in Threads, NEW code \in Codes, Return(t, code)
    PROVE  /\ Others(t)
           /\ pc'[t] = "idle" /\ kind'[t] = "none" /\ used'[t] = 0
           /\ fresh'[t] = 0 /\ ret'[t] = "ok" /\ cb'[t] = Pending /\ task'[t] = 0
BY Names DEF ThreadTypes, Return, Goto, Others, Places

\* A thread attempts a call across the HAL.
LEMMA Attempted ==
    ASSUME ThreadTypes, NEW t \in Threads, NEW g \in Gens, NEW second \in BOOLEAN,
           kind[t] \in AllKinds, Attempt(t, g, second), UNCHANGED <<kind, ret, cb, result, task>>,
           \/ UNCHANGED fresh
           \/ fresh' = [fresh EXCEPT ![t] = 0]
    PROVE  /\ Others(t)
           /\ pc'[t] = FirstStep(kind[t]) /\ used'[t] = g /\ via'[t] = DeviceHandler(g)
BY Names DEF ThreadTypes, Attempt, Goto, Others, Places, FirstStep

\* A thread goes somewhere else and changes nothing of its call.
LEMMA Gone ==
    ASSUME ThreadTypes, NEW t \in Threads, NEW l \in Places, Goto(t, l),
           UNCHANGED <<kind, used, via, again, result>>,
           \/ UNCHANGED task
           \/ \E g \in 0 .. MaxGen : task' = [task EXCEPT ![t] = g],
           \/ UNCHANGED fresh
           \/ \E g \in 0 .. MaxGen : fresh' = [fresh EXCEPT ![t] = g],
           \/ UNCHANGED ret
           \/ \E r \in {"ok", "error", "dead"} : ret' = [ret EXCEPT ![t] = r],
           \/ UNCHANGED cb
           \/ \E c \in Callbacks : cb' = [cb EXCEPT ![t] = c]
    PROVE  Others(t) /\ pc'[t] = l
BY DEF ThreadTypes, Goto, Others

\* A call begins: on a prepared model, on the device, or by waiting for it.
LEMMA EffectOfBegin ==
    ASSUME ThreadTypes, SharedTypes, NEW t \in Threads, Begin(t)
    PROVE  /\ Others(t) /\ SharedTypes'
           /\ UNCHANGED <<gen, alive, told, mCallbacks, core, mMutex, prepared, ret, cb, task,
                          fresh>>
           /\ pc[t] = "idle"
           /\ \/ /\ kind'[t] \in {"execute", "executeSynchronously"}
                 /\ pc'[t] \in {"protect", "send"}
                 /\ pc'[t] = "protect" => kind'[t] = "execute"
                 /\ pc'[t] = "send" => kind'[t] # "execute"
                 /\ \E p \in Models : /\ prepared[p] # 0 /\ used'[t] = prepared[p]
                                      /\ via'[t] = ModelHandler(p)
              \/ /\ kind'[t] = "wait" /\ pc'[t] = "lock"
                 /\ UNCHANGED <<used, via>>
              \/ /\ kind'[t] \in Recoverable /\ pc'[t] = "getDevice"
                 /\ UNCHANGED <<used, via>>
                 /\ kind'[t] \in Preparations => prepared[t] = 0
<1> DEFINE k == Head(todo[t])
<1>1. /\ k \in AllKinds /\ todo' \in [Threads -> Seq(AllKinds)]
  <2>1. todo[t] \in Seq(AllKinds) /\ todo[t] # <<>> /\ todo' = [todo EXCEPT ![t] = Tail(@)]
    BY DEF Begin, SharedTypes
  <2>2. Head(todo[t]) \in AllKinds /\ Tail(todo[t]) \in Seq(AllKinds)
    BY <2>1
  <2> QED BY <2>1, <2>2 DEF SharedTypes
<1>2. /\ UNCHANGED <<gen, alive, told, mCallbacks, core, mMutex, prepared, ret, cb, task, fresh,
                     again>>
      /\ pc[t] = "idle" /\ kind' = [kind EXCEPT ![t] = k]
      /\ result' = [result EXCEPT ![t] = "none"]
      /\ k \in Preparations => prepared[t] = 0
  BY Zenon DEF Begin, serviceVars, handlerVars
<1>3. SharedTypes'
  BY <1>1, <1>2 DEF SharedTypes
<1>4. kind' \in [Threads -> AllKinds \cup {"none"}] /\ kind'[t] = k
      /\ \A u \in Threads : u # t => kind'[u] = kind[u]
  BY <1>1, <1>2 DEF ThreadTypes
<1>5. result' \in [Threads -> Codes]
  BY <1>2 DEF ThreadTypes, Codes
<1>6. CASE k \in {"execute", "executeSynchronously"}
  <2>1. PICK p \in Models : /\ prepared[p] # 0 /\ used' = [used EXCEPT ![t] = prepared[p]]
                            /\ via' = [via EXCEPT ![t] = ModelHandler(p)]
                            /\ pc' = [pc EXCEPT ![t] = FirstStep(k)]
    BY <1>6, Zenon DEF Begin, Goto
  <2>2. FirstStep(k) = IF k = "execute" THEN "protect" ELSE "send"
    BY <1>6 DEF FirstStep, Asynchronous, Preparations
  <2>3. /\ ModelHandler(p) \in Handlers /\ prepared[p] \in 0 .. MaxGen
    BY Names DEF SharedTypes
  <2>4. Others(t) /\ used'[t] = prepared[p] /\ via'[t] = ModelHandler(p)
        /\ pc'[t] = IF k = "execute" THEN "protect" ELSE "send"
    BY <1>2, <1>4, <1>5, <2>1, <2>2, <2>3 DEF Others, ThreadTypes, Places
  <2> QED BY <1>2, <1>3, <1>4, <1>6, <2>1, <2>4
<1>7. CASE k \notin {"execute", "executeSynchronously"}
  <2>1. /\ UNCHANGED <<used, via>>
        /\ pc' = [pc EXCEPT ![t] = IF k = "wait" THEN "lock" ELSE "getDevice"]
    BY <1>7, Zenon DEF Begin, Goto
  <2>2. Others(t) /\ pc'[t] = IF k = "wait" THEN "lock" ELSE "getDevice"
    BY <1>2, <1>4, <1>5, <2>1 DEF Others, ThreadTypes, Places
  <2>3. k = "wait" \/ k \in Recoverable
    BY <1>1, <1>7 DEF AllKinds, Recoverable, Preparations
  <2> QED BY <1>2, <1>3, <1>4, <2>1, <2>2, <2>3
<1> QED BY <1>6, <1>7

\* The callback is registered.
LEMMA EffectOfProtect ==
    ASSUME ThreadTypes, SharedTypes, NEW t \in Threads, Protect(t)
    PROVE  /\ Others(t) /\ SharedTypes'
           /\ UNCHANGED <<gen, alive, told, core, mMutex, prepared, kind, used, via, ret, cb, task,
                          fresh>>
           /\ pc[t] = "protect" /\ pc'[t] = "send"
           /\ mCallbacks' = [mCallbacks EXCEPT ![via[t]] = @ \cup {t}]
<1>1. /\ UNCHANGED <<gen, alive, told, core, mMutex, prepared, todo, kind, used, via, again, ret,
                     cb, task, fresh, result>>
      /\ pc[t] = "protect" /\ Goto(t, "send")
      /\ mCallbacks' = [mCallbacks EXCEPT ![via[t]] = @ \cup {t}]
  BY Zenon DEF Protect, protectCallback, serviceVars, callVars
<1>2. Others(t) /\ pc'[t] = "send"
  BY <1>1, Gone DEF Places
<1>3. SharedTypes'
  BY <1>1 DEF SharedTypes, ThreadTypes
<1> QED BY <1>1, <1>2, <1>3

\* The call is sent; an asynchronous one that arrives is on its way to be answered.
LEMMA EffectOfSend ==
    ASSUME ThreadTypes, SharedTypes, NEW t \in Threads, Send(t)
    PROVE  /\ Others(t) /\ SharedTypes'
           /\ UNCHANGED <<gen, alive, told, mCallbacks, core, mMutex, prepared, kind, used, via,
                          ret, cb, fresh>>
           /\ pc[t] = "send" /\ pc'[t] = "calling"
           /\ task'[t] = IF Connected(used[t]) /\ kind[t] \in Asynchronous THEN used[t] ELSE 0
<1> DEFINE g == IF Connected(used[t]) /\ kind[t] \in Asynchronous THEN used[t] ELSE 0
<1>1. /\ UNCHANGED <<gen, alive, told, mCallbacks, core, mMutex, prepared, todo, kind, used, via,
                     again, ret, cb, fresh, result>>
      /\ pc[t] = "send" /\ Goto(t, "calling") /\ task' = [task EXCEPT ![t] = g]
  BY Zenon DEF Send, serviceVars, handlerVars, callVars
<1>2. g \in 0 .. MaxGen
  BY Names DEF ThreadTypes
<1> HIDE DEF g
<1>3. Others(t) /\ pc'[t] = "calling"
  BY <1>1, <1>2, Gone DEF Places
<1>4. SharedTypes' /\ task'[t] = g
  BY <1>1 DEF SharedTypes, ThreadTypes
<1> QED BY <1>1, <1>3, <1>4 DEF g

\* The call returns across the HAL.
LEMMA EffectOfReturn ==
    ASSUME ThreadTypes, SharedTypes, NEW t \in Threads, CallReturns(t)
    PROVE  /\ Others(t) /\ SharedTypes'
           /\ UNCHANGED <<gen, alive, told, mCallbacks, core, mMutex, prepared, kind, used, via,
                          fresh>>
           /\ pc[t] = "calling"
           /\ ret'[t] = "dead" <=> ~Connected(used[t])
           /\ task'[t] \in {task[t], 0} /\ (ret'[t] = "ok" => task'[t] = task[t])
           /\ cb'[t] = cb[t] \/ cb'[t] = Failure
           /\ kind[t] \in Preparations /\ ret'[t] # "ok" => cb'[t] # Pending
           /\ pc'[t] = CASE kind[t] \in Preparations                   -> "waiting"
                         [] kind[t] = "execute" /\ ret'[t] = "ok"      -> "waiting"
                         [] kind[t] = "execute" /\ ret'[t] # "ok"      -> "leaving"
                         [] OTHER -> AfterCall(kind[t], ret'[t], again[t])
<1>1. /\ UNCHANGED <<gen, alive, told, mCallbacks, core, mMutex, prepared, todo, kind, used, via,
                     again, fresh, result>>
      /\ pc[t] = "calling"
  BY Zenon DEF CallReturns, serviceVars, handlerVars, callVars
<1>2. PICK r \in IF Connected(used[t]) THEN {"ok", "error"} ELSE {"dead"} :
          /\ ret' = [ret EXCEPT ![t] = r]
          /\ \E accepted \in IF r = "ok" THEN {task[t]} ELSE {task[t], 0} :
                 task' = [task EXCEPT ![t] = accepted]
          /\ cb' = sendFailureMessage(t, r)
          /\ Goto(t, CASE kind[t] \in Preparations             -> "waiting"
                       [] kind[t] = "execute" /\ r = "ok"      -> "waiting"
                       [] kind[t] = "execute" /\ r # "ok"      -> "leaving"
                       [] OTHER -> AfterCall(kind[t], r, again[t]))
  BY Zenon DEF CallReturns
<1>3. PICK accepted \in {task[t], 0} : /\ task' = [task EXCEPT ![t] = accepted]
                                       /\ r = "ok" => accepted = task[t]
  BY <1>2
<1> DEFINE l == CASE kind[t] \in Preparations             -> "waiting"
                  [] kind[t] = "execute" /\ r = "ok"      -> "waiting"
                  [] kind[t] = "execute" /\ r # "ok"      -> "leaving"
                  [] OTHER -> AfterCall(kind[t], r, again[t])
           c == IF kind[t] \in Preparations /\ r # "ok" /\ cb[t] = Pending
                THEN Failure ELSE cb[t]
<1>4. cb' = [cb EXCEPT ![t] = c] /\ c \in Callbacks
  BY <1>2, Names DEF sendFailureMessage, Notified, ThreadTypes
<1>5. l \in Places
  BY DEF Places, AfterCall
<1>6. r \in {"ok", "error", "dead"} /\ (r = "dead" <=> ~Connected(used[t]))
  BY <1>2
<1>7. accepted \in 0 .. MaxGen
  BY GenAssumption DEF ThreadTypes
<1>8. c = cb[t] \/ c = Failure
  OBVIOUS
<1>9. kind[t] \in Preparations /\ r # "ok" => c # Pending
  BY Names
<1>10. Goto(t, l)
  BY <1>2
<1>11. l = CASE kind[t] \in Preparations             -> "waiting"
             [] kind[t] = "execute" /\ r = "ok"      -> "waiting"
             [] kind[t] = "execute" /\ r # "ok"      -> "leaving"
             [] OTHER -> AfterCall(kind[t], r, again[t])
  OBVIOUS
<1> HIDE DEF c, l
<1>12. Others(t) /\ pc'[t] = l
  BY <1>1, <1>2, <1>3, <1>4, <1>5, <1>6, <1>7, <1>10, Gone
<1>13. SharedTypes' /\ ret'[t] = r /\ cb'[t] = c /\ task'[t] = accepted
  BY <1>1, <1>2, <1>3, <1>4 DEF SharedTypes, ThreadTypes
<1> QED BY <1>1, <1>3, <1>6, <1>8, <1>9, <1>11, <1>12, <1>13

\* The thread no longer waits for the callback.
LEMMA EffectOfLeave ==
    ASSUME ThreadTypes, SharedTypes, NEW t \in Threads, Leave(t)
    PROVE  /\ Others(t) /\ SharedTypes'
           /\ UNCHANGED <<gen, alive, told, core, mMutex, prepared, kind, used, via, ret, cb,
                          fresh>>
           /\ pc[t] \in {"waiting", "leaving"} /\ task'[t] = 0
           /\ pc'[t] = AfterCall(kind[t], ret[t], again[t])
           /\ mCallbacks' = [mCallbacks EXCEPT ![via[t]] = @ \ {t}]
<1>1. /\ UNCHANGED <<gen, alive, told, core, mMutex, prepared, todo, kind, used, via, again, ret,
                     cb, fresh, result>>
      /\ pc[t] \in {"waiting", "leaving"} /\ task' = [task EXCEPT ![t] = 0]
      /\ Goto(t, AfterCall(kind[t], ret[t], again[t]))
      /\ mCallbacks' = [mCallbacks EXCEPT ![via[t]] = @ \ {t}]
  BY Zenon DEF Leave, unregisterCallback, serviceVars, callVars
<1>2. Others(t) /\ pc'[t] = AfterCall(kind[t], ret[t], again[t])
  <2>1. AfterCall(kind[t], ret[t], again[t]) \in Places
    BY DEF Places, AfterCall
  <2>2. \E g \in 0 .. MaxGen : task' = [task EXCEPT ![t] = g]
    <3>1. 0 \in 0 .. MaxGen
      BY GenAssumption
    <3> QED BY <1>1, <3>1, Zenon
  <2> DEFINE l == AfterCall(kind[t], ret[t], again[t])
  <2>3. l \in Places /\ Goto(t, l)
    BY <1>1, <2>1
  <2> HIDE DEF l
  <2>4. Others(t) /\ pc'[t] = l
    BY <1>1, <2>2, <2>3, Gone
  <2> QED BY <2>4 DEF l
<1>3. SharedTypes' /\ task'[t] = 0
  BY <1>1 DEF SharedTypes, ThreadTypes
<1> QED BY <1>1, <1>2, <1>3

\* The device is looked up, and the first attempt made on it.
LEMMA EffectOfLookup ==
    ASSUME ThreadTypes, SharedTypes, NEW t \in Threads, kind[t] \in AllKinds,
           getDeviceAndDeathHandler(t)
    PROVE  /\ Others(t) /\ SharedTypes'
           /\ UNCHANGED <<gen, alive, told, mCallbacks, core, mMutex, prepared, kind, ret, cb,
                          task, fresh>>
           /\ pc[t] = "getDevice" /\ pc'[t] = FirstStep(kind[t])
           /\ used'[t] = core /\ via'[t] = DeviceHandler(core)
<1>1. /\ UNCHANGED <<gen, alive, told, mCallbacks, core, mMutex, prepared, todo, kind, ret, cb,
                     task, fresh, result>>
      /\ pc[t] = "getDevice" /\ Attempt(t, core, FALSE)
  BY Zenon DEF getDeviceAndDeathHandler, serviceVars, handlerVars
<1>2. SharedTypes' /\ core \in Gens
  BY <1>1 DEF SharedTypes
<1> QED BY <1>1, <1>2, Attempted

\* After a call to a dead device: somebody else has reconnected, or this thread will.
LEMMA EffectOfRecover ==
    ASSUME ThreadTypes, SharedTypes, NEW t \in Threads, kind[t] \in AllKinds, Recover(t)
    PROVE  /\ Others(t) /\ SharedTypes'
           /\ UNCHANGED <<gen, alive, told, mCallbacks, core, prepared, kind, ret, cb, task, fresh>>
           /\ pc[t] = "recover" /\ mMutex = Nobody
           /\ \/ /\ Connected(core) /\ UNCHANGED mMutex
                 /\ pc'[t] = FirstStep(kind[t]) /\ used'[t] = core
                 /\ via'[t] = DeviceHandler(core)
              \/ /\ ~Connected(core) /\ mMutex' = t
                 /\ pc'[t] = "make" /\ UNCHANGED <<used, via>>
<1>1. /\ UNCHANGED <<gen, alive, told, mCallbacks, core, prepared, todo, kind, ret, cb, task,
                     fresh, result>>
      /\ pc[t] = "recover" /\ mMutex = Nobody
  BY Zenon DEF Recover, MayLock, serviceVars, handlerVars
<1>2. CASE Connected(core)
  <2>1. Attempt(t, core, TRUE) /\ UNCHANGED mMutex
    BY <1>2, Zenon DEF Recover
  <2>2. SharedTypes' /\ core \in Gens
    BY <1>1, <2>1 DEF SharedTypes
  <2> QED BY <1>1, <1>2, <2>1, <2>2, Attempted
<1>3. CASE ~Connected(core)
  <2>1. Goto(t, "make") /\ mMutex' = t /\ UNCHANGED <<used, via, again>>
    BY <1>3, Zenon DEF Recover, callVars
  <2>2. SharedTypes'
    BY <1>1, <2>1 DEF SharedTypes
  <2>3. Others(t) /\ pc'[t] = "make"
    BY <1>1, <2>1, Gone DEF Places
  <2> QED BY <1>1, <1>3, <2>1, <2>2, <2>3
<1> QED BY <1>2, <1>3

\* What holds of a thread that has returned to the client.
Home(t) == /\ pc'[t] = "idle" /\ kind'[t] = "none" /\ used'[t] = 0
           /\ fresh'[t] = 0 /\ ret'[t] = "ok" /\ cb'[t] = Pending /\ task'[t] = 0

\* The client waits for the service: it is there, or the thread reconnects.
LEMMA EffectOfWait ==
    ASSUME ThreadTypes, SharedTypes, NEW t \in Threads, wait(t)
    PROVE  /\ Others(t) /\ SharedTypes'
           /\ UNCHANGED <<gen, alive, told, mCallbacks, core, prepared>>
           /\ pc[t] = "lock" /\ mMutex = Nobody
           /\ \/ Home(t) /\ UNCHANGED mMutex
              \/ /\ ~Connected(core) /\ mMutex' = t /\ pc'[t] = "make"
                 /\ UNCHANGED <<kind, used, via, ret, cb, task, fresh>>
<1>1. /\ UNCHANGED <<gen, alive, told, mCallbacks, core, prepared, todo>>
      /\ pc[t] = "lock" /\ mMutex = Nobody
  BY Zenon DEF wait, MayLock, serviceVars, handlerVars
<1>2. CASE Connected(core)
  <2>1. PICK code \in {"NO_ERROR", "OP_FAILED"} : Return(t, code)
    BY <1>2, Zenon DEF wait
  <2>2. UNCHANGED mMutex
    BY <1>2, Zenon DEF wait
  <2>3. SharedTypes'
    BY <1>1, <2>2 DEF SharedTypes
  <2>4. code \in Codes
    BY DEF Codes
  <2> QED BY <1>1, <2>1, <2>2, <2>3, <2>4, Returned DEF Home
<1>3. CASE ~Connected(core)
  <2>1. /\ Goto(t, "make") /\ mMutex' = t
        /\ UNCHANGED <<used, via, again, kind, task, fresh, ret, cb, result>>
    BY <1>3, Zenon DEF wait, callVars
  <2>2. SharedTypes'
    BY <1>1, <2>1 DEF SharedTypes
  <2>3. Others(t) /\ pc'[t] = "make"
    BY <1>1, <2>1, Gone DEF Places
  <2> QED BY <1>1, <1>3, <2>1, <2>2, <2>3
<1> QED BY <1>2, <1>3

\* There is no device: the mutex is free again.
LEMMA EffectOfGivingUp ==
    ASSUME ThreadTypes, SharedTypes, NEW t \in Threads, GiveUp(t),
           UNCHANGED <<gen, alive, told, mCallbacks, prepared, todo>>
    PROVE  /\ Others(t) /\ SharedTypes' /\ UNCHANGED core /\ mMutex' = Nobody
           /\ \/ Home(t)
              \/ /\ kind[t] # "wait" /\ pc'[t] = "result"
                 /\ UNCHANGED <<kind, used, via, ret, cb, task, fresh>>
<1>1. mMutex' = Nobody /\ UNCHANGED core
  BY Zenon DEF GiveUp
<1>2. SharedTypes'
  BY <1>1 DEF SharedTypes
<1>3. CASE kind[t] = "wait"
  <2>1. Return(t, "OP_FAILED")
    BY <1>3, Zenon DEF GiveUp
  <2>2. "OP_FAILED" \in Codes
    BY DEF Codes
  <2> QED BY <1>1, <1>2, <2>1, <2>2, Returned DEF Home
<1>4. CASE kind[t] # "wait"
  <2>1. /\ Goto(t, "result")
        /\ UNCHANGED <<used, via, again, kind, task, fresh, ret, cb, result>>
    BY <1>4, Zenon DEF GiveUp, callVars
  <2>2. Others(t) /\ pc'[t] = "result"
    BY <2>1, Gone DEF Places
  <2> QED BY <1>1, <1>2, <1>4, <2>1, <2>2
<1> QED BY <1>3, <1>4

\* The thread gets a device of the incarnation that runs, or none.
LEMMA EffectOfMaking ==
    ASSUME ThreadTypes, SharedTypes, NEW t \in Threads, MakeDevice(t)
    PROVE  /\ Others(t) /\ SharedTypes'
           /\ UNCHANGED <<gen, alive, told, mCallbacks, core, prepared>>
           /\ pc[t] = "make"
           /\ \/ /\ UNCHANGED mMutex /\ pc'[t] = "link" /\ fresh'[t] = gen
                 /\ UNCHANGED <<kind, used, via, ret, cb, task>>
              \/ Home(t) /\ mMutex' = Nobody
              \/ /\ mMutex' = Nobody /\ kind[t] # "wait" /\ pc'[t] = "result"
                 /\ UNCHANGED <<kind, used, via, ret, cb, task, fresh>>
<1>1. /\ UNCHANGED <<gen, alive, told, mCallbacks, prepared, todo>> /\ pc[t] = "make"
  BY Zenon DEF MakeDevice, serviceVars, handlerVars
<1>2. CASE GiveUp(t)
  BY <1>1, <1>2, EffectOfGivingUp
<1>3. CASE /\ alive /\ fresh' = [fresh EXCEPT ![t] = gen] /\ Goto(t, "link")
           /\ UNCHANGED <<callVars, kind, core, mMutex, task, ret, cb, result>>
  <2>1. UNCHANGED <<used, via, again>>
    BY <1>3 DEF callVars
  <2>2. SharedTypes'
    BY <1>1, <1>3 DEF SharedTypes
  <2>3. gen \in 0 .. MaxGen
    BY Names DEF SharedTypes
  <2>4. Others(t) /\ pc'[t] = "link"
    BY <1>1, <1>3, <2>1, <2>3, Gone DEF Places
  <2>5. fresh'[t] = gen
    BY <1>3 DEF ThreadTypes
  <2> QED BY <1>1, <1>3, <2>1, <2>2, <2>4, <2>5
<1> QED BY <1>2, <1>3, Zenon DEF MakeDevice

\* The connection is replaced by one to the device that the thread has got, if that lives.
LEMMA EffectOfCreating ==
    ASSUME ThreadTypes, SharedTypes, NEW t \in Threads, kind[t] \in AllKinds, CreateCore(t)
    PROVE  /\ Others(t) /\ SharedTypes'
           /\ UNCHANGED <<gen, alive, told, mCallbacks, prepared>>
           /\ pc[t] = "link" /\ mMutex' = Nobody
           /\ \/ /\ core' = gen /\ Home(t)
              \/ /\ kind[t] # "wait" /\ core' = gen /\ pc'[t] = FirstStep(kind[t])
                 /\ used'[t] = gen /\ via'[t] = DeviceHandler(gen) /\ fresh'[t] = 0
                 /\ UNCHANGED <<kind, ret, cb, task>>
              \/ UNCHANGED core /\ Home(t)
              \/ /\ UNCHANGED core /\ kind[t] # "wait" /\ pc'[t] = "result"
                 /\ UNCHANGED <<kind, used, via, ret, cb, task, fresh>>
<1>1. /\ UNCHANGED <<gen, alive, told, mCallbacks, prepared, todo>> /\ pc[t] = "link"
  BY Zenon DEF CreateCore, serviceVars, handlerVars
<1>2. CASE GiveUp(t)
  BY <1>1, <1>2, EffectOfGivingUp
<1>3. CASE /\ Connected(fresh[t]) /\ core' = fresh[t] /\ mMutex' = Nobody
           /\ IF kind[t] = "wait" THEN Return(t, "NO_ERROR")
              ELSE /\ Attempt(t, fresh[t], TRUE)
                   /\ fresh' = [fresh EXCEPT ![t] = 0]
                   /\ UNCHANGED <<kind, task, ret, cb, result>>
  <2>1. fresh[t] = gen /\ gen \in Gens /\ core' = gen
    BY <1>3 DEF Connected, SharedTypes
  <2>2. SharedTypes'
    BY <1>1, <1>3, <2>1 DEF SharedTypes
  <2>3. CASE kind[t] = "wait"
    <3>1. Return(t, "NO_ERROR") /\ "NO_ERROR" \in Codes
      BY <1>3, <2>3 DEF Codes
    <3> QED BY <1>1, <1>3, <2>1, <2>2, <3>1, Returned DEF Home
  <2>4. CASE kind[t] # "wait"
    <3>1. /\ Attempt(t, gen, TRUE) /\ fresh' = [fresh EXCEPT ![t] = 0]
          /\ UNCHANGED <<kind, task, ret, cb, result>>
      BY <1>3, <2>1, <2>4
    <3>2. fresh'[t] = 0
      BY <3>1 DEF ThreadTypes
    <3> QED BY <1>1, <1>3, <2>1, <2>2, <2>4, <3>1, <3>2, Attempted
  <2> QED BY <2>3, <2>4
<1> QED BY <1>2, <1>3, Zenon DEF CreateCore

\* The call is over, or an attempt to prepare from the cache is: it made a model,
\* or returns to the client, or goes on without the cache.
LEMMA EffectOfResult ==
    ASSUME ThreadTypes, SharedTypes, NEW t \in Threads, Result(t)
    PROVE  /\ Others(t) /\ SharedTypes'
           /\ UNCHANGED <<gen, alive, mCallbacks, core, mMutex>>
           /\ pc[t] = "result"
           /\ \/ /\ kind[t] \in Preparations /\ Connected(cb[t].by) /\ Home(t)
                 /\ cb[t].is = "answer"
                 /\ prepared' = [prepared EXCEPT ![t] = cb[t].by]
                 /\ told' = told \ {ModelHandler(t)}
              \/ Home(t) /\ UNCHANGED <<prepared, told>>
              \/ /\ kind[t] = "fromCache" /\ kind'[t] = "prepare" /\ pc'[t] = "getDevice"
                 /\ used'[t] = 0 /\ ret'[t] = "ok" /\ cb'[t] = Pending /\ task'[t] = 0
                 /\ UNCHANGED <<fresh, prepared, told>>
<1>1. UNCHANGED <<gen, alive, mCallbacks, core, mMutex, todo>> /\ pc[t] = "result"
  BY Zenon DEF Result, serviceVars
<1>2. ResultCode(t) \in Codes
  BY DEF ResultCode, Codes, ThreadTypes
<1>3. "NO_ERROR" \in Codes /\ "OP_FAILED" \in Codes /\ "DEAD_OBJECT" \in Codes
  BY DEF Codes
<1>4. CASE UNCHANGED <<prepared, told>> /\ \E code \in Codes : Return(t, code)
  <2>1. SharedTypes'
    BY <1>1, <1>4 DEF SharedTypes
  <2> QED BY <1>1, <1>4, <2>1, Returned DEF Home
<1>5. CASE UNCHANGED <<prepared, told>> /\ \E code \in Codes : Failed(t, code)
  <2>1. PICK code \in Codes : Failed(t, code)
    BY <1>5
  <2>2. CASE kind[t] = "fromCache"
    <3>1. /\ kind' = [kind EXCEPT ![t] = "prepare"] /\ again' = [again EXCEPT ![t] = FALSE]
          /\ cb' = [cb EXCEPT ![t] = Pending] /\ task' = [task EXCEPT ![t] = 0]
          /\ pc' = [pc EXCEPT ![t] = "getDevice"] /\ used' = [used EXCEPT ![t] = 0]
          /\ via' = [via EXCEPT ![t] = DeviceHandler(1)] /\ ret' = [ret EXCEPT ![t] = "ok"]
          /\ UNCHANGED <<fresh, result>>
      BY <2>1, <2>2, Zenon DEF Failed, NewCallback, Goto
    <3>2. Others(t)
      BY <3>1, Names DEF Others, ThreadTypes, Places, AllKinds
    <3>3. SharedTypes'
      BY <1>1, <1>5 DEF SharedTypes
    <3>4. /\ kind'[t] = "prepare" /\ pc'[t] = "getDevice" /\ used'[t] = 0 /\ ret'[t] = "ok"
          /\ cb'[t] = Pending /\ task'[t] = 0
      BY <3>1 DEF ThreadTypes
    <3> QED BY <1>1, <1>5, <2>2, <3>1, <3>2, <3>3, <3>4
  <2>3. CASE kind[t] # "fromCache"
    BY <1>4, <1>5, <2>1, <2>3 DEF Failed
  <2> QED BY <2>2, <2>3
<1>6. CASE ResultCode(t) = "NO_ERROR" /\ kind[t] \in Preparations
  <2>1. CASE /\ CanLink(t) /\ Return(t, "NO_ERROR")
             /\ prepared' = [prepared EXCEPT ![t] = cb[t].by]
             /\ told' = told \ {ModelHandler(t)}
    <3>1. cb[t].is \notin {"dead", "failure"}
      BY <1>6 DEF ResultCode, Asynchronous, ThreadTypes
    <3>2. gen \in Gens /\ cb[t] \in Callbacks /\ Connected(cb[t].by)
      BY <2>1 DEF SharedTypes, ThreadTypes, CanLink
    <3>3. cb[t] # Pending
      BY <3>2, Names DEF Connected
    <3>4. cb[t].is = "answer" /\ cb[t].by \in Gens
      BY <3>1, <3>2, <3>3, Names
    <3>5. SharedTypes'
      <4>1. prepared' \in [Models -> 0 .. MaxGen] /\ told' \subseteq Handlers
        BY <2>1, <3>4, Names DEF SharedTypes, Models
      <4> QED BY <1>1, <4>1 DEF SharedTypes
    <3> QED BY <1>1, <1>3, <1>6, <2>1, <3>2, <3>4, <3>5, Returned DEF Home
  <2>2. CASE /\ \E code \in IF CanLink(t) THEN {"OP_FAILED"} ELSE {"DEAD_OBJECT"} :
                    Failed(t, code)
             /\ UNCHANGED <<prepared, told>>
    <3>1. \E code \in Codes : Failed(t, code)
      BY <1>3, <2>2
    <3> QED BY <1>5, <2>2, <3>1
  <2> QED BY <1>6, <2>1, <2>2, Zenon DEF Result
<1>7. CASE ~(ResultCode(t) = "NO_ERROR" /\ kind[t] \in Preparations)
  <2>1. UNCHANGED <<prepared, told>> /\ (Return(t, "NO_ERROR") \/ Failed(t, ResultCode(t)))
    BY <1>7, Zenon DEF Result
  <2> QED BY <1>2, <1>3, <1>4, <1>5, <2>1
<1> QED BY <1>6, <1>7

\* The service answers.
LEMMA EffectOfNotify ==
    ASSUME ThreadTypes, SharedTypes, NEW t \in Threads, Notify(t)
    PROVE  /\ Others(t) /\ SharedTypes'
           /\ UNCHANGED <<gen, alive, told, mCallbacks, core, mMutex, prepared, pc, kind, used,
                          via, ret, fresh>>
           /\ task[t] # 0 /\ Connected(task[t]) /\ task'[t] = 0 /\ cb'[t] # Pending
           /\ cb'[t] \in {cb[t], Failure, Answer(task[t])}
<1>1. /\ UNCHANGED <<gen, alive, told, mCallbacks, core, mMutex, prepared, todo, pc, kind, used,
                     via, again, ret, fresh, result>>
      /\ task[t] # 0 /\ Connected(task[t]) /\ task' = [task EXCEPT ![t] = 0]
  BY Zenon DEF Notify, serviceVars, handlerVars, callVars
<1>2. PICK how \in {Answer(task[t]), Failure} : cb' = [cb EXCEPT ![t] = Notified(@, how)]
  BY Zenon DEF Notify
<1>3. task[t] \in Gens
  BY <1>1, Names DEF ThreadTypes
<1>4. cb'[t] \in {cb[t], how} /\ cb'[t] # Pending /\ cb' \in [Threads -> Callbacks]
      /\ \A u \in Threads : u # t => cb'[u] = cb[u]
  BY <1>2, <1>3, Names DEF ThreadTypes, Notified
<1>5. Others(t) /\ task'[t] = 0
  <2>1. task' \in [Threads -> 0 .. MaxGen] /\ task'[t] = 0
        /\ \A u \in Threads : u # t => task'[u] = task[u]
    BY <1>1, GenAssumption DEF ThreadTypes
  <2> QED BY <1>1, <1>4, <2>1 DEF Others, ThreadTypes
<1>6. SharedTypes'
  BY <1>1 DEF SharedTypes
<1> QED BY <1>1, <1>4, <1>5, <1>6

\* The death of an incarnation is told to the callbacks that are registered for it.
LEMMA EffectOfDeath ==
    ASSUME ThreadTypes, SharedTypes, NEW h \in Handlers, serviceDied(h)
    PROVE  /\ ThreadTypes' /\ SharedTypes'
           /\ UNCHANGED <<gen, alive, mCallbacks, core, mMutex, prepared, pc, kind, used, via, ret,
                          fresh, task>>
           /\ h \notin told /\ Linked(h) \in 1 .. gen /\ ~Connected(Linked(h))
           /\ told' = told \cup {h}
           /\ \A t \in Threads : cb'[t] = IF t \in mCallbacks[h] /\ cb[t] = Pending THEN Dead
                                          ELSE cb[t]
<1>1. /\ UNCHANGED <<gen, alive, mCallbacks, core, mMutex, prepared, todo, pc, kind, used, via,
                     again, ret, fresh, task, result>>
      /\ h \notin told /\ Linked(h) \in 1 .. gen /\ ~Connected(Linked(h))
      /\ told' = told \cup {h}
      /\ cb' = [t \in Threads |-> IF t \in mCallbacks[h] THEN Notified(cb[t], Dead) ELSE cb[t]]
  BY Zenon DEF serviceDied, serviceVars, callVars
<1>2. /\ \A t \in Threads : cb'[t] = IF t \in mCallbacks[h] /\ cb[t] = Pending THEN Dead
                                     ELSE cb[t]
      /\ cb' \in [Threads -> Callbacks]
  BY <1>1, Names DEF Notified, ThreadTypes
<1>3. ThreadTypes' /\ SharedTypes'
  BY <1>1, <1>2 DEF ThreadTypes, SharedTypes
<1> QED BY <1>1, <1>2, <1>3

\* The service dies, or is started again as a new incarnation.
LEMMA EffectOfService ==
    ASSUME ThreadTypes, SharedTypes, ServiceDies \/ ServiceStarts
    PROVE  /\ ThreadTypes' /\ SharedTypes'
           /\ UNCHANGED <<told, mCallbacks, core, mMutex, prepared, pc, kind, used, via, ret,
                          fresh, task, cb>>
           /\ gen' >= gen /\ \A g \in 0 .. gen : Connected(g)' => Connected(g)
<1>1. UNCHANGED <<told, mCallbacks, core, mMutex, prepared, todo, pc, kind, used, via, again, ret,
                  fresh, task, cb, result>>
  BY Zenon DEF ServiceDies, ServiceStarts, handlerVars, callVars
<1>2. \/ alive' = FALSE /\ UNCHANGED gen
      \/ ~alive /\ gen < MaxGen /\ alive' = TRUE /\ gen' = gen + 1
  BY DEF ServiceDies, ServiceStarts
<1>3. gen \in 1 .. MaxGen /\ MaxGen \in Nat
  BY Names DEF SharedTypes
<1>4. ThreadTypes'
  BY <1>1 DEF ThreadTypes
<1>5. SharedTypes'
  <2>1. gen' \in Gens /\ alive' \in BOOLEAN
    <3>1. gen' \in Gens
      BY <1>2, <1>3, Names
    <3>2. alive' \in BOOLEAN
      BY <1>2, Zenon DEF SharedTypes
    <3> QED BY <3>1, <3>2
  <2> QED BY <1>1, <2>1 DEF SharedTypes
<1>6. gen' >= gen /\ \A g \in 0 .. gen : Connected(g)' => Connected(g)
  BY <1>2, <1>3 DEF Connected
<1> QED BY <1>1, <1>4, <1>5, <1>6

-------------------------------------------------------------------------------
(* The invariant is kept.                                                   *)

\* What the invariant says of one call.
OneCall(t) == Placed(t) /\ Tied(t) /\ Asked(t) /\ Answered(t)

\* What the invariant says of one thread and the service.
OneThread(t) == OneCall(t) /\ used[t] <= gen /\ fresh[t] <= gen

\* What a step of one thread leaves to the others.
Frame(t) ==
    /\ ThreadTypes' /\ SharedTypes' /\ Registered'
    /\ UNCHANGED <<gen, alive>> /\ Others(t) /\ told' \subseteq told
    /\ \A u \in Threads, h \in Handlers : u # t => (u \in mCallbacks'[h] <=> u \in mCallbacks[h])
    /\ \A p \in Models : p # t \/ prepared[p] # 0 => prepared'[p] = prepared[p]

\* The parts of the invariant as facts about one thread.
LEMMA Facts ==
    ASSUME IInv, NEW t \in Threads
    PROVE  /\ ThreadTypes /\ SharedTypes /\ Registered
           /\ gen \in 1 .. MaxGen /\ MaxGen \in Nat /\ core \in 1 .. gen
           /\ used[t] \in 0 .. gen /\ fresh[t] \in 0 .. gen /\ task[t] \in 0 .. gen
           /\ prepared[t] \in 0 .. gen /\ t \in Models /\ t # Nobody
           /\ via[t] \in Handlers /\ cb[t] \in Callbacks /\ pc[t] \in Places
           /\ OneThread(t) /\ (pc[t] \in {"make", "link"} <=> mMutex = t)
<1>1. ThreadTypes /\ SharedTypes /\ Registered
  BY Parts DEF IInv
<1>2. gen \in 1 .. MaxGen /\ MaxGen \in Nat /\ core \in 1 .. gen
  BY <1>1, Names DEF SharedTypes, IInv, ServiceInv
<1>3. OneThread(t) /\ (pc[t] \in {"make", "link"} <=> mMutex = t) /\ t \in Models
  BY DEF IInv, LockInv, CallInv, ServiceInv, OneThread, OneCall, Models
<1>4. used[t] \in 0 .. gen /\ fresh[t] \in 0 .. gen /\ prepared[t] \in 0 .. gen
  BY <1>1, <1>2, <1>3 DEF ThreadTypes, SharedTypes, IInv, ServiceInv, OneThread
<1>5. task[t] \in 0 .. gen
  BY <1>1, <1>2, <1>3, <1>4 DEF OneThread, OneCall, Asked
<1>6. via[t] \in Handlers /\ cb[t] \in Callbacks /\ pc[t] \in Places
  BY <1>1 DEF ThreadTypes
<1> QED BY <1>1, <1>2, <1>3, <1>4, <1>5, <1>6, NamesAssumption

\* A handler is linked to the incarnation of its model, which a thread only sets
\* while there is none.
LEMMA StaysLinked ==
    ASSUME SharedTypes, NEW t \in Threads, Frame(t), NEW h \in Handlers,
           h # ModelHandler(t) \/ Linked(h) # 0
    PROVE  Linked(h)' = Linked(h)
<1>1. CASE h.on = "device"
  BY <1>1 DEF Linked
<1>2. CASE h.on # "device"
  <2>1. PICK p \in Models : h = ModelHandler(p)
    BY <1>2, Names DEF DeviceHandler
  <2>2. Linked(h) = prepared[p] /\ Linked(h)' = prepared'[p]
    BY <2>1 DEF Linked, ModelHandler
  <2>3. p # t \/ prepared[p] # 0
    BY <2>1, <2>2
  <2> QED BY <2>2, <2>3 DEF Frame
<1> QED BY <1>1, <1>2

\* The invariant is kept for the threads that do nothing.
LEMMA Bystander ==
    ASSUME IInv, NEW t \in Threads, Frame(t), NEW u \in Threads, u # t
    PROVE  OneThread(u)'
<1>1. OneThread(u) /\ SharedTypes /\ via[u] \in Handlers /\ u \in Models
  BY Facts
<1>2. /\ pc'[u] = pc[u] /\ kind'[u] = kind[u] /\ used'[u] = used[u] /\ via'[u] = via[u]
      /\ fresh'[u] = fresh[u] /\ ret'[u] = ret[u] /\ cb'[u] = cb[u] /\ task'[u] = task[u]
      /\ UNCHANGED <<gen, alive>> /\ told' \subseteq told /\ prepared'[u] = prepared[u]
      /\ u \in mCallbacks'[via[u]] <=> u \in mCallbacks[via[u]]
  BY <1>1 DEF Frame, Others
<1>3. \A g : Connected(g)' <=> Connected(g)
  BY <1>2 DEF Connected
<1>4. Placed(u)'
  BY <1>1, <1>2 DEF OneThread, OneCall, Placed
<1>5. Tied(u)'
  <2>1. PICK h \in Handlers : h = via[u]
    BY <1>1
  <2>2. Linked(h) # 0 => Linked(h)' = Linked(h)
    BY <1>1, StaysLinked
  <2>3. Linked(via[u]) = Linked(h) /\ Linked(via[u])' = Linked(h)'
    BY <1>2, <2>1 DEF Linked
  <2> QED BY <1>1, <1>2, <2>2, <2>3 DEF OneThread, OneCall, Tied
<1>6. Asked(u)'
  BY <1>1, <1>2, <1>3 DEF OneThread, OneCall, Asked
<1>7. Answered(u)'
  BY <1>1, <1>2, <1>3 DEF OneThread, OneCall, Answered
<1> QED BY <1>1, <1>2, <1>4, <1>5, <1>6, <1>7 DEF OneThread, OneCall

\* What is left to show for a step of one thread.
LEMMA ThreadStep ==
    ASSUME IInv, NEW t \in Threads, Frame(t), OneThread(t)', core' <= gen,
           prepared'[t] <= gen,
           ModelHandler(t) \in told' => prepared'[t] = prepared[t],
           \/ /\ UNCHANGED <<mMutex, core>>
              /\ pc[t] \in {"make", "link"} <=> pc'[t] \in {"make", "link"}
           \/ /\ mMutex = Nobody /\ mMutex' = t /\ pc'[t] \in {"make", "link"}
              /\ ~Connected(core) /\ UNCHANGED core
           \/ mMutex = t /\ mMutex' = Nobody /\ pc'[t] \notin {"make", "link"}
    PROVE  IInv'
<1>1. TypeInv'
  BY Parts DEF Frame
<1>2. /\ SharedTypes /\ \A u \in Threads : OneThread(u)' /\ u \in Models /\ u # Nobody
  BY Facts, Bystander
<1>3. CallInv'
  BY <1>2 DEF CallInv, OneThread, OneCall
<1>4. ServiceInv'
  <2>1. \A p \in Models : prepared'[p] <= gen'
    BY <1>2 DEF Frame, IInv, ServiceInv
  <2>2. \A h \in told' : Linked(h)' \in 1 .. gen' /\ ~Connected(Linked(h))'
    <3> SUFFICES ASSUME NEW h \in told' PROVE Linked(h)' \in 1 .. gen' /\ ~Connected(Linked(h))'
      OBVIOUS
    <3>1. h \in told /\ h \in Handlers /\ UNCHANGED <<gen, alive>>
      BY <1>2 DEF Frame, SharedTypes
    <3>2. Linked(h)' = Linked(h)
      <4>1. CASE h = ModelHandler(t)
        BY <1>2, <4>1 DEF Linked, ModelHandler
      <4>2. CASE h # ModelHandler(t)
        BY <1>2, <3>1, <4>2, StaysLinked
      <4> QED BY <4>1, <4>2
    <3>3. Linked(h) \in 1 .. gen /\ ~Connected(Linked(h))
      BY <3>1 DEF IInv, ServiceInv
    <3> QED BY <3>1, <3>2, <3>3 DEF Connected
  <2> QED BY <1>2, <2>1, <2>2 DEF ServiceInv, OneThread, Frame
<1>5. LockInv'
  <2> SUFFICES ASSUME NEW u \in Threads
               PROVE  /\ pc'[u] \in {"make", "link"} <=> mMutex' = u
                      /\ mMutex' = u => ~Connected(core)'
    BY DEF LockInv
  <2>1. /\ \A v \in Threads : /\ pc[v] \in {"make", "link"} <=> mMutex = v
                              /\ mMutex = v => ~Connected(core)
        /\ u # t => pc'[u] = pc[u]
        /\ UNCHANGED <<gen, alive>> /\ t # Nobody /\ u # Nobody
    BY <1>2 DEF IInv, LockInv, Frame, Others
  <2>2. CASE /\ UNCHANGED <<mMutex, core>>
             /\ pc[t] \in {"make", "link"} <=> pc'[t] \in {"make", "link"}
    BY <2>1, <2>2 DEF Connected
  <2>3. CASE /\ mMutex = Nobody /\ mMutex' = t /\ pc'[t] \in {"make", "link"}
             /\ ~Connected(core) /\ UNCHANGED core
    BY <2>1, <2>3 DEF Connected
  <2>4. CASE mMutex = t /\ mMutex' = Nobody /\ pc'[t] \notin {"make", "link"}
    BY <2>1, <2>4 DEF Connected
  <2> QED BY <2>2, <2>3, <2>4
<1> QED BY <1>1, <1>3, <1>4, <1>5 DEF IInv

\* The frame of a step that registers nothing and prepares nothing.
LEMMA PlainFrame ==
    ASSUME IInv, NEW t \in Threads, Others(t), SharedTypes',
           UNCHANGED <<gen, alive, told, mCallbacks, prepared>>,
           \/ \A h \in Handlers : t \notin mCallbacks[h]
           \/ pc'[t] \in {"send", "calling", "waiting", "leaving"} /\ via'[t] = via[t]
    PROVE  Frame(t)
<1>1. ThreadTypes' /\ Registered
  BY Parts DEF Others, IInv
<1>2. Registered'
  BY <1>1 DEF Registered, Others
<1> QED BY <1>1, <1>2 DEF Frame

\* A thread that has returned to the client.
LEMMA KeptAtHome ==
    ASSUME IInv, NEW t \in Threads, Home(t), ThreadTypes', gen' = gen
    PROVE  OneThread(t)' /\ pc'[t] \notin {"make", "link"}
<1>1. gen \in 1 .. MaxGen /\ MaxGen \in Nat
  BY Facts
<1>2. Pending.is # "answer"
  BY Names
<1> QED BY <1>1, <1>2 DEF Home, OneThread, OneCall, Placed, Tied, Asked, Answered, Preparations

\* A thread that is in no call across the HAL has no callback registered.
LEMMA NotRegistered ==
    ASSUME IInv, NEW t \in Threads, pc[t] \notin {"send", "calling", "waiting", "leaving"}
    PROVE  \A h \in Handlers : t \notin mCallbacks[h]
BY Parts DEF IInv, Registered

\* A call that starts on a device whose incarnation is g.
LEMMA Starts ==
    ASSUME IInv, NEW t \in Threads, Frame(t), UNCHANGED <<prepared, mCallbacks>>,
           NEW g \in 1 .. gen,
           pc'[t] = FirstStep(kind[t]), used'[t] = g, via'[t] = DeviceHandler(g),
           kind'[t] = kind[t], cb'[t] = cb[t], task'[t] = task[t], ret'[t] = ret[t],
           kind[t] \in Recoverable, fresh'[t] \in {0, fresh[t]},
           pc[t] \in {"getDevice", "recover", "make", "link"},
           kind[t] # "wait"
    PROVE  OneThread(t)' /\ pc'[t] \notin {"make", "link"}
<1>1. /\ OneThread(t) /\ gen \in 1 .. MaxGen /\ MaxGen \in Nat /\ g \in Gens
      /\ UNCHANGED <<gen, alive>> /\ fresh[t] \in 0 .. gen
  BY Facts DEF Frame, Gens
<1>2. /\ pc'[t] \in {"protect", "send"}
      /\ pc'[t] = "protect" => kind[t] \in Asynchronous
      /\ pc'[t] = "send" => kind[t] \notin Asynchronous
  BY DEF FirstStep
<1>3. task[t] = 0
  BY <1>1 DEF OneThread, OneCall, Asked
<1>4. Placed(t)'
  BY <1>1, <1>2 DEF OneThread, OneCall, Placed
<1>5. Tied(t)'
  <2>1. via'[t] = [on |-> "device", id |-> g]
    BY DEF DeviceHandler
  <2>2. Linked(via[t])' = g
    BY <2>1 DEF Linked
  <2>3. t \notin mCallbacks'[via'[t]]
    BY <1>1, NotRegistered, Names
  <2> QED BY <1>1, <1>2, <2>2, <2>3 DEF Tied
<1>6. Asked(t)'
  BY <1>2, <1>3 DEF Asked
<1>7. Answered(t)'
  <2>1. cb[t].is = "answer" => cb[t].by \in 1 .. gen /\ ~Connected(cb[t].by)
    <3>1. CASE pc[t] = "getDevice"
      BY <1>1, <3>1, Names DEF OneThread, OneCall, Placed
    <3>2. CASE pc[t] # "getDevice"
      BY <1>1, <3>2 DEF OneThread, OneCall, Answered
    <3> QED BY <3>1, <3>2
  <2> QED BY <1>1, <1>2, <2>1 DEF Answered, Connected
<1> QED BY <1>1, <1>2, <1>4, <1>5, <1>6, <1>7 DEF OneThread, OneCall

\* A call that begins is to an incarnation of the service that has existed.
LEMMA KeptByBegin == ASSUME IInv, NEW t \in Threads, Begin(t) PROVE IInv'
<1>1. /\ ThreadTypes /\ SharedTypes /\ OneThread(t) /\ gen \in 1 .. MaxGen /\ MaxGen \in Nat
      /\ core \in 1 .. gen /\ used[t] \in 0 .. gen /\ fresh[t] \in 0 .. gen
      /\ prepared[t] \in 0 .. gen
  BY Facts
<1>2. /\ Others(t) /\ SharedTypes'
      /\ UNCHANGED <<gen, alive, told, mCallbacks, core, mMutex, prepared, ret, cb, task, fresh>>
      /\ pc[t] = "idle"
  BY <1>1, EffectOfBegin
<1>3. CASE /\ kind'[t] \in {"execute", "executeSynchronously"}
           /\ pc'[t] \in {"protect", "send"}
           /\ pc'[t] = "protect" => kind'[t] = "execute"
           /\ pc'[t] = "send" => kind'[t] # "execute"
           /\ \E p \in Models : /\ prepared[p] # 0 /\ used'[t] = prepared[p]
                                /\ via'[t] = ModelHandler(p)
  <2>1. PICK p \in Models : /\ prepared[p] # 0 /\ used'[t] = prepared[p]
                            /\ via'[t] = ModelHandler(p)
    BY <1>3
  <2>2. prepared[p] \in 1 .. gen
    BY <1>1, <2>1 DEF SharedTypes, IInv, ServiceInv
  <2>3. Linked(via[t])' = prepared[p]
    BY <1>2, <2>1 DEF Linked, ModelHandler
  <2>4. cb[t] = Pending /\ task[t] = 0 /\ Pending.is # "answer"
    BY <1>1, <1>2, Names DEF OneThread, OneCall, Placed, Asked
  <2>5. t \notin mCallbacks'[via'[t]]
    BY <1>2, <2>1, NotRegistered, Names
  <2>6. OneThread(t)'
    BY <1>1, <1>2, <1>3, <2>1, <2>2, <2>3, <2>4, <2>5
       DEF OneThread, OneCall, Placed, Tied, Asked, Answered, Asynchronous, Preparations
  <2>7. Frame(t)
    BY <1>2, PlainFrame, NotRegistered
  <2> QED BY <1>1, <1>2, <1>3, <2>6, <2>7, ThreadStep
<1>4. CASE \/ /\ kind'[t] = "wait" /\ pc'[t] = "lock"
              /\ UNCHANGED <<used, via>>
           \/ /\ kind'[t] \in Recoverable /\ pc'[t] = "getDevice"
              /\ UNCHANGED <<used, via>>
              /\ kind'[t] \in Preparations => prepared[t] = 0
  <2>4. cb[t] = Pending /\ task[t] = 0 /\ Pending.is # "answer"
    BY <1>1, <1>2, Names DEF OneThread, OneCall, Placed, Asked
  <2>5. OneThread(t)'
    BY <1>1, <1>2, <1>4, <2>4
       DEF OneThread, OneCall, Placed, Tied, Asked, Answered, Recoverable, Preparations
  <2>6. Frame(t)
    BY <1>2, PlainFrame, NotRegistered
  <2> QED BY <1>1, <1>2, <1>4, <2>5, <2>6, ThreadStep
<1> QED BY <1>1, <1>3, <1>4, EffectOfBegin

\* The first attempt goes to the device that there is.
LEMMA KeptByLookup == ASSUME IInv, NEW t \in Threads, getDeviceAndDeathHandler(t) PROVE IInv'
<1>1. /\ ThreadTypes /\ SharedTypes /\ OneThread(t) /\ gen \in 1 .. MaxGen /\ MaxGen \in Nat
      /\ core \in 1 .. gen /\ prepared[t] \in 0 .. gen
  BY Facts
<1>2. pc[t] = "getDevice" /\ kind[t] \in Recoverable
  BY <1>1, Zenon DEF getDeviceAndDeathHandler, OneThread, OneCall, Placed
<1>3. kind[t] \in AllKinds /\ kind[t] # "wait"
  BY <1>2 DEF Recoverable, Preparations, AllKinds
<1>4. /\ Others(t) /\ SharedTypes'
      /\ UNCHANGED <<gen, alive, told, mCallbacks, core, mMutex, prepared, kind, ret, cb,
                     task, fresh>>
      /\ pc'[t] = FirstStep(kind[t]) /\ used'[t] = core /\ via'[t] = DeviceHandler(core)
  BY <1>1, <1>3, EffectOfLookup
<1>5. Frame(t)
  BY <1>2, <1>4, PlainFrame, NotRegistered
<1>6. OneThread(t)' /\ pc'[t] \notin {"make", "link"}
  BY <1>1, <1>2, <1>3, <1>4, <1>5, Starts
<1> QED BY <1>1, <1>2, <1>4, <1>5, <1>6, ThreadStep

\* The second attempt goes to what another thread has connected to, or the thread
\* takes the mutex to reconnect.
LEMMA KeptByRecover == ASSUME IInv, NEW t \in Threads, Recover(t) PROVE IInv'
<1>1. /\ ThreadTypes /\ SharedTypes /\ OneThread(t) /\ gen \in 1 .. MaxGen /\ MaxGen \in Nat
      /\ core \in 1 .. gen /\ prepared[t] \in 0 .. gen
  BY Facts
<1>2. pc[t] = "recover" /\ kind[t] \in Recoverable /\ ret[t] = "dead"
  BY <1>1 DEF Recover, OneThread, OneCall, Placed, Answered, Recoverable, Preparations
<1>3. kind[t] \in AllKinds /\ kind[t] # "wait"
  BY <1>2 DEF Recoverable, Preparations, AllKinds
<1>4. /\ Others(t) /\ SharedTypes'
      /\ UNCHANGED <<gen, alive, told, mCallbacks, core, prepared, kind, ret, cb, task, fresh>>
      /\ mMutex = Nobody
  BY <1>1, <1>3, EffectOfRecover
<1>5. Frame(t)
  BY <1>2, <1>4, PlainFrame, NotRegistered
<1>6. CASE /\ UNCHANGED mMutex /\ pc'[t] = FirstStep(kind[t]) /\ used'[t] = core
           /\ via'[t] = DeviceHandler(core)
  <2>1. OneThread(t)' /\ pc'[t] \notin {"make", "link"}
    BY <1>1, <1>2, <1>3, <1>4, <1>5, <1>6, Starts
  <2> QED BY <1>1, <1>2, <1>4, <1>5, <1>6, <2>1, ThreadStep
<1>7. CASE ~Connected(core) /\ mMutex' = t /\ pc'[t] = "make" /\ UNCHANGED <<used, via>>
  <2>1. OneThread(t)'
    BY <1>1, <1>2, <1>3, <1>4, <1>7
       DEF OneThread, OneCall, Placed, Tied, Asked, Answered, Connected
  <2> QED BY <1>1, <1>4, <1>5, <1>7, <2>1, ThreadStep
<1> QED BY <1>1, <1>3, <1>6, <1>7, EffectOfRecover

\* The client that waits for the service takes the mutex when the service is gone.
LEMMA KeptByWait == ASSUME IInv, NEW t \in Threads, wait(t) PROVE IInv'
<1>1. /\ ThreadTypes /\ SharedTypes /\ OneThread(t) /\ gen \in 1 .. MaxGen /\ MaxGen \in Nat
      /\ core \in 1 .. gen /\ prepared[t] \in 0 .. gen
  BY Facts
<1>2. /\ Others(t) /\ SharedTypes' /\ pc[t] = "lock" /\ mMutex = Nobody
      /\ UNCHANGED <<gen, alive, told, mCallbacks, core, prepared>>
  BY <1>1, EffectOfWait
<1>3. Frame(t)
  BY <1>2, PlainFrame, NotRegistered
<1>4. CASE Home(t) /\ UNCHANGED mMutex
  <2>1. OneThread(t)' /\ pc'[t] \notin {"make", "link"}
    BY <1>2, <1>4, KeptAtHome DEF Others
  <2> QED BY <1>1, <1>2, <1>3, <1>4, <2>1, ThreadStep
<1>5. CASE /\ ~Connected(core) /\ mMutex' = t /\ pc'[t] = "make"
           /\ UNCHANGED <<kind, used, via, ret, cb, task, fresh>>
  <2>1. kind[t] = "wait" /\ cb[t] = Pending /\ Pending.is # "answer"
    BY <1>1, <1>2, Names DEF OneThread, OneCall, Placed
  <2>2. task[t] = 0
    BY <1>1, <1>2 DEF OneThread, OneCall, Asked
  <2>3. OneThread(t)'
    BY <1>1, <1>2, <1>5, <2>1, <2>2
       DEF OneThread, OneCall, Placed, Tied, Asked, Answered, Preparations
  <2> QED BY <1>1, <1>2, <1>3, <1>5, <2>3, ThreadStep
<1> QED BY <1>1, <1>4, <1>5, EffectOfWait

\* From now on the death handler of the call knows the callback.
LEMMA KeptByProtect == ASSUME IInv, NEW t \in Threads, Protect(t) PROVE IInv'
<1>1. /\ ThreadTypes /\ SharedTypes /\ OneThread(t) /\ gen \in 1 .. MaxGen /\ MaxGen \in Nat
      /\ core \in 1 .. gen /\ prepared[t] \in 0 .. gen /\ Registered /\ via[t] \in Handlers
  BY Facts
<1>2. /\ Others(t) /\ SharedTypes' /\ pc[t] = "protect" /\ pc'[t] = "send"
      /\ UNCHANGED <<gen, alive, told, core, mMutex, prepared, kind, used, via, ret, cb, task,
                     fresh>>
      /\ mCallbacks' = [mCallbacks EXCEPT ![via[t]] = @ \cup {t}]
  BY <1>1, EffectOfProtect
<1>3. \A u \in Threads, h \in Handlers :
         u \in mCallbacks'[h] <=> u \in mCallbacks[h] \/ (u = t /\ h = via[t])
  BY <1>1, <1>2 DEF SharedTypes
<1>4. Registered'
  <2> SUFFICES ASSUME NEW u \in Threads, NEW h \in Handlers, u \in mCallbacks'[h]
               PROVE  h = via'[u] /\ pc'[u] \in {"send", "calling", "waiting", "leaving"}
    BY DEF Registered
  <2>1. CASE u = t
    BY <1>1, <1>2, <1>3, <2>1 DEF Registered
  <2>2. CASE u # t
    BY <1>1, <1>2, <1>3, <2>2 DEF Registered, Others
  <2> QED BY <2>1, <2>2
<1>5. Frame(t)
  BY <1>2, <1>3, <1>4 DEF Frame, Others
<1>6. OneThread(t)'
  <2>1. Linked(via[t])' = Linked(via[t])
    BY <1>2 DEF Linked
  <2>2. Tied(t)'
    BY <1>1, <1>2, <1>3, <2>1 DEF OneThread, OneCall, Placed, Tied
  <2>3. Placed(t)' /\ Asked(t)' /\ Answered(t)'
    BY <1>1, <1>2 DEF OneThread, OneCall, Placed, Asked, Answered, Connected
  <2> QED BY <1>1, <1>2, <2>2, <2>3 DEF OneThread, OneCall
<1> QED BY <1>1, <1>2, <1>5, <1>6, ThreadStep

\* The service that gets the call is the one that the handler is linked to.
LEMMA KeptBySend == ASSUME IInv, NEW t \in Threads, Send(t) PROVE IInv'
<1>1. /\ ThreadTypes /\ SharedTypes /\ OneThread(t) /\ gen \in 1 .. MaxGen /\ MaxGen \in Nat
      /\ core \in 1 .. gen /\ prepared[t] \in 0 .. gen
  BY Facts
<1>2. /\ Others(t) /\ SharedTypes' /\ pc[t] = "send" /\ pc'[t] = "calling"
      /\ UNCHANGED <<gen, alive, told, mCallbacks, core, mMutex, prepared, kind, used, via,
                     ret, cb, fresh>>
      /\ task'[t] = IF Connected(used[t]) /\ kind[t] \in Asynchronous THEN used[t] ELSE 0
  BY <1>1, EffectOfSend
<1>3. Frame(t)
  BY <1>2, PlainFrame
<1>4. OneThread(t)'
  BY <1>1, <1>2 DEF OneThread, OneCall, Placed, Tied, Asked, Answered, Linked, Connected
<1> QED BY <1>1, <1>2, <1>3, <1>4, ThreadStep

\* A call that returns well did so while its incarnation lived, whose handler has
\* therefore not run.
LEMMA KeptByReturn == ASSUME IInv, NEW t \in Threads, CallReturns(t) PROVE IInv'
<1>1. /\ ThreadTypes /\ SharedTypes /\ OneThread(t) /\ gen \in 1 .. MaxGen /\ MaxGen \in Nat
      /\ core \in 1 .. gen /\ prepared[t] \in 0 .. gen /\ Registered
  BY Facts
<1>2. /\ Others(t) /\ SharedTypes'
      /\ UNCHANGED <<gen, alive, told, mCallbacks, core, mMutex, prepared, kind, used, via,
                     fresh>>
      /\ pc[t] = "calling"
      /\ ret'[t] = "dead" <=> ~Connected(used[t])
      /\ task'[t] \in {task[t], 0} /\ (ret'[t] = "ok" => task'[t] = task[t])
      /\ cb'[t] = cb[t] \/ cb'[t] = Failure
      /\ kind[t] \in Preparations /\ ret'[t] # "ok" => cb'[t] # Pending
      /\ pc'[t] = CASE kind[t] \in Preparations                   -> "waiting"
                    [] kind[t] = "execute" /\ ret'[t] = "ok"      -> "waiting"
                    [] kind[t] = "execute" /\ ret'[t] # "ok"      -> "leaving"
                    [] OTHER -> AfterCall(kind[t], ret'[t], again[t])
  BY <1>1, EffectOfReturn
<1>3. /\ kind[t] \in Asynchronous => pc'[t] \in {"waiting", "leaving"}
      /\ kind[t] \notin Asynchronous => pc'[t] \in {"recover", "result"}
      /\ pc'[t] = "recover" => kind[t] \in Recoverable /\ ret'[t] = "dead"
      /\ pc'[t] = "waiting" /\ cb'[t] = Pending => ret'[t] = "ok"
  BY <1>2 DEF Asynchronous, AfterCall
<1>4. kind[t] \in AllKinds \cup {"none"}
  BY <1>1 DEF ThreadTypes
<1>5. Frame(t)
  <2>1. kind[t] \notin Asynchronous => \A h \in Handlers : t \notin mCallbacks[h]
    BY <1>1, <1>2 DEF OneThread, OneCall, Tied, Registered
  <2> QED BY <1>2, <1>3, <2>1, PlainFrame
<1>6. via[t] \in told => ~Connected(used[t])
  BY <1>1, <1>2 DEF IInv, ServiceInv, OneThread, OneCall, Tied
<1>7. Connected(used[t])' <=> Connected(used[t])
  BY <1>2 DEF Connected
<1>8. Failure.is = "failure" /\ Failure # Pending
  BY Names
<1>9. Placed(t)'
  BY <1>1, <1>2, <1>3 DEF OneThread, OneCall, Placed, Recoverable
<1>10. Tied(t)'
  BY <1>1, <1>2, <1>3 DEF OneThread, OneCall, Tied, Linked
<1>11. Asked(t)'
  BY <1>1, <1>2, <1>3, <1>6, <1>7, <1>8 DEF OneThread, OneCall, Asked
<1>12. Answered(t)'
  BY <1>1, <1>2, <1>3, <1>7, <1>8 DEF OneThread, OneCall, Answered, Connected
<1>13. OneThread(t)'
  BY <1>1, <1>2, <1>9, <1>10, <1>11, <1>12 DEF OneThread, OneCall
<1> QED BY <1>1, <1>2, <1>3, <1>5, <1>13, ThreadStep

\* A thread that leaves the callback is in no handler any more.
LEMMA KeptByLeave == ASSUME IInv, NEW t \in Threads, Leave(t) PROVE IInv'
<1>1. /\ ThreadTypes /\ SharedTypes /\ OneThread(t) /\ gen \in 1 .. MaxGen /\ MaxGen \in Nat
      /\ core \in 1 .. gen /\ prepared[t] \in 0 .. gen /\ Registered /\ via[t] \in Handlers
  BY Facts
<1>2. /\ Others(t) /\ SharedTypes'
      /\ UNCHANGED <<gen, alive, told, core, mMutex, prepared, kind, used, via, ret, cb, fresh>>
      /\ pc[t] \in {"waiting", "leaving"} /\ task'[t] = 0
      /\ pc'[t] = AfterCall(kind[t], ret[t], again[t])
      /\ mCallbacks' = [mCallbacks EXCEPT ![via[t]] = @ \ {t}]
  BY <1>1, EffectOfLeave
<1>3. /\ pc'[t] \in {"recover", "result"}
      /\ pc'[t] = "recover" => kind[t] \in Recoverable /\ ret[t] = "dead"
  BY <1>2 DEF AfterCall
<1>4. \A u \in Threads, h \in Handlers :
         u \in mCallbacks'[h] <=> u \in mCallbacks[h] /\ ~(u = t /\ h = via[t])
  BY <1>1, <1>2 DEF SharedTypes
<1>5. Registered'
  <2> SUFFICES ASSUME NEW u \in Threads, NEW h \in Handlers, u \in mCallbacks'[h]
               PROVE  h = via'[u] /\ pc'[u] \in {"send", "calling", "waiting", "leaving"}
    BY DEF Registered
  <2>1. CASE u = t
    BY <1>1, <1>2, <1>4, <2>1 DEF Registered
  <2>2. CASE u # t
    BY <1>1, <1>2, <1>4, <2>2 DEF Registered, Others
  <2> QED BY <2>1, <2>2
<1>6. Frame(t)
  BY <1>2, <1>4, <1>5 DEF Frame, Others
<1>7. OneThread(t)'
  BY <1>1, <1>2, <1>3 DEF OneThread, OneCall, Placed, Tied, Asked, Answered, Connected
<1> QED BY <1>1, <1>2, <1>3, <1>6, <1>7, ThreadStep

\* A thread that makes a device still has the mutex, or gives both up.
LEMMA KeptByMaking == ASSUME IInv, NEW t \in Threads, MakeDevice(t) PROVE IInv'
<1>1. /\ ThreadTypes /\ SharedTypes /\ OneThread(t) /\ gen \in 1 .. MaxGen /\ MaxGen \in Nat
      /\ core \in 1 .. gen /\ prepared[t] \in 0 .. gen
      /\ (pc[t] \in {"make", "link"} <=> mMutex = t)
  BY Facts
<1>2. /\ Others(t) /\ SharedTypes' /\ pc[t] = "make"
      /\ UNCHANGED <<gen, alive, told, mCallbacks, core, prepared>>
  BY <1>1, EffectOfMaking
<1>3. Frame(t)
  BY <1>2, PlainFrame, NotRegistered
<1>4. CASE /\ UNCHANGED mMutex /\ pc'[t] = "link" /\ fresh'[t] = gen
           /\ UNCHANGED <<kind, used, via, ret, cb, task>>
  <2>1. OneThread(t)'
    BY <1>1, <1>2, <1>4 DEF OneThread, OneCall, Placed, Tied, Asked, Answered, Connected
  <2> QED BY <1>1, <1>2, <1>3, <1>4, <2>1, ThreadStep
<1>5. CASE Home(t) /\ mMutex' = Nobody
  <2>1. OneThread(t)' /\ pc'[t] \notin {"make", "link"}
    BY <1>2, <1>5, KeptAtHome DEF Others
  <2> QED BY <1>1, <1>2, <1>3, <1>5, <2>1, ThreadStep
<1>6. CASE /\ mMutex' = Nobody /\ kind[t] # "wait" /\ pc'[t] = "result"
           /\ UNCHANGED <<kind, used, via, ret, cb, task, fresh>>
  <2>1. OneThread(t)'
    BY <1>1, <1>2, <1>6 DEF OneThread, OneCall, Placed, Tied, Asked, Answered, Connected
  <2> QED BY <1>1, <1>2, <1>3, <1>6, <2>1, ThreadStep
<1> QED BY <1>1, <1>4, <1>5, <1>6, EffectOfMaking

\* A thread that replaces the connection gives the mutex back.
LEMMA KeptByCreating == ASSUME IInv, NEW t \in Threads, CreateCore(t) PROVE IInv'
<1>1. /\ ThreadTypes /\ SharedTypes /\ OneThread(t) /\ gen \in 1 .. MaxGen /\ MaxGen \in Nat
      /\ core \in 1 .. gen /\ prepared[t] \in 0 .. gen
      /\ (pc[t] \in {"make", "link"} <=> mMutex = t)
  BY Facts
<1>2. pc[t] = "link" /\ kind[t] \in Recoverable \cup {"wait"}
  BY <1>1, Zenon DEF CreateCore, OneThread, OneCall, Placed
<1>3. kind[t] \in AllKinds
  BY <1>2 DEF Recoverable, Preparations, AllKinds
<1>4. /\ Others(t) /\ SharedTypes' /\ mMutex' = Nobody
      /\ UNCHANGED <<gen, alive, told, mCallbacks, prepared>>
  BY <1>1, <1>3, EffectOfCreating
<1>5. Frame(t)
  BY <1>2, <1>4, PlainFrame, NotRegistered
<1>6. CASE core' \in {core, gen} /\ Home(t)
  <2>1. OneThread(t)' /\ pc'[t] \notin {"make", "link"}
    BY <1>4, <1>6, KeptAtHome DEF Others
  <2> QED BY <1>1, <1>2, <1>4, <1>5, <1>6, <2>1, ThreadStep
<1>7. CASE /\ kind[t] # "wait" /\ core' = gen /\ pc'[t] = FirstStep(kind[t])
           /\ used'[t] = gen /\ via'[t] = DeviceHandler(gen) /\ fresh'[t] = 0
           /\ UNCHANGED <<kind, ret, cb, task>>
  <2>1. OneThread(t)' /\ pc'[t] \notin {"make", "link"}
    BY <1>1, <1>2, <1>4, <1>5, <1>7, Starts
  <2> QED BY <1>1, <1>2, <1>4, <1>5, <1>7, <2>1, ThreadStep
<1>8. CASE /\ UNCHANGED core /\ kind[t] # "wait" /\ pc'[t] = "result"
           /\ UNCHANGED <<kind, used, via, ret, cb, task, fresh>>
  <2>1. OneThread(t)'
    BY <1>1, <1>2, <1>4, <1>8 DEF OneThread, OneCall, Placed, Tied, Asked, Answered, Connected
  <2> QED BY <1>1, <1>2, <1>4, <1>5, <1>8, <2>1, ThreadStep
<1> QED BY <1>1, <1>3, <1>6, <1>7, <1>8, EffectOfCreating

\* A thread that has prepared a model had none before.
LEMMA KeptByResult == ASSUME IInv, NEW t \in Threads, Result(t) PROVE IInv'
<1>1. /\ ThreadTypes /\ SharedTypes /\ OneThread(t) /\ gen \in 1 .. MaxGen /\ MaxGen \in Nat
      /\ core \in 1 .. gen /\ prepared[t] \in 0 .. gen /\ t \in Models
  BY Facts
<1>2. /\ Others(t) /\ SharedTypes' /\ pc[t] = "result"
      /\ UNCHANGED <<gen, alive, mCallbacks, core, mMutex>>
  BY <1>1, EffectOfResult
<1>3. CASE /\ kind[t] \in Preparations /\ Connected(cb[t].by) /\ Home(t)
           /\ cb[t].is = "answer"
           /\ prepared' = [prepared EXCEPT ![t] = cb[t].by]
           /\ told' = told \ {ModelHandler(t)}
  <2>1. OneThread(t)' /\ pc'[t] \notin {"make", "link"}
    BY <1>2, <1>3, KeptAtHome DEF Others
  <2>2. prepared[t] = 0
    BY <1>1, <1>3 DEF OneThread, OneCall, Placed
  <2>3. Registered'
    BY <1>1, <1>2, NotRegistered, Parts DEF IInv, Registered, Others
  <2>4. Frame(t)
    BY <1>1, <1>2, <1>3, <2>2, <2>3 DEF Frame, SharedTypes, Others
  <2>5. prepared'[t] <= gen
    BY <1>1, <1>3 DEF SharedTypes, Connected
  <2>6. ModelHandler(t) \notin told'
    BY <1>3
  <2> QED BY <1>1, <1>2, <1>3, <2>1, <2>4, <2>5, <2>6, ThreadStep
<1>4. CASE Home(t) /\ UNCHANGED <<prepared, told>>
  <2>1. OneThread(t)' /\ pc'[t] \notin {"make", "link"}
    BY <1>2, <1>4, KeptAtHome DEF Others
  <2>2. Frame(t)
    BY <1>2, <1>4, PlainFrame, NotRegistered
  <2> QED BY <1>1, <1>2, <1>4, <2>1, <2>2, ThreadStep
<1>5. CASE /\ kind[t] = "fromCache" /\ kind'[t] = "prepare" /\ pc'[t] = "getDevice"
           /\ used'[t] = 0 /\ ret'[t] = "ok" /\ cb'[t] = Pending /\ task'[t] = 0
           /\ UNCHANGED <<fresh, prepared, told>>
  <2>1. OneThread(t)'
    BY <1>1, <1>2, <1>5, Names
       DEF OneThread, OneCall, Placed, Tied, Asked, Answered, Recoverable, Preparations
  <2>2. Frame(t)
    BY <1>2, <1>5, PlainFrame, NotRegistered
  <2> QED BY <1>1, <1>2, <1>5, <2>1, <2>2, ThreadStep
<1> QED BY <1>1, <1>3, <1>4, <1>5, EffectOfResult

\* An answer is of the incarnation that the call went to.
LEMMA KeptByNotify == ASSUME IInv, NEW t \in Threads, Notify(t) PROVE IInv'
<1>1. /\ ThreadTypes /\ SharedTypes /\ OneThread(t) /\ gen \in 1 .. MaxGen /\ MaxGen \in Nat
      /\ core \in 1 .. gen /\ prepared[t] \in 0 .. gen
  BY Facts
<1>2. /\ Others(t) /\ SharedTypes'
      /\ UNCHANGED <<gen, alive, told, mCallbacks, core, mMutex, prepared, pc, kind, used,
                     via, ret, fresh>>
      /\ task[t] # 0 /\ task'[t] = 0 /\ cb'[t] # Pending
      /\ cb'[t] \in {cb[t], Failure, Answer(task[t])}
  BY <1>1, EffectOfNotify
<1>3. task[t] = used[t] /\ pc[t] \in {"calling", "waiting", "leaving"} /\ used[t] \in 1 .. gen
  BY <1>1, <1>2 DEF OneThread, OneCall, Asked, ThreadTypes
<1>4. Frame(t)
  BY <1>2, <1>3, PlainFrame
<1>5. cb'[t].is = "answer" => /\ cb'[t].by \in 1 .. gen
                              /\ cb'[t].by = used[t] \/ ~Connected(cb'[t].by)
  <2>1. CASE cb'[t] = cb[t]
    BY <1>1, <2>1 DEF OneThread, OneCall, Answered
  <2>2. CASE cb'[t] = Failure
    BY <2>2, Names
  <2>3. CASE cb'[t] = Answer(task[t])
    BY <1>1, <1>3, <2>3, Names DEF Gens
  <2> QED BY <1>2, <2>1, <2>2, <2>3
<1>6. Placed(t)' /\ Asked(t)'
  BY <1>1, <1>2, <1>3 DEF OneThread, OneCall, Placed, Asked
<1>7. Tied(t)'
  <2>1. Linked(via[t])' = Linked(via[t])
    BY <1>2 DEF Linked
  <2> QED BY <1>1, <1>2, <2>1 DEF OneThread, OneCall, Tied
<1>8. Answered(t)'
  BY <1>1, <1>2, <1>5 DEF OneThread, OneCall, Answered, Connected
<1>9. OneThread(t)'
  BY <1>1, <1>2, <1>6, <1>7, <1>8 DEF OneThread, OneCall
<1> QED BY <1>1, <1>2, <1>4, <1>9, ThreadStep

\* That an incarnation is reported dead keeps the invariant: who waits for a
\* callback that is registered there is notified.
LEMMA KeptByDeath == ASSUME IInv, NEW h \in Handlers, serviceDied(h) PROVE IInv'
<1>1. ThreadTypes /\ SharedTypes /\ Registered
  BY Parts DEF IInv
<1>2. /\ ThreadTypes' /\ SharedTypes'
      /\ UNCHANGED <<gen, alive, mCallbacks, core, mMutex, prepared, pc, kind, used, via, ret,
                     fresh, task>>
      /\ Linked(h) \in 1 .. gen /\ ~Connected(Linked(h)) /\ told' = told \cup {h}
      /\ \A t \in Threads : cb'[t] = IF t \in mCallbacks[h] /\ cb[t] = Pending THEN Dead
                                     ELSE cb[t]
  BY <1>1, EffectOfDeath
<1>3. TypeInv'
  BY <1>1, <1>2, Parts DEF Registered
<1>4. \A g : (Connected(g)' <=> Connected(g)) /\ (Linked(g)' = Linked(g))
  BY <1>2 DEF Connected, Linked
<1>5. ServiceInv' /\ LockInv'
  BY <1>2, <1>4 DEF IInv, ServiceInv, LockInv
<1>6. ASSUME NEW t \in Threads PROVE OneCall(t)'
  <2>1. OneCall(t)
    BY DEF IInv, CallInv, OneCall
  <2>2. Linked(via[t])' = Linked(via[t]) /\ (Connected(used[t])' <=> Connected(used[t]))
    BY <1>2 DEF Linked, Connected
  <2>3. Placed(t)' /\ Tied(t)'
    <3>1. pc[t] \in {"idle", "getDevice", "lock"} => cb'[t] = cb[t]
      BY <1>1, <1>2 DEF Registered
    <3> QED BY <1>2, <2>1, <2>2, <3>1 DEF OneCall, Placed, Tied
  <2>4. Asked(t)'
    BY <1>2, <2>1, <2>2, Names DEF OneCall, Placed, Tied, Asked
  <2>5. cb'[t].is = "answer" => cb'[t] = cb[t]
    BY <1>2, Names
  <2>6. Answered(t)'
    BY <1>2, <2>1, <2>5 DEF OneCall, Answered, Connected
  <2> QED BY <2>3, <2>4, <2>6 DEF OneCall
<1> QED BY <1>3, <1>5, <1>6 DEF IInv, CallInv, OneCall

\* That the service dies or is started again keeps the invariant: an incarnation
\* that has died never comes back.
LEMMA KeptByService == ASSUME IInv, ServiceDies \/ ServiceStarts PROVE IInv'
<1>1. ThreadTypes /\ SharedTypes /\ Registered
  BY Parts DEF IInv
<1>2. /\ ThreadTypes' /\ SharedTypes'
      /\ UNCHANGED <<told, mCallbacks, core, mMutex, prepared, pc, kind, used, via, ret,
                     fresh, task, cb>>
      /\ gen' >= gen /\ \A g \in 0 .. gen : Connected(g)' => Connected(g)
      /\ gen \in Nat /\ gen' \in Nat /\ core \in 0 .. gen
  <2>1. gen \in Nat /\ gen' \in Nat /\ core \in 0 .. gen
    BY <1>1, EffectOfService, Names DEF SharedTypes, IInv, ServiceInv
  <2> QED BY <1>1, <2>1, EffectOfService
<1>3. TypeInv'
  BY <1>1, <1>2, Parts DEF Registered
<1>4. ServiceInv'
  <2>1. core' <= gen' /\ \A t \in Threads : used'[t] <= gen' /\ fresh'[t] <= gen'
    BY <1>1, <1>2, Names DEF IInv, ServiceInv, ThreadTypes
  <2>2. \A p \in Models : prepared'[p] <= gen'
    BY <1>1, <1>2, Names DEF IInv, ServiceInv, SharedTypes
  <2>3. ASSUME NEW h \in told' PROVE Linked(h)' \in 1 .. gen' /\ ~Connected(Linked(h))'
    <3>1. Linked(h)' = Linked(h) /\ Linked(h) \in 1 .. gen /\ ~Connected(Linked(h))
      BY <1>2, <2>3 DEF Linked, IInv, ServiceInv
    <3> QED BY <1>2, <3>1 DEF Connected
  <2> QED BY <2>1, <2>2, <2>3 DEF ServiceInv
<1>5. LockInv'
  <2>1. Connected(core)' => Connected(core)
    BY <1>2 DEF Connected
  <2> QED BY <1>2, <2>1 DEF IInv, LockInv
<1>6. ASSUME NEW t \in Threads PROVE OneCall(t)'
  <2>1. OneCall(t) /\ used[t] \in 0 .. gen
    BY Facts DEF OneThread
  <2>2. Linked(via[t])' = Linked(via[t]) /\ (Connected(used[t])' => Connected(used[t]))
    BY <1>2, <2>1 DEF Linked, Connected
  <2>3. Placed(t)' /\ Tied(t)'
    BY <1>2, <2>1, <2>2 DEF OneCall, Placed, Tied
  <2>4. Asked(t)'
    BY <1>2, <2>1, <2>2 DEF OneCall, Asked
  <2>5. Answered(t)'
    <3>1. cb[t].is = "answer" => /\ cb[t].by \in 1 .. gen'
                                 /\ cb[t].by = used[t] \/ ~Connected(cb[t].by)'
      BY <1>2, <2>1 DEF OneCall, Answered, Connected
    <3> QED BY <1>2, <2>1, <2>2, <3>1 DEF OneCall, Answered, Connected
  <2> QED BY <2>3, <2>4, <2>5 DEF OneCall
<1> QED BY <1>3, <1>4, <1>5, <1>6 DEF IInv, CallInv, OneCall

\* A service runs, it is connected to, and no thread is in a call initially.
LEMMA InvInit == Init => IInv
<1> SUFFICES ASSUME Init PROVE IInv
  OBVIOUS
<1>1. TypeInv
  <2>1. todo \in [Threads -> Seq(AllKinds)]
    BY CallAssumption DEF Init
  <2>2. ThreadTypes
    BY GenAssumption, Names DEF Init, ThreadTypes, Codes, Places
  <2>3. SharedTypes /\ Registered
    BY <2>1, GenAssumption, Names DEF Init, SharedTypes, Registered
  <2> QED BY <2>2, <2>3, Parts
<1>2. ServiceInv /\ LockInv
  BY NamesAssumption DEF Init, ServiceInv, LockInv
<1>3. ASSUME NEW t \in Threads PROVE OneCall(t)
  BY NamesAssumption, Names
     DEF Init, OneCall, Placed, Tied, Asked, Answered, Models, Preparations
<1> QED BY <1>1, <1>2, <1>3 DEF IInv, CallInv, OneCall

\* Every step keeps the invariant.
LEMMA InvNext == IInv /\ [Next]_vars => IInv'
<1>1. ASSUME IInv, UNCHANGED vars PROVE IInv'
  <2>1. UNCHANGED <<gen, alive, told, mCallbacks, core, mMutex, prepared, todo, pc, kind, used,
                    via, again, fresh, ret, cb, result, task>>
    BY <1>1, Zenon DEF vars, serviceVars, handlerVars, callVars, threadVars
  <2>2. \A g : (Connected(g)' <=> Connected(g)) /\ (Linked(g)' = Linked(g))
    BY <2>1 DEF Connected, Linked
  <2>3. TypeInv'
    BY <1>1, <2>1, Parts DEF IInv, ThreadTypes, SharedTypes, Registered
  <2>4. ServiceInv' /\ LockInv'
    BY <1>1, <2>1, <2>2 DEF IInv, ServiceInv, LockInv
  <2>5. CallInv'
    BY <1>1, <2>1 DEF IInv, CallInv, Placed, Tied, Asked, Answered, Connected, Linked
  <2> QED BY <2>3, <2>4, <2>5 DEF IInv
<1> QED BY <1>1, KeptByService, KeptByDeath, KeptByBegin, KeptByNotify, KeptByLookup,
           KeptByRecover, KeptByWait, KeptByProtect, KeptBySend, KeptByReturn, KeptByLeave,
           KeptByMaking, KeptByCreating, KeptByResult, Zenon DEF Next, Locks, Step

-------------------------------------------------------------------------------
(* Theorems.                                                                *)

\* The inductive invariant.
THEOREM Foundation == Spec => []IInv
BY InvInit, InvNext, PTL DEF Spec, NoRestartSpec

\* Every variable has its type, and a callback is registered with the handler of
\* its call alone, while that is made.
THEOREM Typing == Spec => []TypeOK
<1>1. IInv => TypeOK
  BY DEF IInv, TypeInv
<1> QED BY <1>1, Foundation, PTL

\* A thread that waits for a callback is notified already or will be, by the
\* service that has the call or by a death handler that has not run yet.
THEOREM NobodyIsForgotten == Spec => []NobodyWaitsInVain
<1>1. IInv => NobodyWaitsInVain
  <2> SUFFICES ASSUME IInv, NEW t \in Threads, pc[t] = "waiting", cb[t] = Pending
               PROVE  \/ task[t] # 0 /\ Connected(task[t])
                      \/ /\ t \in mCallbacks[via[t]] /\ via[t] \notin told
                         /\ Linked(via[t]) = used[t] /\ used[t] # 0 /\ ~Connected(used[t])
    BY DEF NobodyWaitsInVain
  <2> QED BY DEF IInv, CallInv, Placed, Tied, Asked
<1> QED BY <1>1, Foundation, PTL

\* A connection is only replaced when it is dead, whoever reconnects meanwhile.
THEOREM NoNeedlessReconnection == Spec => []ReconnectsOnlyWhenDead
<1>1. IInv => ReconnectsOnlyWhenDead
  BY DEF IInv, LockInv, ReconnectsOnlyWhenDead
<1> QED BY <1>1, Foundation, PTL

\* A prepared model comes from the incarnation that the last attempt went to.
THEOREM ModelIsOfLastAttempt == Spec => ModelOfLastAttempt
<1> DEFINE Fine == \A t \in Threads :
                      prepared'[t] \notin {0, prepared[t]} => prepared'[t] = used[t]
<1>1. IInv /\ [Next]_vars => [Fine]_vars
  <2> SUFFICES ASSUME IInv, [Next]_vars PROVE UNCHANGED prepared \/ Fine
    BY DEF vars
  <2>1. ASSUME NEW t \in Threads, Result(t) PROVE UNCHANGED prepared \/ Fine
    <3>1. /\ ThreadTypes /\ SharedTypes /\ OneThread(t) /\ \A u \in Threads : u \in Models
      BY <2>1, Facts
    <3>2. CASE /\ Connected(cb[t].by) /\ cb[t].is = "answer"
               /\ prepared' = [prepared EXCEPT ![t] = cb[t].by]
      <4>1. cb[t].by = used[t]
        BY <3>1, <3>2 DEF OneThread, OneCall, Answered
      <4> QED BY <3>1, <3>2, <4>1 DEF SharedTypes
    <3>3. UNCHANGED prepared \/ (/\ Connected(cb[t].by) /\ cb[t].is = "answer"
                                 /\ prepared' = [prepared EXCEPT ![t] = cb[t].by])
      BY <2>1, <3>1, EffectOfResult
    <3> QED BY <3>2, <3>3
  <2>2. CASE ~\E t \in Threads : Result(t)
    BY <2>2, Zenon DEF Next, Locks, Step, vars, ServiceDies, ServiceStarts, serviceDied, Begin,
       Notify, getDeviceAndDeathHandler, Recover, wait, Protect, Send, CallReturns, Leave,
       MakeDevice, CreateCore
  <2> QED BY <2>1, <2>2
<1> QED BY <1>1, Foundation, PTL DEF Spec, NoRestartSpec, ModelOfLastAttempt
===============================================================================
