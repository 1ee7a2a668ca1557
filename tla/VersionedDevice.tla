--------------------------- MODULE VersionedDevice ---------------------------
(***************************************************************************)
(* The connection to a driver service, which may die at any time and be    *)
(* started again: VersionedIDevice and VersionedIPreparedModel.  A call to *)
(* a dead incarnation of the service returns a transport error.  That an   *)
(* asynchronous call, whose result comes through a callback, is not waited *)
(* for in vain is up to the death handlers: one is linked to each device   *)
(* and each prepared model, and notifies the callbacks registered with it. *)
(* Calls on the device reconnect and are repeated once, under mMutex.      *)
(*                                                                         *)
(* Incarnations of the service are numbered.  The versions of the HAL      *)
(* differ in how data is converted and are one here, and all calls on a    *)
(* device without a callback (getSupportedOperations, allocate) are one.   *)
(* The callback of a call in progress is named by its thread.              *)
(*                                                                         *)
(* An operator that nothing uses, right before another one, is the same    *)
(* place in the code with a plausible mistake.                             *)
(***************************************************************************)
EXTENDS Naturals, Sequences

CONSTANTS Threads,  \* threads of the runtime, each in one call at a time
          Nobody,   \* the owner of a mutex that is free
          Old,      \* the name of a prepared model that is there from the start
          MaxGen,   \* bound on the incarnations of the service
          Calls     \* the sequences of calls of which each thread makes one

AllKinds == {"fromCache", "prepare", "allocate", "execute", "executeSynchronously", "wait"}

ASSUME NamesAssumption == Nobody \notin Threads /\ Old \notin Threads
ASSUME GenAssumption == MaxGen \in Nat \ {0}
ASSUME CallAssumption == \A t \in Threads : Calls[t] \subseteq Seq(AllKinds)

Gens == 1 .. MaxGen
Preparations == {"fromCache", "prepare"}
Recoverable == Preparations \cup {"allocate"}   \* called through recoverable()
Asynchronous == Preparations \cup {"execute"}   \* have a callback

\* A death handler belongs to the Core for an incarnation or to a prepared model, which is
\* named by the thread that prepared it.
Models == Threads \cup {Old}
Handlers == [on : {"device"}, id : Gens] \cup [on : {"model"}, id : Models]
DeviceHandler(g) == [on |-> "device", id |-> g]
ModelHandler(p) == [on |-> "model", id |-> p]

VARIABLES
    gen, alive,   \* the latest incarnation of the service, and whether it runs
    task,         \* incarnation that is to notify the thread's callback, or 0
    told,         \* handlers whose serviceDied has run
    mCallbacks,   \* threads whose callbacks are registered with each handler
    core,         \* mCore: the incarnation whose device it holds
    mMutex,       \* owner of VersionedIDevice::mMutex while it blocks others
    prepared,     \* incarnation that holds each prepared model, or 0
    todo,         \* calls that each thread is still to make
    pc, kind,     \* where each thread is, and in which call
    used, via,    \* incarnation that the call goes to, and its death handler
    again,        \* recoverable() is in its second attempt
    fresh,        \* the device that the thread got from kMakeDevice
    ret,          \* what the call across the HAL returned
    cb,           \* the callback: how it was first notified
    result        \* what the thread's last call returned

serviceVars == <<gen, alive>>
handlerVars == <<told, mCallbacks>>
callVars == <<used, via, again>>
threadVars == <<pc, kind, fresh, ret, cb, result, task>>
vars == <<serviceVars, handlerVars, callVars, threadVars, core, mMutex, prepared, todo>>

Connected(g) == alive /\ g = gen

\* PreparedModelCallback and ExecutionCallback: only the first notification counts.
Pending == [is |-> "pending", by |-> 0]
Dead    == [is |-> "dead", by |-> 0]
Failure == [is |-> "failure", by |-> 0]
Answer(g) == [is |-> "answer", by |-> g]
Notified(c, how) == IF c = Pending THEN how ELSE c

Goto(t, l) == pc' = [pc EXCEPT ![t] = l]

Unlocked == TRUE
MayLock == mMutex = Nobody

-------------------------------------------------------------------------------
Init ==
    /\ gen = 1 /\ alive = TRUE /\ core = 1
    /\ told = {} /\ mCallbacks = [h \in Handlers |-> {}]
    /\ mMutex = Nobody
    /\ task = [t \in Threads |-> 0]
    /\ todo \in {d \in [Threads -> UNION {Calls[t] : t \in Threads}] :
                   \A t \in Threads : d[t] \in Calls[t]}
    /\ prepared = [p \in Models |-> IF p = Old THEN 1 ELSE 0]
    /\ pc = [t \in Threads |-> "idle"] /\ kind = [t \in Threads |-> "none"]
    /\ used = [t \in Threads |-> 0] /\ via = [t \in Threads |-> DeviceHandler(1)]
    /\ again = [t \in Threads |-> FALSE] /\ fresh = [t \in Threads |-> 0]
    /\ ret = [t \in Threads |-> "ok"] /\ cb = [t \in Threads |-> Pending]
    /\ result = [t \in Threads |-> "none"]

(* The service *)

ServiceDies ==
    /\ alive
    /\ alive' = FALSE
    /\ UNCHANGED <<gen, handlerVars, callVars, task, core, mMutex, prepared, todo, pc, kind,
                   fresh, ret, cb, result>>

ServiceStarts ==
    /\ ~alive /\ gen < MaxGen
    /\ alive' = TRUE /\ gen' = gen + 1
    /\ UNCHANGED <<handlerVars, callVars, task, core, mMutex, prepared, todo, pc, kind,
                   fresh, ret, cb, result>>

\* The service answers an asynchronous call.  An error, and a success without a
\* prepared model, are both a failure.
Notify(t) ==
    /\ task[t] # 0 /\ Connected(task[t])
    /\ \E how \in {Answer(task[t]), Failure} : cb' = [cb EXCEPT ![t] = Notified(@, how)]
    /\ task' = [task EXCEPT ![t] = 0]
    /\ UNCHANGED <<serviceVars, handlerVars, callVars, core, mMutex, prepared, todo, pc,
                   kind, fresh, ret, result>>

(* DeathHandler *)

\* The incarnation that a handler is linked to; 0 when it is linked to none.
Linked(h) == IF h.on = "device" THEN h.id ELSE prepared[h.id]

serviceDied(h) ==
    /\ h \notin told /\ Linked(h) \in 1 .. gen /\ ~Connected(Linked(h))
    /\ told' = told \cup {h}
    /\ cb' = [t \in Threads |-> IF t \in mCallbacks[h] THEN Notified(cb[t], Dead) ELSE cb[t]]
    /\ UNCHANGED <<serviceVars, mCallbacks, callVars, task, core, mMutex, prepared, todo,
                   pc, kind, fresh, ret, result>>

CurrentProtects(t) == mCallbacks' = [mCallbacks EXCEPT ![DeviceHandler(core)] = @ \cup {t}]

protectCallback(t) == mCallbacks' = [mCallbacks EXCEPT ![via[t]] = @ \cup {t}]
StaysRegistered(t) == UNCHANGED mCallbacks
unregisterCallback(t) == mCallbacks' = [mCallbacks EXCEPT ![via[t]] = @ \ {t}]

(* A call across the HAL *)

FirstStep(k) == IF k \in Asynchronous THEN "protect" ELSE "send"
AfterCall(k, r, second) ==
    IF k \in Recoverable /\ r = "dead" /\ ~second THEN "recover" ELSE "result"

Attempt(t, g, second) ==
    /\ used' = [used EXCEPT ![t] = g] /\ via' = [via EXCEPT ![t] = DeviceHandler(g)]
    /\ again' = [again EXCEPT ![t] = second]
    /\ Goto(t, FirstStep(kind[t]))

\* A thread enters the API.  It prepares one model at most.
Begin(t) ==
    LET k == Head(todo[t]) IN
    /\ pc[t] = "idle" /\ todo[t] # <<>>
    /\ todo' = [todo EXCEPT ![t] = Tail(@)]
    /\ k \in Preparations => prepared[t] = 0
    /\ kind' = [kind EXCEPT ![t] = k]
    /\ result' = [result EXCEPT ![t] = "none"]
    /\ IF k \in {"execute", "executeSynchronously"}
       THEN \E p \in Models :
            /\ prepared[p] # 0
            /\ used' = [used EXCEPT ![t] = prepared[p]]
            /\ via' = [via EXCEPT ![t] = ModelHandler(p)]
            /\ Goto(t, FirstStep(k))
       ELSE /\ Goto(t, IF k = "wait" THEN "lock" ELSE "getDevice")
            /\ UNCHANGED <<used, via>>
    /\ UNCHANGED <<serviceVars, handlerVars, again, task, core, mMutex, prepared, fresh,
                   ret, cb>>

getDeviceAndDeathHandler(t) ==
    /\ pc[t] = "getDevice" /\ MayLock
    /\ Attempt(t, core, FALSE)
    /\ UNCHANGED <<serviceVars, handlerVars, task, core, mMutex, prepared, todo, kind,
                   fresh, ret, cb, result>>

Protect(t) ==
    /\ pc[t] = "protect"
    /\ protectCallback(t)
    /\ Goto(t, "send")
    /\ UNCHANGED <<serviceVars, told, callVars, task, core, mMutex, prepared, todo, kind,
                   fresh, ret, cb, result>>

Send(t) ==
    /\ pc[t] = "send"
    /\ task' = [task EXCEPT ![t] =
           IF Connected(used[t]) /\ kind[t] \in Asynchronous THEN used[t] ELSE 0]
    /\ Goto(t, "calling")
    /\ UNCHANGED <<serviceVars, handlerVars, callVars, core, mMutex, prepared, todo, kind,
                   fresh, ret, cb, result>>

\* callProtected signals the callback itself when the call failed, in case the service
\* does not; executeAsynchronously then does not wait for it.
NoFailureMessage(t, r) == cb
sendFailureMessage(t, r) ==
    IF kind[t] \in Preparations /\ r # "ok"
    THEN [cb EXCEPT ![t] = Notified(@, Failure)] ELSE cb

\* A dead service, an error (a status, or one of the transport), or success.  With an error
\* the service may have got the call and notify nevertheless.
CallReturns(t) ==
    /\ pc[t] = "calling"
    /\ \E r \in IF Connected(used[t]) THEN {"ok", "error"} ELSE {"dead"} :
        /\ ret' = [ret EXCEPT ![t] = r]
        /\ \E accepted \in IF r = "ok" THEN {task[t]} ELSE {task[t], 0} :
               task' = [task EXCEPT ![t] = accepted]
        /\ cb' = sendFailureMessage(t, r)
        /\ Goto(t, CASE kind[t] \in Preparations             -> "waiting"
                     [] kind[t] = "execute" /\ r = "ok"      -> "waiting"
                     [] kind[t] = "execute" /\ r # "ok"      -> "leaving"
                     [] OTHER -> AfterCall(kind[t], r, again[t]))
    /\ UNCHANGED <<serviceVars, handlerVars, callVars, core, mMutex, prepared, todo, kind,
                   fresh, result>>

\* wait() returns, and the guard of protectCallback unregisters the callback.  A later
\* notification changes nothing: the callback has been notified or is not read any more.
Leave(t) ==
    /\ \/ pc[t] = "waiting" /\ cb[t] # Pending
       \/ pc[t] = "leaving"
    /\ unregisterCallback(t)
    /\ task' = [task EXCEPT ![t] = 0]
    /\ Goto(t, AfterCall(kind[t], ret[t], again[t]))
    /\ UNCHANGED <<serviceVars, told, callVars, core, mMutex, prepared, todo, kind, fresh,
                   ret, cb, result>>

-------------------------------------------------------------------------------
(* Recovery, under mMutex *)

\* The thread is back in the client; what no later step reads is forgotten.
Return(t, code) ==
    /\ result' = [result EXCEPT ![t] = code]
    /\ Goto(t, "idle")
    /\ ret' = [ret EXCEPT ![t] = "ok"] /\ cb' = [cb EXCEPT ![t] = Pending]
    /\ fresh' = [fresh EXCEPT ![t] = 0] /\ task' = [task EXCEPT ![t] = 0]
    /\ used' = [used EXCEPT ![t] = 0] /\ via' = [via EXCEPT ![t] = DeviceHandler(1)]
    /\ again' = [again EXCEPT ![t] = FALSE] /\ kind' = [kind EXCEPT ![t] = "none"]

\* ping(): somebody else may have reconnected already.
Recover(t) ==
    /\ pc[t] = "recover" /\ MayLock
    /\ IF Connected(core)
       THEN Attempt(t, core, TRUE) /\ UNCHANGED mMutex
       ELSE Goto(t, "make") /\ mMutex' = t /\ UNCHANGED callVars
    /\ UNCHANGED <<serviceVars, handlerVars, task, core, prepared, todo, kind, fresh, ret,
                   cb, result>>

wait(t) ==
    /\ pc[t] = "lock" /\ MayLock
    /\ IF Connected(core)
       THEN /\ \E code \in {"NO_ERROR", "OP_FAILED"} : Return(t, code)
            /\ UNCHANGED mMutex
       ELSE /\ Goto(t, "make") /\ mMutex' = t
            /\ UNCHANGED <<callVars, kind, task, fresh, ret, cb, result>>
    /\ UNCHANGED <<serviceVars, handlerVars, core, prepared, todo>>

\* No device: recoverable() returns the transport error it has, wait() fails.
GiveUp(t) ==
    /\ mMutex' = Nobody
    /\ IF kind[t] = "wait" THEN Return(t, "OP_FAILED")
       ELSE Goto(t, "result") /\ UNCHANGED <<callVars, kind, task, fresh, ret, cb, result>>
    /\ UNCHANGED core

\* kMakeDevice blocks for wait() until there is a service.
MakeDevice(t) ==
    /\ pc[t] = "make"
    /\ kind[t] = "wait" => alive
    /\ \/ /\ alive
          /\ fresh' = [fresh EXCEPT ![t] = gen]
          /\ Goto(t, "link")
          /\ UNCHANGED <<callVars, kind, core, mMutex, task, ret, cb, result>>
       \/ GiveUp(t)
    /\ UNCHANGED <<serviceVars, handlerVars, prepared, todo>>

\* Core::create links a death handler to the device, which may fail, and does if the
\* service has died meanwhile.
CreateCore(t) ==
    /\ pc[t] = "link"
    /\ \/ /\ Connected(fresh[t])
          /\ core' = fresh[t]
          /\ mMutex' = Nobody
          /\ IF kind[t] = "wait" THEN Return(t, "NO_ERROR")
             ELSE /\ Attempt(t, fresh[t], TRUE)
                  /\ fresh' = [fresh EXCEPT ![t] = 0]
                  /\ UNCHANGED <<kind, task, ret, cb, result>>
       \/ GiveUp(t)
    /\ UNCHANGED <<serviceVars, handlerVars, prepared, todo>>

(* Results *)

\* What the call returns, unless a prepared model is still to be linked to.
ResultCode(t) ==
    CASE ret[t] = "dead" -> IF kind[t] = "allocate" THEN "OP_FAILED" ELSE "DEAD_OBJECT"
      [] ret[t] = "error" -> "OP_FAILED"
      [] ret[t] = "ok" -> IF kind[t] \notin Asynchronous THEN "NO_ERROR"
                          ELSE CASE cb[t].is = "dead"    -> "DEAD_OBJECT"
                                 [] cb[t].is = "failure" -> "OP_FAILED"
                                 [] OTHER                -> "NO_ERROR"

\* prepareModel() goes on with prepareModelInternal and a new callback when the model was
\* not in the cache.
NewCallback(t) == cb' = [cb EXCEPT ![t] = Pending]

Failed(t, code) ==
    IF kind[t] = "fromCache"
    THEN /\ kind' = [kind EXCEPT ![t] = "prepare"]
         /\ again' = [again EXCEPT ![t] = FALSE]
         /\ NewCallback(t)
         /\ task' = [task EXCEPT ![t] = 0]
         /\ Goto(t, "getDevice")
         /\ used' = [used EXCEPT ![t] = 0] /\ via' = [via EXCEPT ![t] = DeviceHandler(1)]
         /\ ret' = [ret EXCEPT ![t] = "ok"]
         /\ UNCHANGED <<fresh, result>>
    ELSE Return(t, code)

\* linkToDeath on a prepared model that lives in a dead service fails.
LinkAnyway(t) == TRUE
CanLink(t) == Connected(cb[t].by)

Result(t) ==
    /\ pc[t] = "result"
    /\ IF ResultCode(t) = "NO_ERROR" /\ kind[t] \in Preparations
       THEN \/ /\ CanLink(t)
               /\ prepared' = [prepared EXCEPT ![t] = cb[t].by]
               /\ told' = told \ {ModelHandler(t)}
               /\ Return(t, "NO_ERROR")
            \/ /\ \E code \in IF CanLink(t) THEN {"OP_FAILED"} ELSE {"DEAD_OBJECT"} :
                      Failed(t, code)
               /\ UNCHANGED <<prepared, told>>
       ELSE /\ IF ResultCode(t) = "NO_ERROR" THEN Return(t, "NO_ERROR")
               ELSE Failed(t, ResultCode(t))
            /\ UNCHANGED <<prepared, told>>
    /\ UNCHANGED <<serviceVars, mCallbacks, core, mMutex, todo>>

-------------------------------------------------------------------------------
Locks(t) == getDeviceAndDeathHandler(t) \/ Recover(t) \/ wait(t)
Step(t) == \/ Protect(t) \/ Send(t) \/ CallReturns(t) \/ Leave(t)
           \/ MakeDevice(t) \/ CreateCore(t) \/ Result(t)

Next ==
    \/ ServiceDies \/ ServiceStarts
    \/ \E h \in Handlers : serviceDied(h)
    \/ \E t \in Threads : \/ Begin(t)
                          \/ Notify(t) \/ Locks(t) \/ Step(t)

\* The service answers what it has accepted, or dies and its death is reported; the mutex
\* goes to a thread that keeps asking for it.
Answers(t) == pc[t] = "waiting" /\ ret[t] = "ok" /\ Notify(t)

NoRestartSpec == /\ Init /\ [][Next]_vars
                 /\ WF_vars(\E h \in Handlers : serviceDied(h))
                 /\ \A t \in Threads : WF_vars(Step(t) \/ Answers(t)) /\ SF_vars(Locks(t))

\* A service that dies is started again.
Spec == NoRestartSpec /\ []<>alive

-------------------------------------------------------------------------------
(* Properties *)

Codes == {"none", "NO_ERROR", "OP_FAILED", "DEAD_OBJECT"}
Callbacks == {Pending, Dead, Failure} \cup {Answer(g) : g \in Gens}
Places == {"idle", "getDevice", "protect", "send", "calling", "waiting", "leaving", "recover",
           "lock", "make", "link", "result"}

\* Types; a callback is registered with the handler of its call alone, while that is made.
TypeOK ==
    /\ gen \in Gens /\ alive \in BOOLEAN /\ core \in Gens
    /\ told \subseteq Handlers /\ mCallbacks \in [Handlers -> SUBSET Threads]
    /\ \A t \in Threads, h \in Handlers : t \in mCallbacks[h] =>
           h = via[t] /\ pc[t] \in {"send", "calling", "waiting", "leaving"}
    /\ mMutex \in Threads \cup {Nobody}
    /\ prepared \in [Models -> 0 .. MaxGen] /\ task \in [Threads -> 0 .. MaxGen]
    /\ pc \in [Threads -> Places] /\ kind \in [Threads -> AllKinds \cup {"none"}]
    /\ used \in [Threads -> 0 .. MaxGen] /\ via \in [Threads -> Handlers]
    /\ again \in [Threads -> BOOLEAN] /\ fresh \in [Threads -> 0 .. MaxGen]
    /\ ret \in [Threads -> {"ok", "error", "dead"}]
    /\ cb \in [Threads -> Callbacks] /\ result \in [Threads -> Codes]

\* A thread that waits for a callback is notified already, or will be: by the service that
\* has the call, or by the handler of the call's own incarnation, with which it is registered
\* and which has not run yet (DeathHandler, callProtected, executeAsynchronously).
NobodyWaitsInVain ==
    \A t \in Threads : pc[t] = "waiting" /\ cb[t] = Pending =>
        \/ task[t] # 0 /\ Connected(task[t])
        \/ /\ t \in mCallbacks[via[t]] /\ via[t] \notin told
           /\ Linked(via[t]) = used[t] /\ used[t] # 0 /\ ~Connected(used[t])

\* A thread replaces the connection only if the one that there is has died: a recovery by
\* another thread is found out by the ping and never undone (recoverable, wait).
ReconnectsOnlyWhenDead == \A t \in Threads : pc[t] \in {"make", "link"} => ~Connected(core)

\* A prepared model comes from the incarnation that the last attempt went to, not from an
\* answer to the first attempt that arrived before that incarnation died.
ModelOfLastAttempt ==
    [][\A t \in Threads : prepared'[t] \notin {0, prepared[t]} => prepared'[t] = used[t]]_vars

\* Every call comes to an end, whatever dies when.
CallsReturn == \A t \in Threads : pc[t] # "idle" ~> pc[t] = "idle"

\* What a service answers to a call that it has accepted is what the caller gets.
AnswerCounts ==
    [][\A t \in Threads : /\ pc[t] = "waiting" /\ ret[t] = "ok"
                          /\ task[t] # 0 /\ Connected(task[t]) /\ task'[t] = 0
                          /\ pc'[t] = "waiting"
                          => cb[t] = Pending]_vars

\* A call to a dead device returns, whether or not the service is ever started again.
DeadDeviceAnswers ==
    \A t \in Threads :
        (pc[t] # "idle" /\ kind[t] # "wait") ~> (pc[t] = "idle" \/ kind[t] = "wait")
===============================================================================
