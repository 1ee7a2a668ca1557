----------------------------- MODULE Partitioner -----------------------------
(***************************************************************************)
(* How a model is partitioned into the steps of an execution plan:         *)
(* ModelBuilder::partitionTheWork, ExecutionStep and the finishing of an   *)
(* ExecutionPlan.                                                          *)
(*                                                                         *)
(* What the steps are is said in Plans.  g is the instance: the model,     *)
(* what each device can do, and which operands are of unknown size.        *)
(***************************************************************************)
EXTENDS Plans

CONSTANTS
    Devices,   \* the sequence of devices, the CPU among them
    Cost       \* performance of each device: less is better

ASSUME CpuAssumption == Cpu \in ToSet(Devices)

ControlFlowInterpreter == Len(Devices) + 1

(* findBestDeviceForEachOperation *)

CanDo(g, d, op) == IF d = Cpu THEN op.type \notin Vendor ELSE op.type \in g.canDo[d]

isControlFlowOperationWithOperandOfUnknownSize(g, op) ==
    /\ isControlFlow(op)
    /\ \E x \in {op} \cup ToSet(op.models) :
           g.unknown \cap (ToSet(x.ins) \cup ToSet(x.outs)) # {}

NotWorse(i, j) == \/ Cost[Devices[i]] < Cost[Devices[j]]
                  \/ /\ Cost[Devices[i]] = Cost[Devices[j]]
                     /\ Devices[i] = Cpu \/ (Devices[j] # Cpu /\ i <= j)

\* The index of the best device, ControlFlowInterpreter, or 0 if there is none.
bestDevice(g, op) ==
    LET unknown == isControlFlowOperationWithOperandOfUnknownSize(g, op)
        able == {i \in DOMAIN Devices : /\ CanDo(g, Devices[i], op)
                                        /\ unknown => Devices[i] = Cpu}
        best == CHOOSE i \in able : \A j \in able : NotWorse(i, j)
    IN  CASE able = {} -> 0
          [] able # {} /\ Devices[best] = Cpu /\ isControlFlow(op) /\ ~unknown
                       -> ControlFlowInterpreter
          [] OTHER     -> best

(* OperandTracker, with the queues of the operations that are ready for each device *)

UnknownTemporaries(m, op) == Len(SelectSeq(op.ins,
    LAMBDA o : Lifetime(m, o) = "TEMPORARY_VARIABLE"))
UnknownInputs(m, op) == Len(SelectSeq(op.ins,
    LAMBDA o : Lifetime(m, o) \in {"TEMPORARY_VARIABLE", "SUBGRAPH_OUTPUT"}))

Enqueue(t, best, i) == [t EXCEPT !.queues[best[i]] = Append(@, i)]

OperandTracker(m, best) ==
    LET counts == [i \in DOMAIN m.ops |-> UnknownInputs(m, m.ops[i])]
        empty == [counts |-> counts, queues |-> [d \in 1 .. ControlFlowInterpreter |-> <<>>]]
    IN  FoldLeft(LAMBDA t, i : IF counts[i] = 0 THEN Enqueue(t, best, i) ELSE t,
                 empty, [i \in DOMAIN m.ops |-> i])

markProcessed(m, best, tracker, op) ==
    LET Provide(t, o, i) ==
            LET n == Len(SelectSeq(m.ops[i].ins, LAMBDA x : x = o))
                u == [t EXCEPT !.counts[i] = @ - n]
            IN  IF n > 0 /\ u.counts[i] = 0 THEN Enqueue(u, best, i) ELSE u
        all == [i \in DOMAIN m.ops |-> i]
    IN  FoldLeft(LAMBDA t, o : FoldLeft(LAMBDA u, i : Provide(u, o, i), t, all),
                 tracker, op.outs)

(* ModelBuilder::sortIntoRunOrder counts in the same way, with a stack for a queue.  An  *)
(* operation on a cycle, or one that reads what nobody writes, never becomes ready.      *)

RECURSIVE runOrder(_, _, _)
runOrder(m, t, ops) ==
    IF t.queues[1] = <<>> THEN ops
    ELSE LET i == Last(t.queues[1])
             rest == [t EXCEPT !.queues[1] = Front(@)]
         IN  runOrder(m, markProcessed(m, [j \in DOMAIN m.ops |-> 1], rest, m.ops[i]),
                      Append(ops, m.ops[i]))

sortIntoRunOrder(m) ==
    runOrder(m, OperandTracker(m, [j \in DOMAIN m.ops |-> 1]), <<>>)

\* A model is finished after the models that it references.
RECURSIVE finishModel(_)
finishModel(m) ==
    LET Referenced(op) == [op EXCEPT !.models = [k \in DOMAIN @ |-> finishModel(@[k])]]
    IN  [m EXCEPT !.ops = sortIntoRunOrder(
            [m EXCEPT !.ops = [i \in DOMAIN @ |-> Referenced(@[i])]])]

(* Steps *)

AddStep(p, step) == [p EXCEPT !.steps = Append(@, step)]
Goto(to) == [kind |-> "goto", to |-> to]

\* All that one device can do now, what becomes ready on the way included.
RECURSIVE fillStep(_, _, _, _, _)
fillStep(m, best, t, d, ops) ==
    IF t.queues[d] = <<>> THEN [ops |-> ops, tracker |-> t]
    ELSE LET i == Head(t.queues[d])
         IN  fillStep(m, best,
                      markProcessed(m, best, [t EXCEPT !.queues[d] = Tail(@)], m.ops[i]),
                      d, Append(ops, m.ops[i]))

RECURSIVE partitionTheWorkInternal(_, _, _), nextSteps(_, _, _, _, _)

\* The referenced models are partitioned behind the IF or the WHILE, a goto behind each.
referencedModels(g, p, op) ==
    LET first == [AddStep(p, Goto(0)) EXCEPT !.models = @ \o op.models]
        one == partitionTheWorkInternal(g, first, Len(p.models) + 1)
        two == partitionTheWorkInternal(g, AddStep(one, Goto(0)), Len(p.models) + 2)
    IN  [p |-> AddStep(two, Goto(0)),
         at |-> Len(p.steps) + 1, second |-> Len(one.steps) + 2, end |-> Len(two.steps) + 1]

addIf(g, p, mi, op) ==
    LET r == referencedModels(g, p, op)
        ti == Len(p.models) + 1
        ei == Len(p.models) + 2
    IN  [r.p EXCEPT
         !.steps = [Front(@) EXCEPT
             ![r.at] = [kind |-> "if", model |-> mi, models |-> <<ti, ei>>,
                        cond |-> <<mi, op.ins[1]>>,
                        steps |-> <<r.at + 1, r.second>>,
                        outerIns |-> Of(mi, Tail(op.ins)), outerOuts |-> Of(mi, op.outs),
                        ins |-> <<Of(ti, op.models[1].ins), Of(ei, op.models[2].ins)>>,
                        outs |-> <<Of(ti, op.models[1].outs), Of(ei, op.models[2].outs)>>],
             ![r.second - 1] = Goto(r.end)]]

addWhile(g, p, mi, op) ==
    LET r == referencedModels(g, p, op)
        ci == Len(p.models) + 1
        bi == Len(p.models) + 2
    IN  [r.p EXCEPT
         !.steps = [@ EXCEPT
             ![r.at] = [kind |-> "while", model |-> mi, models |-> <<ci, bi>>,
                        condStep |-> r.at + 1, bodyStep |-> r.second, exitStep |-> r.end + 1,
                        outerIns |-> Of(mi, op.ins), outerOuts |-> Of(mi, op.outs),
                        condIns |-> Of(ci, op.models[1].ins),
                        condOut |-> <<ci, op.models[1].outs[1]>>,
                        bodyIns |-> Of(bi, op.models[2].ins),
                        bodyOuts |-> Of(bi, op.models[2].outs)],
             ![r.second - 1] = Goto(r.at),
             ![r.end] = Goto(r.at)]]

\* findNextDeviceToProcess: control flow first, and then the last device that has work.
nextSteps(g, p, mi, best, t) ==
    LET m == p.models[mi]
        ready == {d \in DOMAIN t.queues : t.queues[d] # <<>>}
        d == Max(ready)
    IN  IF p.code # "NO_ERROR" \/ ready = {} THEN p
        ELSE IF d # ControlFlowInterpreter
             THEN LET s == fillStep(m, best, t, d, <<>>)
                      step == [kind |-> "execute", device |-> Devices[d], model |-> mi,
                               ops |-> s.ops]
                  IN  nextSteps(g, AddStep(p, step), mi, best, s.tracker)
             ELSE LET op == m.ops[Head(t.queues[d])]
                      rest == markProcessed(m, best, [t EXCEPT !.queues[d] = Tail(@)], op)
                  IN  nextSteps(g, IF op.type = "IF" THEN addIf(g, p, mi, op)
                                   ELSE addWhile(g, p, mi, op), mi, best, rest)

partitionTheWorkInternal(g, p, mi) ==
    LET m == p.models[mi]
        best == [i \in DOMAIN m.ops |-> bestDevice(g, m.ops[i])]
    IN  IF p.code # "NO_ERROR" THEN p
        ELSE IF 0 \in Range(best) THEN [p EXCEPT !.code = "BAD_DATA"]
        ELSE IF mi = 1 /\ Range(best) = {best[1]} /\ best[1] # ControlFlowInterpreter
             THEN Simple(g, Devices[best[1]])
        ELSE nextSteps(g, p, mi, best, OperandTracker(m, best))

partitionTheWork(g) ==
    LET empty == [code |-> "NO_ERROR", models |-> <<g.model>>, steps |-> <<>>]
    IN  partitionTheWorkInternal(g, empty, 1)
===============================================================================
