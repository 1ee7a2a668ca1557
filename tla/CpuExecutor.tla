----------------------------- MODULE CpuExecutor -----------------------------
(***************************************************************************)
(* How the CPU executes a model: CpuExecutor, with the memory that it      *)
(* allocates and frees by itself.  What it computes should be what         *)
(* Subgraphs says.                                                         *)
(*                                                                         *)
(* A state s is the heap, the operands of the subgraph that is executed,   *)
(* and the result code so far.  A buffer is an index into the heap, 0 is   *)
(* the null pointer.  Memory that the executor does not own (constants,    *)
(* the arguments of the request, the stack) is static.  Sizes are left     *)
(* out, but for operands of unknown size in the body of a loop.            *)
(*                                                                         *)
(* An operator that nothing uses, right before another one, is the same    *)
(* place in the code with a plausible mistake.                             *)
(***************************************************************************)
EXTENDS Subgraphs

nullptr == 0
NewBuffer(value, is) == [value |-> value, is |-> is]
Indexes(seq) == [i \in DOMAIN seq |-> i]

Operands(m) == ToSet(m.ins) \cup ToSet(m.outs) \cup Constants(m)
               \cup UNION {ToSet(op.ins) \cup ToSet(op.outs) : op \in ToSet(m.ops)}

Occurrences(m, o) ==
    FoldLeft(LAMBDA n, op : n + Len(SelectSeq(op.ins, LAMBDA x : x = o)), 0, m.ops)

\* Only temporaries are counted, and freed with their last use.
numberOfUsesLeft(m, o) ==
    IF Lifetime(m, o) = "TEMPORARY_VARIABLE" THEN Occurrences(m, o) ELSE 0

initializeRunTimeInfo(s, m) ==
    LET constants == SetToSeq(Constants(m)) IN
    [s EXCEPT
     !.heap = @ \o [i \in DOMAIN constants |-> NewBuffer(Leaf(constants[i]), "static")],
     !.operands = [o \in Operands(m) |->
         [temporary |-> Lifetime(m, o) = "TEMPORARY_VARIABLE", uses |-> numberOfUsesLeft(m, o),
          buffer |-> IF o \in Constants(m)
                     THEN Len(s.heap) + (CHOOSE i \in DOMAIN constants : constants[i] = o)
                     ELSE nullptr]]]

\* Use of memory that has been freed, of which Garbage is read, and which corrupts it.
Usable(s, b) == b # nullptr /\ s.heap[b].is \in {"live", "static"}
Read(s, o) ==
    LET b == s.operands[o].buffer IN IF Usable(s, b) THEN s.heap[b].value ELSE Garbage
Write(s, o, v) ==
    LET b == s.operands[o].buffer
    IN  [s EXCEPT !.heap[b] = IF Usable(s, b) THEN [@ EXCEPT !.value = v]
                              ELSE [@ EXCEPT !.is = "corrupted"]]
Delete(s, b) ==
    IF b = nullptr THEN s
    ELSE [s EXCEPT !.heap[b].is = IF @ = "live" THEN "freed" ELSE "corrupted"]
FreeOperand(s, o) ==
    [Delete(s, s.operands[o].buffer) EXCEPT !.operands[o].buffer = nullptr]

setInfoAndAllocateIfNeeded(s, o) ==
    IF s.operands[o].buffer # nullptr THEN s
    ELSE [s EXCEPT !.heap = Append(@, NewBuffer(Garbage, "live")),
                   !.operands[o].buffer = Len(s.heap) + 1]

Store(s, o, v) == Write(setInfoAndAllocateIfNeeded(s, o), o, v)

consumeOperationInputs(s, ins) ==
    FoldLeft(LAMBDA t, o :
                 LET n == t.operands[o].uses
                     u == IF n = 0 THEN t ELSE [t EXCEPT !.operands[o].uses = n - 1]
                 IN  IF n = 1 THEN FreeOperand(u, o) ELSE u,
             s, ins)

KeepsUnused(s) == s
freeUnusedSubgraphOperands(s) ==
    LET unused == {o \in DOMAIN s.operands : s.operands[o].temporary /\ s.operands[o].uses = 0}
    IN  FoldLeft(FreeOperand, s, SetToSeq(unused))

Buffers(operands, os) == [i \in DOMAIN os |-> operands[os[i]].buffer]

\* setInfoExceptLifetime for several operands
SetBuffers(operands, os, buffers) ==
    FoldLeft(LAMBDA t, i : [t EXCEPT ![os[i]].buffer = buffers[i]], operands,
             [i \in 1 .. Min({Len(os), Len(buffers)}) |-> i])

\* An operation that the CPU knows.  One that fails consumes its inputs as well.
executeRegistered(s, op) ==
    LET values == Apply(op, [i \in DOMAIN op.ins |-> Read(s, op.ins[i])])
        stored == FoldLeft(LAMBDA t, i : Store(t, op.outs[i], values[i]), s, Indexes(op.outs))
        done == IF op.type \in Vendor THEN [s EXCEPT !.code = "OP_FAILED"] ELSE stored
    IN  consumeOperationInputs(done, op.ins)

-------------------------------------------------------------------------------
RECURSIVE executeOperation(_, _, _), executeLoop(_, _, _)

executeSubgraph(g, s, m) ==
    FoldLeft(LAMBDA t, op : IF t.code = "NO_ERROR" THEN executeOperation(g, t, op) ELSE t,
             s, m.ops)

WithOperands(s, operands) == [s EXCEPT !.operands = operands]
Consumed(s, op) == consumeOperationInputs(s, op.ins)

\* A branch starts in state init, and ends in state s, of which the outer operands remain.
\* When it fails, its operands are not freed.
EnterBranch(init, operands, op, m) ==
    WithOperands(init,
        SetBuffers(SetBuffers(init.operands, m.ins, Buffers(operands, Tail(op.ins))),
                   m.outs, Buffers(operands, op.outs)))
LeaveBranch(s, operands, op, m) ==
    IF s.code # "NO_ERROR" THEN WithOperands(s, operands)
    ELSE Consumed(WithOperands(freeUnusedSubgraphOperands(s),
                      SetBuffers(operands, op.outs, Buffers(s.operands, m.outs))), op)

executeBranch(g, s, op, m) ==
    LeaveBranch(executeSubgraph(g, EnterBranch(initializeRunTimeInfo(s, m), s.operands, op, m),
                                m), s.operands, op, m)
executeIfOperation(g, s, op) ==
    executeBranch(g, s, op, op.models[IF IsTrue(g, Read(s, op.ins[1])) THEN 1 ELSE 2])

\* A loop that is under way is the state l with the operands of both models, the buffers for
\* the outputs of the body (those of this iteration first), and, in order to see that it will
\* not end, the values from which the iteration before started.
Inside(l, operands) == [heap |-> l.heap, operands |-> operands, code |-> l.code]

\* From the condition, which is done in state s, to the body, which starts in one state and
\* is done in another.  Outputs of unknown size are allocated anew.
AfterCondition(l, s) == [l EXCEPT !.heap = s.heap, !.cond = s.operands, !.code = s.code]
EnterBody(g, l, c, b) ==
    LET Fresh(i) == b.outs[i] \in g.unknown
        buffers == [i \in DOMAIN b.outs |-> IF Fresh(i) THEN nullptr ELSE l.tmp[1][i]]
    IN  FoldLeft(LAMBDA t, i : IF Fresh(i) THEN Delete(t, l.tmp[1][i]) ELSE t,
                 Inside(l, SetBuffers(SetBuffers(l.body, b.ins, Buffers(l.cond, c.ins)),
                                      b.outs, buffers)),
                 Indexes(b.outs))
AfterBody(l, s, start, c, b) ==
    LET tmp == Buffers(IF s.code = "NO_ERROR" THEN s.operands ELSE start.operands, b.outs)
    IN  [l EXCEPT !.heap = s.heap, !.body = s.operands, !.code = s.code,
                  !.tmp = <<l.tmp[2], tmp>>,
                  !.from = [i \in DOMAIN c.ins |-> Read(Inside(l, l.cond), c.ins[i])],
                  !.cond = SetBuffers(@, c.ins, Buffers(s.operands, b.outs))]

IsUnderWay(g, l, c) == l.code = "NO_ERROR" /\ IsTrue(g, Read(Inside(l, l.cond), c.outs[1]))
IsStuck(l, c) == l.from = [i \in DOMAIN c.ins |-> Read(Inside(l, l.cond), c.ins[i])]

executeBody(g, l, start, op) ==
    AfterBody(l, executeSubgraph(g, start, op.models[2]), start, op.models[1], op.models[2])
executeIteration(g, l, op) ==
    IF ~IsUnderWay(g, l, op.models[1]) THEN l
    ELSE IF IsStuck(l, op.models[1]) THEN [l EXCEPT !.code = "MISSED_DEADLINE_TRANSIENT"]
    ELSE executeLoop(g, executeBody(g, l, EnterBody(g, l, op.models[1], op.models[2]), op), op)
executeLoop(g, l, op) ==
    IF l.code # "NO_ERROR" THEN l
    ELSE executeIteration(g, AfterCondition(l, executeSubgraph(g, Inside(l, l.cond),
                                                               op.models[1])), op)

\* The condition's output is on the stack.
EnterLoop(operands, one, two, op, c, b) ==
    LET none == [i \in DOMAIN b.outs |-> nullptr]
    IN  [heap |-> Append(two.heap, NewBuffer(Garbage, "static")),
         cond |-> SetBuffers(SetBuffers(one.operands, c.ins, Buffers(operands, op.ins)),
                             c.outs, <<Len(two.heap) + 1>>),
         body |-> two.operands, tmp |-> <<none, none>>, from |-> <<>>, code |-> "NO_ERROR"]

\* The outputs of the last iteration, which are inputs of the condition, are copied.
CopyOutputs(l, operands, op, c) ==
    IF l.code # "NO_ERROR" THEN Inside(l, operands)
    ELSE FoldLeft(LAMBDA t, i :
                      Store(t, op.outs[i], l.heap[l.cond[c.ins[i]].buffer].value),
                  Inside(l, operands), Indexes(op.outs))

\* Whatever happens, the guard frees what the loop has allocated.
freeLoopOutputs(s, l) == FoldLeft(Delete, s, l.tmp[1] \o l.tmp[2])
cleanupGuard(s, l, operands, op) ==
    Consumed(WithOperands(
        freeUnusedSubgraphOperands(WithOperands(
            freeUnusedSubgraphOperands(WithOperands(freeLoopOutputs(s, l), l.cond)),
            l.body)),
        operands), op)
LeaveLoop(l, s, op) == cleanupGuard(s, l, s.operands, op)

executeWhile(g, s, op, l) == LeaveLoop(l, CopyOutputs(l, s.operands, op, op.models[1]), op)
executeWhileOperation(g, s, op) ==
    LET one == initializeRunTimeInfo(s, op.models[1]) IN
    executeWhile(g, s, op,
        executeLoop(g, EnterLoop(s.operands, one, initializeRunTimeInfo(one, op.models[2]),
                                 op, op.models[1], op.models[2]), op))

executeOperation(g, s, op) == CASE op.type = "IF"    -> executeIfOperation(g, s, op)
                                [] op.type = "WHILE" -> executeWhileOperation(g, s, op)
                                [] OTHER             -> executeRegistered(s, op)

-------------------------------------------------------------------------------
\* The whole, with the arguments of the request: what is returned, what is in the outputs,
\* and the heap.
run(g, m, args) ==
    LET empty == [heap |-> <<>>, operands |-> <<>>, code |-> "NO_ERROR"]
        init == initializeRunTimeInfo(empty, m)
        n == Len(init.heap)
        arguments == [i \in DOMAIN args |-> NewBuffer(args[i], "static")]
                     \o [i \in DOMAIN m.outs |-> NewBuffer(Garbage, "static")]
        set == SetBuffers(init.operands, m.ins \o m.outs, [i \in DOMAIN arguments |-> n + i])
        called == [init EXCEPT !.heap = @ \o arguments, !.operands = set]
        s == freeUnusedSubgraphOperands(executeSubgraph(g, called, m))
    IN  [code |-> s.code, outs |-> [i \in DOMAIN m.outs |-> Read(s, m.outs[i])],
         heap |-> s.heap]
===============================================================================
