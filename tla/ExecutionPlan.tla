---------------------------- MODULE ExecutionPlan ----------------------------
(***************************************************************************)
(* A model, its compilation and an execution of its plan, step by step:    *)
(* ModelBuilder::finish, CompilationBuilder::finish,                       *)
(* ExecutionPlan::Controller, the interpreter of control flow in           *)
(* ExecutionPlan::next, and the loop over the steps in                     *)
(* asyncStartComputePartitioned with its two kinds of fallback.            *)
(*                                                                         *)
(* A location in memory is a place and the operand it was made for: an     *)
(* argument of the client, a constant in a memory, or a temporary, of      *)
(* which outputs of loop bodies have two.  The controller maps operands of *)
(* the plan to locations.  Of iterations it only matters whether one is    *)
(* the first.  Deadlines are not modelled, the timeouts of loops are.  A   *)
(* CHECK that fails aborts the program, those of a debug build included.   *)
(*                                                                         *)
(* How a model is partitioned and what models compute are parameters here: *)
(* Partitioner, Subgraphs and CpuExecutor say it.                          *)
(*                                                                         *)
(* An operator that nothing uses, right before another one, is the same    *)
(* place in the code with a plausible mistake.                             *)
(***************************************************************************)
EXTENDS Plans, ResultCodes

CONSTANTS
    Instances,          \* the models and devices, conditions and settings that are looked at
    InRunOrder(_),      \* a model when it is finished
    Partition(_),       \* the plan that is made of an instance
    Holds(_, _),        \* whether a value is true, as a condition
    Meant(_, _, _),     \* the outputs of a model for some arguments
    OnCpu(_, _, _)      \* what the CPU makes of them: result code, outputs, and the heap

Built(g) == [g EXCEPT !.model = InRunOrder(@)]
IsBuilt(g) == Len(InRunOrder(g.model).ops) = Len(g.model.ops)

\* What is partitioned, and the whole on the CPU, are plans of the model.
ASSUME PlansAssumption ==
    \A h \in Instances : IsBuilt(h) =>
        LET g == Built(h) IN
        /\ Partition(g).code \in {"NO_ERROR", "BAD_DATA"}
        /\ Partition(g).code = "NO_ERROR" => IsPlan(g, Partition(g))
        /\ IsPlan(g, Simple(g, Cpu))

kBadStepIndex == 0
kOutsideLoop == "outside"

VARIABLES
    given,                    \* the instance, its model in run order after build
    pc, result,               \* where the client's thread is, and what it was told
    plan,                     \* its steps and source models
    mNextStepIndex, mFallbackNextStepIndex,
    mSourceOperandToOffsetOfTemporary, mSourceOperandToOffsetOfTemporary2,
    mSourceOperandToInputIndex, mSourceOperandToOutputIndex,
    mSourceOperandToConstantReference,
    mWhileState,              \* stage and iteration of each loop
    late,                     \* loops that have been going on for longer than the timeout
    memory                    \* the value at each location

indexVars == <<mNextStepIndex, mFallbackNextStepIndex>>
mapVars == <<mSourceOperandToOffsetOfTemporary, mSourceOperandToInputIndex,
             mSourceOperandToOutputIndex, mSourceOperandToConstantReference>>
loopVars == <<mSourceOperandToOffsetOfTemporary2, mWhileState, late>>
vars == <<given, pc, result, plan, indexVars, mapVars, loopVars, memory>>

Step == plan.steps[mNextStepIndex]

-------------------------------------------------------------------------------
(* Locations *)

Location(place, x) == [place |-> place, for |-> x]
Nowhere == Location("nowhere", <<0, "none">>)
Erase(map, x) == [y \in DOMAIN map \ {x} |-> map[y]]
With(map, x, l) == [y \in DOMAIN map \cup {x} |-> IF y = x THEN l ELSE map[y]]

\* The four maps of the controller, in the order in which they are looked into.
maps == <<mSourceOperandToOffsetOfTemporary, mSourceOperandToInputIndex,
          mSourceOperandToOutputIndex, mSourceOperandToConstantReference>>

Found(c, kinds, x) ==
    LET has == {k \in kinds : x \in DOMAIN c[k]} IN IF has = {} THEN 0 ELSE Min(has)
At(c, kinds, x) == LET k == Found(c, kinds, x) IN IF k = 0 THEN Nowhere ELSE c[k][x]
InputKinds == 1 .. 4    \* mapInput, getBuffer
OutputKinds == {1, 3}   \* mapOutput: temporaries and outputs

KeepsStale(c, kinds, x) == c
Erased(c, kinds, x) == [k \in 1 .. 4 |-> IF k \in kinds THEN Erase(c[k], x) ELSE c[k]]

\* The operand inner gets the location of outer.
setAs(c, kinds, outer, inner) ==
    LET erased == Erased(c, kinds, inner)
        found == Found(erased, kinds, outer)
    IN  IF found = 0 THEN erased
        ELSE [erased EXCEPT ![found] = With(@, inner, erased[found][outer])]

\* The CHECKs: the operand was in one map at most, and there is a location to give it.
CanSet(c, kinds, outer, inner) ==
    /\ \A k, l \in kinds : inner \in DOMAIN c[k] /\ inner \in DOMAIN c[l] => k = l
    /\ Found(Erased(c, kinds, inner), kinds, outer) # 0

\* The maps after 0, 1, .. calls.
setEach(c, kinds, outers, inners) ==
    LET set[i \in 0 .. Len(inners)] ==
            IF i = 0 THEN c ELSE setAs(set[i - 1], kinds, outers[i], inners[i])
    IN  set
CanSetEach(c, kinds, outers, inners) ==
    /\ Len(inners) = Len(outers)
    /\ \A i \in 1 .. Len(inners) :
           CanSet(setEach(c, kinds, outers, inners)[i - 1], kinds, outers[i], inners[i])

setInputs(c, outers, inners) == setEach(c, InputKinds, outers, inners)[Len(inners)]
setOutputs(c, outers, inners) == setEach(c, OutputKinds, outers, inners)[Len(inners)]
CanSetInputs(c, outers, inners) == CanSetEach(c, InputKinds, outers, inners)
CanSetOutputs(c, outers, inners) == CanSetEach(c, OutputKinds, outers, inners)

SetMaps(c) == /\ mSourceOperandToOffsetOfTemporary' = c[1]
              /\ mSourceOperandToInputIndex' = c[2]
              /\ mSourceOperandToOutputIndex' = c[3]
              /\ mSourceOperandToConstantReference' = c[4]

ReadAt(x) == LET l == At(maps, InputKinds, x)
             IN  IF l \in DOMAIN memory THEN memory[l] ELSE Garbage

InputLocations(p, c, step) ==
    {At(c, InputKinds, <<step.model, o>>) : o \in stepModelInputs(p, step)}
OutputLocation(c, step, o) == At(c, OutputKinds, <<step.model, o>>)

-------------------------------------------------------------------------------
(* Model and compilation *)

Init ==
    /\ given \in Instances
    /\ pc = "build" /\ result = "none"
    /\ plan = [code |-> "none", models |-> <<>>, steps |-> <<>>]
    /\ mNextStepIndex = 1 /\ mFallbackNextStepIndex = kBadStepIndex
    /\ mSourceOperandToOffsetOfTemporary = <<>> /\ mSourceOperandToOffsetOfTemporary2 = <<>>
    /\ mSourceOperandToInputIndex = <<>> /\ mSourceOperandToOutputIndex = <<>>
    /\ mSourceOperandToConstantReference = <<>>
    /\ mWhileState = <<>> /\ late = {} /\ memory = <<>>

Ends(code) == pc' = "done" /\ result' = code

\* ModelBuilder::finish brings the operations, which come in any order, into run order.
build ==
    /\ pc = "build"
    /\ given' = Built(given)
    /\ IF IsBuilt(given) THEN pc' = "compile" /\ UNCHANGED result ELSE Ends("BAD_DATA")
    /\ UNCHANGED <<plan, indexVars, mapVars, loopVars, memory>>

\* A plan is finished if the devices prepare its step models and no temporary between two
\* steps is of unknown size.
FinishPlan(p) ==
    IF p.code # "NO_ERROR" THEN {p.code}
    ELSE IF hasStepModelOutputOfUnknownSize(given, p) THEN {"OP_FAILED"}
    ELSE {"NO_ERROR"} \cup
         (IF \E i \in DOMAIN p.steps : /\ p.steps[i].kind \in {"execute", "simple"}
                                       /\ p.steps[i].device # Cpu
          THEN {"OP_FAILED"} ELSE {})

hasVendorOperation(m) == \E op \in ToSet(m.ops) : op.type \in Vendor

\* CompilationBuilder::finish.  The plan on the CPU alone is what is left of an error,
\* unless the error is the client's, or the CPU cannot execute the model.
finish ==
    /\ pc = "compile"
    /\ LET p == Partition(given) IN
       \E code \in IF given.partitioning = "no" THEN {"OP_FAILED"} ELSE FinishPlan(p) :
          IF code = "NO_ERROR"
          THEN plan' = p /\ pc' = "compiled" /\ UNCHANGED result
          ELSE IF \/ code = "BAD_DATA"
                  \/ given.partitioning = "without fallback"
                  \/ given.partitioning # "no" /\ hasVendorOperation(given.model)
               THEN Ends(code) /\ UNCHANGED plan
               ELSE plan' = Simple(given, Cpu) /\ pc' = "compiled" /\ UNCHANGED result
    /\ UNCHANGED <<given, indexVars, mapVars, loopVars, memory>>

(* ExecutionPlan::makeController *)

Copies == findControlFlowBoundaryConstants(plan, "CONSTANT_COPY")
References == findControlFlowBoundaryConstants(plan, "CONSTANT_REFERENCE")
MainInputs == ToSet(Of(1, given.model.ins))
MainOutputs == ToSet(Of(1, given.model.outs))

Locate(place, operands) == [x \in operands |-> Location(place, x)]
Named(x) == Leaf(x[2])

\* What has a value from the start, the arguments and constants that are only read, and what
\* will get one.
Initialized == Range(Locate("input", MainInputs)) \cup Range(Locate("constant", References))
               \cup Range(Locate("temporary", Copies))
Unwritten == Range(Locate("output", MainOutputs)) \cup Range(Locate("temporary", Temporaries(plan)))
             \cup Range(Locate("second temporary", BodyOutputs(plan)))

\* The ashmem for temporaries may not be there.
makeController ==
    /\ pc = "compiled"
    /\ SetMaps(<<Locate("temporary", Temporaries(plan) \cup Copies), Locate("input", MainInputs),
                 Locate("output", MainOutputs), Locate("constant", References)>>)
    /\ mSourceOperandToOffsetOfTemporary2' = Locate("second temporary", BodyOutputs(plan))
    /\ memory' = [l \in Initialized \cup Unwritten |->
                      IF l \in Initialized THEN Named(l.for) ELSE Garbage]
    /\ mWhileState' = [i \in StepsOf(plan, "while") |->
                           [stage |-> "condition", iteration |-> kOutsideLoop]]
    /\ mNextStepIndex' \in IF Temporaries(plan) # {} /\ Copies = {} THEN {1, kBadStepIndex} ELSE {1}
    /\ pc' = "next"
    /\ UNCHANGED <<given, result, plan, mFallbackNextStepIndex, late>>

-------------------------------------------------------------------------------
(* ExecutionPlan::next, in steps *)

allowFallback == /\ given.partitioning = "with fallback"
                 /\ ~(isSimple(plan) /\ plan.steps[1].device = Cpu)

\* The callback is told a status, and tells the client a result code.
Notifies(code) == Ends(convertErrorStatusToResultCode(convertResultCodeToErrorStatus(code)))

NextError(code) ==
    IF allowFallback /\ ~MissedDeadline(code)
    THEN pc' = "full fallback" /\ UNCHANGED result
    ELSE Notifies(code)

AtStep(kind) == /\ pc = "next" /\ mNextStepIndex \in DOMAIN plan.steps
                /\ Step.kind = kind

NextFails ==
    /\ pc = "next" /\ mNextStepIndex = kBadStepIndex
    /\ NextError("OP_FAILED")
    /\ UNCHANGED <<given, plan, indexVars, mapVars, loopVars, memory>>

NextIsTheEnd ==
    /\ pc = "next" /\ mNextStepIndex = Len(plan.steps) + 1
    /\ Notifies("NO_ERROR")
    /\ mNextStepIndex' = kBadStepIndex
    /\ UNCHANGED <<given, plan, mFallbackNextStepIndex, mapVars, loopVars, memory>>

\* A step model is an executor when all its inputs and outputs are mapped.
Mapped(step) ==
    step.kind = "execute" =>
        /\ Nowhere \notin InputLocations(plan, maps, step)
        /\ \A o \in stepModelOutputs(plan, step) : OutputLocation(maps, step, o) # Nowhere

Checks(condition) == pc' = IF condition THEN pc ELSE "aborted"

NextExecution ==
    /\ AtStep("execute") \/ AtStep("simple")
    /\ pc' = IF Mapped(Step) THEN "compute" ELSE "aborted"
    /\ mFallbackNextStepIndex' = mNextStepIndex
    /\ mNextStepIndex' = mNextStepIndex + 1
    /\ UNCHANGED <<given, result, plan, mapVars, loopVars, memory>>

NextGoto ==
    /\ AtStep("goto")
    /\ mNextStepIndex' = Step.to
    /\ UNCHANGED <<given, pc, result, plan, mFallbackNextStepIndex, mapVars, loopVars, memory>>

\* getBuffer may fail to find a memory of the client, or one with constants, mapped.
MayBeUnmapped(x) == At(maps, InputKinds, x).place \in {"input", "output", "constant"}

\* readConditionValue of an IF fails.  (That of a loop reads a temporary, which is there.)
NextIfFails ==
    /\ AtStep("if") /\ MayBeUnmapped(Step.cond)
    /\ NextError("OP_FAILED")
    /\ UNCHANGED <<given, plan, indexVars, mapVars, loopVars, memory>>

NextIf ==
    /\ AtStep("if")
    /\ LET branch == IF Holds(given, ReadAt(Step.cond)) THEN 1 ELSE 2
           c == setInputs(maps, Step.outerIns, Step.ins[branch]) IN
       /\ mNextStepIndex' = Step.steps[branch]
       /\ SetMaps(setOutputs(c, Step.outerOuts, Step.outs[branch]))
       /\ Checks(/\ CanSetInputs(maps, Step.outerIns, Step.ins[branch])
                 /\ CanSetOutputs(c, Step.outerOuts, Step.outs[branch]))
    /\ UNCHANGED <<given, result, plan, mFallbackNextStepIndex, loopVars, memory>>

State == mWhileState[mNextStepIndex]
AtStage(stage) == AtStep("while") /\ State.stage = stage
SetState(stage, iteration) ==
    mWhileState' = [mWhileState EXCEPT ![mNextStepIndex] =
                        [stage |-> stage, iteration |-> iteration]]

\* The clock of a loop is started in its first iteration.
EachTime(iteration) == TRUE
StartsClock(iteration) == iteration = "first"

WhileCondition ==
    /\ AtStage("condition")
    /\ LET iteration == IF State.iteration = kOutsideLoop THEN "first" ELSE "later"
           FromBody(i) == iteration = "later" /\ i \in DOMAIN Step.bodyOuts
           outers == [i \in DOMAIN Step.condIns |->
                          IF FromBody(i) THEN Step.bodyOuts[i] ELSE Step.outerIns[i]] IN
       /\ late' = IF StartsClock(iteration) THEN late \ {mNextStepIndex} ELSE late
       /\ SetMaps(setInputs(maps, outers, Step.condIns))
       /\ Checks(/\ Len(Step.condIns) = Len(Step.outerIns)
                 /\ Len(Step.condIns) >= Len(Step.bodyOuts)
                 /\ CanSetInputs(maps, outers, Step.condIns))
       /\ SetState("body", iteration)
    /\ mNextStepIndex' = Step.condStep
    /\ UNCHANGED <<given, result, plan, mFallbackNextStepIndex,
                   mSourceOperandToOffsetOfTemporary2, memory>>

LoopTimesOut ==
    /\ AtStage("body") /\ mNextStepIndex \in late
    /\ NextError("MISSED_DEADLINE_TRANSIENT")
    /\ UNCHANGED <<given, plan, indexVars, mapVars, loopVars, memory>>

\* Body outputs alternate between their two temporaries from the second iteration on.
Never(iteration) == FALSE
Swaps(iteration) == iteration # "first"

WhileBody ==
    LET outs == IF Swaps(State.iteration) THEN ToSet(Step.bodyOuts) ELSE {}
        c == setInputs(maps, Step.condIns, Step.bodyIns)
        one == c[1]
        two == mSourceOperandToOffsetOfTemporary2 IN
    /\ AtStage("body") /\ mNextStepIndex \notin late
    /\ Holds(given, ReadAt(Step.condOut))
    /\ SetMaps([c EXCEPT ![1] = [x \in DOMAIN one |-> IF x \in outs THEN two[x] ELSE one[x]]])
    /\ mSourceOperandToOffsetOfTemporary2' =
           [x \in DOMAIN two |-> IF x \in outs THEN one[x] ELSE two[x]]
    /\ Checks(/\ Len(Step.bodyIns) = Len(Step.outerIns)
              /\ Len(Step.bodyIns) >= Len(Step.bodyOuts)
              /\ Len(Step.bodyOuts) >= Len(Step.outerOuts)
              /\ CanSetInputs(maps, Step.condIns, Step.bodyIns)
              /\ outs \subseteq (DOMAIN one \cap DOMAIN two) \ (DOMAIN c[2] \cup DOMAIN c[3]))
    /\ SetState("condition", State.iteration)
    /\ mNextStepIndex' = Step.bodyStep
    /\ UNCHANGED <<given, result, plan, mFallbackNextStepIndex, late, memory>>

\* What a loop has computed is copied from the inputs of its condition to its outputs.
KeepsIteration(state) == state.iteration
AfterLoop(state) == kOutsideLoop

CopyTo(i) == At(maps, InputKinds, Step.outerOuts[i])
CopyFrom(i) == At(maps, InputKinds, Step.condIns[i])
Copied[i \in 0 .. Len(Step.outerOuts)] ==
    IF i = 0 THEN memory ELSE [Copied[i - 1] EXCEPT ![CopyTo(i)] = Copied[i - 1][CopyFrom(i)]]

WhileExit ==
    /\ AtStage("body") /\ mNextStepIndex \notin late
    /\ ~Holds(given, ReadAt(Step.condOut))
    /\ memory' = Copied[Len(Step.outerOuts)]
    /\ Checks(Len(Step.outerOuts) <= Len(Step.bodyOuts))
    /\ SetState("condition", AfterLoop(State))
    /\ mNextStepIndex' = Step.exitStep
    /\ UNCHANGED <<given, result, plan, mFallbackNextStepIndex, mapVars,
                   mSourceOperandToOffsetOfTemporary2, late>>

\* A value cannot be copied.  The loop has lost its step then, but not its state.
WhileExitFails ==
    /\ AtStage("body") /\ mNextStepIndex \notin late
    /\ ~Holds(given, ReadAt(Step.condOut))
    /\ Len(Step.outerOuts) <= Len(Step.bodyOuts)
    /\ \E i \in DOMAIN Step.outerOuts :
           /\ MayBeUnmapped(Step.outerOuts[i]) \/ MayBeUnmapped(Step.condIns[i])
           /\ memory' = Copied[i - 1]
    /\ NextError("OP_FAILED")
    /\ mNextStepIndex' = Step.exitStep
    /\ UNCHANGED <<given, plan, mFallbackNextStepIndex, mapVars, loopVars>>

\* Time passes in loops.
TimePasses(i) ==
    /\ pc \notin {"done", "aborted"}
    /\ i \in DOMAIN mWhileState /\ mWhileState[i].iteration # kOutsideLoop /\ i \notin late
    /\ late' = late \cup {i}
    /\ UNCHANGED <<given, pc, result, plan, indexVars, mapVars,
                   mSourceOperandToOffsetOfTemporary2, mWhileState, memory>>

-------------------------------------------------------------------------------
(* asyncStartComputePartitioned *)

Executing == plan.steps[mFallbackNextStepIndex]

\* The step model, or the whole model, and the operands of the plan that it has.
StepModel ==
    IF isSimple(plan) THEN given.model
    ELSE [plan.models[Executing.model] EXCEPT
              !.ops = Executing.ops,
              !.ins = SetToSeq(stepModelInputs(plan, Executing)),
              !.outs = SetToSeq(stepModelOutputs(plan, Executing))]
StepOperands(os) == Of(IF isSimple(plan) THEN 1 ELSE Executing.model, os)

\* A driver computes what the model means; how the CPU does is what CpuExecutor says.
Driven(m, args) ==
    LET outs == Meant(given, m, args)
    IN  [code |-> IF Endless \in Range(outs) THEN "MISSED_DEADLINE_TRANSIENT" ELSE "NO_ERROR",
         outs |-> outs]

StepResults(device) ==
    LET m == StepModel
        ins == StepOperands(m.ins)
        args == [i \in DOMAIN ins |-> ReadAt(ins[i])]
    IN  IF device = Cpu THEN OnCpu(given, m, args) ELSE Driven(m, args)
FullResults == OnCpu(given, given.model, [i \in DOMAIN given.model.ins |->
                                              ReadAt(<<1, given.model.ins[i]>>)])

\* Outcomes of an execution.  One that fails leaves anything in its outputs.
Outcomes(rs) == IF rs.code # "NO_ERROR" THEN {rs.code}
                ELSE {"NO_ERROR", "OP_FAILED", "OUTPUT_INSUFFICIENT_SIZE"}
Writing(outs, rs, code) ==
    LET ls == [i \in DOMAIN outs |-> At(maps, OutputKinds, outs[i])]
        Written(l) == IF code = "NO_ERROR" THEN rs.outs[CHOOSE i \in DOMAIN ls : ls[i] = l]
                      ELSE Garbage
    IN  memory' = [l \in DOMAIN memory |-> IF l \in Range(ls) THEN Written(l) ELSE memory[l]]

compute ==
    /\ pc = "compute"
    /\ LET rs == StepResults(Executing.device) IN
       \E code \in Outcomes(rs) :
        /\ Writing(StepOperands(StepModel.outs), rs, code)
        /\ CASE code = "NO_ERROR" -> pc' = "next" /\ UNCHANGED result
             [] code # "NO_ERROR" /\ (code = "OUTPUT_INSUFFICIENT_SIZE" \/ ~allowFallback)
                  -> Notifies(code)
             [] OTHER -> /\ pc' = IF Executing.device = Cpu THEN "full fallback"
                                  ELSE "partial fallback"
                         /\ UNCHANGED result
    /\ UNCHANGED <<given, plan, indexVars, mapVars, loopVars>>

\* ExecutionPlan::fallback goes back to the step, and its executor computes on the CPU.
cpuFallbackPartial ==
    /\ pc = "partial fallback"
    /\ LET rs == StepResults(Cpu) IN
       \E code \in Outcomes(rs) :
        /\ Writing(StepOperands(StepModel.outs), rs, code)
        /\ CASE code = "NO_ERROR" -> pc' = "next" /\ UNCHANGED result
             [] code # "NO_ERROR" /\ (code = "OUTPUT_INSUFFICIENT_SIZE" \/ isSimple(plan))
                  -> Notifies(code)
             [] OTHER -> pc' = "full fallback" /\ UNCHANGED result
    /\ mNextStepIndex' = mFallbackNextStepIndex + 1
    /\ UNCHANGED <<given, plan, mFallbackNextStepIndex, mapVars, loopVars>>

cpuFallbackFull ==
    /\ pc = "full fallback"
    /\ LET rs == FullResults IN
       \E code \in Outcomes(rs) : Writing(Of(1, given.model.outs), rs, code) /\ Notifies(code)
    /\ UNCHANGED <<given, plan, indexVars, mapVars, loopVars>>

-------------------------------------------------------------------------------
Runs == \/ build \/ finish \/ makeController
        \/ NextFails \/ NextIsTheEnd \/ NextExecution \/ NextGoto \/ NextIf
        \/ NextIfFails \/ WhileCondition \/ LoopTimesOut \/ WhileBody \/ WhileExit
        \/ WhileExitFails
        \/ compute \/ cpuFallbackPartial \/ cpuFallbackFull
Next == Runs \/ \E i \in DOMAIN mWhileState : TimePasses(i)

\* The thread runs until the execution is done: there are always more steps, of which only
\* finitely many between two of the thread are not its own.  (This is WF_vars(Runs) in a form
\* that does not make TLC find out whether Runs is enabled.)
ThreadRuns == []<>(pc \in {"done", "aborted"}) \/ []<><<TRUE>>_vars

\* The clock runs as well, for the loops among the first MaxPlan steps, which are all.
MaxPlan == 20
Spec == /\ Init /\ [][Next]_vars
        /\ ThreadRuns
        /\ \A i \in 1 .. MaxPlan : WF_vars(TimePasses(i))

-------------------------------------------------------------------------------
(* Properties *)

Places == {"build", "compile", "compiled", "next", "compute", "partial fallback",
           "full fallback", "done"}   \* and never "aborted"
Codes == {"none"} \cup {convertErrorStatusToResultCode(status) : status \in ErrorStatus}

IsLocated(x) == At(maps, InputKinds, x) # Nowhere

\* Types, among them that no CHECK fails, in a debug build neither: each operand of a step that
\* is reached has a location, each operand is in one map at most, and the outputs of a loop's
\* body keep their two temporaries (setInput, setOutput, nextCompound, mapInputsAndOutputs).
\* There is a condition to read and a value to copy, mapped or not, whenever getBuffer looks for
\* one.  At the end of the plan all loops have been left.
TypeOK ==
    /\ pc \in Places /\ result \in Codes
    /\ mNextStepIndex \in 0 .. Len(plan.steps) + 1
    /\ mFallbackNextStepIndex \in 0 .. Len(plan.steps)
    /\ \A i \in DOMAIN mWhileState :
           /\ mWhileState[i].stage \in {"condition", "body"}
           /\ mWhileState[i].iteration \in {kOutsideLoop, "first", "later"}
           /\ pc = "next" /\ mNextStepIndex = Len(plan.steps) + 1 =>
                  mWhileState[i] = [stage |-> "condition", iteration |-> kOutsideLoop]
    /\ late \subseteq DOMAIN mWhileState
    /\ AtStep("if") => IsLocated(Step.cond)
    /\ AtStage("body") =>
           /\ IsLocated(Step.condOut)
           /\ \A i \in DOMAIN Step.outerOuts : Nowhere \notin {CopyTo(i), CopyFrom(i)}

Meaning == Meant(given, given.model,
                 [i \in DOMAIN given.model.ins |-> Leaf(given.model.ins[i])])

\* An execution that succeeds has computed what the model says, however it was partitioned,
\* whichever step failed and was repeated, and whatever was left by an earlier step or an
\* earlier run of a loop (partitionTheWork, ExecutionPlan::next, the fallbacks).
ComputesTheModel ==
    pc = "done" /\ result = "NO_ERROR" =>
        \A i \in DOMAIN given.model.outs :
            memory[Location("output", <<1, given.model.outs[i]>>)] = Meaning[i]

\* No step writes where it reads, so that it can be executed again when it fails, and no two
\* of its outputs are in one place (double buffering, setInput, setOutput).  What the client
\* has put in and the constants stay, whichever operands have got their locations.
InputsDoNotAliasOutputs ==
    /\ pc \in {"compute", "partial fallback"} /\ Executing.kind = "execute" =>
        LET outs == stepModelOutputs(plan, Executing) IN
        /\ \A o \in outs :
               OutputLocation(maps, Executing, o) \notin InputLocations(plan, maps, Executing)
        /\ \A o, q \in outs :
               OutputLocation(maps, Executing, o) = OutputLocation(maps, Executing, q) => o = q
    /\ AtStage("body") => \A i, j \in DOMAIN Step.outerOuts : CopyTo(i) # CopyFrom(j)
    /\ \A l \in Initialized \cap DOMAIN memory : memory[l] = Named(l.for)

\* While the CPU executes, it uses no memory that it has freed and frees none twice, and when
\* it succeeds it has freed all that it allocated, however branches and loops are nested and
\* whatever is of unknown size (numberOfUsesLeft, the double buffering of loops and the sharing
\* of buffers between subgraphs).  When an operation fails, the memory of operands that are
\* still to be used is lost.
CpuFreesWhatItAllocates ==
    /\ pc \in {"compute", "partial fallback", "full fallback"}
    /\ pc = "compute" => Executing.device = Cpu
    => LET rs == IF pc = "full fallback" THEN FullResults ELSE StepResults(Cpu)
           left == {b.is : b \in Range(rs.heap)}
       IN  "corrupted" \notin left /\ (rs.code = "NO_ERROR" => "live" \notin left)

\* Every execution ends, of a loop that does not end as well: its timeout does it.
Terminates == <>(pc = "done")
===============================================================================
