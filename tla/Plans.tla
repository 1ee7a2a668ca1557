-------------------------------- MODULE Plans --------------------------------
(***************************************************************************)
(* The steps of an execution plan: what a step reads and writes, what the  *)
(* controller of an execution has to keep for it, and the shape that the   *)
(* steps of a model with control flow have, however the work was           *)
(* partitioned.                                                            *)
(*                                                                         *)
(* A referenced model gets an index of its own each time it is referenced, *)
(* and an operand of the plan is <<index of a model, operand of that       *)
(* model>>.  Steps are numbered from 1.  A step model is the sequence of   *)
(* the operations it is made of.  A step belongs to the model of which it  *)
(* has operations; IF and WHILE have the models that they reference.       *)
(***************************************************************************)
EXTENDS Models

CONSTANT Cpu   \* the device that is always there

Of(mi, os) == [i \in DOMAIN os |-> <<mi, os[i]>>]

StepsOf(p, kind) == {i \in DOMAIN p.steps : p.steps[i].kind = kind}
isSimple(p) == p.steps[1].kind = "simple"

Simple(g, device) == [code |-> "NO_ERROR", models |-> <<g.model>>,
                      steps |-> <<[kind |-> "simple", device |-> device]>>]

(* ExecutionStep and CompoundBody *)

Reads(step) == UNION {ToSet(op.ins) : op \in ToSet(step.ops)}
Writes(step) == UNION {ToSet(op.outs) : op \in ToSet(step.ops)}

stepModelInputs(p, step) ==
    {o \in Reads(step) \ Writes(step) : o \notin Constants(p.models[step.model])}

boundaryOperands(p) ==
    UNION ({{p.steps[i].cond} \cup ToSet(p.steps[i].outerIns) : i \in StepsOf(p, "if")}
           \cup {ToSet(p.steps[i].outerIns) : i \in StepsOf(p, "while")})

\* What another step has to provide.
readBySteps(p) ==
    UNION {{<<p.steps[i].model, o>> : o \in stepModelInputs(p, p.steps[i])} :
               i \in StepsOf(p, "execute")}
readByOthers(p) == readBySteps(p) \cup boundaryOperands(p)

tempsAsStepModelOutputs(p, step) ==
    {o \in Writes(step) : /\ Lifetime(p.models[step.model], o) = "TEMPORARY_VARIABLE"
                          /\ <<step.model, o>> \in readByOthers(p)}

stepModelOutputs(p, step) ==
    {o \in Writes(step) : Lifetime(p.models[step.model], o) = "SUBGRAPH_OUTPUT"}
    \cup tempsAsStepModelOutputs(p, step)

hasStepModelOutputOfUnknownSize(g, p) ==
    \E i \in StepsOf(p, "execute") : tempsAsStepModelOutputs(p, p.steps[i]) \cap g.unknown # {}

LifetimeOf(p, x) == Lifetime(p.models[x[1]], x[2])

findControlFlowBoundaryConstants(p, lifetime) ==
    {x \in boundaryOperands(p) : LifetimeOf(p, x) = lifetime}

(* What ExecutionPlan::makeController allocates in the memory for temporaries *)

WhileSteps(p) == {p.steps[i] : i \in StepsOf(p, "while")}
ControlSteps(p) == WhileSteps(p) \cup {p.steps[i] : i \in StepsOf(p, "if")}

BodyOutputs(p) == UNION {ToSet(step.bodyOuts) : step \in WhileSteps(p)}

OnlyOfSteps(p) ==
    UNION {{<<p.steps[i].model, o>> : o \in tempsAsStepModelOutputs(p, p.steps[i])} :
               i \in StepsOf(p, "execute")}
OfControlFlow(p) ==
    {x \in UNION {ToSet(step.outerOuts) : step \in ControlSteps(p)} :
         LifetimeOf(p, x) = "TEMPORARY_VARIABLE"}

Temporaries(p) == OnlyOfSteps(p) \cup OfControlFlow(p) \cup BodyOutputs(p)
                  \cup {step.condOut : step \in WhileSteps(p)}

-------------------------------------------------------------------------------
(* The shape of a plan.  The steps of a referenced model are in one piece, its extent, with  *)
(* the goto behind it.  A model is active while one of its steps is reached, or one of a     *)
(* model that it references.                                                                 *)

Extent(p, step, b) ==
    CASE step.kind = "while" /\ b = 1 -> step.condStep .. step.bodyStep - 1
      [] step.kind = "while" /\ b = 2 -> step.bodyStep .. step.exitStep - 1
      [] step.kind = "if" /\ b = 1    -> step.steps[1] .. step.steps[2] - 1
      [] step.kind = "if" /\ b = 2    -> step.steps[2] .. p.steps[step.steps[2] - 1].to - 1

Active(p, i) ==
    {1} \cup UNION {{step.models[b] : b \in {a \in {1, 2} : i \in Extent(p, step, a)}} :
                         step \in ControlSteps(p)}

\* From step i on to step j, out of models perhaps, but out of a loop to its WHILE only.
IsJump(p, i, j) ==
    /\ j \in 1 .. Len(p.steps) + 1
    /\ Active(p, j) \subseteq Active(p, i)
    /\ \A s \in StepsOf(p, "while"), b \in {1, 2} :
           p.steps[s].models[b] \in Active(p, i) \ Active(p, j) => j = s

\* From step i, an IF or WHILE, into its model m, one of those that are numbered later than
\* the model to which the step belongs, and than the body if that model is a condition.
IsEntry(p, i, m, j) ==
    /\ j \in DOMAIN p.steps
    /\ m \in DOMAIN p.models \ Active(p, i)
    /\ Active(p, j) = Active(p, i) \cup {m}
    /\ p.steps[i].model < m
    /\ \A step \in WhileSteps(p), b \in {1, 2} :
           p.steps[i].model = step.models[b] => step.models[2] < m

\* Lists of operands of model k.
AreOf(k, xs) == IsSequence(xs) /\ \A i \in DOMAIN xs : xs[i] = <<k, xs[i][2]>>

\* What a step gets as inputs: a temporary among these has been provided.
AreProvided(p, xs) ==
    \A x \in xs : LifetimeOf(p, x) = "TEMPORARY_VARIABLE" => x \in Temporaries(p)

AreArguments(p, k, outerIns, outerOuts) ==
    /\ AreOf(k, outerIns) /\ AreProvided(p, ToSet(outerIns))
    /\ AreOf(k, outerOuts) /\ IsInjective(outerOuts)
    /\ \A x \in ToSet(outerOuts) :
           LifetimeOf(p, x) \in {"SUBGRAPH_OUTPUT", "TEMPORARY_VARIABLE"}
    /\ ToSet(outerIns) \cap ToSet(outerOuts) = {}

IsExecution(p, i) ==
    LET step == p.steps[i] IN
    /\ step.model \in Active(p, i) /\ IsJump(p, i, i + 1)
    /\ IsFiniteSet(Writes(step))
    /\ AreProvided(p, {<<step.model, o>> : o \in stepModelInputs(p, step)})

IsIf(p, i) ==
    LET step == p.steps[i] IN
    /\ step.model \in Active(p, i)
    /\ AreArguments(p, step.model, step.outerIns, step.outerOuts)
    /\ step.cond = <<step.model, step.cond[2]>> /\ AreProvided(p, {step.cond})
    /\ \A b \in {1, 2} :
           /\ IsEntry(p, i, step.models[b], step.steps[b])
           /\ step.ins[b] = Of(step.models[b], p.models[step.models[b]].ins)
           /\ step.outs[b] = Of(step.models[b], p.models[step.models[b]].outs)
           /\ Len(step.ins[b]) = Len(step.outerIns) /\ Len(step.outs[b]) = Len(step.outerOuts)

\* A loop is not left as long as its models are active.
IsWhile(p, i) ==
    LET step == p.steps[i]
        cond == p.models[step.models[1]]
        body == p.models[step.models[2]] IN
    /\ step.model \in Active(p, i)
    /\ AreArguments(p, step.model, step.outerIns, step.outerOuts)
    /\ IsEntry(p, i, step.models[1], step.condStep) /\ IsEntry(p, i, step.models[2], step.bodyStep)
    /\ IsJump(p, i, step.exitStep)
    /\ step.models[1] < step.models[2]
    /\ step.condIns = Of(step.models[1], cond.ins)
    /\ Len(cond.outs) = 1 /\ step.condOut = <<step.models[1], cond.outs[1]>>
    /\ step.bodyIns = Of(step.models[2], body.ins) /\ step.bodyOuts = Of(step.models[2], body.outs)
    /\ Len(step.condIns) = Len(step.outerIns) /\ Len(step.bodyIns) = Len(step.outerIns)
    /\ Len(step.bodyOuts) <= Len(step.outerIns)
    /\ Len(step.outerOuts) <= Len(step.bodyOuts)
    /\ \A j \in 1 .. Len(p.steps) + 1, b \in {1, 2} :
           step.models[b] \in Active(p, j) => step.model \in Active(p, j)

IsStep(p, i) ==
    CASE p.steps[i].kind = "execute" -> IsExecution(p, i)
      [] p.steps[i].kind = "goto"    -> IsJump(p, i, p.steps[i].to)
      [] p.steps[i].kind = "if"      -> IsIf(p, i)
      [] p.steps[i].kind = "while"   -> IsWhile(p, i)
      [] p.steps[i].kind = "simple"  -> Len(p.steps) = 1 /\ IsJump(p, i, i + 1)

IsReferencedOnce(p) ==
    \A s, t \in StepsOf(p, "while") \cup StepsOf(p, "if"), a, b \in {1, 2} :
        /\ p.steps[s].models[a] # 1
        /\ p.steps[s].models[a] = p.steps[t].models[b] => s = t /\ a = b

IsPlan(g, p) ==
    /\ IsSequence(p.models) /\ IsSequence(p.steps) /\ Len(p.steps) > 0 /\ Len(p.models) > 0
    /\ p.models[1] = g.model
    /\ \A k \in DOMAIN p.models : IsModel(p.models[k])
    /\ \A i \in DOMAIN p.steps :
           /\ p.steps[i].kind \in {"execute", "simple", "goto", "if", "while"}
           /\ IsStep(p, i)
    /\ IsReferencedOnce(p)
    /\ Active(p, 1) = {1} /\ Active(p, Len(p.steps) + 1) = {1}
===============================================================================
