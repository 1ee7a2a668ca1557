-------------------------- MODULE ExecutionPlanProof --------------------------
(***************************************************************************)
(* Proofs about ExecutionPlan, for any models, devices and ways to         *)
(* partition that give plans (PlansAssumption): the invariant of an        *)
(* execution, action by action, what can be written and what is only read, *)
(* and that no CHECK fails, no step writes where it reads, and arguments   *)
(* and constants stay.                                                     *)
(***************************************************************************)
EXTENDS ExecutionPlanMaps, FiniteSetTheorems

-------------------------------------------------------------------------------
(* The inductive invariant *)

\* The step at which the execution is, or which has to be repeated.
Here == IF pc \in {"compute", "partial fallback"} THEN mFallbackNextStepIndex ELSE mNextStepIndex

\* It is executing steps of a plan; it has a plan.
Running == pc \in {"next", "compute", "partial fallback"} /\ Here # kBadStepIndex
Ready == pc \in {"compiled", "next", "compute", "partial fallback"}

\* Types, and what is true before and after there is a plan.
Loops == [stage : Stages, iteration : Iterations]

Ranges ==
    /\ pc \in Places /\ result \in Codes
    /\ Len(plan.steps) \in Nat
    /\ mNextStepIndex \in 0 .. Len(plan.steps) + 1
    /\ mFallbackNextStepIndex \in 0 .. Len(plan.steps)
    /\ \A i \in DOMAIN mWhileState : mWhileState[i] \in Loops
    /\ late \subseteq DOMAIN mWhileState

Early ==
    /\ pc = "build" => given \in Instances
    /\ pc = "compile" => \E h \in Instances : IsBuilt(h) /\ given = Built(h)
    /\ pc \in {"build", "compile", "compiled"} =>
           /\ mNextStepIndex = 1 /\ mFallbackNextStepIndex = 0
           /\ mWhileState = <<>> /\ late = {}

Steps ==
    /\ Ready => IsPlan(given, plan)
    /\ pc = "compute" => mNextStepIndex = mFallbackNextStepIndex + 1
    /\ pc \in {"compute", "partial fallback"} =>
           /\ mFallbackNextStepIndex \in DOMAIN plan.steps
           /\ Executing.kind \in {"execute", "simple"}

\* While it is executing steps, operands are where they should be.
Maps == RunInv(plan, Here, maps, mSourceOperandToOffsetOfTemporary2, mWhileState)

Inv == Ranges /\ Early /\ Steps /\ (Running => Maps)

\* Result codes of an execution come from error statuses.
LEMMA CodesAre ==
    /\ \A code : convertErrorStatusToResultCode(convertResultCodeToErrorStatus(code)) \in Codes
    /\ "none" \in Codes /\ "BAD_DATA" \in Codes /\ "OP_FAILED" \in Codes
<1>1. ASSUME NEW code
      PROVE  convertErrorStatusToResultCode(convertResultCodeToErrorStatus(code)) \in Codes
  <2>1. convertResultCodeToErrorStatus(code) \in ErrorStatus
    BY DEF convertResultCodeToErrorStatus, ErrorStatus
  <2> QED BY <2>1 DEF Codes
<1>2. /\ "INVALID_ARGUMENT" \in ErrorStatus /\ "GENERAL_FAILURE" \in ErrorStatus
      /\ convertErrorStatusToResultCode("INVALID_ARGUMENT") = "BAD_DATA"
      /\ convertErrorStatusToResultCode("GENERAL_FAILURE") = "OP_FAILED"
  BY DEF ErrorStatus, convertErrorStatusToResultCode, SharedName
<1>3. "BAD_DATA" \in Codes /\ "OP_FAILED" \in Codes BY <1>2 DEF Codes
<1>4. "none" \in Codes BY DEF Codes
<1> QED BY <1>1, <1>3, <1>4

\* A callback that is told a code ends the execution with a result code.
LEMMA NotifiesIs ==
    ASSUME NEW code, Notifies(code)
    PROVE  pc' = "done" /\ result' \in Codes
BY CodesAre DEF Notifies, Ends

\* After an error in next the execution ends, or the CPU repeats the whole.
LEMMA NextErrorIs ==
    ASSUME NEW code, NextError(code), result \in Codes
    PROVE  pc' \in {"done", "full fallback"} /\ result' \in Codes
<1>1. CASE allowFallback /\ ~MissedDeadline(code)
  <2>1. pc' = "full fallback" /\ result' = result BY <1>1, Zenon DEF NextError
  <2> QED BY <2>1
<1>2. CASE ~(allowFallback /\ ~MissedDeadline(code))
  <2>1. Notifies(code) BY <1>2, Zenon DEF NextError
  <2> QED BY <2>1, NotifiesIs
<1> QED BY <1>1, <1>2

\* The execution is done with the plan.
LEMMA Stops ==
    ASSUME Inv, pc' \in {"done", "full fallback"}, result' \in Codes,
           UNCHANGED <<plan, mFallbackNextStepIndex, mWhileState, late>>,
           mNextStepIndex' \in 0 .. Len(plan.steps) + 1
    PROVE  Inv'
<1>1. Ranges'
  <2>1. Ranges BY DEF Inv
  <2>2. pc' \in Places BY DEF Places
  <2> QED BY <2>1, <2>2 DEF Ranges
<1>2. Early' /\ Steps' /\ ~Running' BY DEF Early, Steps, Ready, Running
<1> QED BY <1>1, <1>2 DEF Inv

\* The execution goes on with a step, or fails because there is no step.
LEMMA Goes ==
    ASSUME Inv, pc' = "next", UNCHANGED <<given, result, plan>>, IsPlan(given, plan),
           mNextStepIndex' \in 0 .. Len(plan.steps) + 1,
           UNCHANGED mFallbackNextStepIndex,
           \A i \in DOMAIN mWhileState' : mWhileState'[i] \in Loops,
           late' \subseteq DOMAIN mWhileState',
           RunInv(plan, mNextStepIndex', maps', mSourceOperandToOffsetOfTemporary2', mWhileState')
               \/ mNextStepIndex' = kBadStepIndex
    PROVE  Inv'
<1>1. Ranges'
  <2>1. Ranges BY DEF Inv
  <2>2. pc' \in Places BY DEF Places
  <2> QED BY <2>1, <2>2 DEF Ranges
<1>2. Early' BY DEF Early
<1>3. Steps' BY DEF Steps
<1>4. Here' = mNextStepIndex' BY DEF Here
<1>5. Running' => Maps' BY <1>4 DEF Running, Maps
<1> QED BY <1>1, <1>2, <1>3, <1>5 DEF Inv

-------------------------------------------------------------------------------
(* The invariant, action by action: up to the first step *)

\* The invariant holds at first.
LEMMA InitOK == Init => Inv
<1> SUFFICES ASSUME Init PROVE Inv
  OBVIOUS
<1> USE DEF Init
<1>1. plan.steps = <<>> /\ Len(plan.steps) = 0 OBVIOUS
<1>2. DOMAIN mWhileState = {} OBVIOUS
<1>3. Ranges BY <1>1, <1>2, CodesAre DEF Ranges, Places, kBadStepIndex
<1>4. Early /\ Steps BY DEF Early, Steps, Ready, kBadStepIndex
<1>5. ~Running BY DEF Running
<1> QED BY <1>3, <1>4, <1>5 DEF Inv

\* ModelBuilder::finish.
LEMMA BuildOK == Inv /\ build => Inv'
<1> SUFFICES ASSUME Inv, build PROVE Inv'
  OBVIOUS
<1>1. /\ pc = "build" /\ given' = Built(given)
      /\ UNCHANGED <<plan, indexVars, mapVars, loopVars, memory>>
      /\ \/ IsBuilt(given) /\ pc' = "compile" /\ result' = result
         \/ pc' = "done" /\ result' = "BAD_DATA"
  BY Zenon DEF build, Ends
<1>2. UNCHANGED <<plan, mNextStepIndex, mFallbackNextStepIndex, mWhileState, late>>
  BY <1>1 DEF indexVars, loopVars
<1>3. Ranges /\ Early /\ given \in Instances BY <1>1 DEF Inv, Early
<1>4. CASE IsBuilt(given) /\ pc' = "compile" /\ result' = result
  <2>1. Ranges' BY <1>2, <1>3, <1>4 DEF Ranges, Places
  <2>2. Early'
    <3>1. \E h \in Instances : IsBuilt(h) /\ given' = Built(h) BY <1>1, <1>3, <1>4
    <3> QED BY <1>1, <1>2, <1>3, <1>4, <3>1 DEF Early
  <2>3. Steps' /\ ~Running' BY <1>4 DEF Steps, Ready, Running
  <2> QED BY <2>1, <2>2, <2>3 DEF Inv
<1>5. CASE pc' = "done" /\ result' = "BAD_DATA"
  <2>1. mNextStepIndex' \in 0 .. Len(plan.steps) + 1 BY <1>2, <1>3 DEF Ranges
  <2> QED BY <1>2, <1>5, <2>1, CodesAre, Stops
<1> QED BY <1>1, <1>4, <1>5

\* CompilationBuilder::finish: whatever it ends with has the shape of a plan.
LEMMA FinishOK == Inv /\ finish => Inv'
<1> SUFFICES ASSUME Inv, finish PROVE Inv'
  OBVIOUS
<1>1. pc = "compile" /\ UNCHANGED <<given, indexVars, mapVars, loopVars, memory>>
  BY DEF finish
<1>2. UNCHANGED <<given, mNextStepIndex, mFallbackNextStepIndex, mWhileState, late>>
  BY <1>1 DEF indexVars, loopVars
<1>3. PICK h \in Instances : IsBuilt(h) /\ given = Built(h) BY <1>1 DEF Inv, Early
<1>4. /\ Partition(given).code \in {"NO_ERROR", "BAD_DATA"}
      /\ Partition(given).code = "NO_ERROR" => IsPlan(given, Partition(given))
      /\ IsPlan(given, Simple(given, Cpu))
  BY <1>3, PlansAssumption
<1>5. Ranges /\ Early BY DEF Inv
<1>6. \A code : code \in FinishPlan(Partition(given)) =>
          /\ code \in {"NO_ERROR", "BAD_DATA", "OP_FAILED"}
          /\ code = "NO_ERROR" => Partition(given).code = "NO_ERROR"
  BY <1>4 DEF FinishPlan
<1>7. \/ /\ IsPlan(given, plan') /\ pc' = "compiled" /\ result' = result
      \/ pc' = "done" /\ result' \in Codes /\ plan' = plan
  <2>1. PICK code \in IF given.partitioning = "no" THEN {"OP_FAILED"}
                      ELSE FinishPlan(Partition(given)) :
            IF code = "NO_ERROR"
            THEN plan' = Partition(given) /\ pc' = "compiled" /\ UNCHANGED result
            ELSE IF \/ code = "BAD_DATA"
                    \/ given.partitioning = "without fallback"
                    \/ given.partitioning # "no" /\ hasVendorOperation(given.model)
                 THEN Ends(code) /\ UNCHANGED plan
                 ELSE plan' = Simple(given, Cpu) /\ pc' = "compiled" /\ UNCHANGED result
    BY Zenon DEF finish
  <2>2. /\ code \in {"NO_ERROR", "BAD_DATA", "OP_FAILED"}
        /\ code = "NO_ERROR" => IsPlan(given, Partition(given))
    BY <1>4, <1>6, <2>1
  <2>3. \/ code = "NO_ERROR" /\ plan' = Partition(given) /\ pc' = "compiled" /\ UNCHANGED result
        \/ code # "NO_ERROR" /\ Ends(code) /\ UNCHANGED plan
        \/ plan' = Simple(given, Cpu) /\ pc' = "compiled" /\ UNCHANGED result
    BY <2>1, Zenon
  <2> QED BY <1>4, <2>2, <2>3, CodesAre DEF Ends
<1>8. CASE IsPlan(given, plan') /\ pc' = "compiled" /\ result' = result
  <2>1. Len(plan'.steps) \in Nat /\ mNextStepIndex = 1 /\ mFallbackNextStepIndex = 0
    BY <1>1, <1>5, <1>8, PlanIs DEF Early
  <2>2. Ranges'
    <3>1. pc' \in Places /\ result' \in Codes BY <1>5, <1>8 DEF Ranges, Places
    <3>2. /\ mNextStepIndex' \in 0 .. Len(plan'.steps) + 1
          /\ mFallbackNextStepIndex' \in 0 .. Len(plan'.steps)
      BY <1>2, <2>1
    <3> QED BY <1>2, <1>5, <2>1, <3>1, <3>2 DEF Ranges
  <2>3. Early' BY <1>1, <1>2, <1>5, <1>8 DEF Early
  <2>4. Steps' /\ ~Running'
    <3>1. pc' \notin {"next", "compute", "partial fallback"} BY <1>8
    <3> QED BY <1>2, <1>8, <3>1 DEF Steps, Running
  <2> QED BY <2>2, <2>3, <2>4 DEF Inv
<1>9. CASE pc' = "done" /\ result' \in Codes /\ plan' = plan
  <2>1. mNextStepIndex' \in 0 .. Len(plan.steps) + 1 BY <1>2, <1>5 DEF Ranges
  <2> QED BY <1>2, <1>9, <2>1, Stops
<1> QED BY <1>7, <1>8, <1>9

\* An operand is found in the map that has it.
LEMMA FoundIn ==
    ASSUME NEW c, AreDisjoint(c), NEW k \in InputKinds, NEW x, x \in DOMAIN c[k]
    PROVE  In(c, x) = c[k][x]
<1>1. InputKinds \in SUBSET Kinds BY KindsAre
<1> QED BY <1>1, FoundOnce DEF In

\* Where the controller puts operands at first: each is in one map.
LEMMA Begins ==
    ASSUME NEW g, NEW p, IsPlan(g, p), NEW loops, DOMAIN loops = StepsOf(p, "while"),
           \A i \in StepsOf(p, "while") :
               loops[i] = [stage |-> "condition", iteration |-> kOutsideLoop]
    PROVE  RunInv(p, 1, <<Locate("temporary", Temporaries(p) \cup CopiesOf(p)),
                          Locate("input", Ins(p, 1)), Locate("output", Outs(p, 1)),
                          Locate("constant", ReferencesOf(p))>>,
                  Locate("second temporary", BodyOutputs(p)), loops)
<1> DEFINE c1 == Locate("temporary", Temporaries(p) \cup CopiesOf(p))
           c2 == Locate("input", Ins(p, 1))
           c3 == Locate("output", Outs(p, 1))
           c4 == Locate("constant", ReferencesOf(p))
           c == <<c1, c2, c3, c4>>
           two == Locate("second temporary", BodyOutputs(p))
<1>1. /\ DOMAIN c1 = Temporaries(p) \cup CopiesOf(p)
      /\ \A x \in DOMAIN c1 : c1[x] = Location("temporary", x)
      /\ DOMAIN c2 = Ins(p, 1) /\ \A x \in DOMAIN c2 : c2[x] = Location("input", x)
      /\ DOMAIN c3 = Outs(p, 1) /\ \A x \in DOMAIN c3 : c3[x] = Location("output", x)
      /\ DOMAIN c4 = ReferencesOf(p) /\ \A x \in DOMAIN c4 : c4[x] = Location("constant", x)
      /\ DOMAIN two = BodyOutputs(p)
      /\ \A x \in DOMAIN two : two[x] = Location("second temporary", x)
  BY Zenon DEF Locate
<1> HIDE DEF c1, c2, c3, c4, two
<1>2. /\ c[1] = c1 /\ c[2] = c2 /\ c[3] = c3 /\ c[4] = c4 /\ DOMAIN c = Kinds
      /\ Kinds = {1, 2, 3, 4} /\ InputKinds = {1, 2, 3, 4}
  BY KindsAre
<1> HIDE DEF c
<1>3. 1 \in DOMAIN p.models /\ Active(p, 1) = {1} BY PlanIs
<1>4. AreDisjoint(c)
  <2>1. /\ \A x \in Ins(p, 1) : LifetimeOf(p, x) = "SUBGRAPH_INPUT" /\ x = <<1, x[2]>>
        /\ \A x \in Outs(p, 1) : LifetimeOf(p, x) = "SUBGRAPH_OUTPUT" /\ x = <<1, x[2]>>
        /\ \A x \in CopiesOf(p) : LifetimeOf(p, x) = "CONSTANT_COPY"
        /\ \A x \in ReferencesOf(p) : LifetimeOf(p, x) = "CONSTANT_REFERENCE"
    BY <1>3, OperandsAre DEF CopiesOf, ReferencesOf, findControlFlowBoundaryConstants
  <2>2. \A x \in Temporaries(p) : LifetimeOf(p, x) \in Writable
    BY TemporariesAre DEF Writable
  <2>3. ASSUME NEW x \in Temporaries(p), x \in Outs(p, 1) PROVE FALSE
    <3>1. LifetimeOf(p, x) = "SUBGRAPH_OUTPUT" /\ x = <<1, x[2]>> BY <2>1, <2>3
    <3>2. PICK s \in StepsOf(p, "while"), b \in {1, 2} : x \in Outs(p, p.steps[s].models[b])
      BY <3>1, TemporariesAre
    <3>3. p.steps[s].models[b] \in DOMAIN p.models /\ p.steps[s].models[b] # 1
      BY ReferencedAre
    <3> QED BY <1>3, <3>1, <3>2, <3>3, OtherModels
  <2>4. /\ DOMAIN c1 \cap DOMAIN c2 = {} /\ DOMAIN c1 \cap DOMAIN c3 = {}
        /\ DOMAIN c1 \cap DOMAIN c4 = {} /\ DOMAIN c2 \cap DOMAIN c3 = {}
        /\ DOMAIN c2 \cap DOMAIN c4 = {} /\ DOMAIN c3 \cap DOMAIN c4 = {}
    BY <1>1, <2>1, <2>2, <2>3 DEF Writable
  <2> QED BY <1>2, <2>4 DEF AreDisjoint
<1>5. AreMaps(p, c)
  <2>1. Ins(p, 1) \subseteq Inputs(p) BY <1>3 DEF Inputs
  <2> QED BY <1>1, <1>2, <1>4, <2>1 DEF AreMaps
<1>6. IsPermanent(p, c, two)
  <2>1. BodyOutputs(p) \subseteq Temporaries(p) BY BodyOutputsAre
  <2>2. ASSUME NEW x \in (Temporaries(p) \ BodyOutputs(p)) \cup CopiesOf(p)
        PROVE  x \in DOMAIN c[1] /\ c[1][x] = Location("temporary", x)
    BY <1>1, <1>2
  <2>3. ASSUME NEW x \in ReferencesOf(p)
        PROVE  x \in DOMAIN c[4] /\ c[4][x] = Location("constant", x)
    BY <1>1, <1>2
  <2>4. ASSUME NEW x \in BodyOutputs(p)
        PROVE  /\ x \in DOMAIN c[1] /\ x \in DOMAIN two
               /\ c[1][x] = Location("temporary", x) /\ two[x] = Location("second temporary", x)
    BY <1>1, <1>2, <2>1
  <2> QED BY <2>2, <2>3, <2>4, Zenon DEF IsPermanent
<1>7. IsSound(p, c, 1)
  <2>1. /\ \A x \in Ins(p, 1) : In(c, x) = Location("input", x) /\ x = <<1, x[2]>>
        /\ \A x \in Outs(p, 1) : In(c, x) = Location("output", x) /\ x = <<1, x[2]>>
    <3>1. InputKinds \in SUBSET Kinds /\ 2 \in InputKinds /\ 3 \in InputKinds BY KindsAre
    <3>2. ASSUME NEW x \in Ins(p, 1) PROVE In(c, x) = Location("input", x)
      <4>1. x \in DOMAIN c[2] /\ c[2][x] = Location("input", x) BY <1>1, <1>2
      <4> QED BY <1>4, <3>1, <4>1, FoundIn
    <3>3. ASSUME NEW x \in Outs(p, 1) PROVE In(c, x) = Location("output", x)
      <4>1. x \in DOMAIN c[3] /\ c[3][x] = Location("output", x) BY <1>1, <1>2
      <4>2. In(c, x) = c[3][x] BY <1>4, <3>1, <4>1, FoundIn
      <4> QED BY <4>1, <4>2
    <3>4. /\ \A x \in Ins(p, 1) : x = <<1, x[2]>>
          /\ \A x \in Outs(p, 1) : x = <<1, x[2]>>
      BY <1>3, OperandsAre
    <3> QED BY <3>2, <3>3, <3>4
  <2>2. \A x \in Operands(p, 1) : In(c, x) # Nowhere /\ In(c, x).for = x /\ x[1] = 1
    BY <2>1, LocationIs DEF Operands
  <2>3. NotLater(p, 1, 1) BY DEF NotLater
  <2>4. Outs(p, 1) \subseteq Operands(p, 1) BY DEF Operands
  <2> QED BY <2>2, <2>3, <2>4 DEF IsSound
<1>8. ASSUME NEW i \in StepsOf(p, "while")
      PROVE  HasCondition(c, p.steps[i], loops[i]) /\ IsInside(p, 1, i, loops[i])
  <2>1. loops[i].stage # "body" /\ loops[i].iteration = kOutsideLoop OBVIOUS
  <2> QED BY <2>1, Zenon DEF HasCondition, IsInside
<1>9. \A k \in Active(p, 1) : IsSound(p, c, k) BY <1>3, <1>7
<1>10. RunInv(p, 1, c, two, loops)
  BY <1>5, <1>6, <1>8, <1>9, Zenon DEF RunInv
<1> QED BY <1>10 DEF c, c1, c2, c3, c4, two

\* The maps after SetMaps.
LEMMA MapsAre ==
    ASSUME NEW d, SetMaps(d)
    PROVE  maps' = <<d[1], d[2], d[3], d[4]>>
BY DEF SetMaps, maps

\* The maps of steps that do not change them.
LEMMA MapsKept ==
    ASSUME UNCHANGED mapVars
    PROVE  maps' = maps
BY DEF mapVars, maps

\* ExecutionPlan::makeController.
LEMMA MakeControllerOK == Inv /\ makeController => Inv'
<1> SUFFICES ASSUME Inv, makeController PROVE Inv'
  OBVIOUS
<1>1. /\ pc = "compiled" /\ pc' = "next"
      /\ SetMaps(<<Locate("temporary", Temporaries(plan) \cup Copies),
                   Locate("input", MainInputs), Locate("output", MainOutputs),
                   Locate("constant", References)>>)
      /\ mSourceOperandToOffsetOfTemporary2' = Locate("second temporary", BodyOutputs(plan))
      /\ mWhileState' = [i \in StepsOf(plan, "while") |->
                             [stage |-> "condition", iteration |-> kOutsideLoop]]
      /\ mNextStepIndex' \in {1, kBadStepIndex}
      /\ UNCHANGED <<given, result, plan, mFallbackNextStepIndex, late>>
  BY Zenon DEF makeController
<1>2. IsPlan(given, plan) /\ late = {} BY <1>1 DEF Inv, Steps, Ready, Early
<1>3. /\ Copies = CopiesOf(plan) /\ References = ReferencesOf(plan)
      /\ MainInputs = Ins(plan, 1) /\ MainOutputs = Outs(plan, 1)
  <2>1. plan.models[1] = given.model BY <1>2, PlanIs
  <2> QED BY <2>1
          DEF Copies, References, MainInputs, MainOutputs, CopiesOf, ReferencesOf, Ins, Outs
<1>4. /\ DOMAIN mWhileState' = StepsOf(plan, "while")
      /\ \A i \in StepsOf(plan, "while") :
             mWhileState'[i] = [stage |-> "condition", iteration |-> kOutsideLoop]
  BY <1>1
<1>5. RunInv(plan, 1, maps', mSourceOperandToOffsetOfTemporary2', mWhileState')
  <2> DEFINE c == <<Locate("temporary", Temporaries(plan) \cup CopiesOf(plan)),
                    Locate("input", Ins(plan, 1)), Locate("output", Outs(plan, 1)),
                    Locate("constant", ReferencesOf(plan))>>
             two == Locate("second temporary", BodyOutputs(plan))
  <2>1. \A loops : /\ DOMAIN loops = StepsOf(plan, "while")
                   /\ \A i \in StepsOf(plan, "while") :
                          loops[i] = [stage |-> "condition", iteration |-> kOutsideLoop]
                   => RunInv(plan, 1, c, two, loops)
    BY <1>2, Begins
  <2>2. maps' = c
    <3>1. c[1] = Locate("temporary", Temporaries(plan) \cup CopiesOf(plan))
          /\ c[2] = Locate("input", Ins(plan, 1)) /\ c[3] = Locate("output", Outs(plan, 1))
          /\ c[4] = Locate("constant", ReferencesOf(plan))
      OBVIOUS
    <3>2. SetMaps(c) BY <1>1, <1>3
    <3>3. maps' = <<c[1], c[2], c[3], c[4]>>
      <4> HIDE DEF c
      <4> QED BY <3>2, MapsAre
    <3> QED BY <3>1, <3>3
  <2> HIDE DEF c, two
  <2>3. mSourceOperandToOffsetOfTemporary2' = two BY <1>1 DEF two
  <2> QED BY <1>4, <2>1, <2>2, <2>3
<1>6. mNextStepIndex' \in 0 .. Len(plan.steps) + 1
  <2>1. Len(plan.steps) \in Nat BY DEF Inv, Ranges
  <2>2. mNextStepIndex' = 1 \/ mNextStepIndex' = 0 BY <1>1, Zenon DEF kBadStepIndex
  <2> QED BY <2>1, <2>2
<1>7. /\ \A i \in DOMAIN mWhileState' : mWhileState'[i] \in Loops
      /\ late' \subseteq DOMAIN mWhileState'
  BY <1>1, <1>2, <1>4 DEF Loops, Stages, Iterations
<1>8. mNextStepIndex' = 1 \/ mNextStepIndex' = kBadStepIndex BY <1>1
<1> QED BY <1>1, <1>2, <1>5, <1>6, <1>7, <1>8, Goes

\* What is known when the execution is at a step.
LEMMA AtStepIs ==
    ASSUME Inv, NEW kind, AtStep(kind)
    PROVE  /\ IsPlan(given, plan) /\ mNextStepIndex \in StepsOf(plan, kind)
           /\ mNextStepIndex \in DOMAIN plan.steps
           /\ Len(plan.steps) \in Nat /\ DOMAIN plan.steps = 1 .. Len(plan.steps)
           /\ RunInv(plan, mNextStepIndex, maps, mSourceOperandToOffsetOfTemporary2, mWhileState)
           /\ Ranges
<1>1. pc = "next" /\ mNextStepIndex \in DOMAIN plan.steps /\ plan.steps[mNextStepIndex].kind = kind
  BY DEF AtStep, Step
<1>2. IsPlan(given, plan) BY <1>1 DEF Inv, Steps, Ready
<1>3. Len(plan.steps) \in Nat /\ DOMAIN plan.steps = 1 .. Len(plan.steps) BY <1>2, PlanIs
<1>4. Here = mNextStepIndex /\ Here # kBadStepIndex BY <1>1, <1>3 DEF Here, kBadStepIndex
<1>5. Maps BY <1>1, <1>4 DEF Inv, Running
<1>6. mNextStepIndex \in StepsOf(plan, kind) BY <1>1 DEF StepsOf
<1> QED BY <1>1, <1>2, <1>3, <1>4, <1>5, <1>6 DEF Maps, Inv

\* next without a step.
LEMMA NextFailsOK == Inv /\ NextFails => Inv'
<1> SUFFICES ASSUME Inv, NextFails PROVE Inv'
  OBVIOUS
<1>1. NextError("OP_FAILED") /\ UNCHANGED <<plan, indexVars, loopVars>> BY DEF NextFails
<1>2. Ranges BY DEF Inv
<1>3. pc' \in {"done", "full fallback"} /\ result' \in Codes
  BY <1>1, <1>2, NextErrorIs DEF Ranges
<1>4. UNCHANGED <<plan, mNextStepIndex, mFallbackNextStepIndex, mWhileState, late>>
  BY <1>1 DEF indexVars, loopVars
<1>5. mNextStepIndex' \in 0 .. Len(plan.steps) + 1 BY <1>2, <1>4 DEF Ranges
<1> QED BY <1>3, <1>4, <1>5, Stops

\* next at an IF whose condition cannot be read.
LEMMA NextIfFailsOK == Inv /\ NextIfFails => Inv'
<1> SUFFICES ASSUME Inv, NextIfFails PROVE Inv'
  OBVIOUS
<1>1. NextError("OP_FAILED") /\ UNCHANGED <<plan, indexVars, loopVars>> BY DEF NextIfFails
<1>2. Ranges BY DEF Inv
<1>3. pc' \in {"done", "full fallback"} /\ result' \in Codes
  BY <1>1, <1>2, NextErrorIs DEF Ranges
<1>4. UNCHANGED <<plan, mNextStepIndex, mFallbackNextStepIndex, mWhileState, late>>
  BY <1>1 DEF indexVars, loopVars
<1>5. mNextStepIndex' \in 0 .. Len(plan.steps) + 1 BY <1>2, <1>4 DEF Ranges
<1> QED BY <1>3, <1>4, <1>5, Stops

\* next at the end of the plan.
LEMMA NextIsTheEndOK == Inv /\ NextIsTheEnd => Inv'
<1> SUFFICES ASSUME Inv, NextIsTheEnd PROVE Inv'
  OBVIOUS
<1>1. /\ Notifies("NO_ERROR") /\ mNextStepIndex' = kBadStepIndex
      /\ UNCHANGED <<plan, mFallbackNextStepIndex, loopVars>>
  BY DEF NextIsTheEnd
<1>2. pc' = "done" /\ result' \in Codes BY <1>1, NotifiesIs
<1>3. UNCHANGED <<plan, mFallbackNextStepIndex, mWhileState, late>> BY <1>1 DEF loopVars
<1>4. mNextStepIndex' \in 0 .. Len(plan.steps) + 1 BY <1>1 DEF kBadStepIndex, Inv, Ranges
<1> QED BY <1>2, <1>3, <1>4, Stops

\* next in a loop that has timed out.
LEMMA LoopTimesOutOK == Inv /\ LoopTimesOut => Inv'
<1> SUFFICES ASSUME Inv, LoopTimesOut PROVE Inv'
  OBVIOUS
<1>1. NextError("MISSED_DEADLINE_TRANSIENT") /\ UNCHANGED <<plan, indexVars, loopVars>>
  BY DEF LoopTimesOut
<1>2. Ranges BY DEF Inv
<1>3. pc' \in {"done", "full fallback"} /\ result' \in Codes
  BY <1>1, <1>2, NextErrorIs DEF Ranges
<1>4. UNCHANGED <<plan, mNextStepIndex, mFallbackNextStepIndex, mWhileState, late>>
  BY <1>1 DEF indexVars, loopVars
<1>5. mNextStepIndex' \in 0 .. Len(plan.steps) + 1 BY <1>2, <1>4 DEF Ranges
<1> QED BY <1>3, <1>4, <1>5, Stops

\* next at a goto.
LEMMA NextGotoOK == Inv /\ NextGoto => Inv'
<1> SUFFICES ASSUME Inv, NextGoto PROVE Inv'
  OBVIOUS
<1> DEFINE s == mNextStepIndex
           j == plan.steps[s].to
<1>1. /\ AtStep("goto") /\ pc = "next" /\ mNextStepIndex' = j
      /\ UNCHANGED <<given, pc, result, plan, mFallbackNextStepIndex, mapVars, loopVars>>
  BY DEF NextGoto, AtStep, Step
<1>2. UNCHANGED <<given, result, plan, mFallbackNextStepIndex, mWhileState, late,
                  mSourceOperandToOffsetOfTemporary2>> /\ maps' = maps
  BY <1>1, MapsKept DEF loopVars
<1>3. /\ IsPlan(given, plan) /\ s \in StepsOf(plan, "goto") /\ Len(plan.steps) \in Nat
      /\ RunInv(plan, s, maps, mSourceOperandToOffsetOfTemporary2, mWhileState)
      /\ Ranges
  BY <1>1, AtStepIs
<1>4. IsJump(plan, s, j) BY <1>3, PlanIs
<1>5. s \notin StepsOf(plan, "while") BY <1>3 DEF StepsOf
<1>6. DOMAIN mWhileState = StepsOf(plan, "while") BY <1>3, Zenon DEF RunInv
<1> HIDE DEF s, j
<1>7. RunInv(plan, j, maps, mSourceOperandToOffsetOfTemporary2, mWhileState)
  BY <1>3, <1>4, <1>5, <1>6, Jump
<1>8. j \in 0 .. Len(plan.steps) + 1 BY <1>3, <1>4 DEF IsJump
<1>9. /\ RunInv(plan, mNextStepIndex', maps', mSourceOperandToOffsetOfTemporary2', mWhileState')
      /\ \A i \in DOMAIN mWhileState' : mWhileState'[i] \in Loops
      /\ late' \subseteq DOMAIN mWhileState'
      /\ mNextStepIndex' \in 0 .. Len(plan.steps) + 1
      /\ pc' = "next"
  BY <1>1, <1>2, <1>3, <1>7, <1>8 DEF Ranges
<1> QED BY <1>2, <1>3, <1>9, Goes

-------------------------------------------------------------------------------
(* Step models, IF and WHILE *)

\* What a step model reads and writes: each in a place, what it writes in one of its own.
LEMMA ExecutionIs ==
    ASSUME NEW g, NEW p, IsPlan(g, p), NEW c, NEW two, NEW loops,
           NEW i \in StepsOf(p, "execute"), RunInv(p, i, c, two, loops)
    PROVE  LET step == p.steps[i]
               k == step.model IN
           /\ \A o \in stepModelInputs(p, step) : In(c, <<k, o>>) # Nowhere
           /\ \A o \in stepModelOutputs(p, step) :
                  /\ At(c, OutputKinds, <<k, o>>) # Nowhere
                  /\ At(c, OutputKinds, <<k, o>>) = In(c, <<k, o>>)
                  /\ \A q \in stepModelInputs(p, step) \cup stepModelOutputs(p, step) :
                         o # q => In(c, <<k, o>>) # In(c, <<k, q>>)
           /\ stepModelInputs(p, step) \cap stepModelOutputs(p, step) = {}
<1> DEFINE step == p.steps[i]
           k == step.model
<1>1. /\ i \in DOMAIN p.steps
      /\ k \in Active(p, i)
      /\ AreProvided(p, {<<k, o>> : o \in stepModelInputs(p, step)})
  <2>1. i \in DOMAIN p.steps /\ IsExecution(p, i) BY PlanIs
  <2> QED BY <2>1 DEF IsExecution
<1>2. k \in DOMAIN p.models /\ IsModel(p.models[k]) BY <1>1, ActiveIs, PlanIs
<1>3. /\ IsPermanent(p, c, two) /\ AreMaps(p, c) /\ IsSound(p, c, k)
  BY <1>1 DEF RunInv
<1>4. ASSUME NEW o \in stepModelInputs(p, step)
      PROVE  IsOperand(p, k, <<k, o>>) /\ o \notin Writes(step)
  <2>1. o \notin Writes(step) /\ o \notin Constants(p.models[k]) BY DEF stepModelInputs
  <2>2. LifetimeOf(p, <<k, o>>) = Lifetime(p.models[k], o) BY DEF LifetimeOf
  <2>3. LifetimeOf(p, <<k, o>>) \in {"SUBGRAPH_INPUT", "SUBGRAPH_OUTPUT", "TEMPORARY_VARIABLE"}
    BY <1>2, <2>1, <2>2, LifetimeIs
  <2>4. LifetimeOf(p, <<k, o>>) = "TEMPORARY_VARIABLE" => <<k, o>> \in Temporaries(p)
    BY <1>1 DEF AreProvided
  <2> QED BY <2>1, <2>3, <2>4 DEF IsOperand
<1>5. ASSUME NEW o \in stepModelOutputs(p, step)
      PROVE  /\ IsOperand(p, k, <<k, o>>) /\ LifetimeOf(p, <<k, o>>) \in Writable
             /\ o \in Writes(step)
  <2>1. LifetimeOf(p, <<k, o>>) = Lifetime(p.models[k], o) BY DEF LifetimeOf
  <2>2. CASE o \in tempsAsStepModelOutputs(p, step)
    <3>1. o \in Writes(step) /\ LifetimeOf(p, <<k, o>>) = "TEMPORARY_VARIABLE"
      BY <2>1, <2>2 DEF tempsAsStepModelOutputs
    <3>2. <<k, o>> \in OnlyOfSteps(p)
      <4>1. <<k, o>> \in {<<p.steps[i].model, q>> : q \in tempsAsStepModelOutputs(p, p.steps[i])}
        BY <2>2
      <4> QED BY <4>1, Zenon DEF OnlyOfSteps
    <3>3. <<k, o>> \in Temporaries(p) BY <3>2, Zenon DEF Temporaries
    <3> QED BY <3>1, <3>3 DEF IsOperand, Writable
  <2>3. CASE o \notin tempsAsStepModelOutputs(p, step)
    <3>1. o \in Writes(step) /\ LifetimeOf(p, <<k, o>>) = "SUBGRAPH_OUTPUT"
      BY <2>1, <2>3 DEF stepModelOutputs
    <3> QED BY <3>1 DEF IsOperand, Writable
  <2> QED BY <2>2, <2>3
<1>6. ASSUME NEW o \in stepModelInputs(p, step) PROVE In(c, <<k, o>>) # Nowhere
  BY <1>2, <1>3, <1>4, OperandIs
<1>7. ASSUME NEW o \in stepModelOutputs(p, step)
      PROVE  /\ At(c, OutputKinds, <<k, o>>) # Nowhere
             /\ At(c, OutputKinds, <<k, o>>) = In(c, <<k, o>>)
  <2> DEFINE x == <<k, o>>
  <2>1. IsOperand(p, k, x) /\ LifetimeOf(p, x) \in Writable BY <1>5
  <2> HIDE DEF x
  <2>2. In(c, x) # Nowhere BY <1>2, <1>3, <2>1, OperandIs
  <2>3. AreDisjoint(c) BY <1>3 DEF AreMaps
  <2>4. x \notin DOMAIN c[2] /\ x \notin DOMAIN c[4] BY <1>3, <2>1, OutputsAre
  <2>5. At(c, OutputKinds, x) = In(c, x) BY <2>3, <2>4, OutIsIn
  <2> QED BY <2>2, <2>5 DEF x
<1>8. ASSUME NEW o \in stepModelOutputs(p, step),
             NEW q \in stepModelInputs(p, step) \cup stepModelOutputs(p, step), o # q
      PROVE  In(c, <<k, o>>) # In(c, <<k, q>>)
  <2> DEFINE x == <<k, o>>
             y == <<k, q>>
  <2>1. x # y BY <1>8
  <2>2. IsOperand(p, k, x) /\ LifetimeOf(p, x) \in Writable /\ IsOperand(p, k, y) BY <1>4, <1>5
  <2> HIDE DEF x, y
  <2>3. In(c, x) # In(c, y) BY <1>2, <1>3, <2>1, <2>2, Separated
  <2> QED BY <2>3 DEF x, y
<1>9. stepModelInputs(p, step) \cap stepModelOutputs(p, step) = {} BY <1>4, <1>5
<1> QED BY <1>6, <1>7, <1>8, <1>9

\* next at a step model: all its operands are mapped.
LEMMA NextExecutionOK == Inv /\ NextExecution => Inv'
<1> SUFFICES ASSUME Inv, NextExecution PROVE Inv'
  OBVIOUS
<1> DEFINE s == mNextStepIndex
<1>1. /\ \E kind \in {"execute", "simple"} : AtStep(kind)
      /\ pc' = IF Mapped(Step) THEN "compute" ELSE "aborted"
      /\ mFallbackNextStepIndex' = s /\ mNextStepIndex' = s + 1
      /\ UNCHANGED <<given, result, plan, mapVars, loopVars>>
  BY Zenon DEF NextExecution
<1>2. UNCHANGED <<given, result, plan, mWhileState, late, mSourceOperandToOffsetOfTemporary2>>
      /\ maps' = maps
  BY <1>1, MapsKept DEF loopVars
<1>3. PICK kind \in {"execute", "simple"} :
         /\ IsPlan(given, plan) /\ s \in StepsOf(plan, kind) /\ s \in DOMAIN plan.steps
         /\ Len(plan.steps) \in Nat /\ DOMAIN plan.steps = 1 .. Len(plan.steps)
         /\ RunInv(plan, s, maps, mSourceOperandToOffsetOfTemporary2, mWhileState)
         /\ Ranges
  BY <1>1, AtStepIs
<1>4. Mapped(Step)
  <2>1. CASE kind = "execute"
    <3>1. Step = plan.steps[s] BY DEF Step
    <3>2. /\ \A o \in stepModelInputs(plan, Step) : In(maps, <<Step.model, o>>) # Nowhere
          /\ \A o \in stepModelOutputs(plan, Step) :
                 At(maps, OutputKinds, <<Step.model, o>>) # Nowhere
      BY <1>3, <2>1, <3>1, ExecutionIs
    <3> QED BY <3>2, Zenon DEF Mapped, InputLocations, OutputLocation, In
  <2>2. CASE kind = "simple"
    <3>1. Step.kind # "execute" BY <1>3, <2>2 DEF StepsOf, Step
    <3> QED BY <3>1, Zenon DEF Mapped
  <2> QED BY <2>1, <2>2
<1>5. pc' = "compute" BY <1>1, <1>4
<1>6. Ranges'
  <2>1. pc' \in Places BY <1>5 DEF Places
  <2>2. /\ mNextStepIndex' \in 0 .. Len(plan'.steps) + 1
        /\ mFallbackNextStepIndex' \in 0 .. Len(plan'.steps)
    BY <1>1, <1>2, <1>3
  <2> QED BY <1>2, <1>3, <2>1, <2>2 DEF Ranges
<1>7. Early' BY <1>5 DEF Early
<1>8. Steps'
  <2>1. Executing' = plan.steps[s] BY <1>1, <1>2 DEF Executing
  <2>2. Executing'.kind \in {"execute", "simple"} BY <1>3, <2>1 DEF StepsOf
  <2> QED BY <1>1, <1>2, <1>3, <1>5, <2>2 DEF Steps
<1>9. Maps'
  <2>1. Here' = s BY <1>1, <1>5 DEF Here
  <2> QED BY <1>2, <1>3, <2>1 DEF Maps
<1> QED BY <1>6, <1>7, <1>8, <1>9 DEF Inv

\* next at an IF: both branches are entered without a failing CHECK.
LEMMA NextIfOK == Inv /\ NextIf => Inv'
<1> SUFFICES ASSUME Inv, NextIf PROVE Inv'
  OBVIOUS
<1> DEFINE s == mNextStepIndex
           step == plan.steps[s]
           two == mSourceOperandToOffsetOfTemporary2
<1>1. PICK b \in {1, 2} :
         LET a == setInputs(maps, step.outerIns, step.ins[b])
             d == setOutputs(a, step.outerOuts, step.outs[b]) IN
         /\ AtStep("if") /\ pc = "next"
         /\ mNextStepIndex' = step.steps[b]
         /\ SetMaps(d)
         /\ Checks(/\ CanSetInputs(maps, step.outerIns, step.ins[b])
                   /\ CanSetOutputs(a, step.outerOuts, step.outs[b]))
         /\ UNCHANGED <<given, result, plan, mFallbackNextStepIndex, loopVars>>
  <2> DEFINE b == IF Holds(given, ReadAt(Step.cond)) THEN 1 ELSE 2
  <2>1. b \in {1, 2} OBVIOUS
  <2> HIDE DEF b
  <2> QED BY <2>1, Zenon DEF NextIf, AtStep, Step, b
<1> DEFINE a == setInputs(maps, step.outerIns, step.ins[b])
           d == setOutputs(a, step.outerOuts, step.outs[b])
           j == step.steps[b]
<1>2. /\ IsPlan(given, plan) /\ s \in StepsOf(plan, "if") /\ Len(plan.steps) \in Nat
      /\ RunInv(plan, s, maps, two, mWhileState) /\ DOMAIN plan.steps = 1 .. Len(plan.steps)
      /\ Ranges
  BY <1>1, AtStepIs
<1>3. /\ CanSetInputs(maps, step.outerIns, step.ins[b])
      /\ CanSetOutputs(a, step.outerOuts, step.outs[b])
      /\ RunInv(plan, j, <<d[1], d[2], d[3], d[4]>>, two, mWhileState)
  BY <1>2, Branch
<1>4. j \in DOMAIN plan.steps
  <2>1. IsEntry(plan, s, step.models[b], j) BY <1>2, IfIs
  <2> QED BY <2>1 DEF IsEntry
<1> HIDE DEF a, d, j
<1>5. pc' = "next" BY <1>1, <1>3, Zenon DEF Checks, a
<1>6. maps' = <<d[1], d[2], d[3], d[4]>>
  <2>1. SetMaps(d) BY <1>1, Zenon DEF a, d
  <2> QED BY <2>1, MapsAre
<1>7. /\ mNextStepIndex' = j
      /\ UNCHANGED <<given, result, plan, mFallbackNextStepIndex, loopVars>>
  BY <1>1, Zenon DEF j
<1>8. UNCHANGED <<mWhileState, late, mSourceOperandToOffsetOfTemporary2>> BY <1>7 DEF loopVars
<1>9. /\ RunInv(plan, mNextStepIndex', maps', mSourceOperandToOffsetOfTemporary2', mWhileState')
      /\ \A i \in DOMAIN mWhileState' : mWhileState'[i] \in Loops
      /\ late' \subseteq DOMAIN mWhileState'
      /\ mNextStepIndex' \in 0 .. Len(plan.steps) + 1
  BY <1>2, <1>3, <1>4, <1>6, <1>7, <1>8 DEF Ranges
<1> QED BY <1>2, <1>5, <1>7, <1>9, Goes

\* The state of the loop at the step where the execution is, and of the others.
LEMMA SetStateIs ==
    ASSUME NEW stage \in Stages, NEW iteration \in Iterations, SetState(stage, iteration),
           mNextStepIndex \in DOMAIN mWhileState, Ranges
    PROVE  /\ DOMAIN mWhileState' = DOMAIN mWhileState
           /\ \A i \in DOMAIN mWhileState : i # mNextStepIndex => mWhileState'[i] = mWhileState[i]
           /\ mWhileState'[mNextStepIndex] = [stage |-> stage, iteration |-> iteration]
           /\ \A i \in DOMAIN mWhileState' : mWhileState'[i] \in Loops
<1>1. mWhileState' = [mWhileState EXCEPT ![mNextStepIndex] =
                          [stage |-> stage, iteration |-> iteration]]
  BY DEF SetState
<1>2. [stage |-> stage, iteration |-> iteration] \in Loops BY DEF Loops
<1>3. \A i \in DOMAIN mWhileState : mWhileState[i] \in Loops BY DEF Ranges
<1> QED BY <1>1, <1>2, <1>3

\* What is known when the execution is at a loop, before its condition or after it.
LEMMA AtStageIs ==
    ASSUME Inv, NEW stage, AtStage(stage)
    PROVE  /\ AtStep("while") /\ pc = "next"
           /\ IsPlan(given, plan) /\ mNextStepIndex \in StepsOf(plan, "while")
           /\ Len(plan.steps) \in Nat /\ DOMAIN plan.steps = 1 .. Len(plan.steps)
           /\ RunInv(plan, mNextStepIndex, maps, mSourceOperandToOffsetOfTemporary2, mWhileState)
           /\ Ranges
           /\ DOMAIN mWhileState = StepsOf(plan, "while")
           /\ State.iteration \in Iterations
           /\ State = [stage |-> stage, iteration |-> State.iteration]
           /\ stage = "body" => State.iteration \in {"first", "later"}
<1>1. AtStep("while") /\ State.stage = stage /\ pc = "next" BY DEF AtStage, AtStep
<1>2. /\ IsPlan(given, plan) /\ mNextStepIndex \in StepsOf(plan, "while")
      /\ Len(plan.steps) \in Nat /\ DOMAIN plan.steps = 1 .. Len(plan.steps)
      /\ RunInv(plan, mNextStepIndex, maps, mSourceOperandToOffsetOfTemporary2, mWhileState)
      /\ Ranges
  BY <1>1, AtStepIs
<1>3. /\ DOMAIN mWhileState = StepsOf(plan, "while")
      /\ IsInside(plan, mNextStepIndex, mNextStepIndex, mWhileState[mNextStepIndex])
  BY <1>2, Zenon DEF RunInv
<1>4. State \in Loops BY <1>2, <1>3 DEF Ranges, State
<1>5. State = [stage |-> stage, iteration |-> State.iteration] /\ State.iteration \in Iterations
  BY <1>1, <1>4 DEF Loops
<1>6. stage = "body" => State.iteration # kOutsideLoop
  BY <1>1, <1>3, Zenon DEF IsInside, State
<1>7. stage = "body" => State.iteration \in {"first", "later"} BY <1>5, <1>6 DEF Iterations
<1> QED BY <1>1, <1>2, <1>3, <1>5, <1>7

\* next at a WHILE that goes to its condition.
LEMMA WhileConditionOK == Inv /\ WhileCondition => Inv'
<1> SUFFICES ASSUME Inv, WhileCondition PROVE Inv'
  OBVIOUS
<1> DEFINE s == mNextStepIndex
           step == plan.steps[s]
           two == mSourceOperandToOffsetOfTemporary2
           it == IF State.iteration = kOutsideLoop THEN "first" ELSE "later"
           outers == Vars(step, it)
           d == setInputs(maps, outers, step.condIns)
           j == step.condStep
<1>1. /\ AtStage("condition")
      /\ late' = IF StartsClock(it) THEN late \ {s} ELSE late
      /\ SetMaps(d)
      /\ Checks(/\ Len(step.condIns) = Len(step.outerIns)
                /\ Len(step.condIns) >= Len(step.bodyOuts)
                /\ CanSetInputs(maps, outers, step.condIns))
      /\ SetState("body", it)
      /\ mNextStepIndex' = j
      /\ UNCHANGED <<given, result, plan, mFallbackNextStepIndex,
                     mSourceOperandToOffsetOfTemporary2>>
  BY Zenon DEF WhileCondition, Step, Vars
<1>2. /\ IsPlan(given, plan) /\ s \in StepsOf(plan, "while") /\ pc = "next"
      /\ Len(plan.steps) \in Nat /\ DOMAIN plan.steps = 1 .. Len(plan.steps)
      /\ RunInv(plan, s, maps, two, mWhileState)
      /\ Ranges
      /\ DOMAIN mWhileState = StepsOf(plan, "while")
  BY <1>1, AtStageIs
<1>3. it \in {"first", "later"} /\ it \in Iterations /\ "body" \in Stages
  BY DEF Iterations, Stages
<1>4. /\ Len(step.condIns) = Len(step.outerIns)
      /\ Len(step.bodyOuts) <= Len(step.outerIns)
      /\ IsList(step.condIns) /\ IsList(step.bodyOuts)
      /\ IsEntry(plan, s, step.models[1], j)
  BY <1>2, WhileIs
<1>5. Len(step.condIns) >= Len(step.bodyOuts)
  <2>1. Len(step.condIns) \in Nat /\ Len(step.bodyOuts) \in Nat BY <1>4 DEF IsList, IsSequence
  <2> QED BY <1>4, <2>1
<1>6. j \in DOMAIN plan.steps BY <1>4 DEF IsEntry
<1> HIDE DEF it
<1>7. /\ DOMAIN mWhileState' = StepsOf(plan, "while")
      /\ \A i \in StepsOf(plan, "while") : i # s => mWhileState'[i] = mWhileState[i]
      /\ mWhileState'[s] = [stage |-> "body", iteration |-> it]
      /\ \A i \in DOMAIN mWhileState' : mWhileState'[i] \in Loops
  BY <1>1, <1>2, <1>3, SetStateIs
<1>8. /\ CanSetInputs(maps, outers, step.condIns)
      /\ RunInv(plan, j, <<d[1], d[2], d[3], d[4]>>, two, mWhileState')
  BY <1>2, <1>3, <1>7, Condition
<1> HIDE DEF outers, d, j
<1>9. pc' = "next" BY <1>1, <1>2, <1>4, <1>5, <1>8, Zenon DEF Checks
<1>10. maps' = <<d[1], d[2], d[3], d[4]>> BY <1>1, MapsAre
<1>11. late' \subseteq DOMAIN mWhileState'
  <2>1. late' \subseteq late BY <1>1
  <2> QED BY <1>2, <1>7, <2>1 DEF Ranges
<1>12. /\ RunInv(plan, mNextStepIndex', maps', mSourceOperandToOffsetOfTemporary2', mWhileState')
       /\ mNextStepIndex' \in 0 .. Len(plan.steps) + 1
       /\ UNCHANGED <<given, result, plan, mFallbackNextStepIndex>>
  BY <1>1, <1>2, <1>6, <1>8, <1>10
<1> QED BY <1>2, <1>7, <1>9, <1>11, <1>12, Goes

\* next at a WHILE that goes to its body.
LEMMA WhileBodyOK == Inv /\ WhileBody => Inv'
<1> SUFFICES ASSUME Inv, WhileBody PROVE Inv'
  OBVIOUS
<1> DEFINE s == mNextStepIndex
           step == plan.steps[s]
           two == mSourceOperandToOffsetOfTemporary2
           it == State.iteration
           outs == IF it # "first" THEN ToSet(step.bodyOuts) ELSE {}
           a == setInputs(maps, step.condIns, step.bodyIns)
           d == Exchanged(a, two, outs)
           j == step.bodyStep
<1>1. /\ AtStage("body")
      /\ SetMaps(d)
      /\ mSourceOperandToOffsetOfTemporary2' = Spare(a, two, outs)
      /\ Checks(/\ Len(step.bodyIns) = Len(step.outerIns)
                /\ Len(step.bodyIns) >= Len(step.bodyOuts)
                /\ Len(step.bodyOuts) >= Len(step.outerOuts)
                /\ CanSetInputs(maps, step.condIns, step.bodyIns)
                /\ outs \subseteq (DOMAIN a[1] \cap DOMAIN two) \ (DOMAIN a[2] \cup DOMAIN a[3]))
      /\ SetState("condition", it)
      /\ mNextStepIndex' = j
      /\ UNCHANGED <<given, result, plan, mFallbackNextStepIndex, late>>
  BY Zenon DEF WhileBody, Step, Swaps, Exchanged, Spare
<1>2. /\ IsPlan(given, plan) /\ s \in StepsOf(plan, "while") /\ pc = "next"
      /\ Len(plan.steps) \in Nat /\ DOMAIN plan.steps = 1 .. Len(plan.steps)
      /\ RunInv(plan, s, maps, two, mWhileState)
      /\ Ranges
      /\ DOMAIN mWhileState = StepsOf(plan, "while")
      /\ it \in {"first", "later"} /\ it \in Iterations
      /\ mWhileState[s] = [stage |-> "body", iteration |-> it]
  BY <1>1, AtStageIs DEF State
<1>3. "condition" \in Stages BY DEF Stages
<1>4. /\ Len(step.bodyIns) = Len(step.outerIns)
      /\ Len(step.bodyOuts) <= Len(step.outerIns)
      /\ Len(step.outerOuts) <= Len(step.bodyOuts)
      /\ IsList(step.bodyIns) /\ IsList(step.bodyOuts)
      /\ AreArguments(plan, step.model, step.outerIns, step.outerOuts)
      /\ step.model \in DOMAIN plan.models
      /\ IsEntry(plan, s, step.models[2], j)
  BY <1>2, WhileIs
<1>5. Len(step.bodyIns) >= Len(step.bodyOuts) /\ Len(step.bodyOuts) >= Len(step.outerOuts)
  <2>1. Len(step.bodyIns) \in Nat /\ Len(step.bodyOuts) \in Nat BY <1>4 DEF IsList, IsSequence
  <2>2. Len(step.outerOuts) \in Nat BY <1>2, <1>4, ArgumentsAre
  <2> QED BY <1>4, <2>1, <2>2
<1>6. j \in DOMAIN plan.steps BY <1>4 DEF IsEntry
<1> HIDE DEF it
<1>7. /\ DOMAIN mWhileState' = StepsOf(plan, "while")
      /\ \A i \in StepsOf(plan, "while") : i # s => mWhileState'[i] = mWhileState[i]
      /\ mWhileState'[s] = [stage |-> "condition", iteration |-> it]
      /\ \A i \in DOMAIN mWhileState' : mWhileState'[i] \in Loops
  BY <1>1, <1>2, <1>3, SetStateIs
<1>8. /\ CanSetInputs(maps, step.condIns, step.bodyIns)
      /\ outs \subseteq (DOMAIN a[1] \cap DOMAIN two) \ (DOMAIN a[2] \cup DOMAIN a[3])
      /\ RunInv(plan, j, <<d[1], d[2], d[3], d[4]>>, Spare(a, two, outs), mWhileState')
  <2>1. EntersBody(plan, s, it, maps, two, mWhileState')
    BY <1>2, <1>7, Body
  <2>2. CanSetInputs(maps, step.condIns, step.bodyIns)
    BY <2>1, Zenon DEF EntersBody
  <2>3. outs \subseteq (DOMAIN a[1] \cap DOMAIN two) \ (DOMAIN a[2] \cup DOMAIN a[3])
    BY <2>1, Zenon DEF EntersBody
  <2>4. RunInv(plan, j, <<d[1], d[2], d[3], d[4]>>, Spare(a, two, outs), mWhileState')
    BY <2>1, Zenon DEF EntersBody
  <2> QED BY <2>2, <2>3, <2>4
<1> HIDE DEF outs, a, d, j
<1>9. pc' = "next" BY <1>1, <1>2, <1>4, <1>5, <1>8, Zenon DEF Checks
<1>10. maps' = <<d[1], d[2], d[3], d[4]>> BY <1>1, MapsAre
<1>11. late' \subseteq DOMAIN mWhileState' BY <1>1, <1>2, <1>7 DEF Ranges
<1>12. /\ RunInv(plan, mNextStepIndex', maps', mSourceOperandToOffsetOfTemporary2', mWhileState')
       /\ mNextStepIndex' \in 0 .. Len(plan.steps) + 1
       /\ UNCHANGED <<given, result, plan, mFallbackNextStepIndex>>
  BY <1>1, <1>2, <1>6, <1>8, <1>10
<1> QED BY <1>2, <1>7, <1>9, <1>11, <1>12, Goes

\* next at a WHILE that is left.
LEMMA WhileExitOK == Inv /\ WhileExit => Inv'
<1> SUFFICES ASSUME Inv, WhileExit PROVE Inv'
  OBVIOUS
<1> DEFINE s == mNextStepIndex
           step == plan.steps[s]
           two == mSourceOperandToOffsetOfTemporary2
           j == step.exitStep
<1>1. /\ AtStage("body")
      /\ Checks(Len(step.outerOuts) <= Len(step.bodyOuts))
      /\ SetState("condition", kOutsideLoop)
      /\ mNextStepIndex' = j
      /\ UNCHANGED <<given, result, plan, mFallbackNextStepIndex, mapVars,
                     mSourceOperandToOffsetOfTemporary2, late>>
  BY Zenon DEF WhileExit, Step, AfterLoop
<1>2. /\ IsPlan(given, plan) /\ s \in StepsOf(plan, "while") /\ pc = "next"
      /\ Len(plan.steps) \in Nat /\ DOMAIN plan.steps = 1 .. Len(plan.steps)
      /\ RunInv(plan, s, maps, two, mWhileState)
      /\ Ranges
      /\ DOMAIN mWhileState = StepsOf(plan, "while")
  BY <1>1, AtStageIs
<1>3. "condition" \in Stages /\ kOutsideLoop \in Iterations BY DEF Stages, Iterations
<1>4. Len(step.outerOuts) <= Len(step.bodyOuts) /\ IsJump(plan, s, j) BY <1>2, WhileIs
<1>5. /\ DOMAIN mWhileState' = StepsOf(plan, "while")
      /\ \A i \in StepsOf(plan, "while") : i # s => mWhileState'[i] = mWhileState[i]
      /\ mWhileState'[s] = [stage |-> "condition", iteration |-> kOutsideLoop]
      /\ \A i \in DOMAIN mWhileState' : mWhileState'[i] \in Loops
  BY <1>1, <1>2, <1>3, SetStateIs
<1> HIDE DEF j
<1>6. RunInv(plan, j, maps, two, mWhileState')
  <2>1. \A i \in StepsOf(plan, "while") :
            IF i = s THEN /\ mWhileState'[i].stage = "condition"
                          /\ mWhileState'[i].iteration = kOutsideLoop
            ELSE mWhileState'[i] = mWhileState[i]
    BY <1>5
  <2> QED BY <1>2, <1>4, <1>5, <2>1, Jump
<1>7. pc' = "next" BY <1>1, <1>2, <1>4 DEF Checks
<1>8. maps' = maps BY <1>1, MapsKept
<1>9. late' \subseteq DOMAIN mWhileState' BY <1>1, <1>2, <1>5 DEF Ranges
<1>10. j \in 0 .. Len(plan.steps) + 1 BY <1>2, <1>4 DEF IsJump
<1>11. /\ RunInv(plan, mNextStepIndex', maps', mSourceOperandToOffsetOfTemporary2', mWhileState')
       /\ mNextStepIndex' \in 0 .. Len(plan.steps) + 1
       /\ UNCHANGED <<given, result, plan, mFallbackNextStepIndex>>
  BY <1>1, <1>6, <1>8, <1>10
<1> QED BY <1>2, <1>5, <1>7, <1>9, <1>11, Goes

\* next at a WHILE that is left, when a value cannot be copied.
LEMMA WhileExitFailsOK == Inv /\ WhileExitFails => Inv'
<1> SUFFICES ASSUME Inv, WhileExitFails PROVE Inv'
  OBVIOUS
<1> DEFINE s == mNextStepIndex
           j == plan.steps[s].exitStep
<1>1. /\ AtStage("body") /\ NextError("OP_FAILED") /\ mNextStepIndex' = j
      /\ UNCHANGED <<plan, mFallbackNextStepIndex, loopVars>>
  BY Zenon DEF WhileExitFails, Step
<1>2. IsPlan(given, plan) /\ s \in StepsOf(plan, "while") /\ Ranges BY <1>1, AtStageIs
<1>3. pc' \in {"done", "full fallback"} /\ result' \in Codes
  BY <1>1, <1>2, NextErrorIs DEF Ranges
<1>4. UNCHANGED <<plan, mFallbackNextStepIndex, mWhileState, late>> BY <1>1 DEF loopVars
<1>5. IsJump(plan, s, j) BY <1>2, WhileIs
<1>6. mNextStepIndex' \in 0 .. Len(plan.steps) + 1
  <2>1. Len(plan.steps) \in Nat BY <1>2 DEF Ranges
  <2> QED BY <1>1, <1>5, <2>1 DEF IsJump
<1> QED BY <1>3, <1>4, <1>6, Stops

-------------------------------------------------------------------------------
(* Execution of step models, and all actions together *)

\* The step after a step.
LEMMA After ==
    ASSUME NEW n \in Nat, NEW i \in 1 .. n
    PROVE  i # 0 /\ i + 1 \in 0 .. n + 1
OBVIOUS

\* A step model is followed by a step to which the execution may go.
LEMMA ExecutingIs ==
    ASSUME Inv, pc \in {"compute", "partial fallback"}
    PROVE  LET f == mFallbackNextStepIndex IN
           /\ IsPlan(given, plan) /\ Ranges
           /\ f \in DOMAIN plan.steps /\ Len(plan.steps) \in Nat
           /\ f \in StepsOf(plan, "execute") \cup StepsOf(plan, "simple")
           /\ RunInv(plan, f, maps, mSourceOperandToOffsetOfTemporary2, mWhileState)
           /\ RunInv(plan, f + 1, maps, mSourceOperandToOffsetOfTemporary2, mWhileState)
           /\ f + 1 \in 0 .. Len(plan.steps) + 1
<1> DEFINE f == mFallbackNextStepIndex
           two == mSourceOperandToOffsetOfTemporary2
<1>1. /\ IsPlan(given, plan) /\ Ranges /\ f \in DOMAIN plan.steps
      /\ plan.steps[f].kind \in {"execute", "simple"}
  BY DEF Inv, Steps, Ready, Executing
<1>2. Len(plan.steps) \in Nat /\ DOMAIN plan.steps = 1 .. Len(plan.steps) BY <1>1, PlanIs
<1>3. f \in StepsOf(plan, "execute") \cup StepsOf(plan, "simple") /\ f \notin StepsOf(plan, "while")
  BY <1>1 DEF StepsOf
<1>4. Here = f /\ Here # kBadStepIndex /\ f + 1 \in 0 .. Len(plan.steps) + 1
  <2>1. f \in 1 .. Len(plan.steps) BY <1>1, <1>2, Zenon
  <2>2. f # 0 /\ f + 1 \in 0 .. Len(plan.steps) + 1 BY <1>2, <2>1, After, Zenon
  <2> QED BY <2>2 DEF Here, kBadStepIndex
<1>5. RunInv(plan, f, maps, two, mWhileState) BY <1>4 DEF Inv, Running, Maps
<1>6. IsJump(plan, f, f + 1)
  <2>1. CASE f \in StepsOf(plan, "execute")
    <3>1. IsExecution(plan, f) BY <1>1, <2>1, PlanIs
    <3> QED BY <3>1 DEF IsExecution
  <2>2. CASE f \in StepsOf(plan, "simple") BY <1>1, <2>2, PlanIs
  <2> QED BY <1>3, <2>1, <2>2
<1>7. DOMAIN mWhileState = StepsOf(plan, "while") BY <1>5, Zenon DEF RunInv
<1> HIDE DEF f, two
<1>8. RunInv(plan, f + 1, maps, two, mWhileState)
  <2> DEFINE j == f + 1
  <2>1. IsJump(plan, f, j) BY <1>6
  <2> HIDE DEF j
  <2>2. RunInv(plan, j, maps, two, mWhileState) BY <1>1, <1>3, <1>5, <1>7, <2>1, Jump
  <2> QED BY <2>2 DEF j
<1> QED BY <1>1, <1>2, <1>3, <1>4, <1>5, <1>8 DEF f, two

\* A step that succeeds is followed by the next one.
LEMMA Succeeds ==
    ASSUME Inv, pc \in {"compute", "partial fallback"}, pc' = "next",
           mNextStepIndex' = mFallbackNextStepIndex + 1,
           UNCHANGED <<given, result, plan, mFallbackNextStepIndex, mapVars, loopVars>>
    PROVE  Inv'
<1> DEFINE f == mFallbackNextStepIndex
<1>1. /\ IsPlan(given, plan) /\ Ranges /\ Len(plan.steps) \in Nat
      /\ RunInv(plan, f + 1, maps, mSourceOperandToOffsetOfTemporary2, mWhileState)
      /\ f + 1 \in 0 .. Len(plan.steps) + 1
  BY ExecutingIs
<1>2. UNCHANGED <<mWhileState, late, mSourceOperandToOffsetOfTemporary2>> /\ maps' = maps
  BY MapsKept DEF loopVars
<1>3. /\ RunInv(plan, mNextStepIndex', maps', mSourceOperandToOffsetOfTemporary2', mWhileState')
      /\ mNextStepIndex' \in 0 .. Len(plan.steps) + 1
      /\ \A i \in DOMAIN mWhileState' : mWhileState'[i] \in Loops
      /\ late' \subseteq DOMAIN mWhileState'
  BY <1>1, <1>2 DEF Ranges
<1> QED BY <1>1, <1>3, Goes

\* A step model is executed, and if it fails executed again or given up.
LEMMA ComputeOK == Inv /\ compute => Inv'
<1> SUFFICES ASSUME Inv, compute PROVE Inv'
  OBVIOUS
<1>1. /\ pc = "compute"
      /\ \/ pc' = "next" /\ UNCHANGED result
         \/ \E code : Notifies(code)
         \/ pc' \in {"full fallback", "partial fallback"} /\ UNCHANGED result
      /\ UNCHANGED <<given, plan, indexVars, mapVars, loopVars>>
  <2>1. PICK code \in Outcomes(StepResults(Executing.device)) :
            CASE code = "NO_ERROR" -> pc' = "next" /\ UNCHANGED result
              [] code # "NO_ERROR" /\ (code = "OUTPUT_INSUFFICIENT_SIZE" \/ ~allowFallback)
                   -> Notifies(code)
              [] OTHER -> /\ pc' = IF Executing.device = Cpu THEN "full fallback"
                                   ELSE "partial fallback"
                          /\ UNCHANGED result
    BY Zenon DEF compute
  <2>2. \/ pc' = "next" /\ UNCHANGED result
        \/ Notifies(code)
        \/ pc' \in {"full fallback", "partial fallback"} /\ UNCHANGED result
    BY <2>1
  <2>3. pc = "compute" /\ UNCHANGED <<given, plan, indexVars, mapVars, loopVars>>
    BY Zenon DEF compute
  <2> QED BY <2>2, <2>3
<1>2. /\ Ranges /\ mNextStepIndex = mFallbackNextStepIndex + 1
  BY <1>1 DEF Inv, Steps
<1>3. UNCHANGED <<given, plan, mNextStepIndex, mFallbackNextStepIndex, mWhileState, late,
                  mSourceOperandToOffsetOfTemporary2>> /\ maps' = maps
  BY <1>1, MapsKept DEF indexVars, loopVars
<1>4. mNextStepIndex' \in 0 .. Len(plan.steps) + 1 BY <1>2, <1>3 DEF Ranges
<1>5. CASE pc' = "next" /\ UNCHANGED result BY <1>1, <1>2, <1>3, <1>5, Succeeds
<1>6. CASE \E code : Notifies(code)
  <2>1. pc' = "done" /\ result' \in Codes BY <1>6, NotifiesIs
  <2> QED BY <1>3, <1>4, <2>1, Stops
<1>7. CASE pc' = "full fallback" /\ UNCHANGED result
  <2>1. result' \in Codes BY <1>2, <1>7 DEF Ranges
  <2> QED BY <1>3, <1>4, <1>7, <2>1, Stops
<1>8. CASE pc' = "partial fallback" /\ UNCHANGED result
  <2>1. Here' = Here BY <1>1, <1>3, <1>8 DEF Here
  <2>2. Maps /\ Steps BY <1>1, ExecutingIs DEF Here, Maps, Inv
  <2>3. Maps' BY <1>3, <2>1, <2>2 DEF Maps
  <2>4. pc' \in Places BY <1>8 DEF Places
  <2>5. Ranges' BY <1>2, <1>3, <1>8, <2>4 DEF Ranges
  <2>6. Early' BY <1>8 DEF Early
  <2>7. Steps' BY <1>1, <1>3, <1>8, <2>2 DEF Steps, Ready, Executing
  <2> QED BY <2>3, <2>5, <2>6, <2>7 DEF Inv
<1> QED BY <1>1, <1>5, <1>6, <1>7, <1>8

\* A step model is executed again on the CPU.
LEMMA CpuFallbackPartialOK == Inv /\ cpuFallbackPartial => Inv'
<1> SUFFICES ASSUME Inv, cpuFallbackPartial PROVE Inv'
  OBVIOUS
<1>1. /\ pc = "partial fallback" /\ mNextStepIndex' = mFallbackNextStepIndex + 1
      /\ \/ pc' = "next" /\ UNCHANGED result
         \/ \E code : Notifies(code)
         \/ pc' = "full fallback" /\ UNCHANGED result
      /\ UNCHANGED <<given, plan, mFallbackNextStepIndex, mapVars, loopVars>>
  <2>1. PICK code \in Outcomes(StepResults(Cpu)) :
            CASE code = "NO_ERROR" -> pc' = "next" /\ UNCHANGED result
              [] code # "NO_ERROR" /\ (code = "OUTPUT_INSUFFICIENT_SIZE" \/ isSimple(plan))
                   -> Notifies(code)
              [] OTHER -> pc' = "full fallback" /\ UNCHANGED result
    BY Zenon DEF cpuFallbackPartial
  <2>2. \/ pc' = "next" /\ UNCHANGED result
        \/ Notifies(code)
        \/ pc' = "full fallback" /\ UNCHANGED result
    BY <2>1
  <2>3. /\ pc = "partial fallback" /\ mNextStepIndex' = mFallbackNextStepIndex + 1
        /\ UNCHANGED <<given, plan, mFallbackNextStepIndex, mapVars, loopVars>>
    BY Zenon DEF cpuFallbackPartial
  <2> QED BY <2>2, <2>3
<1>2. /\ Ranges /\ mNextStepIndex' \in 0 .. Len(plan.steps) + 1
  BY <1>1, ExecutingIs
<1>3. UNCHANGED <<plan, mFallbackNextStepIndex, mWhileState, late>> BY <1>1 DEF loopVars
<1>4. CASE pc' = "next" /\ UNCHANGED result BY <1>1, <1>4, Succeeds
<1>5. CASE \E code : Notifies(code)
  <2>1. pc' = "done" /\ result' \in Codes BY <1>5, NotifiesIs
  <2> QED BY <1>2, <1>3, <2>1, Stops
<1>6. CASE pc' = "full fallback" /\ UNCHANGED result
  <2>1. result' \in Codes BY <1>2, <1>6 DEF Ranges
  <2> QED BY <1>2, <1>3, <1>6, <2>1, Stops
<1> QED BY <1>1, <1>4, <1>5, <1>6

\* The whole model is executed on the CPU.
LEMMA CpuFallbackFullOK == Inv /\ cpuFallbackFull => Inv'
<1> SUFFICES ASSUME Inv, cpuFallbackFull PROVE Inv'
  OBVIOUS
<1>1. /\ \E code : Notifies(code)
      /\ UNCHANGED <<given, plan, indexVars, mapVars, loopVars>>
  BY Zenon DEF cpuFallbackFull
<1>2. pc' = "done" /\ result' \in Codes BY <1>1, NotifiesIs
<1>3. UNCHANGED <<plan, mNextStepIndex, mFallbackNextStepIndex, mWhileState, late>>
  BY <1>1 DEF indexVars, loopVars
<1>4. mNextStepIndex' \in 0 .. Len(plan.steps) + 1 BY <1>3 DEF Inv, Ranges
<1> QED BY <1>2, <1>3, <1>4, Stops

\* Time passes in a loop.
LEMMA TimePassesOK == Inv /\ (\E i \in DOMAIN mWhileState : TimePasses(i)) => Inv'
<1> SUFFICES ASSUME Inv, NEW i \in DOMAIN mWhileState, TimePasses(i) PROVE Inv'
  OBVIOUS
<1>1. /\ late' = late \cup {i}
      /\ UNCHANGED <<given, pc, result, plan, mNextStepIndex, mFallbackNextStepIndex,
                     mSourceOperandToOffsetOfTemporary2, mWhileState>>
      /\ maps' = maps
  BY MapsKept DEF TimePasses, indexVars
<1>2. Ranges' BY <1>1 DEF Inv, Ranges
<1>3. Early'
  <2>1. mWhileState # <<>> OBVIOUS
  <2> QED BY <1>1, <2>1 DEF Inv, Early
<1>4. Steps' BY <1>1 DEF Inv, Steps, Ready, Executing
<1>5. Running' => Maps' BY <1>1 DEF Inv, Running, Maps, Here
<1> QED BY <1>2, <1>3, <1>4, <1>5 DEF Inv

\* Nothing happens.
LEMMA StutterOK == Inv /\ UNCHANGED vars => Inv'
<1> SUFFICES ASSUME Inv, UNCHANGED vars PROVE Inv'
  OBVIOUS
<1>1. /\ UNCHANGED <<given, pc, result, plan, mNextStepIndex, mFallbackNextStepIndex,
                     mSourceOperandToOffsetOfTemporary2, mWhileState, late>>
      /\ UNCHANGED mapVars
  BY DEF vars, indexVars, loopVars
<1>2. maps' = maps BY <1>1, MapsKept
<1>3. Ranges' /\ Early' BY <1>1 DEF Inv, Ranges, Early
<1>4. Steps' BY <1>1 DEF Inv, Steps, Ready, Executing
<1>5. Running' => Maps' BY <1>1, <1>2 DEF Inv, Running, Maps, Here
<1> QED BY <1>3, <1>4, <1>5 DEF Inv

\* Each step preserves the invariant.
LEMMA NextOK == Inv /\ [Next]_vars => Inv'
<1> SUFFICES ASSUME Inv, [Next]_vars PROVE Inv'
  OBVIOUS
<1>1. \/ build \/ finish \/ makeController
      \/ NextFails \/ NextIsTheEnd \/ NextExecution \/ NextGoto \/ NextIf \/ NextIfFails
      \/ WhileCondition \/ LoopTimesOut \/ WhileBody \/ WhileExit \/ WhileExitFails
      \/ compute \/ cpuFallbackPartial \/ cpuFallbackFull
      \/ (\E i \in DOMAIN mWhileState : TimePasses(i)) \/ UNCHANGED vars
  BY Zenon DEF Next, Runs
<1> QED BY <1>1, BuildOK, FinishOK, MakeControllerOK, NextFailsOK, NextIsTheEndOK, NextExecutionOK,
           NextGotoOK, NextIfOK, NextIfFailsOK, WhileConditionOK, LoopTimesOutOK, WhileBodyOK,
           WhileExitOK, WhileExitFailsOK,
           ComputeOK, CpuFallbackPartialOK, CpuFallbackFullOK, TimePassesOK, StutterOK, Zenon

\* Whatever the models, devices and settings are, an execution of a plan always keeps the
\* maps of the controller as the invariant says.
THEOREM InvHolds == Spec => []Inv
<1>1. Init => Inv BY InitOK
<1> QED BY <1>1, NextOK, PTL DEF Spec

-------------------------------------------------------------------------------
(* What is only read stays: the arguments, and the constants *)

\* It is, or was, at a step of a plan, for which it has made a controller.
Controlled == pc \in {"next", "compute", "partial fallback", "full fallback"}
Executes == pc \in {"compute", "partial fallback"}
Making == pc \in {"build", "compile", "compiled"}
Fresh == Making => DOMAIN memory = {}
Protected ==
    Controlled => /\ IsPlan(given, plan) /\ Protects(plan, maps)
                  /\ IsSpare(plan, mSourceOperandToOffsetOfTemporary2)
Kept == \A l \in Initialized \cap DOMAIN memory : memory[l] = Named(l.for)
Guards == Fresh /\ Protected /\ Kept

\* What has a value from the start depends on the plan alone.
LEMMA SameInitialized ==
    ASSUME UNCHANGED <<given, plan>>
    PROVE  Initialized' = Initialized
BY DEF Initialized, MainInputs, References, Copies

\* It cannot be written.
LEMMA InitializedIs ==
    ASSUME NEW l \in Initialized
    PROVE  ~CanWrite(plan, l) /\ l # Nowhere
<1>1. CASE l \in Range(Locate("input", MainInputs))
  <2>1. PICK x \in MainInputs : l = Location("input", x) BY <1>1 DEF Range, Locate
  <2> QED BY <2>1 DEF Location, Nowhere, CanWrite
<1>2. CASE l \in Range(Locate("constant", References))
  <2>1. PICK x \in References : l = Location("constant", x) BY <1>2 DEF Range, Locate
  <2> QED BY <2>1 DEF Location, Nowhere, CanWrite
<1>3. CASE l \in Range(Locate("temporary", Copies))
  <2>1. PICK x \in Copies : l = Location("temporary", x) BY <1>3 DEF Range, Locate
  <2>2. x \in CopiesOf(plan) BY DEF Copies, CopiesOf
  <2> QED BY <2>1, <2>2 DEF Location, Nowhere, CanWrite
<1> QED BY <1>1, <1>2, <1>3 DEF Initialized

\* Nor is it where an output or temporary is.
LEMMA NotThere ==
    ASSUME Protects(plan, maps), NEW kinds \in SUBSET Kinds, NEW x,
           LifetimeOf(plan, x) \in Writable
    PROVE  At(maps, kinds, x) \notin Initialized
<1>1. At(maps, kinds, x) = Nowhere \/ CanWrite(plan, At(maps, kinds, x)) BY WritesThere
<1> QED BY <1>1, InitializedIs

\* A step that changes neither the maps nor the memory.
LEMMA Quiet ==
    ASSUME Guards, UNCHANGED <<given, plan, mapVars, mSourceOperandToOffsetOfTemporary2, memory>>,
           ~Making', Controlled' => Controlled
    PROVE  Guards'
<1>1. maps' = maps BY MapsKept
<1>2. Protected' BY <1>1 DEF Guards, Protected
<1>3. Kept' BY SameInitialized DEF Guards, Kept
<1>4. Fresh' BY DEF Fresh
<1> QED BY <1>2, <1>3, <1>4 DEF Guards

\* Writing of outputs and temporaries.
LEMMA WritesAround ==
    ASSUME Kept, Protects(plan, maps), NEW outs, NEW rs, NEW code, Writing(outs, rs, code),
           \A i \in DOMAIN outs : LifetimeOf(plan, outs[i]) \in Writable,
           UNCHANGED <<given, plan>>
    PROVE  Kept'
<1> DEFINE ls == [i \in DOMAIN outs |-> At(maps, OutputKinds, outs[i])]
<1>1. /\ DOMAIN memory' = DOMAIN memory
      /\ \A l \in DOMAIN memory : l \notin Range(ls) => memory'[l] = memory[l]
  BY DEF Writing
<1>2. ASSUME NEW l \in Initialized PROVE l \notin Range(ls)
  <2>1. OutputKinds \in SUBSET Kinds BY KindsAre
  <2>2. \A i \in DOMAIN outs : At(maps, OutputKinds, outs[i]) # l BY <1>2, <2>1, NotThere
  <2> QED BY <2>2 DEF Range
<1> QED BY <1>1, <1>2, SameInitialized DEF Kept

\* A list of the elements of a finite set.
LEMMA SetToSeqIs ==
    ASSUME NEW S, IsFiniteSet(S)
    PROVE  SetToSeq(S) \in [1 .. Cardinality(S) -> S]
<1>1. ExistsBijection(1 .. Cardinality(S), S) BY FS_CardinalityType
<1>2. PICK f \in [1 .. Cardinality(S) -> S] : IsInjective(f)
  BY <1>1 DEF ExistsBijection, Bijection, Injection, IsInjective
<1> QED BY <1>2 DEF SetToSeq

\* What a step writes are outputs and temporaries.
LEMMA StepWrites ==
    ASSUME Inv, Executes
    PROVE  \A i \in DOMAIN StepOperands(StepModel.outs) :
               LifetimeOf(plan, StepOperands(StepModel.outs)[i]) \in Writable
<1> DEFINE f == mFallbackNextStepIndex
           xs == StepOperands(StepModel.outs)
<1>1. /\ IsPlan(given, plan) /\ f \in DOMAIN plan.steps
      /\ f \in StepsOf(plan, "execute") \cup StepsOf(plan, "simple")
  BY ExecutingIs, Zenon DEF Executes
<1>2. CASE isSimple(plan)
  <2>1. xs = Of(1, plan.models[1].outs) BY <1>1, <1>2, PlanIs DEF StepOperands, StepModel
  <2>2. \A i \in DOMAIN xs : xs[i] \in Outs(plan, 1) BY <2>1 DEF Outs, ToSet
  <2>3. \A x \in Outs(plan, 1) : LifetimeOf(plan, x) = "SUBGRAPH_OUTPUT"
    BY <1>1, PlanIs, OperandsAre
  <2> QED BY <2>2, <2>3 DEF Writable
<1>3. CASE ~isSimple(plan)
  <2>1. f \in StepsOf(plan, "execute")
    <3>1. ASSUME f \in StepsOf(plan, "simple") PROVE FALSE
      <4>1. Len(plan.steps) = 1 /\ plan.steps[f].kind = "simple"
        <5>1. IsStep(plan, f) /\ plan.steps[f].kind = "simple"
          BY <1>1, <3>1, Zenon DEF IsPlan, StepsOf
        <5> QED BY <5>1 DEF IsStep
      <4>2. f = 1 BY <1>1, <4>1, PlanIs
      <4> QED BY <1>3, <4>1, <4>2 DEF isSimple
    <3> QED BY <1>1, <3>1
  <2> DEFINE step == plan.steps[f]
             k == step.model
             outs == stepModelOutputs(plan, step)
  <2>2. xs = Of(k, SetToSeq(outs)) BY <1>3 DEF StepOperands, StepModel, Executing
  <2>3. outs \subseteq Writes(step) BY DEF stepModelOutputs, tempsAsStepModelOutputs
  <2>4. IsFiniteSet(outs)
    <3>1. IsFiniteSet(Writes(step)) BY <1>1, <2>1, PlanIs, Zenon DEF IsExecution
    <3> QED BY <2>3, <3>1, FS_Subset
  <2>5. \A o \in outs : LifetimeOf(plan, <<k, o>>) \in Writable
    BY DEF stepModelOutputs, tempsAsStepModelOutputs, LifetimeOf, Writable
  <2> HIDE DEF outs, k, xs
  <2>6. SetToSeq(outs) \in [1 .. Cardinality(outs) -> outs] BY <2>4, SetToSeqIs
  <2>7. \A i \in DOMAIN xs : xs[i] = <<k, SetToSeq(outs)[i]>> /\ SetToSeq(outs)[i] \in outs
    BY <2>2, <2>6 DEF Of
  <2>8. \A i \in DOMAIN xs : LifetimeOf(plan, xs[i]) \in Writable BY <2>5, <2>7
  <2> QED BY <2>8 DEF xs
<1> QED BY <1>2, <1>3

\* A step model is executed, by its device or again on the CPU, or the whole is.
LEMMA ComputeIs ==
    ASSUME compute \/ cpuFallbackPartial \/ cpuFallbackFull
    PROVE  /\ UNCHANGED <<given, plan, mapVars, mSourceOperandToOffsetOfTemporary2>>
           /\ Controlled /\ ~Making'
           /\ \/ Executes /\ \E rs, code : Writing(StepOperands(StepModel.outs), rs, code)
              \/ \E rs, code : Writing(Of(1, given.model.outs), rs, code)
<1>1. CASE compute
  <2>1. /\ pc = "compute" /\ UNCHANGED <<given, plan, mapVars, loopVars>>
        /\ \E rs, code : Writing(StepOperands(StepModel.outs), rs, code)
    BY <1>1, Zenon DEF compute
  <2>2. \/ pc' = "next"
        \/ \E code : Notifies(code)
        \/ pc' = "full fallback"
        \/ pc' = "partial fallback"
    <3>1. PICK code \in Outcomes(StepResults(Executing.device)) :
            CASE code = "NO_ERROR" -> pc' = "next" /\ UNCHANGED result
              [] code # "NO_ERROR" /\ (code = "OUTPUT_INSUFFICIENT_SIZE" \/ ~allowFallback)
                   -> Notifies(code)
              [] OTHER -> /\ pc' = IF Executing.device = Cpu THEN "full fallback"
                                   ELSE "partial fallback"
                          /\ UNCHANGED result
      BY <1>1, Zenon DEF compute
    <3> QED BY <3>1, Zenon
  <2>3. ~Making' BY <2>2, NotifiesIs, Zenon DEF Making
  <2>4. Executes /\ Controlled BY <2>1, Zenon DEF Executes, Controlled
  <2>5. UNCHANGED mSourceOperandToOffsetOfTemporary2 BY <2>1, Zenon DEF loopVars
  <2> QED BY <2>1, <2>3, <2>4, <2>5, Zenon
<1>2. CASE cpuFallbackPartial
  <2>1. /\ pc = "partial fallback" /\ UNCHANGED <<given, plan, mapVars, loopVars>>
        /\ \E rs, code : Writing(StepOperands(StepModel.outs), rs, code)
    BY <1>2, Zenon DEF cpuFallbackPartial
  <2>2. \/ pc' = "next"
        \/ \E code : Notifies(code)
        \/ pc' = "full fallback"
    <3>1. PICK code \in Outcomes(StepResults(Cpu)) :
            CASE code = "NO_ERROR" -> pc' = "next" /\ UNCHANGED result
              [] code # "NO_ERROR" /\ (code = "OUTPUT_INSUFFICIENT_SIZE" \/ isSimple(plan))
                   -> Notifies(code)
              [] OTHER -> pc' = "full fallback" /\ UNCHANGED result
      BY <1>2, Zenon DEF cpuFallbackPartial
    <3> QED BY <3>1, Zenon
  <2>3. ~Making' BY <2>2, NotifiesIs, Zenon DEF Making
  <2>4. Executes /\ Controlled BY <2>1, Zenon DEF Executes, Controlled
  <2>5. UNCHANGED mSourceOperandToOffsetOfTemporary2 BY <2>1, Zenon DEF loopVars
  <2> QED BY <2>1, <2>3, <2>4, <2>5, Zenon
<1>3. CASE cpuFallbackFull
  <2>1. /\ pc = "full fallback" /\ UNCHANGED <<given, plan, mapVars, loopVars>>
        /\ \E rs, code : Writing(Of(1, given.model.outs), rs, code)
        /\ \E code : Notifies(code)
    BY <1>3, Zenon DEF cpuFallbackFull
  <2>2. ~Making' BY <2>1, NotifiesIs, Zenon DEF Making
  <2>3. Controlled BY <2>1, Zenon DEF Controlled
  <2>4. UNCHANGED mSourceOperandToOffsetOfTemporary2 BY <2>1, Zenon DEF loopVars
  <2> QED BY <2>1, <2>2, <2>3, <2>4, Zenon
<1> QED BY <1>1, <1>2, <1>3

\* It writes around what is only read.
LEMMA ComputeKeeps ==
    ASSUME Inv, Guards, compute \/ cpuFallbackPartial \/ cpuFallbackFull
    PROVE  Guards'
<1> DEFINE xs == StepOperands(StepModel.outs)
           all == Of(1, given.model.outs)
           two == mSourceOperandToOffsetOfTemporary2
<1>1. /\ UNCHANGED <<given, plan, mapVars, two>>
      /\ Controlled /\ ~Making'
      /\ \/ Executes /\ \E rs, code : Writing(xs, rs, code)
         \/ \E rs, code : Writing(all, rs, code)
  BY ComputeIs
<1>2. IsPlan(given, plan) /\ Protects(plan, maps) /\ IsSpare(plan, two) /\ Kept
  BY <1>1 DEF Guards, Protected
<1>3. Executes => \A i \in DOMAIN xs : LifetimeOf(plan, xs[i]) \in Writable BY StepWrites
<1>4. \A i \in DOMAIN all : LifetimeOf(plan, all[i]) \in Writable
  <2>1. all = Of(1, plan.models[1].outs) BY <1>2, PlanIs
  <2> HIDE DEF all
  <2>2. \A i \in DOMAIN all : all[i] \in Outs(plan, 1) BY <2>1 DEF Outs, ToSet
  <2>3. \A x \in Outs(plan, 1) : LifetimeOf(plan, x) = "SUBGRAPH_OUTPUT"
    BY <1>2, PlanIs, OperandsAre
  <2> QED BY <2>2, <2>3 DEF Writable
<1> HIDE DEF xs, all
<1>5. Kept' BY <1>1, <1>2, <1>3, <1>4, WritesAround
<1>6. Protected' BY <1>1, <1>2, MapsKept DEF Protected
<1>7. Fresh' BY <1>1 DEF Fresh
<1> QED BY <1>5, <1>6, <1>7 DEF Guards

\* Before there is a controller, there is no memory.
LEMMA EarlyKeeps ==
    ASSUME Guards, build \/ finish
    PROVE  Guards'
<1>1. memory' = memory /\ Making
  BY Zenon DEF build, finish, Making
<1>2. pc' \in {"compile", "compiled", "done"} BY Zenon DEF build, finish, Ends
<1>3. ~Controlled' BY <1>2, Zenon DEF Controlled
<1>4. DOMAIN memory' = {} BY <1>1 DEF Guards, Fresh
<1> QED BY <1>3, <1>4 DEF Guards, Fresh, Protected, Kept

\* ExecutionPlan::makeController.
LEMMA MakeControllerKeeps ==
    ASSUME Inv, Guards, makeController
    PROVE  Guards'
<1> DEFINE two == mSourceOperandToOffsetOfTemporary2
           c == <<Locate("temporary", Temporaries(plan) \cup Copies), Locate("input", MainInputs),
                  Locate("output", MainOutputs), Locate("constant", References)>>
<1>1. /\ pc = "compiled" /\ pc' = "next"
      /\ SetMaps(c)
      /\ memory' = [l \in Initialized \cup Unwritten |->
                        IF l \in Initialized THEN Named(l.for) ELSE Garbage]
      /\ UNCHANGED <<given, plan>>
  BY Zenon DEF makeController
<1>2. IsPlan(given, plan)
  <2>1. pc = "compiled" BY <1>1
  <2> QED BY <2>1, Zenon DEF Inv, Steps, Ready
<1>3. /\ Copies = CopiesOf(plan) /\ References = ReferencesOf(plan)
      /\ MainInputs = Ins(plan, 1) /\ MainOutputs = Outs(plan, 1)
  <2>1. plan.models[1] = given.model BY <1>2, PlanIs
  <2> QED BY <2>1
          DEF Copies, References, MainInputs, MainOutputs, CopiesOf, ReferencesOf, Ins, Outs
<1>4. /\ \A x \in CopiesOf(plan) : LifetimeOf(plan, x) = "CONSTANT_COPY"
      /\ \A x \in ReferencesOf(plan) : LifetimeOf(plan, x) = "CONSTANT_REFERENCE"
      /\ \A x \in Ins(plan, 1) : LifetimeOf(plan, x) = "SUBGRAPH_INPUT"
      /\ \A x \in Outs(plan, 1) : LifetimeOf(plan, x) = "SUBGRAPH_OUTPUT"
      /\ \A x \in BodyOutputs(plan) : LifetimeOf(plan, x) \in Writable
  <2>1. ASSUME NEW x \in BodyOutputs(plan) PROVE LifetimeOf(plan, x) \in Writable
    <3>1. x \in Temporaries(plan) BY <1>2, BodyOutputsAre
    <3> QED BY <1>2, <3>1, TemporariesAre DEF Writable
  <2> QED BY <1>2, <2>1, PlanIs, OperandsAre
          DEF CopiesOf, ReferencesOf, findControlFlowBoundaryConstants
<1>5. maps' = <<c[1], c[2], c[3], c[4]>>
  <2>1. SetMaps(c) BY <1>1
  <2> HIDE DEF c
  <2> QED BY <2>1, MapsAre
<1>6. /\ DOMAIN maps' = Kinds
      /\ maps'[1] = Locate("temporary", Temporaries(plan) \cup CopiesOf(plan))
      /\ maps'[2] = Locate("input", Ins(plan, 1))
      /\ maps'[3] = Locate("output", Outs(plan, 1))
      /\ maps'[4] = Locate("constant", ReferencesOf(plan))
  BY <1>3, <1>5, KindsAre
<1>7. ASSUME NEW place, NEW X
      PROVE  /\ DOMAIN Locate(place, X) = X
             /\ \A x \in X : /\ Locate(place, X)[x].place = place
                             /\ Locate(place, X)[x].for = x
  BY DEF Locate, Location
<1>8. ASSUME NEW k \in Kinds, NEW x \in DOMAIN maps'[k], LifetimeOf(plan, x) \in Writable
      PROVE  k \in OutputKinds /\ CanWrite(plan, maps'[k][x])
  <2>1. x \notin CopiesOf(plan) BY <1>4, <1>8 DEF Writable
  <2>2. CASE k = 1 BY <1>6, <1>7, <2>1, <2>2, KindsAre DEF CanWrite
  <2>3. CASE k = 3 BY <1>6, <1>7, <2>1, <2>3, KindsAre DEF CanWrite
  <2>4. CASE k = 2 BY <1>4, <1>6, <1>7, <1>8, <2>4 DEF Writable
  <2>5. CASE k = 4 BY <1>4, <1>6, <1>7, <1>8, <2>5 DEF Writable
  <2> QED BY <2>2, <2>3, <2>4, <2>5, KindsAre
<1>9. ASSUME NEW x \in DOMAIN two' PROVE CanWrite(plan, two'[x])
  <2>1. /\ x \in BodyOutputs(plan)
        /\ two'[x].place \notin {"input", "constant"} /\ two'[x].for = x
    <3>1. PICK place : /\ two' = Locate(place, BodyOutputs(plan))
                       /\ place \notin {"input", "constant"}
      <4>1. two' = Locate("second temporary", BodyOutputs(plan)) BY Zenon DEF makeController
      <4>2. "second temporary" \notin {"input", "constant"} BY Zenon
      <4> QED BY <4>1, <4>2, Zenon
    <3>2. DOMAIN two' = BodyOutputs(plan) BY <1>7, <3>1
    <3> QED BY <1>7, <3>1, <3>2
  <2>2. x \notin CopiesOf(plan) BY <1>4, <2>1 DEF Writable
  <2> QED BY <2>1, <2>2 DEF CanWrite
<1> HIDE DEF c
<1>10. Protected'
  BY <1>1, <1>2, <1>6, <1>8, <1>9 DEF Protected, Protects, IsSpare
<1>11. Kept' BY <1>1, SameInitialized DEF Kept
<1>12. Fresh' BY <1>1 DEF Fresh, Making
<1> QED BY <1>10, <1>11, <1>12 DEF Guards

\* New maps, for the step to which the execution goes.
LEMMA MapsKeep ==
    ASSUME Guards, UNCHANGED <<given, plan, memory>>, ~Making', IsPlan(given, plan),
           Protects(plan, maps'), IsSpare(plan, mSourceOperandToOffsetOfTemporary2')
    PROVE  Guards'
<1>1. Protected' BY DEF Protected
<1>2. Kept' BY SameInitialized DEF Guards, Kept
<1>3. Fresh' BY DEF Fresh
<1> QED BY <1>1, <1>2, <1>3 DEF Guards

\* What is known of the maps when the execution is at a step.
LEMMA NextIs ==
    ASSUME Guards, pc = "next"
    PROVE  /\ IsPlan(given, plan) /\ Protects(plan, maps) /\ Kept
           /\ IsSpare(plan, mSourceOperandToOffsetOfTemporary2)
BY DEF Guards, Protected, Controlled

\* A CHECK ends no execution before there is a controller.
LEMMA ChecksAre ==
    ASSUME pc = "next", NEW condition, Checks(condition)
    PROVE  ~Making'
BY DEF Checks, Making

\* next at an IF.
LEMMA NextIfKeeps ==
    ASSUME Inv, Guards, NextIf
    PROVE  Guards'
<1> DEFINE s == mNextStepIndex
           step == plan.steps[s]
<1>1. PICK b \in {1, 2} :
         LET a == setInputs(maps, step.outerIns, step.ins[b])
             d == setOutputs(a, step.outerOuts, step.outs[b]) IN
         /\ AtStep("if") /\ pc = "next"
         /\ SetMaps(d)
         /\ ~Making'
         /\ UNCHANGED <<given, plan, loopVars, memory>>
  <2> DEFINE b == IF Holds(given, ReadAt(Step.cond)) THEN 1 ELSE 2
  <2>1. b \in {1, 2} OBVIOUS
  <2> HIDE DEF b
  <2> QED BY <2>1, ChecksAre, Zenon DEF NextIf, AtStep, Step, b
<1> DEFINE m == step.models[b]
           a == setInputs(maps, step.outerIns, step.ins[b])
           d == setOutputs(a, step.outerOuts, step.outs[b])
<1>2. /\ IsPlan(given, plan) /\ Protects(plan, maps)
      /\ IsSpare(plan, mSourceOperandToOffsetOfTemporary2)
  BY <1>1, NextIs
<1>3. s \in StepsOf(plan, "if") BY <1>1, AtStepIs
<1>4. /\ m \in DOMAIN plan.models
      /\ IsList(step.ins[b]) /\ ToSet(step.ins[b]) = Ins(plan, m)
      /\ IsList(step.outs[b]) /\ Len(step.outs[b]) = Len(step.outerOuts)
      /\ step.model \in DOMAIN plan.models
      /\ AreArguments(plan, step.model, step.outerIns, step.outerOuts)
  BY <1>2, <1>3, IfIs
<1>5. Protects(plan, a) BY <1>2, <1>4, ProtectsInputs
<1>6. Protects(plan, d)
  <2>1. Len(step.outs[b]) \in Nat BY <1>4 DEF IsList, IsSequence
  <2>2. \A i \in 1 .. Len(step.outs[b]) : LifetimeOf(plan, step.outerOuts[i]) \in Writable
    BY <1>2, <1>3, <1>4, ArgumentsAre
  <2> HIDE DEF a
  <2> QED BY <1>5, <2>1, <2>2, ProtectsOutputs
<1>7. SetMaps(d) BY <1>1, Zenon
<1> HIDE DEF d
<1>8. Protects(plan, maps') BY <1>6, <1>7, MapsAre, ProtectsTuple
<1>9. UNCHANGED <<given, plan, memory, mSourceOperandToOffsetOfTemporary2>> /\ ~Making'
  BY <1>1, Zenon DEF loopVars
<1> QED BY <1>2, <1>8, <1>9, MapsKeep

\* next at a WHILE that goes to its condition.
LEMMA WhileConditionKeeps ==
    ASSUME Inv, Guards, WhileCondition
    PROVE  Guards'
<1> DEFINE s == mNextStepIndex
           step == plan.steps[s]
           it == IF State.iteration = kOutsideLoop THEN "first" ELSE "later"
           outers == Vars(step, it)
           d == setInputs(maps, outers, step.condIns)
<1>1. /\ AtStage("condition")
      /\ SetMaps(d)
      /\ \E condition : Checks(condition)
      /\ UNCHANGED <<given, plan, mSourceOperandToOffsetOfTemporary2, memory>>
  BY Zenon DEF WhileCondition, Step, Vars
<1> HIDE DEF it, outers
<1>2. pc = "next" /\ s \in StepsOf(plan, "while") BY <1>1, AtStageIs
<1>3. /\ IsPlan(given, plan) /\ Protects(plan, maps)
      /\ IsSpare(plan, mSourceOperandToOffsetOfTemporary2)
  BY <1>2, NextIs
<1>4. /\ step.models[1] \in DOMAIN plan.models
      /\ IsList(step.condIns) /\ ToSet(step.condIns) = Ins(plan, step.models[1])
  BY <1>2, <1>3, WhileIs
<1>5. Protects(plan, d) BY <1>3, <1>4, ProtectsInputs
<1> HIDE DEF d
<1>6. Protects(plan, maps') BY <1>1, <1>5, MapsAre, ProtectsTuple
<1>7. ~Making' BY <1>1, <1>2, ChecksAre
<1> QED BY <1>1, <1>3, <1>6, <1>7, MapsKeep

\* next at a WHILE that goes to its body.
LEMMA WhileBodyKeeps ==
    ASSUME Inv, Guards, WhileBody
    PROVE  Guards'
<1> DEFINE s == mNextStepIndex
           step == plan.steps[s]
           two == mSourceOperandToOffsetOfTemporary2
           it == State.iteration
           outs == IF it # "first" THEN ToSet(step.bodyOuts) ELSE {}
           a == setInputs(maps, step.condIns, step.bodyIns)
           d == Exchanged(a, two, outs)
<1>1. /\ AtStage("body")
      /\ SetMaps(d)
      /\ two' = Spare(a, two, outs)
      /\ \E condition : Checks(condition)
      /\ UNCHANGED <<given, plan, memory>>
  BY Zenon DEF WhileBody, Step, Swaps, Exchanged, Spare
<1>2. /\ pc = "next" /\ s \in StepsOf(plan, "while")
      /\ RunInv(plan, s, maps, two, mWhileState)
      /\ DOMAIN mWhileState = StepsOf(plan, "while")
      /\ it \in {"first", "later"}
      /\ mWhileState[s] = [stage |-> "body", iteration |-> it]
  BY <1>1, AtStageIs DEF State
<1>3. IsPlan(given, plan) /\ Protects(plan, maps) /\ IsSpare(plan, two)
  BY <1>2, NextIs
<1>4. /\ step.models[2] \in DOMAIN plan.models
      /\ IsList(step.bodyIns) /\ ToSet(step.bodyIns) = Ins(plan, step.models[2])
      /\ ToSet(step.bodyOuts) = Outs(plan, step.models[2])
  <2>1. 2 \in {1, 2} OBVIOUS
  <2> QED BY <1>2, <1>3, <2>1, WhileIs, ReferencedAre
<1>5. outs \subseteq DOMAIN a[1] \cap DOMAIN two
  <2> DEFINE entered == [mWhileState EXCEPT ![s] = [stage |-> "condition", iteration |-> it]]
  <2>1. /\ DOMAIN entered = StepsOf(plan, "while")
        /\ \A i \in StepsOf(plan, "while") : i # s => entered[i] = mWhileState[i]
        /\ entered[s] = [stage |-> "condition", iteration |-> it]
    BY <1>2
  <2> HIDE DEF entered, it
  <2>2. EntersBody(plan, s, it, maps, two, entered) BY <1>2, <1>3, <2>1, Body
  <2>3. outs \subseteq (DOMAIN a[1] \cap DOMAIN two) \ (DOMAIN a[2] \cup DOMAIN a[3])
    BY <2>2, Zenon DEF EntersBody
  <2> QED BY <2>3
<1>6. \A x \in outs : LifetimeOf(plan, x) \in Writable
  <2>1. \A x \in Outs(plan, step.models[2]) : LifetimeOf(plan, x) = "SUBGRAPH_OUTPUT"
    BY <1>3, <1>4, OperandsAre
  <2> QED BY <1>4, <2>1 DEF Writable
<1>7. Protects(plan, a) BY <1>3, <1>4, ProtectsInputs
<1> HIDE DEF it, outs, a
<1>8. Protects(plan, d) /\ IsSpare(plan, Spare(a, two, outs))
  BY <1>3, <1>5, <1>6, <1>7, ProtectsExchanged
<1> HIDE DEF d
<1>9. Protects(plan, maps') BY <1>1, <1>8, MapsAre, ProtectsTuple
<1>10. ~Making' BY <1>1, <1>2, ChecksAre
<1> QED BY <1>1, <1>3, <1>8, <1>9, <1>10, MapsKeep

\* The copying at the end of a loop, value by value.
LEMMA CopiedIs ==
    ASSUME Len(Step.outerOuts) \in Nat
    PROVE  /\ Copied[0] = memory
           /\ \A i \in 1 .. Len(Step.outerOuts) :
                  Copied[i] = [Copied[i - 1] EXCEPT ![CopyTo(i)] = Copied[i - 1][CopyFrom(i)]]
<1> DEFINE n == Len(Step.outerOuts)
           G(mem, i) == [mem EXCEPT ![CopyTo(i)] = mem[CopyFrom(i)]]
<1> HIDE DEF G
<1> DEFINE F(k, f) == [i \in 0 .. k |-> IF i = 0 THEN memory ELSE G(f[i - 1], i)]
           S == {k \in 0 .. n : \E f : f = F(k, f)}
<1>1. 0 \in S
  <2>1. [i \in {0} |-> memory] = F(0, [i \in {0} |-> memory])
    <3>1. 0 .. 0 = {0} OBVIOUS
    <3> QED BY <3>1
  <2>2. \E f : f = F(0, f)
    <3> HIDE DEF F
    <3> QED BY <2>1
  <2> QED BY <2>2
<1>2. ASSUME NEW k \in 0 .. n, k \in S, k < n PROVE k + 1 \in S
  <2>1. PICK f : f = F(k, f) BY <1>2
  <2> DEFINE h == [i \in 0 .. k + 1 |-> IF i = k + 1 THEN G(f[k], k + 1) ELSE f[i]]
  <2>2. ASSUME NEW i \in 0 .. k + 1
        PROVE  h[i] = IF i = 0 THEN memory ELSE G(h[i - 1], i)
    <3>1. CASE i = k + 1
      <4>1. h[i - 1] = f[k] /\ i # 0 BY <3>1
      <4> QED BY <3>1, <4>1
    <3>2. CASE i # k + 1
      <4>1. i \in 0 .. k /\ h[i] = f[i] BY <3>2
      <4>2. i # 0 => h[i - 1] = f[i - 1] BY <4>1
      <4>3. f[i] = IF i = 0 THEN memory ELSE G(f[i - 1], i) BY <2>1, <4>1
      <4> QED BY <4>1, <4>2, <4>3
    <3> QED BY <3>1, <3>2
  <2>3. h = F(k + 1, h) BY <2>2, Zenon
  <2>4. \E e : e = F(k + 1, e)
    <3> HIDE DEF F, h
    <3> QED BY <2>3
  <2>5. k + 1 \in 0 .. n BY <1>2
  <2> QED BY <2>4, <2>5
<1>3. n \in S
  <2>1. \A i \in 0 .. n : i \in S /\ i < n => i + 1 \in S
    <3> HIDE DEF S
    <3> QED BY <1>2
  <2>2. 0 .. n \subseteq S
    <3> HIDE DEF S
    <3> QED BY <1>1, <2>1, UpTo
  <2> QED BY <2>2
<1>4. PICK f : f = F(n, f) BY <1>3
<1>5. Copied = F(n, Copied) BY <1>4 DEF Copied, G
<1>6. /\ Copied[0] = memory
      /\ \A i \in 1 .. n : Copied[i] = G(Copied[i - 1], i)
  <2> DEFINE A == 0 .. n
             V(i) == IF i = 0 THEN memory ELSE G(Copied[i - 1], i)
  <2>1. Copied = [i \in A |-> V(i)] BY <1>5
  <2>2. 0 \in A /\ \A i \in 1 .. n : i \in A /\ i # 0 OBVIOUS
  <2>3. \A i \in A : Copied[i] = V(i)
    <3> HIDE DEF A, V
    <3> QED BY <2>1
  <2>4. \A i \in 1 .. n : Copied[i] = V(i)
    <3> HIDE DEF A, V
    <3> QED BY <2>2, <2>3
  <2>5. Copied[0] = V(0)
    <3> HIDE DEF A, V
    <3> QED BY <2>2, <2>3
  <2>6. ASSUME NEW i \in 1 .. n PROVE V(i) = G(Copied[i - 1], i) BY <2>2
  <2>7. V(0) = memory OBVIOUS
  <2> HIDE DEF A, V
  <2> QED BY <2>4, <2>5, <2>6, <2>7
<1> QED BY <1>6, Zenon DEF G

\* It changes only where it copies to, however far it comes.
LEMMA CopiedElsewhere ==
    ASSUME Len(Step.outerOuts) \in Nat, NEW l, NEW k \in 0 .. Len(Step.outerOuts),
           \A i \in 1 .. Len(Step.outerOuts) : CopyTo(i) # l
    PROVE  LET mem == Copied[k] IN
           DOMAIN mem = DOMAIN memory /\ (l \in DOMAIN memory => mem[l] = memory[l])
<1> DEFINE n == Len(Step.outerOuts)
           Same(i) == /\ DOMAIN Copied[i] = DOMAIN memory
                      /\ l \in DOMAIN memory => Copied[i][l] = memory[l]
           S == {i \in 0 .. n : Same(i)}
<1>1. 0 \in S BY CopiedIs
<1>2. ASSUME NEW i \in 0 .. n, i \in S, i < n PROVE i + 1 \in S
  <2>1. i + 1 \in 1 .. n /\ (i + 1) - 1 = i /\ i + 1 \in 0 .. n BY <1>2
  <2>2. Copied[i + 1] = [Copied[i] EXCEPT ![CopyTo(i + 1)] = Copied[i][CopyFrom(i + 1)]]
    BY <2>1, CopiedIs
  <2>3. CopyTo(i + 1) # l BY <2>1
  <2>4. DOMAIN Copied[i] = DOMAIN memory /\ (l \in DOMAIN memory => Copied[i][l] = memory[l])
    BY <1>2
  <2>5. Same(i + 1)
    BY <2>2, <2>3, <2>4
  <2> QED BY <2>1, <2>5
<1>3. k \in S
  <2>1. \A i \in 0 .. n : i \in S /\ i < n => i + 1 \in S
    <3> HIDE DEF S
    <3> QED BY <1>2
  <2>2. 0 .. n \subseteq S
    <3> HIDE DEF S
    <3> QED BY <1>1, <2>1, UpTo
  <2> QED BY <2>2
<1> QED BY <1>3

\* The copies at the exit of a loop, all of them or some, keep what is only read.
LEMMA CopyingKeeps ==
    ASSUME Inv, Guards, AtStage("body"), NEW k \in 0 .. Len(Step.outerOuts),
           memory' = Copied[k], ~Making',
           UNCHANGED <<given, plan, mapVars, mSourceOperandToOffsetOfTemporary2>>
    PROVE  Guards'
<1> DEFINE two == mSourceOperandToOffsetOfTemporary2
<1>1. pc = "next" /\ mNextStepIndex \in StepsOf(plan, "while") BY AtStageIs
<1>2. IsPlan(given, plan) /\ Protects(plan, maps) /\ IsSpare(plan, two) /\ Kept
  BY <1>1, NextIs
<1>3. /\ Len(Step.outerOuts) \in Nat
      /\ \A i \in 1 .. Len(Step.outerOuts) : LifetimeOf(plan, Step.outerOuts[i]) \in Writable
  BY <1>1, <1>2, WhileIs, ArgumentsAre DEF Step
<1>4. ASSUME NEW i \in 1 .. Len(Step.outerOuts) PROVE CopyTo(i) \notin Initialized
  <2>1. InputKinds \in SUBSET Kinds BY KindsAre
  <2> QED BY <1>2, <1>3, <2>1, NotThere DEF CopyTo
<1>5. ASSUME NEW l \in Initialized, l \in DOMAIN memory'
      PROVE  memory'[l] = Named(l.for)
  <2>1. \A i \in 1 .. Len(Step.outerOuts) : CopyTo(i) # l BY <1>4
  <2>2. l \in DOMAIN memory /\ memory'[l] = memory[l]
    BY <1>3, <1>5, <2>1, CopiedElsewhere
  <2> QED BY <1>2, <2>2 DEF Kept
<1>6. Kept' BY <1>5, SameInitialized DEF Kept
<1>7. Protected' BY <1>2, MapsKept DEF Protected
<1> QED BY <1>6, <1>7 DEF Guards, Fresh

\* next at a WHILE that is left.
LEMMA WhileExitKeeps ==
    ASSUME Inv, Guards, WhileExit
    PROVE  Guards'
<1>1. /\ AtStage("body")
      /\ memory' = Copied[Len(Step.outerOuts)]
      /\ \E condition : Checks(condition)
      /\ UNCHANGED <<given, plan, mapVars, mSourceOperandToOffsetOfTemporary2>>
  BY Zenon DEF WhileExit
<1>2. pc = "next" /\ IsPlan(given, plan) /\ mNextStepIndex \in StepsOf(plan, "while")
  BY <1>1, AtStageIs
<1>3. ~Making' BY <1>1, <1>2, ChecksAre
<1>4. Len(Step.outerOuts) \in 0 .. Len(Step.outerOuts)
  BY <1>2, WhileIs, ArgumentsAre DEF Step
<1> QED BY <1>1, <1>3, <1>4, CopyingKeeps

\* next at a WHILE that is left, when a value cannot be copied.
LEMMA WhileExitFailsKeeps ==
    ASSUME Inv, Guards, WhileExitFails
    PROVE  Guards'
<1>1. /\ AtStage("body") /\ NextError("OP_FAILED")
      /\ UNCHANGED <<given, plan, mapVars, mSourceOperandToOffsetOfTemporary2>>
  BY Zenon DEF WhileExitFails, loopVars
<1>2. PICK i \in DOMAIN Step.outerOuts : memory' = Copied[i - 1]
  BY Zenon DEF WhileExitFails
<1>3. IsPlan(given, plan) /\ mNextStepIndex \in StepsOf(plan, "while") /\ result \in Codes
  BY <1>1, AtStageIs DEF Ranges
<1>4. /\ Len(Step.outerOuts) \in Nat
      /\ DOMAIN Step.outerOuts = 1 .. Len(Step.outerOuts)
  BY <1>3, WhileIs, ArgumentsAre DEF Step
<1>5. i - 1 \in 0 .. Len(Step.outerOuts) BY <1>2, <1>4
<1>6. pc' \in {"done", "full fallback"} BY <1>1, <1>3, NextErrorIs
<1>7. ~Making' BY <1>6 DEF Making
<1> QED BY <1>1, <1>2, <1>5, <1>7, CopyingKeeps

\* Steps in which the thread only moves, or the clock does.
LEMMA OthersKeep ==
    ASSUME Inv, Guards,
           \/ NextFails \/ NextIsTheEnd \/ NextExecution \/ NextGoto \/ LoopTimesOut
           \/ NextIfFails \/ (\E i \in DOMAIN mWhileState : TimePasses(i)) \/ UNCHANGED vars
    PROVE  Guards'
<1> DEFINE two == mSourceOperandToOffsetOfTemporary2
           Same == UNCHANGED <<given, plan, mapVars, two, memory>>
<1>1. result \in Codes BY DEF Inv, Ranges
<1>2. ASSUME Same, pc = "next" \/ pc' = pc, pc' = pc \/ ~Making' PROVE Guards'
  <2>1. Controlled' => Controlled BY <1>2, Zenon DEF Controlled
  <2>2. CASE ~Making' BY <1>2, <2>1, <2>2, Quiet
  <2>3. CASE pc' = pc
    <3>1. maps' = maps BY <1>2, MapsKept
    <3>2. Protected' BY <1>2, <2>1, <3>1 DEF Guards, Protected
    <3>3. Kept' BY <1>2, SameInitialized DEF Guards, Kept
    <3>4. Fresh' BY <1>2, <2>3 DEF Guards, Fresh, Making
    <3> QED BY <3>2, <3>3, <3>4 DEF Guards
  <2> QED BY <1>2, <2>2, <2>3
<1>3. ASSUME NextFails \/ NextIfFails \/ LoopTimesOut PROVE Guards'
  <2>1. /\ Same /\ pc = "next"
        /\ NextError("OP_FAILED") \/ NextError("MISSED_DEADLINE_TRANSIENT")
    BY <1>3, Zenon DEF NextFails, NextIfFails, LoopTimesOut, AtStage, AtStep, loopVars
  <2>2. pc' \in {"done", "full fallback"} BY <1>1, <2>1, NextErrorIs, Zenon
  <2>3. ~Making' BY <2>2, Zenon DEF Making
  <2> QED BY <1>2, <2>1, <2>3
<1>4. ASSUME NextIsTheEnd PROVE Guards'
  <2>1. Same /\ pc = "next" /\ Notifies("NO_ERROR") BY <1>4, Zenon DEF NextIsTheEnd, loopVars
  <2>2. ~Making' BY <2>1, NotifiesIs, Zenon DEF Making
  <2> QED BY <1>2, <2>1, <2>2
<1>5. ASSUME NextExecution \/ NextGoto PROVE Guards'
  <2>1. Same /\ pc = "next" /\ pc' \in {"next", "compute", "aborted"}
    BY <1>5, Zenon DEF NextExecution, NextGoto, AtStep, loopVars
  <2>2. ~Making' BY <2>1, Zenon DEF Making
  <2> QED BY <1>2, <2>1, <2>2
<1>6. ASSUME (\E i \in DOMAIN mWhileState : TimePasses(i)) \/ UNCHANGED vars PROVE Guards'
  <2>1. Same /\ pc' = pc BY <1>6 DEF TimePasses, vars, loopVars, mapVars
  <2> QED BY <1>2, <2>1
<1> QED BY <1>3, <1>4, <1>5, <1>6

\* Each step keeps what is only read.
LEMMA NextKeeps == Inv /\ Guards /\ [Next]_vars => Guards'
<1> SUFFICES ASSUME Inv, Guards, [Next]_vars PROVE Guards'
  OBVIOUS
<1>1. \/ build \/ finish \/ makeController
      \/ NextIf \/ WhileCondition \/ WhileBody \/ WhileExit \/ WhileExitFails
      \/ compute \/ cpuFallbackPartial \/ cpuFallbackFull
      \/ (\/ NextFails \/ NextIsTheEnd \/ NextExecution \/ NextGoto \/ LoopTimesOut
          \/ NextIfFails \/ (\E i \in DOMAIN mWhileState : TimePasses(i)) \/ UNCHANGED vars)
  BY Zenon DEF Next, Runs
<1> QED BY <1>1, EarlyKeeps, MakeControllerKeeps, NextIfKeeps, WhileConditionKeeps, WhileBodyKeeps,
           WhileExitKeeps, WhileExitFailsKeeps, ComputeKeeps, OthersKeep, Zenon

\* Outputs and temporaries never get the place of an argument or of a constant, whichever
\* branches are taken and however often loops go round (setInput, setOutput, the double
\* buffering), so that these keep their values for a step, or the whole, to be repeated.
THEOREM GuardsHold == Spec => []Guards
<1>1. Init => Inv BY InitOK
<1>2. Init => Guards
  <2> SUFFICES ASSUME Init PROVE Guards
    OBVIOUS
  <2>1. pc = "build" /\ DOMAIN memory = {} BY DEF Init
  <2>2. ~Controlled BY <2>1, Zenon DEF Controlled
  <2> QED BY <2>1, <2>2 DEF Guards, Fresh, Protected, Kept
<1> QED BY <1>1, <1>2, NextOK, NextKeeps, PTL DEF Spec

-------------------------------------------------------------------------------
(* What the invariant says of the program *)

\* What a loop copies when it is left: from a place to another one.
LEMMA CopiesAre ==
    ASSUME NEW g, NEW p, IsPlan(g, p), NEW c, NEW two, NEW loops,
           NEW s \in StepsOf(p, "while"), RunInv(p, s, c, two, loops), loops[s].stage = "body"
    PROVE  LET step == p.steps[s] IN
           /\ In(c, step.condOut) # Nowhere
           /\ \A i, j \in DOMAIN step.outerOuts :
                  /\ In(c, step.outerOuts[i]) # Nowhere
                  /\ In(c, step.condIns[j]) # Nowhere
                  /\ In(c, step.outerOuts[i]) # In(c, step.condIns[j])
<1> DEFINE step == p.steps[s]
           k == step.model
           m == step.models[2]
           ins == step.condIns
           body == step.bodyOuts
           outerIns == step.outerIns
           outerOuts == step.outerOuts
<1>1. /\ k \in DOMAIN p.models /\ k \in Active(p, s)
      /\ AreArguments(p, k, outerIns, outerOuts)
      /\ m \in DOMAIN p.models /\ IsEntry(p, s, m, step.bodyStep)
      /\ IsList(ins) /\ IsList(body) /\ ToSet(body) = Outs(p, m)
      /\ Len(ins) = Len(outerIns) /\ Len(body) <= Len(outerIns) /\ Len(outerOuts) <= Len(body)
  BY WhileIs
<1>2. /\ IsPermanent(p, c, two) /\ AreMaps(p, c) /\ AreDisjoint(c) /\ IsSound(p, c, k)
      /\ HasCondition(c, step, loops[s])
  BY <1>1 DEF RunInv, AreMaps
<1>3. In(c, step.condOut) # Nowhere
  <2>1. BodyOutputs(p) \subseteq Temporaries(p) /\ step.condOut \in Temporaries(p)
    BY BodyOutputsAre
  <2> QED BY <1>2, <2>1, PermanentIn
<1>4. /\ DOMAIN outerIns = 1 .. Len(outerIns) /\ Len(outerIns) \in Nat
      /\ DOMAIN outerOuts = 1 .. Len(outerOuts) /\ Len(outerOuts) \in Nat
      /\ \A i \in DOMAIN outerIns : IsOperand(p, k, outerIns[i])
      /\ \A i \in DOMAIN outerOuts :
             IsOperand(p, k, outerOuts[i]) /\ LifetimeOf(p, outerOuts[i]) \in Writable
      /\ \A i \in DOMAIN outerIns, j \in DOMAIN outerOuts : outerIns[i] # outerOuts[j]
  BY <1>1, ArgumentsAre
<1>5. /\ DOMAIN ins = 1 .. Len(ins) /\ DOMAIN body = 1 .. Len(body) /\ Len(body) \in Nat
      /\ \A i \in DOMAIN body : body[i] \in ToSet(body)
  <2>1. DOMAIN ins = 1 .. Len(ins) /\ DOMAIN body = 1 .. Len(body) /\ Len(body) \in Nat
    BY <1>1 DEF IsList, IsSequence
  <2> HIDE DEF ins, body
  <2> QED BY <2>1 DEF ToSet
<1>6. \A i \in DOMAIN ins :
          In(c, ins[i]) = IF loops[s].iteration = "later" /\ i \in DOMAIN body
                          THEN c[1][body[i]] ELSE In(c, outerIns[i])
  BY <1>2 DEF HasCondition
<1>7. m = p.steps[s].models[2] /\ k = p.steps[s].model OBVIOUS
<1>8. BodyOutputs(p) \subseteq Temporaries(p) /\ Outs(p, m) \subseteq BodyOutputs(p)
  BY BodyOutputsAre
<1> HIDE DEF k, m, ins, body, outerIns, outerOuts
<1>9. \A i \in DOMAIN outerOuts : i \in DOMAIN ins /\ i \in DOMAIN outerIns
  BY <1>1, <1>4, <1>5
<1>10. ASSUME NEW i \in DOMAIN outerOuts
       PROVE  /\ In(c, outerOuts[i]) # Nowhere
              /\ In(c, outerOuts[i]).for[1] # m
  <2>1. IsOperand(p, k, outerOuts[i]) BY <1>4
  <2>2. /\ In(c, outerOuts[i]) # Nowhere
        /\ In(c, outerOuts[i]).for[1] \in Nat /\ NotLater(p, k, In(c, outerOuts[i]).for[1])
    BY <1>1, <1>2, <2>1, OperandIs
  <2>3. 2 \in {1, 2} /\ s \in StepsOf(p, "while") \cup StepsOf(p, "if") OBVIOUS
  <2>4. In(c, outerOuts[i]).for[1] < m BY <1>1, <1>7, <2>2, <2>3, Later
  <2>5. m \in Nat
    <3>1. Len(p.models) \in Nat /\ DOMAIN p.models = 1 .. Len(p.models) BY PlanIs
    <3> QED BY <1>1, <3>1
  <2> QED BY <2>2, <2>4, <2>5
<1>11. ASSUME NEW j \in DOMAIN body
       PROVE  c[1][body[j]] # Nowhere /\ c[1][body[j]].for[1] = m
  <2>1. body[j] \in Outs(p, m) /\ body[j] \in BodyOutputs(p) /\ body[j] \in Temporaries(p)
    BY <1>1, <1>5, <1>8
  <2>2. body[j] = <<m, body[j][2]>> /\ LifetimeOf(p, body[j]) = "SUBGRAPH_OUTPUT"
    BY <1>1, <2>1, OperandsAre
  <2>3. body[j] \notin ReferencesOf(p)
    BY <2>2 DEF ReferencesOf, findControlFlowBoundaryConstants
  <2>4. /\ In(c, body[j]).for = body[j] /\ In(c, body[j]) # Nowhere
        /\ In(c, body[j]) = c[1][body[j]]
    <3> DEFINE x == body[j]
    <3>1. x \in Temporaries(p) /\ x \notin ReferencesOf(p) BY <2>1, <2>3
    <3> HIDE DEF x
    <3>2. In(c, x).for = x /\ In(c, x) # Nowhere /\ In(c, x) = c[1][x]
      BY <1>2, <1>8, <3>1, PermanentIn
    <3> QED BY <3>2 DEF x
  <2> QED BY <2>2, <2>4
<1>12. ASSUME NEW i \in DOMAIN outerOuts, NEW j \in DOMAIN outerOuts
       PROVE  /\ In(c, ins[j]) # Nowhere
              /\ In(c, outerOuts[i]) # In(c, ins[j])
  <2>1. CASE loops[s].iteration = "later" /\ j \in DOMAIN body
    <3>1. In(c, ins[j]) = c[1][body[j]] BY <1>6, <1>9, <2>1
    <3> QED BY <1>10, <1>11, <2>1, <3>1
  <2>2. CASE ~(loops[s].iteration = "later" /\ j \in DOMAIN body)
    <3>1. In(c, ins[j]) = In(c, outerIns[j]) BY <1>6, <1>9, <2>2
    <3>2. /\ IsOperand(p, k, outerIns[j])
          /\ IsOperand(p, k, outerOuts[i]) /\ LifetimeOf(p, outerOuts[i]) \in Writable
          /\ outerOuts[i] # outerIns[j]
      BY <1>4, <1>9
    <3>3. In(c, outerIns[j]) # Nowhere BY <1>1, <1>2, <3>2, OperandIs
    <3>4. In(c, outerOuts[i]) # In(c, outerIns[j])
      <4> DEFINE x == outerOuts[i]
                 y == outerIns[j]
      <4>1. IsOperand(p, k, x) /\ LifetimeOf(p, x) \in Writable /\ IsOperand(p, k, y) /\ x # y
        BY <3>2
      <4> HIDE DEF x, y
      <4>2. In(c, x) # In(c, y) BY <1>1, <1>2, <4>1, Separated
      <4> QED BY <4>2 DEF x, y
    <3> QED BY <3>1, <3>3, <3>4
  <2> QED BY <2>1, <2>2
<1> QED BY <1>3, <1>10, <1>12 DEF ins, outerOuts

\* At the end of a plan all loops have been left.
LEMMA EndIs ==
    ASSUME NEW g, NEW p, IsPlan(g, p), NEW c, NEW two, NEW loops,
           RunInv(p, Len(p.steps) + 1, c, two, loops), NEW i \in StepsOf(p, "while")
    PROVE  loops[i].stage # "body" /\ loops[i].iteration = kOutsideLoop
<1>1. IsInside(p, Len(p.steps) + 1, i, loops[i]) BY DEF RunInv
<1>2. /\ Len(p.steps) \in Nat /\ DOMAIN p.steps = 1 .. Len(p.steps) /\ i \in DOMAIN p.steps
      /\ Active(p, Len(p.steps) + 1) = {1}
  BY PlanIs
<1>3. i # Len(p.steps) + 1 BY <1>2
<1>4. \A b \in {1, 2} : p.steps[i].models[b] \notin Active(p, Len(p.steps) + 1)
  BY <1>2, ReferencedAre
<1> DEFINE end == Len(p.steps) + 1
<1> HIDE DEF end
<1>5. IsInside(p, end, i, loops[i]) /\ i # end
      /\ \A b \in {1, 2} : p.steps[i].models[b] \notin Active(p, end)
  BY <1>1, <1>3, <1>4 DEF end
<1> QED BY <1>5 DEF IsInside

\* The invariant has what the type invariant says.
LEMMA IsTyped == Inv => TypeOK
<1> SUFFICES ASSUME Inv PROVE TypeOK
  OBVIOUS
<1>1. Ranges BY DEF Inv
<1>2. ASSUME NEW i \in DOMAIN mWhileState
      PROVE  /\ mWhileState[i].stage \in {"condition", "body"}
             /\ mWhileState[i].iteration \in {kOutsideLoop, "first", "later"}
             /\ pc = "next" /\ mNextStepIndex = Len(plan.steps) + 1 =>
                    mWhileState[i] = [stage |-> "condition", iteration |-> kOutsideLoop]
  <2>1. mWhileState[i] \in Loops BY <1>1 DEF Ranges
  <2>2. /\ mWhileState[i].stage \in {"condition", "body"}
        /\ mWhileState[i].iteration \in {kOutsideLoop, "first", "later"}
        /\ mWhileState[i] = [stage |-> mWhileState[i].stage,
                             iteration |-> mWhileState[i].iteration]
    BY <2>1 DEF Loops, Stages, Iterations
  <2>3. ASSUME pc = "next", mNextStepIndex = Len(plan.steps) + 1
        PROVE  mWhileState[i].stage # "body" /\ mWhileState[i].iteration = kOutsideLoop
    <3>1. IsPlan(given, plan) /\ Len(plan.steps) \in Nat BY <1>1, <2>3 DEF Inv, Steps, Ready, Ranges
    <3>2. Here = Len(plan.steps) + 1 BY <2>3 DEF Here
    <3>3. Here # kBadStepIndex BY <3>1, <3>2 DEF kBadStepIndex
    <3>4. RunInv(plan, Len(plan.steps) + 1, maps, mSourceOperandToOffsetOfTemporary2, mWhileState)
      BY <2>3, <3>2, <3>3 DEF Inv, Running, Maps
    <3>5. DOMAIN mWhileState = StepsOf(plan, "while") BY <3>4, Zenon DEF RunInv
    <3> QED BY <3>1, <3>4, <3>5, EndIs
  <2> QED BY <2>2, <2>3
<1>3. ASSUME AtStep("if") PROVE IsLocated(Step.cond)
  <2> DEFINE s == mNextStepIndex
             k == Step.model
  <2>1. /\ IsPlan(given, plan) /\ s \in StepsOf(plan, "if")
        /\ RunInv(plan, s, maps, mSourceOperandToOffsetOfTemporary2, mWhileState)
    BY <1>3, AtStepIs
  <2>2. IsOperand(plan, k, Step.cond) /\ k \in DOMAIN plan.models /\ k \in Active(plan, s)
    <3>1. 1 \in {1, 2} OBVIOUS
    <3> QED BY <2>1, <3>1, IfIs DEF Step
  <2> HIDE DEF k, s
  <2>3. /\ IsPermanent(plan, maps, mSourceOperandToOffsetOfTemporary2) /\ AreMaps(plan, maps)
        /\ IsSound(plan, maps, k)
    BY <2>1, <2>2 DEF RunInv
  <2>4. In(maps, Step.cond) # Nowhere BY <2>1, <2>2, <2>3, OperandIs
  <2> QED BY <2>4 DEF IsLocated, In
<1>4. ASSUME AtStage("body")
      PROVE  /\ IsLocated(Step.condOut)
             /\ \A i \in DOMAIN Step.outerOuts : Nowhere \notin {CopyTo(i), CopyFrom(i)}
  <2>1. /\ In(maps, Step.condOut) # Nowhere
        /\ \A i \in DOMAIN Step.outerOuts : /\ In(maps, Step.outerOuts[i]) # Nowhere
                                            /\ In(maps, Step.condIns[i]) # Nowhere
    BY <1>4, AtStageIs, CopiesAre DEF State, Step, AtStage
  <2> QED BY <2>1, Zenon DEF IsLocated, CopyTo, CopyFrom, In
<1> QED BY <1>1, <1>2, <1>3, <1>4 DEF Ranges, TypeOK

\* No CHECK of the controller ever fails, in a debug build neither, conditions and values to
\* copy are always found, and at the end of the plan all loops have been left.
THEOREM TypeCorrect == Spec => []TypeOK
BY InvHolds, IsTyped, PTL

\* The invariants keep what is read and what is written apart.
LEMMA AreSeparate == Inv /\ Guards => InputsDoNotAliasOutputs
<1> SUFFICES ASSUME Inv, Guards PROVE InputsDoNotAliasOutputs
  OBVIOUS
<1>1. ASSUME pc \in {"compute", "partial fallback"}, Executing.kind = "execute"
      PROVE  LET outs == stepModelOutputs(plan, Executing) IN
             /\ \A o \in outs :
                    OutputLocation(maps, Executing, o) \notin InputLocations(plan, maps, Executing)
             /\ \A o, q \in outs :
                    OutputLocation(maps, Executing, o) = OutputLocation(maps, Executing, q) => o = q
  <2> DEFINE f == mFallbackNextStepIndex
             k == Executing.model
             ins == stepModelInputs(plan, Executing)
             outs == stepModelOutputs(plan, Executing)
  <2>1. /\ IsPlan(given, plan) /\ f \in DOMAIN plan.steps
        /\ RunInv(plan, f, maps, mSourceOperandToOffsetOfTemporary2, mWhileState)
    BY <1>1, ExecutingIs
  <2>2. f \in StepsOf(plan, "execute") BY <1>1, <2>1 DEF StepsOf, Executing
  <2>3. /\ \A o \in outs :
               /\ At(maps, OutputKinds, <<k, o>>) = In(maps, <<k, o>>)
               /\ \A q \in ins \cup outs : o # q => In(maps, <<k, o>>) # In(maps, <<k, q>>)
        /\ ins \cap outs = {}
    BY <2>1, <2>2, ExecutionIs DEF Executing
  <2>4. /\ \A o \in outs : OutputLocation(maps, Executing, o) = In(maps, <<k, o>>)
        /\ InputLocations(plan, maps, Executing) = {In(maps, <<k, o>>) : o \in ins}
    BY <2>3, Zenon DEF OutputLocation, InputLocations, In
  <2> HIDE DEF k, ins, outs
  <2>5. ASSUME NEW o \in outs
        PROVE  OutputLocation(maps, Executing, o) \notin InputLocations(plan, maps, Executing)
    <3>1. \A q \in ins : o # q /\ In(maps, <<k, o>>) # In(maps, <<k, q>>) BY <2>3
    <3> QED BY <2>4, <3>1
  <2>6. ASSUME NEW o \in outs, NEW q \in outs,
               OutputLocation(maps, Executing, o) = OutputLocation(maps, Executing, q)
        PROVE  o = q
    BY <2>3, <2>4, <2>6
  <2> QED BY <2>5, <2>6 DEF outs
<1>2. ASSUME AtStage("body"), NEW i \in DOMAIN Step.outerOuts, NEW j \in DOMAIN Step.outerOuts
      PROVE  CopyTo(i) # CopyFrom(j)
  <2>1. In(maps, Step.outerOuts[i]) # In(maps, Step.condIns[j])
    BY <1>2, AtStageIs, CopiesAre DEF State, Step, AtStage
  <2> QED BY <2>1, Zenon DEF CopyTo, CopyFrom, In
<1>3. Kept BY DEF Guards
<1> QED BY <1>1, <1>2, <1>3 DEF InputsDoNotAliasOutputs, Kept

\* No step model and no loop that is left ever writes where it reads or twice in one place, so
\* that a step that failed can be executed again (cpuFallbackPartial), and nothing overwrites
\* what the client has put in, or a constant, so that the whole can be (cpuFallbackFull).
THEOREM NoAliasing == Spec => []InputsDoNotAliasOutputs
BY InvHolds, GuardsHold, AreSeparate, PTL
===============================================================================
