------------------------------ MODULE Subgraphs ------------------------------
(***************************************************************************)
(* What models mean: the definition that the executions are compared with. *)
(***************************************************************************)
EXTENDS Models

CONSTANT Transparent   \* types of operations that return their first input

Apply(op, args) == [k \in DOMAIN op.outs |->
    IF Endless \in Range(args) THEN Endless
    ELSE IF op.type \in Transparent THEN args[1] ELSE <<op.type, k>> \o args]

RECURSIVE Depth(_)
Depth(v) == IF Len(v) = 1 THEN 1 ELSE 1 + Max({Depth(v[i]) : i \in 3 .. Len(v)})

\* Conditions, as the instance g has it: some leaves are true, and a computed value as long
\* as it is not too deep, which ends the loops whose value it is.
IsTrue(g, v) == IF Len(v) = 1 THEN v[1] \in g.yes ELSE Depth(v) <= g.limit

\* What is known when the operands os get the values vs.
Known(env, os, vs) == [o \in DOMAIN env \cup ToSet(os) |->
    IF o \in ToSet(os) THEN vs[CHOOSE i \in DOMAIN os : os[i] = o] ELSE env[o]]

Values(env, os) == [i \in DOMAIN os |-> env[os[i]]]

RECURSIVE Evaluate(_, _, _), Results(_, _, _), Iterate(_, _, _)

EvaluateOperation(g, env, op) == Known(env, op.outs, Results(g, op, Values(env, op.ins)))

Evaluate(g, m, args) ==
    LET constants == [o \in Constants(m) |-> Leaf(o)]
    IN  Values(FoldLeft(LAMBDA env, op : EvaluateOperation(g, env, op),
                        Known(constants, m.ins, args), m.ops), m.outs)

\* One iteration after the other, until the condition is false.
Iterate(g, op, vars) ==
    LET body == Evaluate(g, op.models[2], vars)
        next == body \o SubSeq(vars, Len(body) + 1, Len(vars))
    IN  IF ~IsTrue(g, Evaluate(g, op.models[1], vars)[1]) THEN vars
        ELSE IF next = vars THEN [i \in DOMAIN vars |-> Endless]
        ELSE Iterate(g, op, next)

IfResults(g, op, args) ==
    IF args[1] = Endless THEN [k \in DOMAIN op.outs |-> Endless]
    ELSE Evaluate(g, op.models[IF IsTrue(g, args[1]) THEN 1 ELSE 2], Tail(args))

WhileResults(g, op, args) ==
    IF Endless \in Range(args) THEN [k \in DOMAIN op.outs |-> Endless]
    ELSE SubSeq(Iterate(g, op, args), 1, Len(op.outs))

Results(g, op, args) == CASE op.type = "IF"    -> IfResults(g, op, args)
                          [] op.type = "WHILE" -> WhileResults(g, op, args)
                          [] OTHER             -> Apply(op, args)
===============================================================================
