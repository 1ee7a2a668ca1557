---------------------------- MODULE MCExecutionPlan ----------------------------
(* ExecutionPlan with the partitioning of Partitioner, the meaning of models of Subgraphs and  *)
(* the CPU of CpuExecutor, on instances for TLC: models, and ways to spread them over devices. *)
EXTENDS ExecutionPlan, Partitioner, CpuExecutor, TLC

Op(type, ins, outs) == [type |-> type, ins |-> ins, outs |-> outs, models |-> <<>>]
If(ins, outs, then, else) ==
    [type |-> "IF", ins |-> ins, outs |-> outs, models |-> <<then, else>>]
While(ins, outs, cond, body) ==
    [type |-> "WHILE", ins |-> ins, outs |-> outs, models |-> <<cond, body>>]
Model(ops, ins, outs, copies, references) ==
    [ops |-> ops, ins |-> ins, outs |-> outs, copies |-> copies, references |-> references]
Pure(ops, ins, outs) == Model(ops, ins, outs, {}, {})

\* An output of the model that is used in it, and an operation with two outputs.
Straight == Model(<<Op("SPLIT", <<"x">>, <<"a", "b">>), Op("ADD", <<"a", "c">>, <<"o">>),
                    Op("MUL", <<"o", "b", "o">>, <<"q">>)>>,
                  <<"x">>, <<"q", "o">>, {"c"}, {})

Add == Pure(<<Op("ADD", <<"a1", "a2">>, <<"a3">>)>>, <<"a1", "a2">>, <<"a3">>)
Mul == Pure(<<Op("SPLIT", <<"m1">>, <<"m4", "m5">>), Op("MUL", <<"m4", "m2">>, <<"m3">>)>>,
            <<"m1", "m2">>, <<"m3">>)
Less == Pure(<<Op("LESS", <<"l1">>, <<"l2">>)>>, <<"l1", "l3", "l4">>, <<"l2">>)
LessTwo == [Less EXCEPT !.ins = <<"l1", "l3">>]

\* Constants cross the boundary of the branches, and one of these comes twice.
Branches == Model(<<If(<<"p", "c", "r">>, <<"i">>, Add, Mul),
                    If(<<"p", "i", "c">>, <<"j">>, Mul, Add),
                    Op("ADD", <<"i", "j">>, <<"q">>)>>,
                  <<"p">>, <<"q", "i">>, {"c"}, {"r"})

\* A counter and two variables that change places, and a third input that stays as it is.
SwapBody == Pure(<<Op("ADD", <<"i1", "i1">>, <<"i2">>), Op("ID", <<"v1">>, <<"w2">>),
                   Op("ID", <<"w1">>, <<"v2">>)>>,
                 <<"i1", "v1", "w1">>, <<"i2", "v2", "w2">>)
Swap == Pure(<<While(<<"x", "y", "z">>, <<"i", "v">>, Less, SwapBody),
               Op("MUL", <<"i", "v">>, <<"q">>)>>, <<"x", "y", "z">>, <<"q">>)

\* The inner loop starts from a constant, in each iteration of the outer one.
Inner == Pure(<<Op("ADD", <<"n1", "n2">>, <<"n3">>)>>, <<"n1", "n2">>, <<"n3">>)
Outer == Model(<<While(<<"c2", "u1">>, <<"k">>, LessTwo, Inner),
                 Op("ADD", <<"s1", "s1">>, <<"s2">>)>>,
               <<"s1", "u1">>, <<"s2", "k">>, {"c2"}, {})
Nested == Pure(<<While(<<"x", "y">>, <<"i", "q">>, LessTwo, Outer)>>, <<"x", "y">>, <<"q">>)

\* A branch in the body of a loop, its output the output of the body.
ChooseBody == Pure(<<If(<<"f2", "f1", "f2">>, <<"f3">>, Add, Mul)>>, <<"f1", "f2">>, <<"f3">>)
Choose == Pure(<<While(<<"x", "p">>, <<"q">>, LessTwo, ChooseBody)>>, <<"x", "p">>, <<"q">>)

\* A loop in a branch.
LoopBranch == Pure(<<While(<<"h1", "h2">>, <<"h3">>, LessTwo, Inner)>>,
                   <<"h1", "h2">>, <<"h3">>)
Guarded == Pure(<<Op("SPLIT", <<"x">>, <<"g1", "g2">>),
                  If(<<"p", "g1", "g2">>, <<"q">>, LoopBranch, Add)>>, <<"x", "p">>, <<"q">>)

\* A loop that does not end.
LessOne == [Less EXCEPT !.ins = <<"l1">>]
Forever == Pure(<<While(<<"x">>, <<"k">>, LessOne,
                        Pure(<<Op("ID", <<"e1">>, <<"e2">>)>>, <<"e1">>, <<"e2">>)),
                  Op("ADD", <<"k", "k">>, <<"q">>)>>, <<"x">>, <<"q">>)

\* One in whose body another one does end.
Everlasting == Pure(<<While(<<"x", "y">>, <<"k">>, LessTwo,
                            Pure(<<While(<<"d1", "d1">>, <<"d3">>, LessTwo, Inner),
                                   Op("ID", <<"d1">>, <<"d4">>)>>,
                                 <<"d1", "d2">>, <<"d4", "d3">>))>>, <<"x", "y">>, <<"k">>)

\* An operation of a vendor's extension.
Custom == Pure(<<Op("ADD", <<"x", "x">>, <<"a">>), Op("CUSTOM", <<"a">>, <<"q">>)>>,
               <<"x">>, <<"q">>)

\* Loops with operands of their own in the body, one of them unused, and with an operation
\* of a vendor in the body.
Repeated(body) == Pure(<<Op("ADD", <<"x", "y">>, <<"a">>),
                         While(<<"a", "y">>, <<"k">>, LessTwo, body),
                         Op("MUL", <<"k", "a">>, <<"q">>)>>, <<"x", "y">>, <<"q">>)
CustomBody == [Mul EXCEPT !.ops = Append(<<Op("CUSTOM", <<"m2">>, <<"m6">>)>> \o @,
                                         Op("ID", <<"m6">>, <<"m7">>))]

\* The client adds the operations backwards, in all of the models.
RECURSIVE Backwards(_)
Backwards(m) == [m EXCEPT !.ops = Reverse([i \in DOMAIN @ |->
    [@[i] EXCEPT !.models = [k \in DOMAIN @ |-> Backwards(@[k])]]])]

\* An operation that needs its own result.
Cyclic == Pure(<<Op("ADD", <<"x", "a">>, <<"a">>), Op("MUL", <<"x", "x">>, <<"q">>)>>,
               <<"x">>, <<"q">>)

CanDoBy(f) == [d \in {"A", "B"} |-> {t \in DOMAIN f : f[t] = d}]
Given(m, f, unknown, limit, yes, partitioning) ==
    [model |-> m, canDo |-> CanDoBy(f), unknown |-> unknown, limit |-> limit, yes |-> yes,
     partitioning |-> partitioning]

With3 == {"no", "without fallback", "with fallback"}
Spread(types) == [types -> {"A", "B", "CPU"}]
On(d) == [t \in {"SPLIT", "ADD", "MUL", "LESS", "ID", "IF", "WHILE", "CUSTOM"} |-> d]

MCInstances ==
    {Given(Straight, f, u, 1, {}, p) :
        f \in Spread({"SPLIT", "ADD", "MUL"}), u \in {{}, {"a"}, {"o"}}, p \in With3}
    \cup {Given(Branches, f, {}, 1, y, "with fallback") :
        f \in Spread({"SPLIT", "ADD", "MUL"}), y \in {{}, {"p"}}}
    \cup {Given(Branches, f, u, 1, {"p"}, "without fallback") :
        f \in Spread({"IF", "MUL"}), u \in {{}, {"m4"}, {"m3"}}}
    \cup {Given(Swap, f, {}, n, {}, "with fallback") :
        f \in Spread({"ADD", "ID", "LESS"}), n \in 1 .. 4}
    \cup {Given(Nested, f, {}, n, {}, "with fallback") :
        f \in Spread({"ADD", "LESS", "WHILE"}), n \in 2 .. 4}
    \cup {Given(Choose, f, {}, n, y, "with fallback") :
        f \in Spread({"ADD", "MUL", "IF"}), n \in 2 .. 4, y \in {{}, {"p"}}}
    \cup {Given(Guarded, f, {}, n, y, "with fallback") :
        f \in Spread({"ADD", "SPLIT", "LESS"}), n \in 2 .. 4, y \in {{}, {"p"}}}
    \cup {Given(Forever, f, {}, n, {}, "with fallback") :
        f \in Spread({"ID", "WHILE"}), n \in 1 .. 2}
    \cup {Given(Everlasting, f, {}, n, {}, "with fallback") :
        f \in Spread({"ID", "LESS", "WHILE"}), n \in 2 .. 3}
    \cup {Given(Custom, f, {}, 1, {}, p) : f \in Spread({"CUSTOM"}), p \in With3}
    \cup {Given(m, On(d), {}, 2, {"p"}, "with fallback") :
        m \in {Straight, Branches, Swap, Nested}, d \in {"A", "CPU"}}
    \cup {Given(Repeated(b), f, u, 4, {}, "with fallback") :
        b \in {Mul, CustomBody}, f \in Spread({"CUSTOM", "WHILE"}), u \in {{}, {"m3"}}}
    \cup {Given(m, On(d), u, 4, {"p"}, "with fallback") :
        m \in {Swap, Nested, Choose, Guarded}, d \in {"A", "CPU"},
        u \in {{"i2", "w2"}, {"s2"}, {"k"}, {"f3"}, {"n3"}}}
    \cup {Given(Backwards(m), f, {}, 3, {"p"}, "with fallback") :
        m \in {Straight, Branches, Swap, Guarded, Cyclic}, f \in Spread({"SPLIT", "MUL"})}

MCDevices == <<"A", "B", "CPU">>
MCCost == [d \in {"A", "B", "CPU"} |-> IF d = "CPU" THEN 2 ELSE 1]
===============================================================================
