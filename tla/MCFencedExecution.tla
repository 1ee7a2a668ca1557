-------------------------- MODULE MCFencedExecution --------------------------
(* Instances of FencedExecution for TLC. *)
EXTENDS FencedExecution

CONSTANTS d1, d2

On(device, pointers) == [device |-> device, pointers |-> pointers]

Fenced == On("fenced", FALSE)

Dependences == {[d \in {} |-> "fence"],
                [d \in {d1} |-> "fence"],
                [d \in {d1, d2} |-> IF d = d1 THEN "fence" ELSE "callback"]}

\* One step on each kind of device.
SimplePlans ==
    {[steps |-> <<On(k, p)>>, branches |-> <<"none", "none">>] :
        k \in {"fenced", "legacy", "cpu"}, p \in BOOLEAN}

\* Plans of several steps whose last one is the only one that may be asynchronous.
LateFencePlans ==
    {[steps |-> <<On("cpu", FALSE), Fenced>>, branches |-> <<"none", b, "none">>] :
        b \in {"none", "if"}}
    \cup {[steps |-> <<On("fenced", TRUE), Fenced>>, branches |-> <<"none", "none", "while">>]}

\* Plans in which a device may still be busy when the next step is launched.
PipelinedPlans ==
    {[steps |-> <<Fenced, k>>, branches |-> <<a, b, "none">>] :
        k \in {Fenced, On("fenced", TRUE), On("legacy", FALSE), On("cpu", FALSE)},
        a \in {"none", "if"}, b \in {"none", "if", "while"}}
    \cup {[steps |-> <<Fenced, Fenced, Fenced>>, branches |-> <<"none", "if", "none", "while">>]}

Setup(p, f, r, d) ==
    [steps |-> p.steps, branches |-> p.branches, allowFallback |-> f, fdsRunOut |-> r, deps |-> d]

\* The CPU fallback is allowed where no device can be left behind by it; without
\* it any plan may run out of file descriptors.
MCSetups ==
    {Setup(p, TRUE, FALSE, d) : p \in SimplePlans \cup LateFencePlans, d \in Dependences}
    \cup {Setup(p, FALSE, TRUE, d) :
              p \in SimplePlans \cup LateFencePlans \cup PipelinedPlans, d \in Dependences}

\* The CPU fallback of a plan whose first step may still be running.
FallbackSetups == {Setup(p, TRUE, FALSE, d) : p \in PipelinedPlans, d \in Dependences}

\* The CPU fallback after the fence of a step was lost, which may still be running.
LostFenceSetups ==
    {Setup(p, TRUE, TRUE, d) : p \in SimplePlans \cup LateFencePlans, d \in Dependences}
===============================================================================
