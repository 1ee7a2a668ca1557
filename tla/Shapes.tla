-------------------------------- MODULE Shapes --------------------------------
(***************************************************************************)
(* Output shapes as the runtime compares them.  The dimensions of one      *)
(* operand are an element of Dims; 0 stands for "not specified", every     *)
(* other element for one fully specified list of dimensions.  A list of    *)
(* OutputShape is a function from output indexes; the empty list that the  *)
(* code tests with size() == 0 is the function with the empty domain.      *)
(***************************************************************************)
EXTENDS Integers, FiniteSets

CONSTANT Dims

ASSUME DimsAssumption == Dims \subseteq Nat /\ 0 \in Dims

OutputShape == [dims : Dims, sufficient : BOOLEAN]

NoShapes == [o \in {} |-> [dims |-> 0, sufficient |-> TRUE]]

IsEmpty(shapes) == DOMAIN shapes = {}

\* ExecutionBuilder.cpp: an unspecified dimension may be overwritten, a
\* specified one must stay.
isUpdatable(to, from) == to = 0 \/ to = from

\* StepExecutor::updateOutputShapes walks over the outputs of the step in
\* order and writes while it checks: what precedes a clash stays written.
Accepted(from, to, o) == \A p \in DOMAIN from : p <= o => isUpdatable(to[p].dims, from[p].dims)

MergesAnyway(from, to) == TRUE
MergeOk(from, to) == \A o \in DOMAIN from : isUpdatable(to[o].dims, from[o].dims)

Merged(from, to) ==
    [o \in DOMAIN to |-> IF o \in DOMAIN from /\ Accepted(from, to, o) THEN from[o] ELSE to[o]]

\* Utils.cpp: combineDimensions of two dimension lists, where it succeeds.
Combinable(lhs, rhs) == lhs = 0 \/ rhs = 0 \/ lhs = rhs

combineDimensions(lhs, rhs) == IF lhs = 0 THEN rhs ELSE lhs
===============================================================================
