-------------------------------- MODULE Models --------------------------------
(***************************************************************************)
(* Models with control flow.                                               *)
(*                                                                         *)
(* A model is a record of its operations, which are executed in this       *)
(* order, its inputs and outputs, and its constants, those copied into the *)
(* model and those in a memory.  An operation has a type, inputs, outputs  *)
(* and, for IF and WHILE, the two models it references: then and else,     *)
(* with the condition the first of the inputs, or condition and body.      *)
(***************************************************************************)
EXTENDS Naturals, Sequences, SequencesExt

CONSTANT Vendor   \* types of OEM and extension operations, which the CPU cannot execute

Lifetime(m, o) == CASE o \in ToSet(m.ins)  -> "SUBGRAPH_INPUT"
                    [] o \in ToSet(m.outs) -> "SUBGRAPH_OUTPUT"
                    [] o \in m.copies      -> "CONSTANT_COPY"
                    [] o \in m.references  -> "CONSTANT_REFERENCE"
                    [] OTHER               -> "TEMPORARY_VARIABLE"

Constants(m) == m.copies \cup m.references
isControlFlow(op) == op.type \in {"IF", "WHILE"}

\* A value is a term that shows how it was computed: the name of an input or a constant, or
\* an output of an operation.
Leaf(name) == <<name>>
Garbage == Leaf("garbage")   \* what memory holds that has not been written
Endless == Leaf("endless")   \* what a loop computes that does not end

(* What a model is like that its client could build: ModelBuilder sees to it that an operand *)
(* is an input or an output once at most, and never both, nor a constant.                    *)

IsSequence(s) == s \in Seq(ToSet(s))
IsList(os) == IsSequence(os) /\ IsInjective(os)

IsModel(m) == /\ IsList(m.ins) /\ IsList(m.outs)
              /\ ToSet(m.ins) \cap ToSet(m.outs) = {}
              /\ (ToSet(m.ins) \cup ToSet(m.outs)) \cap Constants(m) = {}
              /\ m.copies \cap m.references = {}
===============================================================================
