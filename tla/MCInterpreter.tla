---------------------------- MODULE MCInterpreter ----------------------------
(* Small programs for Interpreter: two constants, that serve as data and as *)
(* jump targets, and code of either three constant references and then any *)
(* two tokens, or any two tokens alone.                                    *)
EXTENDS Interpreter

(* Words a constant may be: false, jump targets inside and outside, a       *)
(* negative one.                                                           *)
ConstWords == {-3, 0, 5, 6}

MCOpRegs == <<[id |-> 0, op |-> "stack.dup"], [id |-> 1, op |-> "stack.pop"],
              [id |-> 2, op |-> "stack.swap"], [id |-> 3, op |-> "ptr.add"],
              [id |-> 5, op |-> "cmp.lt_i64"], [id |-> 6, op |-> "logic.not"]>>

ConstRefs == {[kind |-> "CONST_REF", value |-> n] : n \in 0..2}
Tokens ==
  {[kind |-> "ALIAS", value |-> n] : n \in 0..5}
  \cup {[kind |-> "OP", value |-> n] : n \in 0..7}
  \cup ConstRefs

MCPrograms ==
  {[consts |-> c, code |-> pushes \o rest] :
     c \in [1..2 -> ConstWords],
     pushes \in {<<>>} \cup [1..3 -> ConstRefs],
     rest \in [1..2 -> Tokens]}

(* A host that runs the ops on two words of its own, of which one is false. *)
MCHostStacks == {<<0, -3>>, <<5, 0>>}
=============================================================================
