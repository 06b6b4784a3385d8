--------------------------- MODULE BytecodeMachine ---------------------------
(***************************************************************************)
(* What a bytecode program means, as docs/BYTECODE.md says it: the machine  *)
(* executes the program's tokens themselves, with nothing said of how a     *)
(* token is encoded in a word or told from another.                        *)
(***************************************************************************)
EXTENDS Words, Sequences

CONSTANTS
  OpNames,   \* the op of each id: OpNames[id + 1], "none" if the id has none
  ExecAddr,  \* what the alias exec pushes: the address of the op registry
  MemAddr    \* what the alias mem pushes: the address of the loaded memory

VARIABLES
  program,   \* the loaded program, [consts, code]: words and tokens
  pc,        \* an absolute index into the constants followed by the code
  stack,
  outcome    \* "running", "ok", "failed", or "dead": the process is gone

vars == <<program, pc, stack, outcome>>

ConstCount == Len(program.consts)
ProgramSize == ConstCount + Len(program.code)

Init ==
  /\ pc = ConstCount
  /\ stack \in Seq(Word)
  /\ outcome = "running"

AtToken(kind) ==
  /\ outcome = "running"
  /\ pc \in ConstCount .. ProgramSize - 1
  /\ program.code[pc - ConstCount + 1].kind = kind
Operand == program.code[pc - ConstCount + 1].value
AtAlias(id) == AtToken("ALIAS") /\ Operand = id

Item(k) == stack[Len(stack) - k + 1]
Without(k) == SubSeq(stack, 1, Len(stack) - k)

Step(newpc, newstack) ==
  pc' = newpc /\ stack' = newstack /\ UNCHANGED <<program, outcome>>

(* Nothing is said of what this step does, or whether it returns. *)
Undefined ==
  UNCHANGED program /\ outcome' \in {"running", "ok", "failed", "dead"}

(* Nothing is said of a branch without its operands. *)
Branch(id, operands, target) ==
  /\ AtAlias(id)
  /\ IF Len(stack) >= operands
       THEN Step(Unsigned(Item(target)), Without(operands))
       ELSE Undefined

Goto == Branch(0, 1, 1)

Goif ==
  IF Len(stack) >= 2 /\ ~Truthy(Item(1))
    THEN AtAlias(1) /\ Step(pc + 1, Without(2))
    ELSE Branch(1, 2, 2)

Goie == Branch(2, 3, IF Len(stack) >= 3 /\ Truthy(Item(1)) THEN 2 ELSE 3)

PushList ==
  \/ AtAlias(3) /\ Step(pc + 1, Append(stack, ExecAddr))
  \/ AtAlias(4) /\ Step(pc + 1, Append(stack, MemAddr))

PushConstant ==
  AtToken("CONST_REF") /\ Step(pc + 1, Append(stack, program.consts[Operand + 1]))

Operands(op) ==
  IF op \in {"stack.dup", "stack.pop", "logic.not"} THEN 1 ELSE 2

Effect(op) ==
  CASE op = "stack.dup" -> Append(stack, Item(1))
    [] op = "stack.pop" -> Without(1)
    [] op = "stack.swap" -> Without(2) \o <<Item(1), Item(2)>>
    [] op = "logic.not" -> Append(Without(1), Flag(~Truthy(Item(1))))
    [] OTHER -> Append(Without(2), Binary(op, Item(2), Item(1)))

NameOf(id) == IF id < Len(OpNames) THEN OpNames[id + 1] ELSE "none"

(* An op without its operands fails the run. *)
Op ==
  /\ AtToken("OP")
  /\ LET op == NameOf(Operand) IN
     CASE op = "none" -> Undefined
       [] op # "none" /\ Len(stack) >= Operands(op) -> Step(pc + 1, Effect(op))
       [] OTHER -> outcome' = "failed" /\ UNCHANGED <<program, stack>>

(* A jump out of the program ends it as its last token does. *)
Finish ==
  /\ outcome = "running"
  /\ pc >= ProgramSize
  /\ outcome' = "ok"
  /\ UNCHANGED <<program, pc, stack>>

(* The first executable index is ConstCount; nothing is said of a constant *)
(* that is jumped to.                                                      *)
JumpedIntoConstants == outcome = "running" /\ pc < ConstCount /\ Undefined

(* The host runs the program again; what an earlier run left stays on the  *)
(* stack.                                                                  *)
RunAgain ==
  /\ outcome \in {"ok", "failed"}
  /\ outcome' = "running"
  /\ pc' = ConstCount
  /\ UNCHANGED <<program, stack>>

Next ==
  \/ Goto \/ Goif \/ Goie \/ PushList \/ PushConstant \/ Op
  \/ Finish \/ JumpedIntoConstants \/ RunAgain

Spec == Init /\ [][Next]_vars
=============================================================================
