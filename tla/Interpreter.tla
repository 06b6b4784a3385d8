----------------------------- MODULE Interpreter -----------------------------
(***************************************************************************)
(* urbc_runtime_run over the words urbc_load_code makes of a program: how a *)
(* word of the loaded memory is told to be an alias, an op, a constant      *)
(* reference or a literal, and what the loop does with it.                 *)
(*                                                                         *)
(* INT_MIN and INT_MAX bound the encodings.  urb.h defines them as the      *)
(* limits of a word; a system header included after it defines them again   *)
(* as the limits of an int, and the .c files compile with whichever came    *)
(* last.  The aliases of urb.h are enumerators, with the value the macro    *)
(* had in urb.h.  MacroBits is the width the .c files see: that of a word    *)
(* where words have 32 bits, half of it where they have 64.                 *)
(***************************************************************************)
EXTENDS Words, Sequences

LOCAL INSTANCE SequencesExt

CONSTANTS
  Programs,   \* the programs, [consts, code]: words and tokens
  OpRegs,     \* the table of urbc_exec_init_default, records [id, op]
  ExecAddr,   \* the address of the list exec, a word
  MemAddr,    \* the address of the list mem, a word
  HostStacks, \* what a stack may hold that the host hands to the runtime
  MacroBits,  \* the width of INT_MIN and INT_MAX in the .c files
  HalfBits,   \* the width of UHalf, the type of a list's size
  MaxStack    \* bound on the words the stack holds

OpCodesOffset == 8

(* Words have twice the bits of a list's size, so two lists with the          *)
(* reserved values are fewer than the words there are.                      *)
ASSUME WidthsAssumption ==
  /\ MacroBits \in {HalfBits, WordBits}
  /\ HalfBits \in Nat \ {0}
  /\ 2 * (2 ^ HalfBits + OpCodesOffset) < 2 ^ WordBits

ASSUME AddressesAssumption == {ExecAddr, MemAddr} \subseteq Word
ASSUME HostStacksAssumption == HostStacks \subseteq Seq(Word)

(* The counts and values of a file have 16 bits: a list can count both       *)
(* sections if the half of a word has 32.                                  *)
ASSUME ProgramsAssumption ==
  \A p \in Programs :
    /\ p.consts \in Seq(Word)
    /\ p.code \in Seq([kind : {"ALIAS", "OP", "CONST_REF"}, value : 0 .. 2 ^ HalfBits - 1])
    /\ Len(p.consts) + Len(p.code) < 2 ^ HalfBits

VARIABLES
  program,  \* the program as the file has it
  i,        \* the index of the next word of mem
  stack,
  failed,   \* rt->failed
  status    \* "running", "returned", "crashed" or "aborted"

vars == <<program, i, stack, failed, status>>

INT_MIN == -(2 ^ MacroBits \div 2)
INT_MAX == INT_MIN + 2 ^ MacroBits - 1
ALIAS(id) == WordMin + id

(* A sum of INT_MIN or INT_MAX with a UHalf: unsigned when both have the    *)
(* width of an int, else signed and exact.                                 *)
PlusHalf(n) == IF MacroBits = HalfBits THEN n % 2 ^ HalfBits ELSE n

(* urbc_exec_init_default: ids between two of the table get a NULL entry. *)
ExecInit(regs) ==
  FoldLeft(LAMBDA exec, r :
             Append(exec \o [k \in 1 .. r.id - Len(exec) |-> "none"], r.op),
           <<>>, regs)
Exec == ExecInit(OpRegs)

(* Of the ops of the table, those of the core are modelled. *)
ASSUME ExecAssumption ==
  Exec \in Seq(CoreOps \cup {"none"}) /\ Len(Exec) + OpCodesOffset < 2 ^ HalfBits

(* urbc_load_code *)
Encode(token) ==
  CASE token.kind = "ALIAS" -> INT_MIN + token.value
    [] token.kind = "OP" -> INT_MIN + OpCodesOffset + token.value
    [] token.kind = "CONST_REF" -> INT_MAX - token.value

(* What urbc_load_code checks of a token; an op's id is not looked at. *)
Accepted(p) ==
  \A k \in DOMAIN p.code :
    /\ p.code[k].kind = "ALIAS" => p.code[k].value <= 4
    /\ p.code[k].kind = "CONST_REF" => p.code[k].value < Len(p.consts)

(* The loaded memory: the constants, then the encoded tokens. *)
MemOf(p) == p.consts \o [k \in DOMAIN p.code |-> Encode(p.code[k])]
mem == MemOf(program)
EntryPc == Len(program.consts)

(* urbc_runtime_bind takes the stack of its caller, or makes an empty one. *)
Init ==
  /\ program \in {p \in Programs : Accepted(p)}
  /\ i = EntryPc
  /\ stack \in {<<>>} \cup HostStacks
  /\ failed = FALSE
  /\ status = "running"

-----------------------------------------------------------------------------
(* The stack, and what each form of word does *)

Item(k) == stack[Len(stack) - k + 1]
Without(k) == SubSeq(stack, 1, Len(stack) - k)

(* for (...; i++) after a body that left i and the stack like this *)
Continue(at, newstack) ==
  /\ Len(newstack) <= MaxStack
  /\ i' = Unsigned(at + 1)
  /\ stack' = newstack
  /\ UNCHANGED <<program, failed, status>>

Push(v) == Continue(i, Append(stack, v))
Stop(how) == status' = how /\ UNCHANGED <<program, i, stack, failed>>

(* The loop's condition holds; the loop looks at mem[i]. *)
Fetch == status = "running" /\ i < Len(mem) /\ ~failed
Current == mem[i + 1]

IsTokenWord == Current < PlusHalf(INT_MIN + Len(Exec) + OpCodesOffset)
IsConstRefWord == ~IsTokenWord /\ Current > PlusHalf(INT_MAX - Len(mem))

(* urb_pop of an empty list aborts the process. *)
Popping(k, body) == IF Len(stack) >= k THEN body ELSE Stop("aborted")

(* A slip: the loop's i++ comes after the jump to the target itself. *)
GotoAfter ==
  /\ Fetch /\ IsTokenWord /\ Current = ALIAS(0)
  /\ Popping(1, Continue(Item(1), Without(1)))

Goto ==
  /\ Fetch /\ IsTokenWord /\ Current = ALIAS(0)
  /\ Popping(1, Continue(Item(1) - 1, Without(1)))

Goif ==
  /\ Fetch /\ IsTokenWord /\ Current = ALIAS(1)
  /\ Popping(2, Continue(IF Truthy(Item(1)) THEN Item(2) - 1 ELSE i, Without(2)))

Goie ==
  /\ Fetch /\ IsTokenWord /\ Current = ALIAS(2)
  /\ Popping(3, Continue((IF Truthy(Item(1)) THEN Item(2) ELSE Item(3)) - 1, Without(3)))

PushList ==
  /\ Fetch /\ IsTokenWord
  /\ \/ Current = ALIAS(3) /\ Push(ExecAddr)
     \/ Current = ALIAS(4) /\ Push(MemAddr)

(* The default case: any other word is taken for an op. *)
OpIndex == (Current - INT_MIN - OpCodesOffset) % 2 ^ HalfBits
IsOpWord == Fetch /\ IsTokenWord /\ Current \notin {ALIAS(id) : id \in 0..4}

FindsOp == OpIndex < Len(Exec) /\ Exec[OpIndex + 1] # "none"

(* The entry is past the end of exec, or NULL. *)
CallNothing == IsOpWord /\ ~FindsOp /\ Stop("crashed")

(* The operands an op asks urbc_require_stack for, and those it pops. *)
Required(op) ==
  IF op \in {"stack.dup", "stack.pop", "logic.not"} THEN 1 ELSE 2
Popped(op) ==
  CASE op = "stack.dup" -> 0
    [] op \in {"stack.pop", "logic.not"} -> 1
    [] OTHER -> 2
Pushed(op) ==
  CASE op = "stack.dup" -> <<Item(1)>>
    [] op = "stack.pop" -> <<>>
    [] op = "stack.swap" -> <<Item(1), Item(2)>>
    [] op = "logic.not" -> <<Flag(~Truthy(Item(1)))>>
    [] OTHER -> <<Binary(op, Item(2), Item(1))>>

CallOp ==
  /\ IsOpWord /\ FindsOp
  /\ LET op == Exec[OpIndex + 1] IN
     IF Len(stack) < Required(op)
       THEN /\ failed' = TRUE
            /\ i' = i + 1
            /\ UNCHANGED <<program, stack, status>>
       ELSE Popping(Popped(op), Continue(i, Without(Popped(op)) \o Pushed(op)))

(* The index is of a word of mem unless the word is larger than INT_MAX. *)
PushConst ==
  /\ Fetch /\ IsConstRefWord
  /\ LET index == INT_MAX - Current IN
     IF index >= 0 THEN Push(mem[index + 1]) ELSE Stop("crashed")

PushWord == Fetch /\ ~IsTokenWord /\ ~IsConstRefWord /\ Push(Current)

Return ==
  /\ status = "running"
  /\ i >= Len(mem) \/ failed
  /\ Stop("returned")

(* The host calls urbc_runtime_run again. *)
Run ==
  /\ status = "returned"
  /\ status' = "running"
  /\ i' = EntryPc
  /\ failed' = FALSE
  /\ UNCHANGED <<program, stack>>

Next ==
  \/ Goto \/ Goif \/ Goie \/ PushList \/ CallNothing \/ CallOp
  \/ PushConst \/ PushWord \/ Return \/ Run

Spec == Init /\ [][Next]_vars

-----------------------------------------------------------------------------
(* Properties *)

(* What the list of the stack holds are words. *)
TypeOK ==
  /\ i \in 0 .. 2 ^ WordBits - 1
  /\ stack \in Seq(Word)
  /\ failed \in BOOLEAN
  /\ status \in {"running", "returned", "crashed", "aborted"}

(* "CONST_REF ... pushes mem[const_index] at runtime" (docs/BYTECODE.md,   *)
(* section 3.5): the loop's step at a constant reference does that.        *)
AtConstRef ==
  /\ Fetch
  /\ i >= EntryPc
  /\ program.code[i - EntryPc + 1].kind = "CONST_REF"
ConstRefPushes ==
  [][AtConstRef =>
       stack' = Append(stack, mem[program.code[i - EntryPc + 1].value + 1])]_vars

(* Running the encoded words is running the program's tokens, as long as    *)
(* the documentation says what they do.                                    *)
OutcomeOf(how, flag) ==
  CASE how \in {"crashed", "aborted"} -> "dead"
    [] how \in {"running", "returned"} /\ flag -> "failed"
    [] how = "returned" /\ ~flag -> "ok"
    [] how = "running" /\ ~flag -> "running"

Machine == INSTANCE BytecodeMachine WITH
  OpNames <- Exec,
  pc <- i,
  outcome <- OutcomeOf(status, failed)

ImplementsMachine == Machine!Spec

(* The table of docs/BYTECODE.md, section 5.1, says what each op leaves on   *)
(* the stack: whatever the macros are, the step at an op's token is the op's. *)
(* Where the macros are narrower than a word the loop tells no other token    *)
(* by its word, and all that a program does rests on this.                   *)
AtOp ==
  /\ Fetch
  /\ i >= EntryPc
  /\ program.code[i - EntryPc + 1].kind = "OP"
OpsRun == [][AtOp => Machine!Op]_vars

(* Every token of the program is one the loop tells by its word. *)
Told(p) == \A k \in DOMAIN p.code : MacroBits = WordBits \/ p.code[k].kind = "OP"

(* TypeOK and what Init says of the program, for the proofs. *)
IInv == TypeOK /\ program \in Programs /\ Accepted(program)
=============================================================================
