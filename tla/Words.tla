-------------------------------- MODULE Words --------------------------------
(***************************************************************************)
(* The machine words of a List: Int and UInt of urb.h, intptr_t and        *)
(* uintptr_t, in as many bits as WordBits says, and what the compiled       *)
(* arithmetic of the core ops does to them.                                *)
(***************************************************************************)
EXTENDS Integers

CONSTANT WordBits

ASSUME WordBitsAssumption == WordBits \in Nat \ {0}

WordMin == -(2 ^ WordBits \div 2)
WordMax == WordMin + 2 ^ WordBits - 1
Word == WordMin .. WordMax

(* The conversions between Int and UInt. *)
Unsigned(n) == n % 2 ^ WordBits

Signed(n) == LET u == Unsigned(n) IN IF u > WordMax THEN u - 2 ^ WordBits ELSE u

Truthy(v) == v # 0
Flag(b) == IF b THEN 1 ELSE 0

CoreOps ==
  {"stack.dup", "stack.pop", "stack.swap", "logic.not", "ptr.add", "ptr.sub",
   "cmp.eq", "cmp.ne", "cmp.lt_i64", "cmp.le_i64", "cmp.gt_i64", "cmp.ge_i64"}

(* The ops of two operands, a under b on the stack. *)
Binary(op, a, b) ==
  CASE op = "ptr.add" -> Signed(a + b)
    [] op = "ptr.sub" -> Signed(a - b)
    [] op = "cmp.eq" -> Flag(a = b)
    [] op = "cmp.ne" -> Flag(a # b)
    [] op = "cmp.lt_i64" -> Flag(a < b)
    [] op = "cmp.le_i64" -> Flag(a <= b)
    [] op = "cmp.gt_i64" -> Flag(a > b)
    [] op = "cmp.ge_i64" -> Flag(a >= b)
=============================================================================
