-------------------------- MODULE InterpreterProofs --------------------------
(***************************************************************************)
(* The loop over the encoded words of any program does what the document    *)
(* says its tokens do, as far as the widths of a build let it tell one word  *)
(* from another: all tokens where INT_MIN and INT_MAX are a word's limits, as *)
(* on 32-bit targets, and those of ops where they are an int's, as on 64-bit *)
(* ones.                                                                   *)
(***************************************************************************)
EXTENDS Interpreter, SequenceTheorems, TLAPS

-----------------------------------------------------------------------------
(* Words *)

LEMMA Sizes ==
  /\ 2 ^ HalfBits \in Nat /\ 2 ^ HalfBits > 0
  /\ 2 ^ WordBits \in Nat /\ 2 ^ WordBits > 2 * 2 ^ HalfBits + 2 * OpCodesOffset
  /\ Len(Exec) \in Nat /\ Len(Exec) + OpCodesOffset < 2 ^ HalfBits
  /\ Len(Exec) < 2 ^ HalfBits
  /\ WordBits \in Nat /\ HalfBits \in Nat /\ HalfBits # WordBits
<1>1. Len(Exec) \in Nat /\ Len(Exec) + OpCodesOffset < 2 ^ HalfBits
  BY ExecAssumption
<1>2. 2 ^ HalfBits \in Int /\ 2 ^ WordBits \in Int
  BY WordBitsAssumption, WidthsAssumption
<1> QED BY <1>1, <1>2, WordBitsAssumption, WidthsAssumption DEF OpCodesOffset

LEMMA Limits ==
  /\ WordMin \in Int /\ WordMax \in Int
  /\ WordMin < 0 /\ WordMax > 1
  /\ WordMax = WordMin + 2 ^ WordBits - 1
<1> DEFINE P == 2 ^ WordBits
<1>1. P \in Nat /\ P > 8
  BY Sizes DEF OpCodesOffset
<1> HIDE DEF P
<1>2. P \div 2 \in Int /\ P \div 2 > 3 /\ 2 * (P \div 2) <= P
  BY <1>1
<1> QED BY <1>1, <1>2 DEF WordMin, WordMax, P

(* The macros, where they are a word's limits and where they are narrower. *)
LEMMA MacroLimits ==
  /\ INT_MIN \in Int /\ INT_MAX \in Int
  /\ \/ /\ MacroBits = WordBits
        /\ INT_MIN = WordMin /\ INT_MAX = WordMax
        /\ \A n : PlusHalf(n) = n
     \/ /\ MacroBits = HalfBits
        /\ INT_MIN < 0 /\ INT_MIN >= -(2 ^ HalfBits)
        /\ INT_MAX = INT_MIN + 2 ^ HalfBits - 1
        /\ INT_MIN > WordMin + OpCodesOffset
        /\ WordMin < -(2 ^ HalfBits) - OpCodesOffset + 1
        /\ INT_MAX + OpCodesOffset < WordMax
        /\ \A n : PlusHalf(n) = n % 2 ^ HalfBits
<1>1. CASE MacroBits = WordBits
  <2>1. INT_MIN = WordMin /\ INT_MAX = WordMax
    BY <1>1 DEF INT_MIN, INT_MAX, WordMin, WordMax
  <2>2. \A n : PlusHalf(n) = n
    BY <1>1, Sizes DEF PlusHalf
  <2> QED BY <1>1, <2>1, <2>2, Limits
<1>2. CASE MacroBits = HalfBits
  <2>1. PICK h, w : h = 2 ^ HalfBits /\ w = 2 ^ WordBits
    OBVIOUS
  <2>2. /\ INT_MIN = -(h \div 2) /\ INT_MAX = INT_MIN + h - 1
        /\ WordMin = -(w \div 2) /\ WordMax = WordMin + w - 1
    BY <1>2, <2>1 DEF INT_MIN, INT_MAX, WordMin, WordMax
  <2>3. h \in Nat /\ w \in Nat /\ h > 8 /\ w > 2 * h + 16
    BY <2>1, Sizes DEF OpCodesOffset
  <2>4. \A n : PlusHalf(n) = n % 2 ^ HalfBits
    BY <1>2 DEF PlusHalf
  <2>5. /\ h \div 2 \in Int /\ h \div 2 > 0 /\ 2 * (h \div 2) <= h /\ h <= 2 * (h \div 2) + 1
        /\ w \div 2 \in Int /\ 2 * (w \div 2) <= w /\ w <= 2 * (w \div 2) + 1
    BY <2>3
  <2>6. /\ -(h \div 2) \in Int /\ -(h \div 2) + h - 1 \in Int
        /\ -(h \div 2) < 0 /\ -(h \div 2) >= -h
        /\ -(h \div 2) > -(w \div 2) + 8
        /\ -(w \div 2) < -h - 7
        /\ -(h \div 2) + h - 1 + 8 < -(w \div 2) + w - 1
    BY <2>3, <2>5
  <2> QED BY <1>2, <2>1, <2>2, <2>4, <2>6 DEF OpCodesOffset
<1> QED BY <1>1, <1>2, WidthsAssumption

LEMMA UnsignedWords ==
  ASSUME NEW n \in Int
  PROVE  /\ Unsigned(n) \in 0 .. 2 ^ WordBits - 1
         /\ n \in 0 .. 2 ^ WordBits - 1 => Unsigned(n) = n
<1> DEFINE P == 2 ^ WordBits
<1>1. P \in Nat /\ P > 8
  BY Sizes DEF OpCodesOffset
<1> HIDE DEF P
<1>2. n % P \in 0 .. P - 1 /\ (n \in 0 .. P - 1 => n % P = n)
  BY <1>1
<1> QED BY <1>2 DEF Unsigned, P

LEMMA SignedWords ==
  ASSUME NEW n \in Int
  PROVE  Signed(n) \in Word
<1>1. Unsigned(n) \in 0 .. 2 ^ WordBits - 1
  BY UnsignedWords
<1>2. 2 ^ WordBits \in Nat
  BY Sizes
<1> QED BY <1>1, <1>2, Limits DEF Signed, Word

LEMMA FlagWords ==
  ASSUME NEW b \in BOOLEAN
  PROVE  Flag(b) \in Word
BY Limits DEF Flag, Word

(* What an op of two operands leaves is a word. *)
LEMMA BinaryWords ==
  ASSUME NEW op \in CoreOps \ {"stack.dup", "stack.pop", "stack.swap", "logic.not"},
         NEW a \in Word, NEW b \in Word
  PROVE  Binary(op, a, b) \in Word
<1>1. a \in Int /\ b \in Int
  BY Limits DEF Word
<1>2. Signed(a + b) \in Word /\ Signed(a - b) \in Word
  BY <1>1, SignedWords
<1>3. \A c \in BOOLEAN : Flag(c) \in Word
  BY FlagWords
<1>4. /\ Flag(a = b) \in Word /\ Flag(a # b) \in Word
      /\ Flag(a < b) \in Word /\ Flag(a <= b) \in Word
      /\ Flag(a > b) \in Word /\ Flag(a >= b) \in Word
  BY Limits DEF Flag, Word
<1> QED BY <1>2, <1>4 DEF Binary, CoreOps
-----------------------------------------------------------------------------
(* Sequences *)

LEMMA Lengths ==
  ASSUME NEW S, NEW s \in Seq(S)
  PROVE  /\ Len(s) \in Nat /\ DOMAIN s = 1 .. Len(s)
         /\ \A k \in DOMAIN s : s[k] \in S
OBVIOUS

LEMMA Joined ==
  ASSUME NEW S, NEW s \in Seq(S), NEW r \in Seq(S)
  PROVE  /\ s \o r \in Seq(S) /\ Len(s \o r) = Len(s) + Len(r)
         /\ \A k \in 1 .. Len(s) : (s \o r)[k] = s[k]
         /\ \A k \in 1 .. Len(r) : (s \o r)[Len(s) + k] = r[k]
OBVIOUS

LEMMA Fewer ==
  ASSUME NEW a \in Nat, NEW b \in Nat, NEW h, h \in Nat, a + b < h
  PROVE  a < h
OBVIOUS

-----------------------------------------------------------------------------
(* The loaded memory *)

Loaded(p) == p \in Programs /\ Accepted(p)

(* What the interpreter is to tell apart. *)
LEMMA Tokens ==
  ASSUME NEW p, Loaded(p), NEW k \in DOMAIN p.code
  PROVE  LET t == p.code[k] IN
         /\ t.value \in Nat
         /\ \/ /\ t.kind = "ALIAS" /\ t.value \in 0 .. 4
               /\ Encode(t) = INT_MIN + t.value
            \/ /\ t.kind = "OP" /\ t.value < 2 ^ HalfBits
               /\ Encode(t) = INT_MIN + OpCodesOffset + t.value
            \/ /\ t.kind = "CONST_REF" /\ t.value < Len(p.consts)
               /\ Encode(t) = INT_MAX - t.value
<1> DEFINE t == p.code[k]
<1>1. /\ p.code \in Seq([kind : {"ALIAS", "OP", "CONST_REF"}, value : 0 .. 2 ^ HalfBits - 1])
  BY ProgramsAssumption DEF Loaded
<1>2. t \in [kind : {"ALIAS", "OP", "CONST_REF"}, value : 0 .. 2 ^ HalfBits - 1]
  BY <1>1, Lengths
<1>3. t.kind \in {"ALIAS", "OP", "CONST_REF"} /\ t.value \in 0 .. 2 ^ HalfBits - 1
  BY <1>2
<1>4. t.value \in Nat /\ t.value < 2 ^ HalfBits
  BY <1>3, Sizes
<1>6. CASE t.kind = "ALIAS"
  <2>1. t.value <= 4
    BY <1>6 DEF Loaded, Accepted
  <2>2. Encode(t) = INT_MIN + t.value
    BY <1>6 DEF Encode
  <2> QED BY <1>4, <1>6, <2>1, <2>2
<1>7. CASE t.kind = "OP"
  <2>1. Encode(t) = INT_MIN + OpCodesOffset + t.value
    BY <1>7 DEF Encode
  <2> QED BY <1>4, <1>7, <2>1
<1>8. CASE t.kind = "CONST_REF"
  <2>1. t.value < Len(p.consts)
    BY <1>8 DEF Loaded, Accepted
  <2>2. Encode(t) = INT_MAX - t.value
    BY <1>8 DEF Encode
  <2> QED BY <1>4, <1>8, <2>1, <2>2
<1> QED BY <1>3, <1>6, <1>7, <1>8

LEMMA Memory ==
  ASSUME NEW p, Loaded(p)
  PROVE  /\ MemOf(p) \in Seq(Word)
         /\ p.consts \in Seq(Word) /\ Len(p.consts) \in Nat /\ Len(p.code) \in Nat
         /\ Len(MemOf(p)) = Len(p.consts) + Len(p.code)
         /\ Len(MemOf(p)) < 2 ^ HalfBits
         /\ \A k \in 1 .. Len(p.consts) : MemOf(p)[k] = p.consts[k]
         /\ \A k \in 1 .. Len(p.code) : MemOf(p)[Len(p.consts) + k] = Encode(p.code[k])
<1> DEFINE coded == [k \in DOMAIN p.code |-> Encode(p.code[k])]
<1>1. /\ p.consts \in Seq(Word)
      /\ p.code \in Seq([kind : {"ALIAS", "OP", "CONST_REF"}, value : 0 .. 2 ^ HalfBits - 1])
      /\ Len(p.consts) + Len(p.code) < 2 ^ HalfBits
  BY ProgramsAssumption DEF Loaded
<1>0. /\ p.consts \in Seq(Word)
      /\ Len(p.consts) \in Nat /\ Len(p.code) \in Nat
  BY <1>1, Lengths
<1>a. Len(p.consts) + Len(p.code) < 2 ^ HalfBits
  BY <1>1
<1>2. DOMAIN p.code = 1 .. Len(p.code) /\ Len(p.code) \in Nat
  BY <1>1, Lengths
<1>3. ASSUME NEW k \in DOMAIN p.code
      PROVE  Encode(p.code[k]) \in Word
  <2>1. Len(p.consts) \in Nat /\ Len(p.consts) < 2 ^ HalfBits
    <3>1. 2 ^ HalfBits \in Nat
      BY Sizes
    <3> QED BY <1>0, <1>a, <3>1, Fewer, Zenon
  <2> DEFINE t == p.code[k]
  <2>2. /\ t.value \in Nat
        /\ \/ t.value \in 0 .. 4 /\ Encode(t) = INT_MIN + t.value
           \/ t.value < 2 ^ HalfBits /\ Encode(t) = INT_MIN + OpCodesOffset + t.value
           \/ t.value < Len(p.consts) /\ Encode(t) = INT_MAX - t.value
    BY Tokens
  <2>3. PICK v, c, h : v = t.value /\ c = Encode(t) /\ h = 2 ^ HalfBits
    OBVIOUS
  <2>4. /\ v \in Nat /\ h \in Nat /\ h > 8
        /\ \/ v \in 0 .. 4 /\ c = INT_MIN + v
           \/ v < h /\ c = INT_MIN + OpCodesOffset + v
           \/ v < h /\ c = INT_MAX - v
    BY <2>1, <2>2, <2>3, Sizes DEF OpCodesOffset
  <2>5. /\ WordMin \in Int /\ WordMax \in Int /\ WordMin + 2 * h + 15 < WordMax
    BY <2>3, Sizes, Limits DEF OpCodesOffset
  <2>6. c \in WordMin .. WordMax
    <3>1. CASE INT_MIN = WordMin /\ INT_MAX = WordMax
      BY <2>4, <2>5, <3>1 DEF OpCodesOffset
    <3>2. CASE /\ INT_MIN < 0 /\ INT_MIN >= -h /\ INT_MAX = INT_MIN + h - 1
               /\ INT_MIN > WordMin + OpCodesOffset
               /\ INT_MAX + OpCodesOffset < WordMax
      BY <2>4, <2>5, <3>2, MacroLimits DEF OpCodesOffset
    <3> QED BY <2>3, <3>1, <3>2, MacroLimits
  <2> QED BY <2>3, <2>6 DEF Word
<1>4. coded \in Seq(Word) /\ Len(coded) = Len(p.code)
  BY <1>2, <1>3
<1>5. MemOf(p) = p.consts \o coded
  BY DEF MemOf
<1>6. \A k \in 1 .. Len(p.code) : coded[k] = Encode(p.code[k])
  BY <1>2
<1> HIDE DEF coded
<1>7. /\ p.consts \o coded \in Seq(Word) /\ Len(p.consts \o coded) = Len(p.consts) + Len(coded)
      /\ \A k \in 1 .. Len(p.consts) : (p.consts \o coded)[k] = p.consts[k]
      /\ \A k \in 1 .. Len(coded) : (p.consts \o coded)[Len(p.consts) + k] = coded[k]
  <2>1. PICK c : c = p.consts
    OBVIOUS
  <2>2. /\ c \o coded \in Seq(Word) /\ Len(c \o coded) = Len(c) + Len(coded)
        /\ \A k \in 1 .. Len(c) : (c \o coded)[k] = c[k]
        /\ \A k \in 1 .. Len(coded) : (c \o coded)[Len(c) + k] = coded[k]
    <3>1. c \in Seq(Word) /\ coded \in Seq(Word)
      BY <1>0, <1>4, <2>1
    <3> QED BY <3>1, Joined
  <2> QED BY <2>1, <2>2
<1> QED BY <1>0, <1>a, <1>2, <1>4, <1>5, <1>6, <1>7
-----------------------------------------------------------------------------
(* The word at i, told by the loop *)

LEMMA Decoding ==
  ASSUME IInv, Fetch, i >= EntryPc
  PROVE  LET t == program.code[i - EntryPc + 1] IN
         /\ i \in Nat /\ i - EntryPc + 1 \in DOMAIN program.code
         /\ Len(program.consts) \in Nat /\ Len(program.code) \in Nat
         /\ i <= Len(program.consts) + Len(program.code) - 1
         /\ i + 1 \in 0 .. 2 ^ WordBits - 1
         /\ \/ /\ t.kind = "ALIAS" /\ t.value \in 0 .. 4
               /\ MacroBits = WordBits => IsTokenWord /\ Current = ALIAS(t.value)
            \/ /\ t.kind = "OP" /\ t.value \in Nat
               /\ t.value < Len(Exec) => IsTokenWord
               /\ IsTokenWord => OpIndex = t.value
               /\ \A id \in 0 .. 4 : Current # ALIAS(id)
            \/ /\ t.kind = "CONST_REF" /\ t.value \in Nat
               /\ MacroBits = WordBits => ~IsTokenWord /\ IsConstRefWord
               /\ INT_MAX - Current = t.value
               /\ mem[t.value + 1] = program.consts[t.value + 1]
<1>1. Loaded(program)
  BY DEF IInv, Loaded
<1>2. PICK consts, code, words, at :
        consts = program.consts /\ code = program.code /\ words = mem /\ at = i
  OBVIOUS
<1>3. /\ Len(consts) \in Nat /\ Len(code) \in Nat
      /\ Len(words) = Len(consts) + Len(code)
      /\ Len(words) < 2 ^ HalfBits
  BY <1>1, <1>2, Memory DEF mem
<1>4. /\ \A n \in 1 .. Len(consts) : words[n] = consts[n]
      /\ \A n \in 1 .. Len(code) : words[Len(consts) + n] = Encode(code[n])
  BY <1>1, <1>2, Memory DEF mem
<1>5. at \in Nat /\ at < Len(words) /\ at >= Len(consts) /\ EntryPc = Len(consts)
  BY <1>2, Sizes DEF IInv, TypeOK, Fetch, EntryPc
<1>6. PICK k : k = at - Len(consts) + 1
  OBVIOUS
<1>7. /\ k \in 1 .. Len(code) /\ Len(consts) + k = at + 1
      /\ at <= Len(consts) + Len(code) - 1
      /\ at + 1 \in 0 .. 2 ^ WordBits - 1
  BY <1>3, <1>5, <1>6, Sizes DEF OpCodesOffset
<1>8. DOMAIN code = 1 .. Len(code)
  <2>1. code \in Seq([kind : {"ALIAS", "OP", "CONST_REF"}, value : 0 .. 2 ^ HalfBits - 1])
    BY <1>1, <1>2, ProgramsAssumption DEF Loaded
  <2> QED BY <2>1, Lengths
<1>9. PICK t : t = code[k] /\ t = program.code[i - EntryPc + 1]
  BY <1>2, <1>5, <1>6
<1>10. PICK v, c : v = t.value /\ c = Current
  OBVIOUS
<1>11. c = Encode(t)
  BY <1>2, <1>4, <1>7, <1>9, <1>10 DEF Current
<1>12. /\ v \in Nat
       /\ \/ t.kind = "ALIAS" /\ v \in 0 .. 4 /\ c = INT_MIN + v
          \/ t.kind = "OP" /\ v < 2 ^ HalfBits /\ c = INT_MIN + OpCodesOffset + v
          \/ t.kind = "CONST_REF" /\ v < Len(consts) /\ c = INT_MAX - v
  <2>1. k \in DOMAIN program.code /\ t = program.code[k] /\ consts = program.consts
    BY <1>2, <1>7, <1>8, <1>9
  <2>2. /\ t.value \in Nat
        /\ \/ /\ t.kind = "ALIAS" /\ t.value \in 0 .. 4
              /\ Encode(t) = INT_MIN + t.value
           \/ /\ t.kind = "OP" /\ t.value < 2 ^ HalfBits
              /\ Encode(t) = INT_MIN + OpCodesOffset + t.value
           \/ /\ t.kind = "CONST_REF" /\ t.value < Len(program.consts)
              /\ Encode(t) = INT_MAX - t.value
    BY <1>1, <2>1, Tokens, Zenon
  <2> QED BY <1>10, <1>11, <2>1, <2>2, Zenon
<1>13. PICK h, low, high, ops : h = 2 ^ HalfBits /\ low = INT_MIN /\ high = INT_MAX /\ ops = Len(Exec)
  OBVIOUS
<1>14. /\ h \in Nat /\ ops \in Nat /\ ops + OpCodesOffset < h /\ OpCodesOffset = 8
       /\ low \in Int /\ high \in Int /\ WordMin \in Int /\ WordMax \in Int
       /\ WordMax > WordMin + 2 * h + 15
       /\ \/ low = WordMin /\ high = WordMax
          \/ /\ low < 0 /\ low >= -h /\ high = low + h - 1
             /\ low > WordMin + OpCodesOffset
  BY <1>13, Sizes, Limits, MacroLimits DEF OpCodesOffset
<1>a. /\ IsTokenWord <=> c < PlusHalf(low + ops + OpCodesOffset)
      /\ IsConstRefWord <=> ~IsTokenWord /\ c > PlusHalf(high - Len(words))
      /\ INT_MAX - Current = high - c
      /\ OpIndex = (c - low - OpCodesOffset) % h
  <2>1. IsTokenWord <=> c < PlusHalf(low + ops + OpCodesOffset)
    BY <1>10, <1>13, Zenon DEF IsTokenWord
  <2>2. IsConstRefWord <=> ~IsTokenWord /\ c > PlusHalf(high - Len(words))
    BY <1>2, <1>10, <1>13, Zenon DEF IsConstRefWord
  <2>3. INT_MAX - Current = high - c
    BY <1>10, <1>13
  <2>4. OpIndex = (c - low - OpCodesOffset) % h
    BY <1>10, <1>13, Zenon DEF OpIndex
  <2> QED BY <2>1, <2>2, <2>3, <2>4
<1>b. MacroBits = WordBits =>
        low = WordMin /\ high = WordMax /\ \A n : PlusHalf(n) = n
  BY <1>13, MacroLimits, Sizes
<1> DEFINE Alias == /\ t.kind = "ALIAS" /\ v \in 0 .. 4
                    /\ MacroBits = WordBits => IsTokenWord /\ Current = ALIAS(v)
           Op == /\ t.kind = "OP" /\ v \in Nat
                 /\ v < Len(Exec) => IsTokenWord
                 /\ IsTokenWord => OpIndex = v
                 /\ \A id \in 0 .. 4 : Current # ALIAS(id)
           Ref == /\ t.kind = "CONST_REF" /\ v \in Nat
                  /\ MacroBits = WordBits => ~IsTokenWord /\ IsConstRefWord
                  /\ INT_MAX - Current = v
                  /\ mem[v + 1] = program.consts[v + 1]
<1>15. ASSUME t.kind = "ALIAS" PROVE Alias
  <2>1. v \in 0 .. 4 /\ c = low + v
    BY <1>12, <1>13, <1>15
  <2>2. ASSUME MacroBits = WordBits PROVE IsTokenWord /\ Current = ALIAS(v)
    <3>1. low = WordMin /\ PlusHalf(low + ops + OpCodesOffset) = low + ops + OpCodesOffset
      BY <1>b, <2>2
    <3>2. c < low + ops + OpCodesOffset /\ c = ALIAS(v)
      BY <1>14, <2>1, <3>1 DEF ALIAS
    <3>3. c < PlusHalf(low + ops + OpCodesOffset)
      BY <3>1, <3>2
    <3> QED BY <1>10, <1>a, <3>2, <3>3, Zenon
  <2> QED BY <1>15, <2>1, <2>2, Zenon
<1>16. ASSUME t.kind = "OP" PROVE Op
  <2>1. v \in Nat /\ v < h /\ c = low + OpCodesOffset + v
    BY <1>12, <1>13, <1>16
  <2>2. ASSUME v < ops PROVE c < PlusHalf(low + ops + OpCodesOffset)
    <3>1. PICK n : n = low + ops + OpCodesOffset
      OBVIOUS
    <3>2. c < n /\ n \in Int
      BY <1>14, <2>1, <2>2, <3>1
    <3>3. CASE MacroBits = WordBits
      BY <1>b, <3>1, <3>2, <3>3
    <3>4. CASE MacroBits = HalfBits
      <4>1. low < 0 /\ low >= -h /\ PlusHalf(n) = n % h
        BY <1>13, <3>4, MacroLimits, Sizes
      <4>2. n >= -h /\ n < h /\ h \in Nat /\ h > 0
        BY <1>14, <3>1, <4>1
      <4>3. n % h >= n
        BY <3>2, <4>2
      <4>4. n % h \in Int /\ c \in Int
        BY <1>14, <2>1, <3>2, <4>2
      <4>5. c < n % h
        BY <3>2, <4>3, <4>4
      <4> QED BY <3>1, <4>1, <4>5
    <3> QED BY <3>3, <3>4, WidthsAssumption
  <2>3. \A id \in 0 .. 4 : c # ALIAS(id)
    BY <1>14, <2>1 DEF ALIAS
  <2>4. (c - low - OpCodesOffset) % h = v
    <3>1. c - low - OpCodesOffset = v
      BY <1>14, <2>1
    <3>2. v % h = v
      BY <1>14, <2>1
    <3> QED BY <3>1, <3>2
  <2>5. /\ v < Len(Exec) => IsTokenWord
        /\ IsTokenWord => OpIndex = v
    BY <1>13, <1>a, <2>2, <2>4, Zenon
  <2>6. \A id \in 0 .. 4 : Current # ALIAS(id)
    BY <1>10, <2>3, Zenon
  <2> QED BY <1>16, <2>1, <2>5, <2>6, Zenon
<1>17. ASSUME t.kind = "CONST_REF" PROVE Ref
  <2>1. v \in Nat /\ v < Len(consts) /\ c = high - v
    BY <1>12, <1>13, <1>17
  <2>2. high - c = v
    BY <1>14, <2>1
  <2>3. ASSUME MacroBits = WordBits PROVE ~IsTokenWord /\ IsConstRefWord
    <3>1. /\ low = WordMin /\ high = WordMax
          /\ PlusHalf(low + ops + OpCodesOffset) = low + ops + OpCodesOffset
          /\ PlusHalf(high - Len(words)) = high - Len(words)
      BY <1>b, <2>3
    <3>2. Len(words) \in Nat /\ v < Len(words) /\ v < h
      <4>1. PICK m, n : m = Len(consts) /\ n = Len(code)
        OBVIOUS
      <4>2. m \in Nat /\ n \in Nat /\ v < m /\ m + n < h /\ Len(words) = m + n
        BY <1>3, <1>13, <2>1, <4>1
      <4> HIDE DEF Alias, Op, Ref
      <4> QED BY <2>1, <4>2, <1>14
    <3>3. ~(c < low + ops + OpCodesOffset) /\ c > high - Len(words)
      BY <1>14, <2>1, <3>1, <3>2
    <3> QED BY <1>a, <3>1, <3>3
  <2>4. words[v + 1] = consts[v + 1]
    BY <2>1, <1>3, <1>4
  <2>5. INT_MAX - Current = v
    BY <1>a, <2>2
  <2>6. mem[v + 1] = program.consts[v + 1]
    BY <1>2, <2>4, Zenon
  <2> QED BY <1>17, <2>1, <2>3, <2>5, <2>6, Zenon
<1>18. Alias \/ Op \/ Ref
  BY <1>12, <1>15, <1>16, <1>17, Zenon
<1>19. /\ i \in Nat /\ i - EntryPc + 1 \in DOMAIN program.code
       /\ Len(program.consts) \in Nat /\ Len(program.code) \in Nat
       /\ i <= Len(program.consts) + Len(program.code) - 1
       /\ i + 1 \in 0 .. 2 ^ WordBits - 1
  BY <1>2, <1>3, <1>5, <1>6, <1>7, <1>8
<1> QED BY <1>9, <1>10, <1>18, <1>19, Zenon
-----------------------------------------------------------------------------
(* The stack holds words *)

LEMMA Tops ==
  ASSUME NEW S, NEW s \in Seq(S), NEW k \in 0 .. Len(s)
  PROVE  /\ SubSeq(s, 1, Len(s) - k) \in Seq(S)
         /\ k # 0 => s[Len(s) - k + 1] \in S
OBVIOUS

LEMMA Pushes ==
  ASSUME NEW S, NEW s \in Seq(S), NEW x \in S, NEW y \in S
  PROVE  /\ Append(s, x) \in Seq(S) /\ s \o <<x>> = Append(s, x)
         /\ s \o <<>> = s /\ s \o <<x, y>> \in Seq(S)
         /\ SubSeq(s, 1, Len(s) - 0) = s
OBVIOUS

LEMMA Stacks ==
  ASSUME IInv
  PROVE  /\ i \in 0 .. 2 ^ WordBits - 1 /\ i \in Nat
         /\ stack \in Seq(Word) /\ Len(stack) \in Nat
         /\ \A k \in 0 .. Len(stack) : Without(k) \in Seq(Word)
         /\ \A k \in 1 .. Len(stack) : Item(k) \in Word /\ Item(k) \in Int
<1>1. stack \in Seq(Word) /\ i \in 0 .. 2 ^ WordBits - 1
  BY DEF IInv, TypeOK
<1>2. Len(stack) \in Nat /\ i \in Nat
  BY <1>1, Lengths, Sizes
<1>3. ASSUME NEW k \in 0 .. Len(stack)
      PROVE  Without(k) \in Seq(Word) /\ (k # 0 => Item(k) \in Word)
  BY <1>1, Tops DEF Without, Item
<1>4. \A k \in 1 .. Len(stack) : Item(k) \in Word
  BY <1>2, <1>3
<1>5. \A w \in Word : w \in Int
  BY Limits DEF Word
<1> QED BY <1>1, <1>2, <1>3, <1>4, <1>5

(* Where the loop goes on, the index is a word and so is all it left. *)
LEMMA Continues ==
  ASSUME IInv, NEW at \in Int, NEW s \in Seq(Word), Continue(at, s)
  PROVE  IInv'
<1>1. Unsigned(at + 1) \in 0 .. 2 ^ WordBits - 1
  BY UnsignedWords
<1> QED BY <1>1 DEF Continue, IInv, TypeOK, Accepted

LEMMA Stops ==
  ASSUME IInv, NEW how \in {"crashed", "aborted", "returned"}, Stop(how)
  PROVE  IInv'
BY DEF Stop, IInv, TypeOK, Accepted

(* What FindsOp finds is an op of the core. *)
LEMMA Found ==
  ASSUME IInv, Fetch, FindsOp
  PROVE  Exec[OpIndex + 1] \in CoreOps
<1>1. Loaded(program) /\ Current \in Int
  <2>1. MemOf(program) \in Seq(Word) /\ Loaded(program)
    BY Memory DEF IInv, Loaded
  <2>2. i \in Nat /\ i < Len(mem)
    BY Sizes DEF IInv, TypeOK, Fetch
  <2>3. PICK words : words = mem /\ words \in Seq(Word)
    BY <2>1 DEF mem
  <2>4. words[i + 1] \in Word
    BY <2>2, <2>3
  <2>5. \A w \in Word : w \in Int
    BY Limits DEF Word
  <2> QED BY <2>1, <2>3, <2>4, <2>5 DEF Current
<1>2. OpIndex \in Nat
  <2> PICK h, n : h = 2 ^ HalfBits /\ n = Current - INT_MIN - OpCodesOffset
    OBVIOUS
  <2>1. h \in Nat /\ h > 0
    BY Sizes
  <2>2. INT_MIN \in Int
    BY MacroLimits
  <2>3. n \in Int
    BY <1>1, <2>2 DEF OpCodesOffset
  <2>4. n % h \in Nat
    BY <2>1, <2>3
  <2> QED BY <2>4 DEF OpIndex
<1>3. PICK exec, at : exec = Exec /\ at = OpIndex
  OBVIOUS
<1>4. exec \in Seq(CoreOps \cup {"none"}) /\ at < Len(exec) /\ exec[at + 1] # "none" /\ at \in Nat
  BY <1>2, <1>3, ExecAssumption DEF FindsOp
<1>5. exec[at + 1] \in CoreOps \cup {"none"}
  <2>1. at + 1 \in DOMAIN exec
    BY <1>4, Lengths
  <2> QED BY <1>4, <2>1, Lengths
<1> QED BY <1>3, <1>4, <1>5
LEMMA OpsLeaveWords ==
  ASSUME IInv, NEW op \in CoreOps, Len(stack) >= Required(op)
  PROVE  Without(Popped(op)) \o Pushed(op) \in Seq(Word)
<1>1. /\ Len(stack) \in Nat
      /\ \A k \in 0 .. Len(stack) : Without(k) \in Seq(Word)
      /\ \A k \in 1 .. Len(stack) : Item(k) \in Word
  BY Stacks
<1>2. CASE op = "stack.dup"
  <2>1. Without(0) \in Seq(Word) /\ Item(1) \in Word
    BY <1>1, <1>2 DEF Required
  <2>2. Without(0) \o <<Item(1)>> \in Seq(Word)
    BY <2>1, Pushes
  <2> QED BY <1>2, <2>2 DEF Popped, Pushed
<1>3. CASE op = "stack.pop"
  <2>1. Without(1) \in Seq(Word) /\ Item(1) \in Word
    BY <1>1, <1>3 DEF Required
  <2>2. Without(1) \o <<>> \in Seq(Word)
    BY <2>1, Pushes
  <2> QED BY <1>3, <2>2 DEF Popped, Pushed
<1>4. CASE op = "stack.swap"
  <2>1. Without(2) \in Seq(Word) /\ Item(1) \in Word /\ Item(2) \in Word
    BY <1>1, <1>4 DEF Required
  <2>2. Without(2) \o <<Item(1), Item(2)>> \in Seq(Word)
    BY <2>1, Pushes
  <2> QED BY <1>4, <2>2 DEF Popped, Pushed
<1>5. CASE op = "logic.not"
  <2>1. Without(1) \in Seq(Word)
    BY <1>1, <1>5 DEF Required
  <2>2. Flag(~Truthy(Item(1))) \in Word
    BY FlagWords DEF Truthy
  <2>3. Without(1) \o <<Flag(~Truthy(Item(1)))>> \in Seq(Word)
    BY <2>1, <2>2, Pushes
  <2> QED BY <1>5, <2>3 DEF Popped, Pushed
<1>6. CASE op \notin {"stack.dup", "stack.pop", "stack.swap", "logic.not"}
  <2>1. Without(2) \in Seq(Word) /\ Item(1) \in Word /\ Item(2) \in Word
    BY <1>1, <1>6 DEF Required
  <2>2. Binary(op, Item(2), Item(1)) \in Word
    BY <1>6, <2>1, BinaryWords
  <2>3. Without(2) \o <<Binary(op, Item(2), Item(1))>> \in Seq(Word)
    BY <2>1, <2>2, Pushes
  <2> QED BY <1>6, <2>3 DEF Popped, Pushed
<1> QED BY <1>2, <1>3, <1>4, <1>5, <1>6

LEMMA Entered ==
  ASSUME NEW p, Loaded(p)
  PROVE  Len(p.consts) \in 0 .. 2 ^ WordBits - 1
<1>1. Len(p.consts) \in Nat /\ Len(p.code) \in Nat /\ Len(p.consts) + Len(p.code) < 2 ^ HalfBits
  BY Memory
<1>2. \A a, b, h, w \in Nat : a + b < h /\ w > 2 * h + 8 => a \in 0 .. w - 1
  OBVIOUS
<1>3. 2 ^ HalfBits \in Nat /\ 2 ^ WordBits \in Nat /\ 2 ^ WordBits > 2 * 2 ^ HalfBits + 8
  <2>1. \A h, w \in Nat : w > 2 * h + 2 * 8 => w > 2 * h + 8
    OBVIOUS
  <2> QED BY <2>1, Sizes DEF OpCodesOffset
<1> QED BY <1>1, <1>2, <1>3, Zenon

(* What a run leaves on the stack are words, and the index is one, however   *)
(* programs jump and whatever the widths of the build are.                  *)
THEOREM TypesHold == Spec => []IInv
<1>1. Init => IInv
  <2> SUFFICES ASSUME Init PROVE IInv
    OBVIOUS
  <2>1. Loaded(program)
    BY DEF Init, Loaded
  <2>2. i \in 0 .. 2 ^ WordBits - 1
    <3>1. i = Len(program.consts)
      BY DEF Init, EntryPc
    <3>2. Len(program.consts) \in 0 .. 2 ^ WordBits - 1
      BY <2>1, Entered, Zenon
    <3> QED BY <3>1, <3>2
  <2>3. stack \in Seq(Word)
    <3>1. <<>> \in Seq(Word)
      OBVIOUS
    <3> QED BY <3>1, HostStacksAssumption DEF Init
  <2>4. failed = FALSE /\ status = "running"
    BY DEF Init
  <2> QED BY <2>1, <2>2, <2>3, <2>4 DEF IInv, TypeOK, Loaded
<1>2. IInv /\ [Next]_vars => IInv'
  <2> SUFFICES ASSUME IInv, [Next]_vars PROVE IInv'
    OBVIOUS
  <2>1. /\ i \in Nat /\ stack \in Seq(Word) /\ Len(stack) \in Nat
        /\ \A k \in 0 .. Len(stack) : Without(k) \in Seq(Word)
        /\ \A k \in 1 .. Len(stack) : Item(k) \in Word /\ Item(k) \in Int
    BY Stacks
  <2>2. ASSUME NEW v \in Word, Push(v) PROVE IInv'
    <3>1. Append(stack, v) \in Seq(Word) /\ i \in Int
      BY <2>1, Pushes
    <3> QED BY <2>2, <3>1, Continues DEF Push
  <2>3. ASSUME Stop("aborted") \/ Stop("crashed") \/ Stop("returned") PROVE IInv'
    BY <2>3, Stops
  <2>4. CASE Goto
    <3>1. CASE Len(stack) >= 1
      <4>1. Without(1) \in Seq(Word) /\ Item(1) - 1 \in Int
        BY <2>1, <3>1
      <4> QED BY <2>4, <3>1, <4>1, Continues DEF Goto, Popping
    <3> QED BY <2>1, <2>3, <2>4, <3>1 DEF Goto, Popping
  <2>5. CASE Goif
    <3>1. CASE Len(stack) >= 2
      <4>1. Without(2) \in Seq(Word) /\ (IF Truthy(Item(1)) THEN Item(2) - 1 ELSE i) \in Int
        BY <2>1, <3>1
      <4> QED BY <2>5, <3>1, <4>1, Continues DEF Goif, Popping
    <3> QED BY <2>1, <2>3, <2>5, <3>1 DEF Goif, Popping
  <2>6. CASE Goie
    <3>1. CASE Len(stack) >= 3
      <4>1. Without(3) \in Seq(Word) /\ (IF Truthy(Item(1)) THEN Item(2) ELSE Item(3)) - 1 \in Int
        BY <2>1, <3>1
      <4> QED BY <2>6, <3>1, <4>1, Continues DEF Goie, Popping
    <3> QED BY <2>1, <2>3, <2>6, <3>1 DEF Goie, Popping
  <2>7. CASE PushList
    BY <2>2, <2>7, AddressesAssumption DEF PushList
  <2>8. CASE CallNothing
    BY <2>3, <2>8 DEF CallNothing
  <2>9. CASE CallOp
    <3>1. PICK op : op = Exec[OpIndex + 1]
      OBVIOUS
    <3>2. op \in CoreOps /\ Required(op) \in Nat
      BY <2>9, <3>1, Found DEF CallOp, IsOpWord, Required
    <3>3. CASE Len(stack) < Required(op)
      <4>1. failed' = TRUE /\ i' = i + 1 /\ UNCHANGED <<program, stack, status>>
        BY <2>9, <3>1, <3>3 DEF CallOp
      <4>2. i + 1 \in 0 .. 2 ^ WordBits - 1
        <5>1. MemOf(program) \in Seq(Word) /\ Len(MemOf(program)) < 2 ^ HalfBits
          BY Memory DEF IInv, Loaded
        <5>2. i < Len(MemOf(program))
          BY <2>9 DEF CallOp, IsOpWord, Fetch, mem
        <5>3. PICK n : n = Len(MemOf(program)) /\ n \in Nat
          BY <5>1, Lengths
        <5>4. n < 2 ^ HalfBits /\ i < n
          BY <5>1, <5>2, <5>3
        <5> QED BY <2>1, <5>3, <5>4, Sizes DEF OpCodesOffset
      <4> QED BY <4>1, <4>2 DEF IInv, TypeOK, Accepted
    <3>4. CASE Len(stack) >= Required(op)
      <4>1. Without(Popped(op)) \o Pushed(op) \in Seq(Word)
        BY <3>2, <3>4, OpsLeaveWords
      <4>2. Popping(Popped(op), Continue(i, Without(Popped(op)) \o Pushed(op)))
        BY <2>1, <2>9, <3>1, <3>2, <3>4 DEF CallOp
      <4>3. Continue(i, Without(Popped(op)) \o Pushed(op)) \/ Stop("aborted")
        BY <4>2 DEF Popping
      <4>4. i \in Int
        BY <2>1
      <4>5. CASE Continue(i, Without(Popped(op)) \o Pushed(op))
        <5>1. PICK s : s = Without(Popped(op)) \o Pushed(op)
          OBVIOUS
        <5>2. s \in Seq(Word) /\ Continue(i, s)
          BY <4>1, <4>5, <5>1
        <5> QED BY <4>4, <5>2, Continues
      <4> QED BY <2>3, <4>3, <4>5
    <3> QED BY <2>1, <3>2, <3>3, <3>4
  <2>10. ASSUME Fetch
         PROVE  /\ Current \in Word
                /\ ~IsTokenWord /\ IsConstRefWord /\ INT_MAX - Current >= 0 => mem[INT_MAX - Current + 1] \in Word
    <3>1. MemOf(program) \in Seq(Word)
      BY Memory DEF IInv, Loaded
    <3>2. PICK words, n : words = mem /\ words \in Seq(Word) /\ n = Len(mem) /\ n \in Nat
      BY <3>1, Lengths DEF mem
    <3>3. i < n
      BY <2>10, <3>2 DEF Fetch
    <3>4. words[i + 1] \in Word
      BY <2>1, <3>2, <3>3
    <3>5. Current \in Word
      BY <3>2, <3>4 DEF Current
    <3>6. ASSUME ~IsTokenWord, IsConstRefWord, INT_MAX - Current >= 0
          PROVE  mem[INT_MAX - Current + 1] \in Word
      <4>1. PICK c, h, high : c = Current /\ h = 2 ^ HalfBits /\ high = INT_MAX
        OBVIOUS
      <4>2. c \in Int /\ high \in Int /\ h \in Nat /\ h > 0 /\ n < h /\ high - c >= 0
        <5>1. Len(MemOf(program)) < 2 ^ HalfBits
          BY Memory DEF IInv, Loaded
        <5>2. c \in Int
          BY <3>5, <4>1, Limits DEF Word
        <5> QED BY <3>2, <3>6, <4>1, <5>1, <5>2, MacroLimits, Sizes DEF mem
      <4>3. c > PlusHalf(high - n)
        BY <3>2, <3>6, <4>1, Zenon DEF IsConstRefWord
      <4>4. PlusHalf(high - n) >= high - n /\ PlusHalf(high - n) \in Int
        <5>1. CASE PlusHalf(high - n) = high - n
          BY <5>1, <3>2, <4>2
        <5>2. CASE PlusHalf(high - n) = (high - n) % h /\ high < h
          <6>1. high - n < h /\ high - n \in Int
            BY <3>2, <4>2, <5>2
          <6>2. (high - n) % h >= high - n /\ (high - n) % h \in Int
            BY <4>2, <6>1
          <6> QED BY <5>2, <6>2
        <5>3. \/ PlusHalf(high - n) = high - n
              \/ PlusHalf(high - n) = (high - n) % h /\ high < h
          <6>1. \/ \A m : PlusHalf(m) = m
                \/ INT_MIN < 0 /\ INT_MAX = INT_MIN + h - 1 /\ \A m : PlusHalf(m) = m % h
            BY <4>1, MacroLimits
          <6>2. INT_MIN \in Int
            BY MacroLimits
          <6>3. INT_MIN < 0 /\ INT_MAX = INT_MIN + h - 1 => high < h
            BY <4>1, <4>2, <6>2
          <6> QED BY <6>1, <6>3, Zenon
        <5> QED BY <5>1, <5>2, <5>3
      <4>5. high - c + 1 \in 1 .. n
        BY <3>2, <4>2, <4>3, <4>4
      <4> QED BY <3>2, <4>1, <4>5
    <3> QED BY <3>5, <3>6
  <2>11. CASE PushConst
    <3>1. Fetch /\ IsConstRefWord /\ ~IsTokenWord
      BY <2>11 DEF PushConst, IsConstRefWord
    <3>2. CASE INT_MAX - Current >= 0
      BY <2>2, <2>10, <2>11, <3>1, <3>2 DEF PushConst
    <3>3. CASE ~(INT_MAX - Current >= 0)
      BY <2>3, <2>11, <3>3 DEF PushConst
    <3> QED BY <3>2, <3>3
  <2>12. CASE PushWord
    BY <2>2, <2>10, <2>12 DEF PushWord
  <2>13. CASE Return
    BY <2>3, <2>13 DEF Return
  <2>14. CASE Run
    <3>1. Loaded(program)
      BY DEF IInv, Loaded
    <3>2. i' \in 0 .. 2 ^ WordBits - 1
      BY <2>14, <3>1, Entered DEF Run, EntryPc
    <3> QED BY <2>14, <3>2 DEF Run, IInv, TypeOK, Accepted
  <2>15. CASE UNCHANGED vars
    BY <2>15 DEF vars, IInv, TypeOK, Accepted
  <2> QED BY <2>4, <2>5, <2>6, <2>7, <2>8, <2>9, <2>11, <2>12, <2>13, <2>14, <2>15 DEF Next
<1> QED BY <1>1, <1>2, PTL DEF Spec

(* What a program leaves on the stack are words: no conversion of the loop   *)
(* or of a core op of urbc_ops_core.c is forgotten, in any build.            *)
THEOREM StackHoldsWords == Spec => []TypeOK
<1>1. IInv => TypeOK
  BY DEF IInv
<1> QED BY <1>1, TypesHold, PTL

-----------------------------------------------------------------------------
(* Each step of the loop is a step of the machine *)

LEMMA Outcomes ==
  /\ OutcomeOf("running", FALSE) = "running"
  /\ OutcomeOf("returned", FALSE) = "ok"
  /\ OutcomeOf("running", TRUE) = "failed" /\ OutcomeOf("returned", TRUE) = "failed"
  /\ \A how \in {"running", "returned", "crashed", "aborted"} : \A flag \in BOOLEAN :
       OutcomeOf(how, flag) \in {"running", "ok", "failed", "dead"}
<1>1. /\ OutcomeOf("running", FALSE) = "running"
      /\ OutcomeOf("returned", FALSE) = "ok"
  BY DEF OutcomeOf
<1>2. OutcomeOf("running", TRUE) = "failed" /\ OutcomeOf("returned", TRUE) = "failed"
  BY DEF OutcomeOf
<1>3. \A flag \in BOOLEAN : OutcomeOf("crashed", flag) = "dead" /\ OutcomeOf("aborted", flag) = "dead"
  BY DEF OutcomeOf
<1> QED BY <1>1, <1>2, <1>3

LEMMA Running ==
  ASSUME IInv, Fetch
  PROVE  OutcomeOf(status, failed) = "running"
BY Outcomes DEF Fetch, IInv, TypeOK

LEMMA SameWords ==
  /\ \A n : Machine!Unsigned(n) = Unsigned(n)
  /\ \A v : Machine!Truthy(v) = Truthy(v)
  /\ \A b : Machine!Flag(b) = Flag(b)
  /\ \A op, a, b : Machine!Binary(op, a, b) = Binary(op, a, b)
<1>1. \A n : Machine!Unsigned(n) = Unsigned(n)
  BY DEF Machine!Unsigned, Unsigned
<1>2. \A n : Machine!Signed(n) = Signed(n)
  BY <1>1, Zenon DEF Machine!Signed, Signed, Machine!WordMax, WordMax, Machine!WordMin, WordMin
<1>3. \A b : Machine!Flag(b) = Flag(b)
  BY Zenon DEF Machine!Flag, Flag
<1>4. \A op, a, b : Machine!Binary(op, a, b) = Binary(op, a, b)
  BY <1>2, <1>3, Zenon DEF Machine!Binary, Binary
<1>5. \A v : Machine!Truthy(v) = Truthy(v)
  BY Zenon DEF Machine!Truthy, Truthy
<1> QED BY <1>1, <1>3, <1>4, <1>5, Zenon

(* Where the document is silent any step will do. *)
LEMMA Anything ==
  ASSUME IInv', UNCHANGED program
  PROVE  Machine!Undefined
<1>1. status' \in {"running", "returned", "crashed", "aborted"} /\ failed' \in BOOLEAN
  BY DEF IInv, TypeOK
<1>2. OutcomeOf(status', failed') \in {"running", "ok", "failed", "dead"}
  BY <1>1, Outcomes
<1> QED BY <1>2 DEF Machine!Undefined

LEMMA Goes ==
  ASSUME NEW at, NEW s, Continue(at, s)
  PROVE  Machine!Step(Unsigned(at + 1), s)
BY DEF Continue, Machine!Step

(* The token the machine is at. *)
LEMMA AtTokens ==
  ASSUME IInv, Fetch, i >= EntryPc
  PROVE  /\ Machine!Operand = program.code[i - EntryPc + 1].value
         /\ Machine!AtToken(program.code[i - EntryPc + 1].kind)
<1>1. /\ i \in Nat /\ Len(program.consts) \in Nat /\ Len(program.code) \in Nat
      /\ i <= Len(program.consts) + Len(program.code) - 1
  BY Decoding
<1>2. EntryPc = Len(program.consts)
  BY DEF EntryPc
<1>3. i \in Len(program.consts) .. (Len(program.consts) + Len(program.code)) - 1
  <2>1. \A a, b, n \in Nat : n >= a /\ n <= a + b - 1 => n \in a .. (a + b) - 1
    OBVIOUS
  <2>2. i >= Len(program.consts)
    BY <1>2
  <2> QED BY <1>1, <2>1, <2>2, Zenon
<1>4. OutcomeOf(status, failed) = "running"
  BY Running
<1>5. Machine!ConstCount = EntryPc /\ Machine!ProgramSize = Len(program.consts) + Len(program.code)
  BY DEF Machine!ConstCount, Machine!ProgramSize, EntryPc
<1>6. i \in Machine!ConstCount .. Machine!ProgramSize - 1
  BY <1>3, Zenon DEF Machine!ConstCount, Machine!ProgramSize
<1> QED BY <1>4, <1>5, <1>6, Zenon DEF Machine!AtToken, Machine!Operand

(* The five aliases. *)
LEMMA AliasSteps ==
  ASSUME MacroBits = WordBits, IInv, IInv', Fetch, i >= EntryPc, Next,
         program.code[i - EntryPc + 1].kind = "ALIAS"
  PROVE  Machine!Next
<1>1. PICK v : v = program.code[i - EntryPc + 1].value
  OBVIOUS
<1>2. v \in 0 .. 4 /\ IsTokenWord /\ Current = ALIAS(v) /\ i \in Nat /\ i + 1 \in 0 .. 2 ^ WordBits - 1
  BY <1>1, Decoding
<1>3. \A id : Machine!AtAlias(id) <=> id = v
  BY <1>1, AtTokens DEF Machine!AtAlias
<1>4. \A id \in 0 .. 4 : Current = ALIAS(id) <=> id = v
  BY <1>2, Limits DEF ALIAS
<1>5. /\ stack \in Seq(Word) /\ Len(stack) \in Nat
      /\ \A k \in 1 .. Len(stack) : Item(k) \in Int
  BY Stacks
<1>6. Unsigned(i + 1) = i + 1
  BY <1>2, UnsignedWords
<1>7. /\ \A k : Machine!Item(k) = Item(k) /\ Machine!Without(k) = Without(k)
      /\ \A n : Machine!Unsigned(n) = Unsigned(n)
      /\ \A x : Machine!Truthy(x) = Truthy(x)
  BY SameWords DEF Machine!Item, Machine!Without, Item, Without
<1>8. \A k \in 1 .. Len(stack) : Item(k) - 1 + 1 = Item(k)
  BY <1>5
<1>9. CASE Goto
  <2>1. v = 0 /\ UNCHANGED program
    BY <1>4, <1>9 DEF Goto, Popping, Continue, Stop
  <2>2. CASE Len(stack) >= 1
    <3>1. Continue(Item(1) - 1, Without(1))
      BY <1>9, <2>2 DEF Goto, Popping
    <3>2. Machine!Step(Unsigned(Item(1)), Without(1))
      BY <3>1, <2>2, <1>5, <1>8, Goes
    <3> QED BY <1>3, <1>7, <2>1, <2>2, <3>2 DEF Machine!Next, Machine!Goto, Machine!Branch
  <2>3. CASE ~(Len(stack) >= 1)
    BY <1>3, <2>1, <2>3, Anything DEF Machine!Next, Machine!Goto, Machine!Branch
  <2> QED BY <2>2, <2>3
<1>10. CASE Goif
  <2>1. v = 1 /\ UNCHANGED program
    BY <1>4, <1>10 DEF Goif, Popping, Continue, Stop
  <2>2. CASE Len(stack) >= 2 /\ Truthy(Item(1))
    <3>1. Continue(Item(2) - 1, Without(2))
      BY <1>10, <2>2 DEF Goif, Popping
    <3>2. Machine!Step(Unsigned(Item(2)), Without(2))
      BY <3>1, <2>2, <1>5, <1>8, Goes
    <3> QED BY <1>3, <1>7, <2>1, <2>2, <3>2 DEF Machine!Next, Machine!Goif, Machine!Branch
  <2>3. CASE Len(stack) >= 2 /\ ~Truthy(Item(1))
    <3>1. Continue(i, Without(2))
      BY <1>10, <2>3 DEF Goif, Popping
    <3>2. Machine!Step(i + 1, Without(2))
      BY <3>1, <1>6, Goes
    <3> QED BY <1>3, <1>7, <2>1, <2>3, <3>2 DEF Machine!Next, Machine!Goif
  <2>4. CASE ~(Len(stack) >= 2)
    BY <1>3, <2>1, <2>4, Anything DEF Machine!Next, Machine!Goif, Machine!Branch
  <2> QED BY <2>2, <2>3, <2>4
<1>11. CASE Goie
  <2>1. v = 2 /\ UNCHANGED program
    BY <1>4, <1>11 DEF Goie, Popping, Continue, Stop
  <2>2. CASE Len(stack) >= 3 /\ Truthy(Item(1))
    <3>1. Continue(Item(2) - 1, Without(3))
      BY <1>11, <2>2 DEF Goie, Popping
    <3>2. Machine!Step(Unsigned(Item(2)), Without(3))
      BY <3>1, <2>2, <1>5, <1>8, Goes
    <3> QED BY <1>3, <1>7, <2>1, <2>2, <3>2 DEF Machine!Next, Machine!Goie, Machine!Branch
  <2>3. CASE Len(stack) >= 3 /\ ~Truthy(Item(1))
    <3>1. Continue(Item(3) - 1, Without(3))
      BY <1>11, <2>3 DEF Goie, Popping
    <3>2. Machine!Step(Unsigned(Item(3)), Without(3))
      BY <3>1, <2>3, <1>5, <1>8, Goes
    <3> QED BY <1>3, <1>7, <2>1, <2>3, <3>2 DEF Machine!Next, Machine!Goie, Machine!Branch
  <2>4. CASE ~(Len(stack) >= 3)
    BY <1>3, <2>1, <2>4, Anything DEF Machine!Next, Machine!Goie, Machine!Branch
  <2> QED BY <2>2, <2>3, <2>4
<1>12. CASE PushList
  <2>1. \/ v = 3 /\ Continue(i, Append(stack, ExecAddr))
        \/ v = 4 /\ Continue(i, Append(stack, MemAddr))
    BY <1>4, <1>12 DEF PushList, Push
  <2>2. \/ v = 3 /\ Machine!Step(i + 1, Append(stack, ExecAddr))
        \/ v = 4 /\ Machine!Step(i + 1, Append(stack, MemAddr))
    BY <1>6, <2>1, Goes
  <2> QED BY <1>3, <2>2 DEF Machine!Next, Machine!PushList
<1>13. ~CallNothing /\ ~CallOp
  BY <1>2 DEF CallNothing, CallOp, IsOpWord
<1>14. ~PushConst /\ ~PushWord
  BY <1>2 DEF PushConst, PushWord, IsConstRefWord
<1>15. ~Return /\ ~Run
  BY <1>2, Sizes DEF Return, Run, Fetch, IInv, TypeOK
<1> QED BY <1>9, <1>10, <1>11, <1>12, <1>13, <1>14, <1>15 DEF Next

(* Constant references. *)
LEMMA RefSteps ==
  ASSUME MacroBits = WordBits, IInv, Fetch, i >= EntryPc, Next,
         program.code[i - EntryPc + 1].kind = "CONST_REF"
  PROVE  Machine!Next
<1>1. PICK v : v = program.code[i - EntryPc + 1].value
  OBVIOUS
<1>2. /\ v \in Nat /\ i \in Nat /\ i + 1 \in 0 .. 2 ^ WordBits - 1
      /\ ~IsTokenWord /\ IsConstRefWord /\ INT_MAX - Current = v
      /\ mem[v + 1] = program.consts[v + 1]
  BY <1>1, Decoding
<1>3. Machine!AtToken("CONST_REF") /\ Machine!Operand = v
  BY <1>1, AtTokens
<1>4. ~Goto /\ ~Goif /\ ~Goie /\ ~PushList /\ ~CallNothing /\ ~CallOp /\ ~PushWord
  BY <1>2 DEF Goto, Goif, Goie, PushList, CallNothing, CallOp, IsOpWord, PushWord
<1>5. ~Return /\ ~Run
  BY <1>2, Sizes DEF Return, Run, Fetch, IInv, TypeOK
<1>6. PushConst
  BY <1>4, <1>5 DEF Next
<1>7. Continue(i, Append(stack, program.consts[v + 1]))
  BY <1>2, <1>6 DEF PushConst, Push
<1>8. Machine!Step(i + 1, Append(stack, program.consts[v + 1]))
  BY <1>2, <1>7, Goes, UnsignedWords
<1>9. Machine!PushConstant
  BY <1>3, <1>8, Zenon DEF Machine!PushConstant
<1> QED BY <1>9 DEF Machine!Next

(* An op's effect, popping its operands and pushing its results. *)
LEMMA SameEffect ==
  ASSUME IInv, NEW op \in CoreOps, Len(stack) >= Required(op)
  PROVE  /\ Machine!Operands(op) = Required(op)
         /\ Without(Popped(op)) \o Pushed(op) = Machine!Effect(op)
<1>1. /\ stack \in Seq(Word) /\ Len(stack) \in Nat
      /\ \A k \in 0 .. Len(stack) : Without(k) \in Seq(Word)
      /\ \A k \in 1 .. Len(stack) : Item(k) \in Word
  BY Stacks
<1>2. Machine!Operands(op) = Required(op)
  BY DEF Machine!Operands, Required
<1>3. /\ \A k : Machine!Item(k) = Item(k) /\ Machine!Without(k) = Without(k)
      /\ \A x : Machine!Truthy(x) = Truthy(x)
      /\ \A b : Machine!Flag(b) = Flag(b)
      /\ \A o, a, b : Machine!Binary(o, a, b) = Binary(o, a, b)
  BY SameWords DEF Machine!Item, Machine!Without, Item, Without
<1>4. CASE op = "stack.dup"
  <2>1. Item(1) \in Word
    BY <1>1, <1>4 DEF Required
  <2>2. Without(0) = stack
    BY <1>1, <2>1, Pushes DEF Without
  <2>3. stack \o <<Item(1)>> = Append(stack, Item(1))
    BY <1>1, <2>1, Pushes
  <2> QED BY <1>2, <1>3, <1>4, <2>2, <2>3 DEF Popped, Pushed, Machine!Effect
<1>5. CASE op = "stack.pop"
  <2>1. Without(1) \in Seq(Word) /\ Item(1) \in Word
    BY <1>1, <1>5 DEF Required
  <2>2. Without(1) \o <<>> = Without(1)
    BY <2>1, Pushes
  <2> QED BY <1>2, <1>3, <1>5, <2>2 DEF Popped, Pushed, Machine!Effect
<1>6. CASE op = "stack.swap"
  BY <1>2, <1>3, <1>6 DEF Popped, Pushed, Machine!Effect
<1>7. CASE op = "logic.not"
  <2>1. Without(1) \in Seq(Word) /\ Flag(~Truthy(Item(1))) \in Word
    <3>1. Without(1) \in Seq(Word)
      BY <1>1, <1>7 DEF Required
    <3>2. Flag(~Truthy(Item(1))) \in Word
      BY FlagWords DEF Truthy
    <3> QED BY <3>1, <3>2
  <2>2. Without(1) \o <<Flag(~Truthy(Item(1)))>> = Append(Without(1), Flag(~Truthy(Item(1))))
    BY <2>1, Pushes
  <2>3. Machine!Flag(~Machine!Truthy(Machine!Item(1))) = Flag(~Truthy(Item(1)))
    BY <1>3, Zenon
  <2> QED BY <1>2, <1>3, <1>7, <2>2, <2>3 DEF Popped, Pushed, Machine!Effect
<1>8. CASE op \notin {"stack.dup", "stack.pop", "stack.swap", "logic.not"}
  <2>1. Without(2) \in Seq(Word) /\ Item(1) \in Word /\ Item(2) \in Word
    BY <1>1, <1>8 DEF Required
  <2>2. Binary(op, Item(2), Item(1)) \in Word
    BY <1>8, <2>1, BinaryWords
  <2>3. Without(2) \o <<Binary(op, Item(2), Item(1))>> = Append(Without(2), Binary(op, Item(2), Item(1)))
    BY <2>1, <2>2, Pushes
  <2> QED BY <1>2, <1>3, <1>8, <2>3 DEF Popped, Pushed, Machine!Effect
<1> QED BY <1>4, <1>5, <1>6, <1>7, <1>8

(* Ops, whatever the macros are. *)
LEMMA OpSteps ==
  ASSUME IInv, IInv', Fetch, i >= EntryPc, Next,
         program.code[i - EntryPc + 1].kind = "OP"
  PROVE  Machine!Op
<1>1. PICK v : v = program.code[i - EntryPc + 1].value
  OBVIOUS
<1>2. /\ v \in Nat /\ i \in Nat /\ i + 1 \in 0 .. 2 ^ WordBits - 1
      /\ v < Len(Exec) => IsTokenWord
      /\ IsTokenWord => OpIndex = v
      /\ \A id \in 0 .. 4 : Current # ALIAS(id)
  BY <1>1, Decoding
<1>3. Machine!AtToken("OP") /\ Machine!Operand = v
  BY <1>1, AtTokens
<1>4. ~Goto /\ ~Goif /\ ~Goie /\ ~PushList
  BY <1>2 DEF Goto, Goif, Goie, PushList
<1>5. ~Return /\ ~Run
  BY <1>2, Sizes DEF Return, Run, Fetch, IInv, TypeOK
<1>6. ASSUME Machine!NameOf(v) = "none", UNCHANGED program PROVE Machine!Op
  <2>1. Machine!Undefined
    BY <1>6, Anything
  <2> QED BY <1>3, <1>6, <2>1 DEF Machine!Op
<1>7. CASE CallNothing
  <2>1. IsTokenWord /\ ~FindsOp /\ UNCHANGED program
    BY <1>7 DEF CallNothing, IsOpWord, Stop
  <2>2. Machine!NameOf(v) = "none"
    BY <1>2, <2>1, Zenon DEF FindsOp, Machine!NameOf
  <2> QED BY <1>6, <2>1, <2>2
<1>8. CASE PushConst \/ PushWord
  <2>1. ~IsTokenWord /\ UNCHANGED program
    BY <1>8 DEF PushConst, PushWord, IsConstRefWord, Push, Continue, Stop
  <2>2. Machine!NameOf(v) = "none"
    BY <1>2, <2>1 DEF Machine!NameOf
  <2> QED BY <1>6, <2>1, <2>2
<1>9. CASE CallOp
  <2>1. PICK op : op = Exec[OpIndex + 1]
    OBVIOUS
  <2>2. op \in CoreOps /\ OpIndex = v /\ v < Len(Exec)
    <3>1. IsTokenWord /\ FindsOp
      BY <1>9 DEF CallOp, IsOpWord
    <3>2. OpIndex = v
      BY <1>2, <3>1
    <3> QED BY <2>1, <3>1, <3>2, Found DEF FindsOp
  <2>3. Machine!NameOf(v) = op /\ op # "none"
    <3>1. Machine!NameOf(v) = Exec[v + 1]
      BY <2>2, Zenon DEF Machine!NameOf
    <3>2. op # "none"
      BY <2>2 DEF CoreOps
    <3> QED BY <2>1, <2>2, <3>1, <3>2, Zenon
  <2>4. Required(op) \in 1 .. 2 /\ Popped(op) \in 0 .. Required(op) /\ Len(stack) \in Nat
    BY <2>2, Stacks DEF Required, Popped
  <2>5. CASE Len(stack) < Required(op)
    <3>1. failed' = TRUE /\ UNCHANGED <<program, stack, status>>
      BY <1>9, <2>1, <2>5 DEF CallOp
    <3>2. OutcomeOf(status', failed') = "failed"
      BY <3>1, Outcomes DEF Fetch
    <3>3. ~(Len(stack) >= Machine!Operands(op))
      BY <2>4, <2>5 DEF Machine!Operands, Required
    <3> QED BY <1>3, <2>3, <3>1, <3>2, <3>3 DEF Machine!Op
  <2>6. CASE Len(stack) >= Required(op)
    <3>1. Popping(Popped(op), Continue(i, Without(Popped(op)) \o Pushed(op)))
      BY <1>9, <2>1, <2>4, <2>6 DEF CallOp
    <3>2. Continue(i, Without(Popped(op)) \o Pushed(op))
      BY <2>4, <2>6, <3>1 DEF Popping
    <3>3. Machine!Operands(op) = Required(op) /\ Without(Popped(op)) \o Pushed(op) = Machine!Effect(op)
      BY <2>2, <2>6, SameEffect
    <3>4. Machine!Step(i + 1, Machine!Effect(op))
      BY <1>2, <3>2, <3>3, Goes, UnsignedWords
    <3> QED BY <1>3, <2>3, <2>6, <3>3, <3>4 DEF Machine!Op
  <2> QED BY <2>4, <2>5, <2>6
<1> QED BY <1>4, <1>5, <1>7, <1>8, <1>9 DEF Next

(* Each step of urbc_runtime_run over the encoded words of a program is the   *)
(* step that docs/BYTECODE.md gives for its token, for any table of ops, where *)
(* the build tells the program's tokens by their words: any token on a 32-bit  *)
(* target, where INT_MIN and INT_MAX are a word's limits whichever header came  *)
(* last, and the tokens of ops on a 64-bit one.  The run InterpreterInt shows   *)
(* that no more can be said of a 64-bit build.                               *)
THEOREM LoopImplementsMachine ==
  ASSUME \A p \in Programs : Told(p) PROVE Spec => ImplementsMachine
<1>1. Init => Machine!Init
  <2> SUFFICES ASSUME Init PROVE Machine!Init
    OBVIOUS
  <2>1. OutcomeOf(status, failed) = "running"
    BY Outcomes DEF Init
  <2>2. stack \in Seq(Machine!Word)
    <3>1. stack \in Seq(Word)
      <4>1. <<>> \in Seq(Word)
        OBVIOUS
      <4> QED BY <4>1, HostStacksAssumption DEF Init
    <3>2. Machine!Word = Word
      BY DEF Machine!Word, Word, Machine!WordMin, WordMin, Machine!WordMax, WordMax
    <3> QED BY <3>1, <3>2
  <2> QED BY <2>1, <2>2 DEF Init, Machine!Init, Machine!ConstCount, EntryPc
<1>2. IInv /\ IInv' /\ [Next]_vars => [Machine!Next]_Machine!vars
  <2> SUFFICES ASSUME IInv, IInv', [Next]_vars PROVE [Machine!Next]_Machine!vars
    OBVIOUS
  <2>1. CASE UNCHANGED vars
    BY <2>1 DEF vars, Machine!vars
  <2>2. CASE Next /\ Fetch /\ i < EntryPc
    <3>1. UNCHANGED program
      BY <2>2 DEF Next, Goto, Goif, Goie, PushList, CallNothing, CallOp, PushConst, PushWord, Return, Run,
                  Popping, Push, Continue, Stop
    <3>2. Machine!Undefined /\ OutcomeOf(status, failed) = "running"
      BY <2>2, <3>1, Anything, Running
    <3>3. Machine!JumpedIntoConstants
      BY <2>2, <3>2 DEF Machine!JumpedIntoConstants, Machine!ConstCount, EntryPc
    <3> QED BY <3>3 DEF Machine!Next
  <2>3. CASE Next /\ Fetch /\ ~(i < EntryPc)
    <3>1. i \in Nat /\ EntryPc \in Nat
      BY Stacks, Memory DEF IInv, Loaded, EntryPc
    <3>2. i >= EntryPc
      BY <2>3, <3>1
    <3>3. /\ program.code[i - EntryPc + 1].kind \in {"ALIAS", "OP", "CONST_REF"}
          /\ i - EntryPc + 1 \in DOMAIN program.code
      BY <2>3, <3>2, Decoding
    <3>4. MacroBits = WordBits \/ program.code[i - EntryPc + 1].kind = "OP"
      BY <3>3 DEF IInv, Told
    <3>5. CASE program.code[i - EntryPc + 1].kind = "OP"
      <4>1. Machine!Op
        BY <2>3, <3>2, <3>5, OpSteps
      <4> QED BY <4>1 DEF Machine!Next
    <3>6. CASE /\ MacroBits = WordBits
               /\ program.code[i - EntryPc + 1].kind \in {"ALIAS", "CONST_REF"}
      BY <2>3, <3>2, <3>6, AliasSteps, RefSteps
    <3> QED BY <3>3, <3>4, <3>5, <3>6
  <2>4. CASE Return
    <3>1. CASE failed
      <4>1. OutcomeOf(status, failed) = "failed" /\ OutcomeOf(status', failed') = "failed"
        BY <2>4, <3>1, Outcomes DEF Return, Stop, IInv, TypeOK
      <4> QED BY <2>4, <4>1 DEF Return, Stop, Machine!vars
    <3>2. CASE ~failed
      <4>1. failed = FALSE
        BY <3>2 DEF IInv, TypeOK
      <4>2. OutcomeOf(status, failed) = "running" /\ OutcomeOf(status', failed') = "ok"
        BY <2>4, <4>1, Outcomes DEF Return, Stop
      <4>3. i >= Len(MemOf(program))
        BY <2>4, <3>2 DEF Return, mem
      <4>4. Len(MemOf(program)) = Len(program.consts) + Len(program.code)
        BY Memory DEF IInv, Loaded
      <4>5. i >= Machine!ProgramSize
        BY <4>3, <4>4 DEF Machine!ProgramSize, Machine!ConstCount
      <4>6. Machine!Finish
        BY <2>4, <4>2, <4>5 DEF Return, Stop, Machine!Finish
      <4> QED BY <4>6 DEF Machine!Next
    <3> QED BY <3>1, <3>2
  <2>5. CASE Run
    <3>1. OutcomeOf(status, failed) \in {"ok", "failed"} /\ OutcomeOf(status', failed') = "running"
      BY <2>5, Outcomes DEF Run, IInv, TypeOK
    <3>2. Machine!RunAgain
      BY <2>5, <3>1 DEF Run, Machine!RunAgain, Machine!ConstCount, EntryPc
    <3> QED BY <3>2 DEF Machine!Next
  <2>6. Next => Fetch \/ Return \/ Run
    BY DEF Next, Goto, Goif, Goie, PushList, CallNothing, CallOp, IsOpWord, PushConst, PushWord
  <2> QED BY <2>1, <2>2, <2>3, <2>4, <2>5, <2>6
<1>3. Spec => []IInv
  BY TypesHold
<1> QED BY <1>1, <1>2, <1>3, PTL DEF Spec, ImplementsMachine, Machine!Spec

(* In any build, and whatever the other tokens of the program are, the step  *)
(* of urbc_runtime_run at the token of an op is the one the document gives    *)
(* that op: the op is found, refused without its operands, and leaves what the *)
(* table of section 5.1 says.                                                *)
THEOREM OpsRunAsDocumented == Spec => OpsRun
<1>1. IInv /\ IInv' /\ [Next]_vars => [AtOp => Machine!Op]_vars
  <2> SUFFICES ASSUME IInv, IInv', Next, AtOp PROVE Machine!Op
    BY DEF vars
  <2>1. Fetch /\ i >= EntryPc /\ program.code[i - EntryPc + 1].kind = "OP"
    BY DEF AtOp
  <2> QED BY <2>1, OpSteps
<1>2. Spec => []IInv
  BY TypesHold
<1> QED BY <1>1, <1>2, PTL DEF Spec, OpsRun
=============================================================================
