------------------------- MODULE SchemaCompileProofs -------------------------
(***************************************************************************)
(* Proofs about SchemaCompile: its inductive invariant, and from it that    *)
(* the marks in the cache follow the recursion, that recursion by value    *)
(* never gets into the cache, that NULL means failed, that a compiled schema *)
(* stays as it is, and that layouts are sound where no sum wraps.          *)
(*                                                                         *)
(* Then about Views, whose compiler's steps are these: handles keep to      *)
(* compiled schemas, and view.get of a struct field finds its schema in the  *)
(* cache; where no layout wraps, what a handle reaches is inside the memory  *)
(* the host named.                                                         *)
(***************************************************************************)
EXTENDS Views, SequenceTheorems, TLAPS

LEMMA InitIInv == Init => IInv
  <1> SUFFICES ASSUME Init PROVE IInv
    OBVIOUS
  <1>1. schemas \in Seq(RawSchema) /\ ValidImage(schemas)
    BY ImagesAssumption DEF Init
  <1>2. TypeOK
    <2>1. <<>> \in Seq(Field) /\ stack \in Seq(Frame)
      BY DEF Init
    <2>2. Unmarked \in [mark : Marks, fields : Seq(Field), align : Nat, size : Nat]
      BY <2>1 DEF Unmarked, Marks
    <2> QED BY <1>1, <2>1, <2>2 DEF Init, TypeOK
  <1>3. ResultFits
    BY DEF Init, ResultFits, IsCompiled, Unmarked
  <1>4. MarksAreFrames
    BY DEF Init, MarksAreFrames, Unmarked
  <1>5. FramesChain /\ FramesOnCompiled
    BY DEF Init, FramesChain, FramesOnCompiled
  <1>6. CompiledOnCompiled
    BY DEF Init, CompiledOnCompiled, IsCompiled, Unmarked
  <1> QED BY <1>2, <1>3, <1>4, <1>5, <1>6 DEF IInv

(* The stack without its top frame. *)
LEMMA PopFacts ==
  ASSUME NEW S, stack \in Seq(S), stack # <<>>
  PROVE  /\ Top \in S /\ Len(stack) \in Nat \ {0}
         /\ Below \in Seq(S) /\ Len(Below) = Len(stack) - 1
         /\ \A k \in 1 .. Len(stack) - 1 : Below[k] = stack[k]
  <1>1. Len(stack) \in Nat \ {0}
    BY EmptySeq
  <1>2. Top \in S
    BY <1>1, ElementOfSeq DEF Top
  <1>3. /\ Below \in Seq(S) /\ Len(Below) = Len(stack) - 1
        /\ \A k \in 1 .. Len(stack) - 1 : Below[k] = stack[k]
    <2>1. \A k \in 1 .. Len(stack) - 1 : stack[k] \in S
      BY <1>1, ElementOfSeq
    <2>2. /\ Below \in Seq(S)
          /\ Len(Below) = IF 1 <= Len(stack) - 1 THEN Len(stack) - 1 - 1 + 1 ELSE 0
          /\ \A k \in 1 .. Len(stack) - 1 - 1 + 1 : Below[k] = stack[1 + k - 1]
      BY <1>1, <2>1, SubSeqProperties DEF Below
    <2>3. ASSUME NEW k \in 1 .. Len(stack) - 1
          PROVE  Below[k] = stack[k]
      <3>1. k \in 1 .. Len(stack) - 1 - 1 + 1 /\ 1 + k - 1 = k
        BY <1>1
      <3> QED BY <2>2, <3>1
    <2>4. Len(Below) = Len(stack) - 1
      <3>1. \A n \in Nat \ {0} : (IF 1 <= n - 1 THEN n - 1 - 1 + 1 ELSE 0) = n - 1
        OBVIOUS
      <3> QED BY ONLY <1>1, <2>2, <3>1, Zenon
    <2> QED BY <2>2, <2>3, <2>4
  <1> QED BY <1>1, <1>2, <1>3

(* The stack with another top frame. *)
LEMMA ReplaceFacts ==
  ASSUME NEW S, stack \in Seq(S), stack # <<>>, NEW f \in S
  PROVE  /\ Append(Below, f) \in Seq(S)
         /\ Len(Append(Below, f)) = Len(stack)
         /\ DOMAIN Append(Below, f) = DOMAIN stack
         /\ Append(Below, f)[Len(stack)] = f
         /\ \A k \in 1 .. Len(stack) - 1 : Append(Below, f)[k] = stack[k]
  BY PopFacts

LEMMA WrapType == \A n \in Nat : Wrap(n) \in Nat
  BY SizeModulusAssumption, PointerSizeAssumption DEF Wrap, PrimSizes

LEMMA AlignUpType == ASSUME NEW n \in Nat, NEW al \in Nat \ {0} PROVE AlignUp(n, al) \in Nat
  <1>1. (n + al - 1) \div al \in Nat
    OBVIOUS
  <1>2. ((n + al - 1) \div al) * al \in Nat
    BY <1>1
  <1> QED BY <1>2, WrapType DEF AlignUp

LEMMA LargerType ==
  /\ \A a, b \in Nat : Larger(a, b) \in Nat
  /\ \A a, b \in Nat \ {0} : Larger(a, b) \in Nat \ {0}
  BY DEF Larger

-----------------------------------------------------------------------------
(* A schema's mark and its frame come and go together. *)

LEMMA PushMarks ==
  ASSUME IInv, Begin
  PROVE  MarksAreFrames'
  <1>1. stack \in Seq(Frame) /\ Len(stack) \in Nat
    BY DEF IInv, TypeOK
  <1>2. \A k \in DOMAIN stack : stack[k].schema # arg
    BY DEF IInv, MarksAreFrames, Begin
  <1>3. /\ Len(stack') = Len(stack) + 1
        /\ stack'[Len(stack) + 1].schema = arg
        /\ \A k \in 1 .. Len(stack) : stack'[k] = stack[k]
    BY <1>1 DEF Begin, NewFrame
  <1>4. DOMAIN stack' = 1 .. Len(stack) + 1 /\ DOMAIN stack = 1 .. Len(stack)
    BY <1>1, <1>3 DEF Begin, NewFrame
  <1>5. \A s \in DOMAIN schemas : cache'[s].mark = "in_progress" <=> s = arg \/ cache[s].mark = "in_progress"
    BY DEF IInv, TypeOK, Begin
  <1>6. ASSUME NEW s \in DOMAIN schemas
        PROVE  cache'[s].mark = "in_progress" <=> \E k \in DOMAIN stack' : stack'[k].schema = s
    BY <1>1, <1>3, <1>4, <1>5 DEF IInv, MarksAreFrames
  <1>7. ASSUME NEW j \in DOMAIN stack', NEW k \in DOMAIN stack', stack'[j].schema = stack'[k].schema
        PROVE  j = k
    BY <1>1, <1>2, <1>3, <1>4, <1>7 DEF IInv, MarksAreFrames
  <1> QED BY <1>6, <1>7 DEF MarksAreFrames, Begin

LEMMA PopMarks ==
  ASSUME IInv, stack # <<>>, stack' = Below, schemas' = schemas,
         cache'[Top.schema].mark # "in_progress",
         \A s \in DOMAIN schemas : s # Top.schema => cache'[s] = cache[s]
  PROVE  MarksAreFrames'
  <1>1. stack \in Seq(Frame)
    BY DEF IInv, TypeOK
  <1>2. /\ Len(stack) \in Nat \ {0} /\ Len(stack') = Len(stack) - 1
        /\ stack' \in Seq(Frame)
        /\ \A k \in 1 .. Len(stack) - 1 : stack'[k] = stack[k]
    BY <1>1, PopFacts
  <1>3. DOMAIN stack' = 1 .. Len(stack) - 1 /\ DOMAIN stack = 1 .. Len(stack)
    BY <1>1, <1>2
  <1>4. \A k \in DOMAIN stack' : stack'[k] = stack[k] /\ stack[k].schema # Top.schema
    BY <1>2, <1>3 DEF IInv, MarksAreFrames, Top
  <1>5. ASSUME NEW s \in DOMAIN schemas
        PROVE  cache'[s].mark = "in_progress" <=> \E k \in DOMAIN stack' : stack'[k].schema = s
    <2>1. CASE s = Top.schema
      BY <1>4, <2>1
    <2>2. CASE s # Top.schema
      <3>1. \A k \in DOMAIN stack : stack[k].schema = s => k \in DOMAIN stack'
        BY <1>2, <1>3, <2>2 DEF Top
      <3> QED BY <1>2, <1>3, <1>4, <2>2, <3>1 DEF IInv, MarksAreFrames
    <2> QED BY <2>1, <2>2
  <1>6. \A j, k \in DOMAIN stack' : stack'[j].schema = stack'[k].schema => j = k
    BY <1>2, <1>3, <1>4 DEF IInv, MarksAreFrames
  <1> QED BY <1>5, <1>6 DEF MarksAreFrames

-----------------------------------------------------------------------------
(* No step touches a compiled schema: the three that write the cache write *)
(* at a schema marked otherwise.                                           *)

LEMMA TopInProgress ==
  ASSUME IInv, stack # <<>>
  PROVE  Top.schema \in DOMAIN schemas /\ cache[Top.schema].mark = "in_progress"
  <1>1. stack \in Seq(Frame)
    BY DEF IInv, TypeOK
  <1>2. Top \in Frame /\ Len(stack) \in DOMAIN stack
    BY <1>1, PopFacts
  <1>3. Top.schema \in DOMAIN schemas
    BY <1>2 DEF Frame
  <1> QED BY <1>2, <1>3 DEF IInv, MarksAreFrames, Top

LEMMA RawFields ==
  ASSUME IInv, NEW s \in DOMAIN schemas
  PROVE  schemas[s].fields \in Seq(RawField)
  <1>1. schemas \in Seq(RawSchema)
    BY DEF IInv, TypeOK
  <1>2. schemas[s] \in RawSchema
    BY <1>1, ElementOfSeq
  <1> QED BY <1>2 DEF RawSchema

LEMMA CompiledKept ==
  ASSUME IInv, Next
  PROVE  /\ schemas' = schemas
         /\ \A s \in DOMAIN schemas : IsCompiled(s) => cache'[s] = cache[s]
  <1>1. CASE Begin
    BY <1>1 DEF IInv, TypeOK, Begin, IsCompiled
  <1>2. CASE Finish
    <2>1. stack # <<>>
      BY <1>2 DEF IInv, ResultFits, Finish
    <2> QED BY <1>2, <2>1, TopInProgress DEF IInv, TypeOK, Finish, IsCompiled
  <1>3. CASE Unwind
    BY <1>3, TopInProgress DEF IInv, TypeOK, Unwind, IsCompiled
  <1>4. ASSUME UNCHANGED <<schemas, cache>>
        PROVE  /\ schemas' = schemas
               /\ \A s \in DOMAIN schemas : IsCompiled(s) => cache'[s] = cache[s]
    BY <1>4
  <1> QED BY <1>1, <1>2, <1>3, <1>4
          DEF Next, Compile, Request, Refuse, CacheHit, LayField, CompileField, TakeSubschema

-----------------------------------------------------------------------------
(* The end of the loop's body *)

LEMMA PlaceKeeps ==
  ASSUME IInv, stack # <<>>, FieldsLeft,
         NEW size \in Nat, NEW align \in Nat \ {0}, Place(size, align),
         NextField.kind = "struct" =>
           IsCompiled(NextField.ref) /\ size = cache[NextField.ref].size,
         UNCHANGED <<schemas, cache>>
  PROVE  /\ stack' \in Seq(Frame) /\ stack' # <<>>
         /\ MarksAreFrames'
         /\ \A k \in DOMAIN stack' :
              k < Len(stack') => AwaitsSchema(stack'[k], stack'[k + 1].schema)
         /\ FramesOnCompiled'
  <1> DEFINE union == schemas[Top.schema].kind = "union"
             place == IF union THEN 0 ELSE AlignUp(Top.offset, align)
             field == [offset |-> place, size |-> size, align |-> align]
             new == [Top EXCEPT !.fields = Append(@, field),
                                !.max_align = Larger(@, align),
                                !.max_size = IF union THEN Larger(@, size) ELSE @,
                                !.offset = IF union THEN @ ELSE Wrap(place + size)]
  <1>1. stack \in Seq(Frame)
    BY DEF IInv, TypeOK
  <1>2. /\ Top \in Frame /\ Len(stack) \in Nat \ {0}
        /\ Top = stack[Len(stack)]
        /\ DOMAIN stack = 1 .. Len(stack)
    BY <1>1, PopFacts DEF Top
  <1>3. /\ Top.schema \in DOMAIN schemas /\ Top.fields \in Seq(Field) /\ Top.offset \in Nat
        /\ Top.max_align \in Nat \ {0} /\ Top.max_size \in Nat
    BY <1>2 DEF Frame
  <1>4. place \in Nat
    BY <1>3, AlignUpType
  <1>5. field \in Field
    BY <1>4 DEF Field
  <1>6. /\ Append(Top.fields, field) \in Seq(Field)
        /\ Len(Top.fields) \in Nat /\ Len(Append(Top.fields, field)) = Len(Top.fields) + 1
        /\ Append(Top.fields, field)[Len(Top.fields) + 1] = field
        /\ \A j \in 1 .. Len(Top.fields) : Append(Top.fields, field)[j] = Top.fields[j]
    BY <1>3, <1>5
  <1>7. /\ Larger(Top.max_align, align) \in Nat \ {0} /\ Larger(Top.max_size, size) \in Nat
        /\ Wrap(place + size) \in Nat
    <2>1. Larger(Top.max_align, align) \in Nat \ {0} /\ Larger(Top.max_size, size) \in Nat
      BY <1>3, LargerType, Zenon
    <2>2. place + size \in Nat
      BY <1>4
    <2>3. Wrap(place + size) \in Nat
      BY <2>2, WrapType, Zenon
    <2> QED BY <2>1, <2>3, Zenon
  <1> HIDE DEF place, field
  <1>8. /\ new \in Frame
        /\ new.schema = Top.schema /\ new.fields = Append(Top.fields, field)
    BY <1>2, <1>3, <1>6, <1>7 DEF Frame
  <1>9. stack' = Append(Below, new)
    BY DEF Place, field, place
  <1> HIDE DEF new
  <1>10. /\ stack' \in Seq(Frame) /\ Len(stack') = Len(stack) /\ DOMAIN stack' = DOMAIN stack
         /\ stack'[Len(stack)] = new
         /\ \A k \in 1 .. Len(stack) - 1 : stack'[k] = stack[k]
    BY <1>1, <1>8, <1>9, ReplaceFacts
  <1>11. stack' # <<>>
    BY <1>2, <1>10
  <1>12. \A k \in DOMAIN stack : stack'[k].schema = stack[k].schema
    BY <1>2, <1>8, <1>10
  <1>13. MarksAreFrames'
    BY <1>10, <1>12 DEF IInv, MarksAreFrames
  <1>14. ASSUME NEW k \in DOMAIN stack', k < Len(stack')
         PROVE  AwaitsSchema(stack'[k], stack'[k + 1].schema)
    <2>1. k \in DOMAIN stack /\ k < Len(stack) /\ k + 1 \in DOMAIN stack /\ stack'[k] = stack[k]
      BY <1>2, <1>10, <1>14
    <2> QED BY <1>12, <2>1 DEF IInv, FramesChain
  <1>15. ASSUME NEW k \in DOMAIN stack', NEW j \in DOMAIN stack'[k].fields
         PROVE  /\ j \in DOMAIN schemas[stack'[k].schema].fields
                /\ LET f == schemas[stack'[k].schema].fields[j] IN
                   f.kind = "struct" =>
                     IsCompiled(f.ref) /\ stack'[k].fields[j].size = cache[f.ref].size
    <2>1. CASE k \in 1 .. Len(stack) - 1
      BY <1>2, <1>10, <2>1 DEF IInv, FramesOnCompiled
    <2>2. CASE k = Len(stack) /\ j \in 1 .. Len(Top.fields)
      <3>1. j \in DOMAIN Top.fields /\ stack'[k].fields[j] = Top.fields[j]
        BY <1>3, <1>6, <1>8, <1>10, <2>2
      <3>2. stack'[k].schema = Top.schema
        BY <1>8, <1>10, <2>2
      <3>3. /\ j \in DOMAIN schemas[Top.schema].fields
            /\ LET f == schemas[Top.schema].fields[j] IN
               f.kind = "struct" => IsCompiled(f.ref) /\ Top.fields[j].size = cache[f.ref].size
        BY <1>2, <3>1 DEF IInv, FramesOnCompiled
      <3> QED BY <3>1, <3>2, <3>3
    <2>3. CASE k = Len(stack) /\ j = Len(Top.fields) + 1
      <3>1. schemas[Top.schema].fields \in Seq(RawField)
        BY <1>3, RawFields
      <3>2. j \in DOMAIN schemas[Top.schema].fields
        BY <1>6, <2>3, <3>1 DEF FieldsLeft
      <3>3. stack'[k].fields[j].size = size
        BY <1>6, <1>8, <1>10, <2>3 DEF field
      <3>4. stack'[k].schema = Top.schema
        BY <1>8, <1>10, <2>3
      <3>5. LET f == schemas[Top.schema].fields[j] IN
              f.kind = "struct" => IsCompiled(f.ref) /\ size = cache[f.ref].size
        BY <2>3 DEF NextField
      <3> QED BY <3>2, <3>3, <3>4, <3>5
    <2>4. k = Len(stack) => j \in 1 .. Len(Top.fields) + 1
      BY <1>6, <1>8, <1>10
    <2>5. k \in 1 .. Len(stack) - 1 \/ k = Len(stack)
      BY <1>2, <1>10
    <2>6. k = Len(stack) => j \in 1 .. Len(Top.fields) \/ j = Len(Top.fields) + 1
      BY <1>6, <2>4
    <2> QED BY <2>1, <2>2, <2>3, <2>5, <2>6, Zenon
  <1>16. FramesOnCompiled'
    BY <1>15 DEF FramesOnCompiled, IsCompiled
  <1> QED BY <1>10, <1>11, <1>13, <1>14, <1>16

-----------------------------------------------------------------------------
(* The steps.  For each: the types, the result, the marks, the chain of     *)
(* frames, and what frames and cache hold by value.                        *)

CacheEntry == [mark : Marks, fields : Seq(Field), align : Nat, size : Nat]

(* A step that only calls, returns or fails leaves the frames as they are. *)
LEMMA TransferKeeps ==
  ASSUME IInv, UNCHANGED <<schemas, cache, stack>>,
         arg' \in Nat, at' \in {"call", "ok", "null"},
         failed' = (at' = "null"),
         at' = "ok" => arg' \in DOMAIN schemas /\ IsCompiled(arg'),
         stack # <<>> /\ at' \in {"call", "ok"} => AwaitsSchema(Top, arg')
  PROVE  IInv'
  <1>1. TypeOK'
    BY DEF IInv, TypeOK, ValidImage, ValidField, Frame
  <1>2. ResultFits'
    BY DEF IInv, ResultFits, IsCompiled
  <1>3. MarksAreFrames'
    BY DEF IInv, MarksAreFrames
  <1>4. FramesChain'
    BY DEF IInv, FramesChain, AwaitsSchema, Top
  <1>5. FramesOnCompiled' /\ CompiledOnCompiled'
    BY DEF IInv, FramesOnCompiled, CompiledOnCompiled, IsCompiled
  <1> QED BY <1>1, <1>2, <1>3, <1>4, <1>5 DEF IInv

LEMMA RequestKeeps ==
  ASSUME IInv, NEW s \in 1 .. Len(schemas) + 1, Request(s)
  PROVE  IInv'
  <1>1. s \in Nat
    BY DEF IInv, TypeOK
  <1>2. at' = "call" /\ arg' \in Nat /\ failed' = FALSE /\ stack = <<>>
    BY <1>1 DEF Request, Idle
  <1> QED BY <1>2, TransferKeeps DEF Request

LEMMA RefuseKeeps ==
  ASSUME IInv, Refuse
  PROVE  IInv'
  BY TransferKeeps DEF Refuse, ReturnNull, IInv, TypeOK

LEMMA CacheHitKeeps ==
  ASSUME IInv, CacheHit
  PROVE  IInv'
  <1>1. failed = FALSE /\ arg \in Nat
    BY DEF IInv, TypeOK, ResultFits, CacheHit
  <1>2. stack # <<>> => AwaitsSchema(Top, arg)
    BY DEF IInv, FramesChain, CacheHit
  <1>3. /\ at' = "ok" /\ failed' = FALSE /\ arg' = arg
        /\ arg \in DOMAIN schemas /\ IsCompiled(arg)
        /\ UNCHANGED <<schemas, cache, stack>>
    BY <1>1 DEF CacheHit
  <1> QED BY <1>1, <1>2, <1>3, TransferKeeps

LEMMA CompileFieldKeeps ==
  ASSUME IInv, CompileField
  PROVE  IInv'
  <1>1. stack # <<>> /\ failed = FALSE /\ stack \in Seq(Frame)
    BY DEF IInv, TypeOK, ResultFits, CompileField, Looping
  <1>2. Top \in Frame
    BY <1>1, PopFacts
  <1>3. /\ Top.schema \in DOMAIN schemas /\ Top.fields \in Seq(Field)
        /\ schemas[Top.schema].fields \in Seq(RawField)
    BY <1>2, RawFields DEF Frame
  <1>4. Len(Top.fields) + 1 \in DOMAIN schemas[Top.schema].fields
    BY <1>3 DEF CompileField, Looping, FieldsLeft
  <1>5. NextField \in RawField
    BY <1>3, <1>4, ElementOfSeq DEF NextField
  <1>6. AwaitsSchema(Top, arg') /\ arg' \in Nat
    BY <1>4, <1>5 DEF CompileField, Looping, NextField, AwaitsSchema, RawField
  <1>7. at' = "call" /\ failed' = FALSE /\ UNCHANGED <<schemas, cache, stack>>
    BY <1>1 DEF CompileField
  <1> QED BY <1>6, <1>7, TransferKeeps

LEMMA FieldKeeps ==
  ASSUME IInv, LayField \/ TakeSubschema
  PROVE  IInv'
  <1>1. stack # <<>> /\ failed = FALSE /\ stack \in Seq(Frame)
    BY DEF IInv, TypeOK, ResultFits, LayField, TakeSubschema, Looping
  <1>2. Top \in Frame
    BY <1>1, PopFacts
  <1>3. /\ Top.schema \in DOMAIN schemas /\ Top.fields \in Seq(Field)
        /\ schemas[Top.schema].fields \in Seq(RawField)
    BY <1>2, RawFields DEF Frame
  <1>4. PICK size \in Nat, align \in Nat \ {0} :
          /\ Place(size, align)
          /\ FieldsLeft
          /\ NextField.kind = "struct" =>
               IsCompiled(NextField.ref) /\ size = cache[NextField.ref].size
    <2>1. CASE LayField
      <3>1. FieldsLeft /\ NextField.kind \in {"prim", "array", "pointer"}
        BY <2>1 DEF LayField, Looping
      <3>2. Len(Top.fields) + 1 \in DOMAIN schemas[Top.schema].fields
        BY <1>3, <3>1 DEF FieldsLeft
      <3>3. ValidField(schemas, NextField) /\ NextField \in RawField
        BY <1>3, <3>2, ElementOfSeq DEF IInv, TypeOK, ValidImage, NextField
      <3>4. /\ NextField.prim \in Nat /\ NextField.aux \in Nat
            /\ NextField.kind # "pointer" => NextField.prim \in Nat \ {0}
        BY <3>1, <3>3 DEF ValidField, RawField, PrimSizes
      <3>5. Wrap(NextField.prim * NextField.aux) \in Nat
        BY <3>4, WrapType
      <3>6. /\ NextField.kind = "prim" => Place(NextField.prim, NextField.prim)
            /\ NextField.kind = "array" => Place(Wrap(NextField.prim * NextField.aux), NextField.prim)
            /\ NextField.kind = "pointer" => Place(PointerSize, PointerSize)
        BY <2>1 DEF LayField
      <3>7. NextField.kind # "struct"
        BY <3>1
      <3>8. PointerSize \in Nat \ {0}
        BY PointerSizeAssumption DEF PrimSizes
      <3> QED BY <3>1, <3>4, <3>5, <3>6, <3>7, <3>8
    <2>2. CASE TakeSubschema
      <3>1. Place(cache[arg].size, cache[arg].align) /\ at = "ok"
        BY <2>2 DEF TakeSubschema
      <3>2. arg \in DOMAIN schemas /\ IsCompiled(arg) /\ AwaitsSchema(Top, arg)
        BY <1>1, <3>1 DEF IInv, ResultFits, FramesChain
      <3>3. cache[arg].size \in Nat /\ cache[arg].align \in Nat \ {0}
        BY <3>2 DEF IInv, TypeOK, ResultFits
      <3>4. FieldsLeft /\ NextField.ref = arg
        BY <1>3, <3>2 DEF AwaitsSchema, FieldsLeft, NextField
      <3> QED BY <3>1, <3>2, <3>3, <3>4
    <2> QED BY <2>1, <2>2
  <1>5. /\ UNCHANGED <<schemas, cache, arg, failed>>
        /\ at' = "loop"
    BY DEF LayField, TakeSubschema, Looping
  <1>6. /\ stack' \in Seq(Frame) /\ stack' # <<>>
        /\ MarksAreFrames'
        /\ \A k \in DOMAIN stack' :
             k < Len(stack') => AwaitsSchema(stack'[k], stack'[k + 1].schema)
        /\ FramesOnCompiled'
    BY <1>1, <1>4, <1>5, PlaceKeeps
  <1>7. TypeOK'
    BY <1>5, <1>6 DEF IInv, TypeOK, ValidImage, ValidField, Frame
  <1>8. ResultFits'
    BY <1>1, <1>5, <1>6 DEF IInv, ResultFits, IsCompiled
  <1>9. FramesChain'
    BY <1>5, <1>6 DEF FramesChain, AwaitsSchema
  <1>10. CompiledOnCompiled'
    BY <1>5 DEF IInv, CompiledOnCompiled, IsCompiled
  <1> QED BY <1>6, <1>7, <1>8, <1>9, <1>10 DEF IInv

LEMMA StructRef ==
  ASSUME IInv, NEW s \in DOMAIN schemas, NEW j \in DOMAIN schemas[s].fields,
         schemas[s].fields[j].kind = "struct"
  PROVE  schemas[s].fields[j].ref \in DOMAIN schemas
  BY DEF IInv, TypeOK, ValidImage, ValidField

(* Frames that stay go on resting on compiled schemas. *)
LEMMA FramesStay ==
  ASSUME IInv, schemas' = schemas,
         \A s \in DOMAIN schemas : IsCompiled(s) => cache'[s] = cache[s],
         \A k \in DOMAIN stack' : \A j \in DOMAIN stack'[k].fields :
           k \in DOMAIN stack /\ stack'[k] = stack[k]
  PROVE  FramesOnCompiled'
  <1>1. ASSUME NEW k \in DOMAIN stack', NEW j \in DOMAIN stack'[k].fields
        PROVE  /\ j \in DOMAIN schemas[stack'[k].schema].fields
               /\ schemas[stack'[k].schema].fields[j].kind = "struct" =>
                    LET r == schemas[stack'[k].schema].fields[j].ref IN
                    cache'[r].mark = "compiled" /\ stack'[k].fields[j].size = cache'[r].size
    <2>1. k \in DOMAIN stack /\ stack'[k] = stack[k] /\ j \in DOMAIN stack[k].fields
      BY <1>1
    <2>2. /\ j \in DOMAIN schemas[stack[k].schema].fields
          /\ schemas[stack[k].schema].fields[j].kind = "struct" =>
               LET r == schemas[stack[k].schema].fields[j].ref IN
               IsCompiled(r) /\ stack[k].fields[j].size = cache[r].size
      BY <2>1 DEF IInv, FramesOnCompiled
    <2>3. stack[k].schema \in DOMAIN schemas
      <3>1. stack \in Seq(Frame)
        BY DEF IInv, TypeOK
      <3>2. stack[k] \in Frame
        BY <2>1, <3>1
      <3> QED BY <3>2 DEF Frame
    <2>4. schemas[stack[k].schema].fields[j].kind = "struct" =>
            schemas[stack[k].schema].fields[j].ref \in DOMAIN schemas
      BY <2>2, <2>3, StructRef
    <2> QED BY <2>1, <2>2, <2>4 DEF IsCompiled
  <1> QED BY <1>1 DEF FramesOnCompiled, IsCompiled

(* So do compiled schemas, when s is the only one that may be new. *)
LEMMA CompiledStay ==
  ASSUME IInv, schemas' = schemas,
         \A r \in DOMAIN schemas : IsCompiled(r) => cache'[r] = cache[r],
         NEW s \in DOMAIN schemas, ~IsCompiled(s),
         \A r \in DOMAIN schemas : r # s => cache'[r] = cache[r],
         cache'[s].mark = "compiled" =>
           \A j \in DOMAIN schemas[s].fields :
             schemas[s].fields[j].kind = "struct" =>
               LET r == schemas[s].fields[j].ref IN
               IsCompiled(r) /\ cache'[s].fields[j].size = cache[r].size
  PROVE  CompiledOnCompiled'
  <1>1. ASSUME NEW q \in DOMAIN schemas, cache'[q].mark = "compiled",
               NEW j \in DOMAIN schemas[q].fields,
               schemas[q].fields[j].kind = "struct"
        PROVE  LET r == schemas[q].fields[j].ref IN
               r # q /\ cache'[r].mark = "compiled" /\ cache'[q].fields[j].size = cache'[r].size
    <2> DEFINE r == schemas[q].fields[j].ref
    <2>1. r \in DOMAIN schemas
      BY <1>1, StructRef
    <2>2. CASE q = s
      BY <1>1, <2>1, <2>2 DEF IsCompiled
    <2>3. CASE q # s
      <3>1. cache'[q] = cache[q] /\ IsCompiled(q)
        BY <1>1, <2>3 DEF IsCompiled
      <3>2. r # q /\ IsCompiled(r) /\ cache[q].fields[j].size = cache[r].size
        BY <1>1, <3>1 DEF IInv, CompiledOnCompiled
      <3> QED BY <2>1, <3>1, <3>2 DEF IsCompiled
    <2> QED BY <2>2, <2>3
  <1> QED BY <1>1 DEF CompiledOnCompiled, IsCompiled

LEMMA BeginKeeps ==
  ASSUME IInv, Begin
  PROVE  IInv'
  <1>1. /\ stack \in Seq(Frame) /\ Len(stack) \in Nat
        /\ DOMAIN stack = 1 .. Len(stack) /\ failed = FALSE
    BY DEF IInv, TypeOK, ResultFits, Begin
  <1> DEFINE new == [schema |-> arg, fields |-> <<>>, offset |-> 0, max_align |-> 1, max_size |-> 0]
  <1>2. new \in Frame
    BY DEF Begin, Frame
  <1>3. /\ stack' \in Seq(Frame) /\ Len(stack') = Len(stack) + 1
        /\ stack'[Len(stack) + 1] = new
        /\ \A k \in 1 .. Len(stack) : stack'[k] = stack[k]
        /\ DOMAIN stack' = 1 .. Len(stack) + 1 /\ stack' # <<>>
    BY <1>1, <1>2 DEF Begin, NewFrame
  <1>4. cache' \in [DOMAIN schemas -> CacheEntry]
    BY DEF IInv, TypeOK, Begin, CacheEntry, Marks
  <1>5. TypeOK'
    BY <1>3, <1>4 DEF IInv, TypeOK, Begin, CacheEntry, ValidImage, ValidField, Frame
  <1>6. \A s \in DOMAIN schemas :
          /\ IsCompiled(s)' <=> IsCompiled(s)
          /\ IsCompiled(s) => cache'[s] = cache[s]
    BY DEF IInv, TypeOK, Begin, IsCompiled
  <1>7. ResultFits'
    BY <1>1, <1>3, <1>6 DEF IInv, ResultFits, Begin
  <1>8. MarksAreFrames'
    BY PushMarks
  <1>9. FramesChain'
    <2>1. ASSUME NEW k \in DOMAIN stack', k < Len(stack')
          PROVE  AwaitsSchema(stack'[k], stack'[k + 1].schema)
      <3>1. CASE k = Len(stack)
        <4>1. stack # <<>> /\ stack'[k] = Top /\ stack'[k + 1].schema = arg
          BY <1>1, <1>3, <3>1, <2>1 DEF Top
        <4> QED BY <4>1 DEF IInv, FramesChain, Begin
      <3>2. CASE k # Len(stack)
        <4>1. k \in DOMAIN stack /\ k + 1 \in DOMAIN stack /\ k < Len(stack)
          BY <1>1, <1>3, <2>1, <3>2
        <4> QED BY <1>1, <1>3, <4>1 DEF IInv, FramesChain
      <3> QED BY <3>1, <3>2
    <2> QED BY <2>1 DEF FramesChain, AwaitsSchema, Begin
  <1>10. FramesOnCompiled'
    <2>1. ASSUME NEW k \in DOMAIN stack', NEW j \in DOMAIN stack'[k].fields
          PROVE  k \in DOMAIN stack /\ stack'[k] = stack[k]
      BY <1>1, <1>3
    <2> QED BY <1>6, <2>1, FramesStay DEF Begin
  <1>11. CompiledOnCompiled'
    <2>1. /\ arg \in DOMAIN schemas /\ ~IsCompiled(arg) /\ schemas' = schemas
          /\ cache'[arg].mark # "compiled"
          /\ \A r \in DOMAIN schemas : r # arg => cache'[r] = cache[r]
      BY DEF IInv, TypeOK, Begin, IsCompiled
    <2> QED BY <1>6, <2>1, CompiledStay
  <1> QED BY <1>5, <1>7, <1>8, <1>9, <1>10, <1>11 DEF IInv

(* What the two steps that end a frame have in common. *)
LEMMA PopKeeps ==
  ASSUME IInv, stack # <<>>, stack' = Below, schemas' = schemas,
         cache' \in [DOMAIN schemas -> CacheEntry],
         cache'[Top.schema].mark # "in_progress",
         \A s \in DOMAIN schemas : s # Top.schema => cache'[s] = cache[s]
  PROVE  /\ stack' \in Seq(Frame)
         /\ MarksAreFrames'
         /\ \A k \in DOMAIN stack' :
              k < Len(stack') => AwaitsSchema(stack'[k], stack'[k + 1].schema)
         /\ stack' # <<>> => AwaitsSchema(stack'[Len(stack')], Top.schema)
         /\ FramesOnCompiled'
  <1>1. stack \in Seq(Frame)
    BY DEF IInv, TypeOK
  <1>2. /\ Len(stack) \in Nat \ {0} /\ DOMAIN stack = 1 .. Len(stack)
        /\ stack' \in Seq(Frame) /\ Len(stack') = Len(stack) - 1
        /\ \A k \in 1 .. Len(stack) - 1 : stack'[k] = stack[k]
    BY <1>1, PopFacts
  <1>3. DOMAIN stack' = 1 .. Len(stack) - 1
    BY <1>2
  <1>4. MarksAreFrames'
    BY PopMarks
  <1>5. ASSUME NEW k \in DOMAIN stack', k < Len(stack')
        PROVE  AwaitsSchema(stack'[k], stack'[k + 1].schema)
    <2>1. /\ k \in DOMAIN stack /\ k < Len(stack)
          /\ stack'[k] = stack[k] /\ stack'[k + 1] = stack[k + 1]
      BY <1>2, <1>3, <1>5
    <2> QED BY <2>1 DEF IInv, FramesChain
  <1>6. ASSUME stack' # <<>>
        PROVE  AwaitsSchema(stack'[Len(stack')], Top.schema)
    <2>1. Len(stack') \in DOMAIN stack'
      BY <1>2, <1>3, <1>6, EmptySeq
    <2>2. /\ Len(stack') \in DOMAIN stack /\ Len(stack') < Len(stack)
          /\ stack'[Len(stack')] = stack[Len(stack')]
          /\ stack[Len(stack') + 1] = Top
      BY <1>2, <1>3, <2>1 DEF Top
    <2> QED BY <2>2 DEF IInv, FramesChain
  <1>7. \A s \in DOMAIN schemas : IsCompiled(s) => cache'[s] = cache[s]
    BY TopInProgress DEF IsCompiled
  <1>8. FramesOnCompiled'
    BY <1>2, <1>3, <1>7, FramesStay
  <1> QED BY <1>2, <1>4, <1>5, <1>6, <1>8

LEMMA FinishKeeps ==
  ASSUME IInv, Finish
  PROVE  IInv'
  <1>1. stack # <<>> /\ failed = FALSE /\ stack \in Seq(Frame)
    BY DEF IInv, TypeOK, ResultFits, Finish
  <1>2. Top \in Frame
    BY <1>1, PopFacts
  <1> DEFINE s == Top.schema
             end == IF schemas[s].kind = "union" THEN Top.max_size ELSE Top.offset
             entry == [mark |-> "compiled", fields |-> Top.fields, align |-> Top.max_align,
                       size |-> AlignUp(end, Top.max_align)]
  <1>3. /\ s \in DOMAIN schemas /\ Top.fields \in Seq(Field)
        /\ Top.max_align \in Nat \ {0} /\ end \in Nat
        /\ schemas[s].fields \in Seq(RawField)
    BY <1>2, RawFields DEF Frame
  <1>4. AlignUp(end, Top.max_align) \in Nat
    BY <1>3, AlignUpType
  <1>5. entry \in CacheEntry
    BY <1>3, <1>4 DEF CacheEntry, Marks
  <1>6. cache[s].mark = "in_progress" /\ ~IsCompiled(s)
    BY <1>1, TopInProgress DEF IsCompiled
  <1>7. /\ cache' = [cache EXCEPT ![s] = entry] /\ arg' = s /\ at' = "ok"
        /\ stack' = Below /\ UNCHANGED <<schemas, failed>> /\ ~FieldsLeft
    BY DEF Finish
  <1> HIDE DEF end, entry
  <1>8. /\ cache' \in [DOMAIN schemas -> CacheEntry]
        /\ cache'[s] = entry
        /\ \A r \in DOMAIN schemas : r # s => cache'[r] = cache[r]
    <2>1. cache \in [DOMAIN schemas -> CacheEntry]
      BY DEF IInv, TypeOK, CacheEntry
    <2> QED BY <1>3, <1>5, <1>7, <2>1
  <1>9. /\ entry.mark = "compiled" /\ entry.fields = Top.fields /\ entry.align > 0
    BY <1>3 DEF entry
  <1> HIDE DEF s
  <1>10. /\ stack' \in Seq(Frame)
         /\ MarksAreFrames'
         /\ \A k \in DOMAIN stack' :
              k < Len(stack') => AwaitsSchema(stack'[k], stack'[k + 1].schema)
         /\ stack' # <<>> => AwaitsSchema(stack'[Len(stack')], s)
         /\ FramesOnCompiled'
    BY <1>1, <1>7, <1>8, <1>9, PopKeeps DEF s
  <1>11. TypeOK'
    <2>1. arg' \in Nat /\ at' \in {"call", "loop", "ok", "null"} /\ failed' \in BOOLEAN
      <3>1. DOMAIN schemas = 1 .. Len(schemas) /\ Len(schemas) \in Nat
        BY DEF IInv, TypeOK
      <3>2. arg' \in Nat
        BY <1>3, <1>7, <3>1
      <3> QED BY <1>1, <1>7, <3>2
    <2> QED BY <1>7, <1>8, <1>10, <2>1
            DEF IInv, TypeOK, CacheEntry, ValidImage, ValidField, Frame
  <1>12. ResultFits'
    BY <1>1, <1>3, <1>7, <1>8, <1>9 DEF IInv, ResultFits, IsCompiled
  <1>13. FramesChain'
    BY <1>7, <1>10 DEF FramesChain, AwaitsSchema, Top
  <1>14. CompiledOnCompiled'
    <2>1. ASSUME NEW j \in DOMAIN schemas[s].fields, schemas[s].fields[j].kind = "struct"
          PROVE  LET r == schemas[s].fields[j].ref IN
                 IsCompiled(r) /\ cache'[s].fields[j].size = cache[r].size
      <3>1. j \in DOMAIN Top.fields
        BY <1>3, <1>7 DEF FieldsLeft, s
      <3>2. Len(stack) \in DOMAIN stack /\ Top = stack[Len(stack)]
        BY <1>1, PopFacts DEF Top
      <3>3. LET r == schemas[Top.schema].fields[j].ref IN
            IsCompiled(r) /\ Top.fields[j].size = cache[r].size
        BY <2>1, <3>1, <3>2 DEF IInv, FramesOnCompiled, s
      <3> QED BY <1>8, <1>9, <3>3 DEF s
    <2>2. \A r \in DOMAIN schemas : IsCompiled(r) => cache'[r] = cache[r]
      BY <1>6, <1>8
    <2> QED BY <1>3, <1>6, <1>7, <1>8, <2>1, <2>2, CompiledStay
  <1> QED BY <1>10, <1>11, <1>12, <1>13, <1>14 DEF IInv

LEMMA UnwindKeeps ==
  ASSUME IInv, Unwind
  PROVE  IInv'
  <1>1. stack # <<>> /\ failed' = TRUE /\ at' = "null" /\ stack' = Below
    BY DEF Unwind, ReturnNull
  <1>2. Top.schema \in DOMAIN schemas /\ ~IsCompiled(Top.schema)
    BY <1>1, TopInProgress DEF IsCompiled
  <1>3. /\ cache' \in [DOMAIN schemas -> CacheEntry]
        /\ cache'[Top.schema].mark = "null"
        /\ \A r \in DOMAIN schemas : r # Top.schema => cache'[r] = cache[r]
        /\ UNCHANGED <<schemas, arg>>
    BY <1>2 DEF IInv, TypeOK, Unwind, CacheEntry, Marks
  <1>4. /\ stack' \in Seq(Frame)
        /\ MarksAreFrames'
        /\ \A k \in DOMAIN stack' :
             k < Len(stack') => AwaitsSchema(stack'[k], stack'[k + 1].schema)
        /\ FramesOnCompiled'
    BY <1>1, <1>3, PopKeeps
  <1>5. TypeOK'
    BY <1>1, <1>3, <1>4 DEF IInv, TypeOK, CacheEntry, ValidImage, ValidField, Frame
  <1>6. ResultFits'
    BY <1>1, <1>3 DEF IInv, ResultFits, IsCompiled
  <1>7. FramesChain'
    BY <1>1, <1>3, <1>4 DEF FramesChain, AwaitsSchema
  <1>8. CompiledOnCompiled'
    BY <1>2, <1>3, CompiledStay
  <1> QED BY <1>4, <1>5, <1>6, <1>7, <1>8 DEF IInv

LEMMA StepIInv ==
  ASSUME IInv, Next
  PROVE  IInv'
  BY RequestKeeps, RefuseKeeps, CacheHitKeeps, BeginKeeps, FieldKeeps, CompileFieldKeeps,
     FinishKeeps, UnwindKeeps DEF Next, Compile

LEMMA StutterIInv ==
  ASSUME IInv, UNCHANGED vars
  PROVE  IInv'
  <1>1. TypeOK'
    BY DEF vars, IInv, TypeOK, ValidImage, ValidField, Frame
  <1>2. ResultFits' /\ MarksAreFrames'
    BY DEF vars, IInv, ResultFits, MarksAreFrames, IsCompiled
  <1>3. FramesChain'
    BY DEF vars, IInv, FramesChain, AwaitsSchema, Top
  <1>4. FramesOnCompiled' /\ CompiledOnCompiled'
    BY DEF vars, IInv, FramesOnCompiled, CompiledOnCompiled, IsCompiled
  <1> QED BY <1>1, <1>2, <1>3, <1>4 DEF IInv

-----------------------------------------------------------------------------
(* Layouts.  Alignments are powers of two, and where nothing wraps rounding *)
(* up goes to the next multiple.                                           *)

LEMMA WrapFits == ASSUME NEW n \in Nat, n < SizeModulus PROVE Wrap(n) = n
  BY SizeModulusAssumption DEF Wrap

LEMMA AlignUpFits ==
  ASSUME NEW n \in Nat, NEW al \in PrimSizes, n + al - 1 < SizeModulus
  PROVE  /\ AlignUp(n, al) \in Nat
         /\ n <= AlignUp(n, al) /\ AlignUp(n, al) <= n + al - 1
         /\ AlignUp(n, al) % al = 0
  <1> DEFINE m == ((n + al - 1) \div al) * al
  <1>1. m \in Nat /\ n <= m /\ m <= n + al - 1 /\ m % al = 0
    <2>1. CASE al = 1
      BY <2>1
    <2>2. CASE al = 2
      BY <2>2
    <2>3. CASE al = 4
      BY <2>3
    <2>4. CASE al = 8
      BY <2>4
    <2> QED BY <2>1, <2>2, <2>3, <2>4 DEF PrimSizes
  <1>2. m < SizeModulus
    BY <1>1, SizeModulusAssumption DEF PrimSizes
  <1> HIDE DEF m
  <1>3. Wrap(m) = m
    BY <1>1, <1>2, WrapFits
  <1> QED BY <1>1, <1>3 DEF AlignUp, m

LEMMA Divides ==
  ASSUME NEW a \in PrimSizes, NEW b \in PrimSizes, b <= a
  PROVE  a % b = 0
  BY DEF PrimSizes

LEMMA InitLays == Init => LayoutIInv
  BY DEF Init, LayoutIInv, LayoutsAreSound, IsCompiled, Unmarked

(* The end of the loop's body keeps what the frame has laid out. *)
LEMMA PlaceLays ==
  ASSUME IInv, LayoutIInv, stack # <<>>, NEW size \in Nat, NEW align \in PrimSizes,
         Place(size, align), Top.offset + align - 1 + size < SizeModulus,
         UNCHANGED <<schemas, cache>>
  PROVE  LayoutIInv'
  <1> DEFINE union == schemas[Top.schema].kind = "union"
             place == IF union THEN 0 ELSE AlignUp(Top.offset, align)
             field == [offset |-> place, size |-> size, align |-> align]
             new == [Top EXCEPT !.fields = Append(@, field),
                                !.max_align = Larger(@, align),
                                !.max_size = IF union THEN Larger(@, size) ELSE @,
                                !.offset = IF union THEN @ ELSE Wrap(place + size)]
  <1>1. stack \in Seq(Frame)
    BY DEF IInv, TypeOK
  <1>2. /\ Top \in Frame /\ Len(stack) \in DOMAIN stack
        /\ Top = stack[Len(stack)]
        /\ FrameLaid(Top)
    <2>1. Top \in Frame /\ Len(stack) \in DOMAIN stack /\ Top = stack[Len(stack)]
      BY <1>1, PopFacts DEF Top
    <2> QED BY <2>1 DEF LayoutIInv
  <1>3. /\ Top.fields \in Seq(Field) /\ Top.offset \in Nat
        /\ Top.max_align \in PrimSizes /\ Top.max_size \in Nat
    BY <1>2 DEF Frame, FrameLaid
  <1>4. /\ place \in Nat /\ place % align = 0
        /\ union => place = 0
        /\ ~union => Top.offset <= place /\ place <= Top.offset + align - 1
    <2>1. CASE union
      BY <2>1 DEF PrimSizes
    <2>2. CASE ~union
      <3>1. Top.offset + align - 1 < SizeModulus
        BY <1>3, SizeModulusAssumption, PointerSizeAssumption DEF PrimSizes
      <3> QED BY <1>3, <2>2, <3>1, AlignUpFits
    <2> QED BY <2>1, <2>2
  <1> HIDE DEF place
  <1>5. ~union => Wrap(place + size) = place + size
    <2>1. SUFFICES ASSUME ~union PROVE Wrap(place + size) = place + size
      OBVIOUS
    <2>2. place + size \in Nat /\ place + size < SizeModulus
      BY <1>3, <1>4, <2>1, SizeModulusAssumption, PointerSizeAssumption DEF PrimSizes
    <2> QED BY <2>2, WrapFits
  <1>6. /\ Len(Top.fields) \in Nat /\ Len(Append(Top.fields, field)) = Len(Top.fields) + 1
        /\ DOMAIN Append(Top.fields, field) = 1 .. Len(Top.fields) + 1
        /\ DOMAIN Top.fields = 1 .. Len(Top.fields)
        /\ Append(Top.fields, field)[Len(Top.fields) + 1] = field
        /\ \A j \in 1 .. Len(Top.fields) : Append(Top.fields, field)[j] = Top.fields[j]
    BY <1>3
  <1>7. /\ new.schema = Top.schema /\ new.fields = Append(Top.fields, field)
        /\ new.max_align = Larger(Top.max_align, align)
        /\ new.max_size = IF union THEN Larger(Top.max_size, size) ELSE Top.max_size
        /\ new.offset = IF union THEN Top.offset ELSE place + size
    BY <1>2, <1>5 DEF Frame
  <1>8. /\ new.max_align \in PrimSizes
        /\ Top.max_align <= new.max_align /\ align <= new.max_align
    BY <1>3, <1>7 DEF Larger, PrimSizes
  <1>9. union => Top.max_size <= new.max_size /\ size <= new.max_size
    BY <1>3, <1>7 DEF Larger
  <1>10. ~union => Top.offset <= place /\ place + size = new.offset
    BY <1>4, <1>7
  <1>11. field.offset = place /\ field.size = size /\ field.align = align
    OBVIOUS
  <1>12. stack' = Append(Below, new)
    BY DEF Place, place
  <1> HIDE DEF field, new
  <1>13. FrameLaid(new)
    <2>1. ASSUME NEW k \in 1 .. Len(Top.fields)
          PROVE  LET f == new.fields[k] IN
                 /\ f.align \in PrimSizes /\ f.align <= new.max_align
                 /\ f.offset % f.align = 0
                 /\ IF schemas[new.schema].kind = "union"
                      THEN f.offset = 0 /\ f.size <= new.max_size
                      ELSE /\ f.offset + f.size <= new.offset
                           /\ \A j \in 1 .. k - 1 :
                                new.fields[j].offset + new.fields[j].size <= f.offset
      <3>1. Top.fields[k] \in Field /\ new.fields[k] = Top.fields[k]
        BY <1>3, <1>6, <1>7, ElementOfSeq
      <3>2. \A j \in 1 .. k - 1 : new.fields[j] = Top.fields[j]
        BY <1>6, <1>7
      <3>3. LET f == Top.fields[k] IN
            /\ f.align \in PrimSizes /\ f.align <= Top.max_align
            /\ f.offset % f.align = 0
            /\ IF union
                 THEN f.offset = 0 /\ f.size <= Top.max_size
                 ELSE /\ f.offset + f.size <= Top.offset
                      /\ \A j \in 1 .. k - 1 :
                           Top.fields[j].offset + Top.fields[j].size <= f.offset
        BY <1>2, <1>6 DEF FrameLaid
      <3>4. Top.fields[k].align <= new.max_align
        <4>1. \A a, b, c \in PrimSizes : a <= b /\ b <= c => a <= c
          BY DEF PrimSizes
        <4>2. Top.fields[k].align \in PrimSizes /\ Top.fields[k].align <= Top.max_align
          BY <3>3
        <4> QED BY <1>3, <1>8, <4>1, <4>2
      <3>5. union => Top.fields[k].size <= new.max_size
        <4>1. Top.fields[k].size \in Nat
          BY <3>1 DEF Field
        <4>2. union => Top.fields[k].size <= Top.max_size
          BY <3>3
        <4>3. union => new.max_size \in Nat /\ Top.max_size <= new.max_size
          BY <1>3, <1>7, <1>9 DEF Larger
        <4> QED BY <1>3, <4>1, <4>2, <4>3
      <3>6. ~union => Top.fields[k].offset + Top.fields[k].size <= new.offset
        <4>1. Top.fields[k].offset \in Nat /\ Top.fields[k].size \in Nat
          BY <3>1 DEF Field
        <4>2. ~union => Top.fields[k].offset + Top.fields[k].size <= Top.offset
          BY <3>3
        <4>3. ~union => new.offset \in Nat /\ Top.offset <= new.offset
          BY <1>3, <1>4, <1>10
        <4> QED BY <1>3, <4>1, <4>2, <4>3
      <3> QED BY <1>7, <3>1, <3>2, <3>3, <3>4, <3>5, <3>6
    <2>2. LET f == new.fields[Len(Top.fields) + 1] IN
          /\ f.align \in PrimSizes /\ f.align <= new.max_align
          /\ f.offset % f.align = 0
          /\ IF schemas[new.schema].kind = "union"
               THEN f.offset = 0 /\ f.size <= new.max_size
               ELSE /\ f.offset + f.size <= new.offset
                    /\ \A j \in 1 .. Len(Top.fields) + 1 - 1 :
                         new.fields[j].offset + new.fields[j].size <= f.offset
      <3>1. new.fields[Len(Top.fields) + 1] = field
        BY <1>6, <1>7
      <3>2. ASSUME ~union, NEW j \in 1 .. Len(Top.fields)
            PROVE  new.fields[j].offset + new.fields[j].size <= place
        <4>1. Top.fields[j] \in Field /\ new.fields[j] = Top.fields[j]
          BY <1>3, <1>6, <1>7, ElementOfSeq
        <4>2. Top.fields[j].offset + Top.fields[j].size <= Top.offset
          BY <1>2, <1>6, <3>2 DEF FrameLaid
        <4>3. Top.fields[j].offset \in Nat /\ Top.fields[j].size \in Nat
          BY <4>1 DEF Field
        <4>4. Top.offset <= place /\ Top.offset \in Nat /\ place \in Nat
          BY <1>3, <1>4, <3>2
        <4> QED BY <4>1, <4>2, <4>3, <4>4
      <3>3. Len(Top.fields) + 1 - 1 = Len(Top.fields)
        BY <1>6
      <3>4. ~union => place + size <= new.offset
        BY <1>4, <1>10
      <3> QED BY <1>4, <1>7, <1>8, <1>9, <1>11, <3>1, <3>2, <3>3, <3>4
    <2>3. \A k \in DOMAIN new.fields : k \in 1 .. Len(Top.fields) \/ k = Len(Top.fields) + 1
      BY <1>6, <1>7
    <2> QED BY <1>8, <2>1, <2>2, <2>3 DEF FrameLaid
  <1>14. \A k \in DOMAIN stack' : FrameLaid(stack'[k])
    <2>1. new \in Frame
      <3>1. Larger(Top.max_align, align) \in Nat \ {0}
        BY <1>3 DEF Larger, PrimSizes
      <3>2. Larger(Top.max_size, size) \in Nat
        BY <1>3 DEF Larger
      <3>3. field \in Field
        BY <1>4 DEF Field, field, PrimSizes
      <3>4. Append(Top.fields, field) \in Seq(Field)
        BY <1>3, <3>3
      <3>5. ~union => Wrap(place + size) \in Nat
        BY <1>4, <1>5
      <3> QED BY <1>2, <1>3, <3>1, <3>2, <3>4, <3>5 DEF Frame, new
    <2>2. /\ DOMAIN stack' = DOMAIN stack /\ DOMAIN stack = 1 .. Len(stack)
          /\ Len(stack) \in Nat /\ stack'[Len(stack)] = new
          /\ \A k \in 1 .. Len(stack) - 1 : stack'[k] = stack[k]
      BY <1>1, <1>12, <2>1, ReplaceFacts
    <2>3. \A k \in DOMAIN stack : k = Len(stack) \/ k \in 1 .. Len(stack) - 1
      BY <2>2
    <2> QED BY <1>13, <2>2, <2>3 DEF LayoutIInv
  <1>15. \A k \in DOMAIN stack' : FrameLaid(stack[k])' <=> FrameLaid(stack'[k])
    BY DEF FrameLaid
  <1> QED BY <1>14, <1>15 DEF LayoutIInv, LayoutsAreSound, LaidOut, IsCompiled

LEMMA FieldLays ==
  ASSUME IInv, LayoutIInv, NothingWraps, LayField \/ TakeSubschema
  PROVE  LayoutIInv'
  <1>1. stack # <<>> /\ stack \in Seq(Frame)
    BY DEF IInv, TypeOK, ResultFits, LayField, TakeSubschema, Looping
  <1>2. /\ Top \in Frame /\ Top.schema \in DOMAIN schemas /\ Top.fields \in Seq(Field)
        /\ Top.offset \in Nat
        /\ schemas[Top.schema].fields \in Seq(RawField)
    <2>1. Top \in Frame
      BY <1>1, PopFacts
    <2> QED BY <2>1, RawFields DEF Frame
  <1>3. UNCHANGED <<schemas, cache>>
    BY DEF LayField, TakeSubschema
  <1>4. CASE LayField
    <2>1. /\ FieldsLeft /\ NextField.kind \in {"prim", "array", "pointer"}
          /\ Looping({"prim", "array", "pointer"})
      BY <1>4 DEF LayField, Looping
    <2>2. Len(Top.fields) + 1 \in DOMAIN schemas[Top.schema].fields
      BY <1>2, <2>1 DEF FieldsLeft
    <2>3. ValidField(schemas, NextField) /\ NextField \in RawField
      BY <1>2, <2>2, ElementOfSeq DEF IInv, TypeOK, ValidImage, NextField
    <2>4. /\ NextField.prim \in Nat /\ NextField.aux \in Nat
          /\ NextField.kind # "pointer" => NextField.prim \in PrimSizes
      BY <2>1, <2>3 DEF ValidField, RawField
    <2>5. CASE NextField.kind = "prim"
      <3>1. Place(NextField.prim, NextField.prim)
        BY <1>4, <2>5 DEF LayField
      <3>2. Top.offset + NextField.prim - 1 + NextField.prim < SizeModulus
        BY <2>1, <2>5 DEF NothingWraps
      <3> QED BY <1>1, <1>3, <2>4, <2>5, <3>1, <3>2, PlaceLays
    <2>6. CASE NextField.kind = "array"
      <3>1. Place(Wrap(NextField.prim * NextField.aux), NextField.prim)
        BY <1>4, <2>6 DEF LayField
      <3>2. Top.offset + NextField.prim - 1 + NextField.prim * NextField.aux < SizeModulus
        BY <2>1, <2>6 DEF NothingWraps
      <3>3. PICK size \in Nat : size = NextField.prim * NextField.aux
        BY <2>4
      <3>4. NextField.prim \in PrimSizes /\ NextField.prim \in Nat \ {0}
        BY <2>4, <2>6 DEF PrimSizes
      <3>5. size < SizeModulus
        BY <1>2, <3>2, <3>3, <3>4, SizeModulusAssumption, PointerSizeAssumption DEF PrimSizes
      <3>6. Wrap(size) = size
        BY <3>5, WrapFits
      <3>7. Place(size, NextField.prim) /\ Top.offset + NextField.prim - 1 + size < SizeModulus
        BY <3>1, <3>2, <3>3, <3>6
      <3> QED BY <1>1, <1>3, <3>4, <3>7, PlaceLays
    <2>7. CASE NextField.kind = "pointer"
      <3>1. Place(PointerSize, PointerSize)
        BY <1>4, <2>7 DEF LayField
      <3>2. Top.offset + PointerSize - 1 + PointerSize < SizeModulus
        BY <2>1, <2>7 DEF NothingWraps
      <3>3. PointerSize \in Nat /\ PointerSize \in PrimSizes
        BY PointerSizeAssumption DEF PrimSizes
      <3> QED BY <1>1, <1>3, <3>1, <3>2, <3>3, PlaceLays
    <2> QED BY <2>1, <2>5, <2>6, <2>7
  <1>5. CASE TakeSubschema
    <2>1. Place(cache[arg].size, cache[arg].align) /\ at = "ok"
      BY <1>5 DEF TakeSubschema
    <2>2. arg \in DOMAIN schemas /\ IsCompiled(arg)
      BY <1>1, <2>1 DEF IInv, ResultFits
    <2>3. cache[arg].size \in Nat /\ cache[arg].align \in PrimSizes
      BY <2>2 DEF IInv, TypeOK, LayoutIInv
    <2>4. Top.offset + cache[arg].align - 1 + cache[arg].size < SizeModulus
      BY <1>1, <2>1 DEF NothingWraps
    <2> QED BY <1>1, <1>3, <2>1, <2>3, <2>4, PlaceLays
  <1> QED BY <1>4, <1>5

(* Frames that stay go on as laid out. *)
LEMMA FramesStayLaid ==
  ASSUME LayoutIInv, schemas' = schemas,
         \A k \in DOMAIN stack' :
           \/ k \in DOMAIN stack /\ stack'[k] = stack[k]
           \/ FrameLaid(stack'[k])
  PROVE  (\A k \in DOMAIN stack : FrameLaid(stack[k]))'
  BY DEF LayoutIInv, FrameLaid

(* So do compiled schemas. *)
LEMMA CompiledStayLaid ==
  ASSUME LayoutIInv, schemas' = schemas,
         \A s \in DOMAIN schemas :
           cache'[s].mark = "compiled" => IsCompiled(s) /\ cache'[s] = cache[s]
  PROVE  /\ (\A s \in DOMAIN schemas : IsCompiled(s) => cache[s].align \in PrimSizes)'
         /\ LayoutsAreSound'
  BY DEF LayoutIInv, LayoutsAreSound, LaidOut, IsCompiled

LEMMA FinishLays ==
  ASSUME IInv, LayoutIInv, NothingWraps, Finish
  PROVE  LayoutIInv'
  <1>1. stack # <<>> /\ stack \in Seq(Frame)
    BY DEF IInv, TypeOK, ResultFits, Finish
  <1>2. /\ Top \in Frame /\ Len(stack) \in DOMAIN stack
        /\ Top = stack[Len(stack)] /\ FrameLaid(Top)
    <2>1. Top \in Frame /\ Len(stack) \in DOMAIN stack /\ Top = stack[Len(stack)]
      BY <1>1, PopFacts DEF Top
    <2> QED BY <2>1 DEF LayoutIInv
  <1>3. PICK s \in DOMAIN schemas : s = Top.schema
    BY <1>2 DEF Frame
  <1> DEFINE union == schemas[s].kind = "union"
             end == IF union THEN Top.max_size ELSE Top.offset
             entry == [mark |-> "compiled", fields |-> Top.fields, align |-> Top.max_align,
                       size |-> AlignUp(end, Top.max_align)]
  <1>4. /\ Top.fields \in Seq(Field) /\ end \in Nat
        /\ Top.max_align \in PrimSizes /\ Top.offset \in Nat /\ Top.max_size \in Nat
    BY <1>2, <1>3 DEF Frame, FrameLaid
  <1>5. end + Top.max_align - 1 < SizeModulus
    <2>1. Larger(Top.offset, Top.max_size) + Top.max_align - 1 < SizeModulus
      BY DEF NothingWraps, Finish
    <2> QED BY <1>4, <2>1, SizeModulusAssumption, PointerSizeAssumption DEF Larger, PrimSizes
  <1>6. /\ cache' = [cache EXCEPT ![s] = entry]
        /\ stack' = Below /\ schemas' = schemas
    BY <1>3 DEF Finish
  <1>7. PICK size \in Nat : /\ size = AlignUp(end, Top.max_align)
                            /\ end <= size /\ size % Top.max_align = 0
    BY <1>4, <1>5, AlignUpFits
  <1>8. entry.fields = Top.fields /\ entry.align = Top.max_align /\ entry.size = size
    BY <1>7
  <1>9. union => end = Top.max_size
    OBVIOUS
  <1>10. ~union => end = Top.offset
    OBVIOUS
  <1> HIDE DEF entry, end
  <1>11. ASSUME NEW k \in DOMAIN Top.fields
         PROVE  LET f == Top.fields[k] IN
                /\ f.offset % f.align = 0
                /\ Top.max_align % f.align = 0
                /\ f.offset + f.size <= size
                /\ IF union THEN f.offset = 0
                   ELSE \A j \in 1 .. k - 1 :
                          Top.fields[j].offset + Top.fields[j].size <= f.offset
    <2>1. Top.fields[k] \in Field
      BY <1>4, ElementOfSeq
    <2>2. LET f == Top.fields[k] IN
          /\ f.align \in PrimSizes /\ f.align <= Top.max_align
          /\ f.offset % f.align = 0
          /\ IF union
               THEN f.offset = 0 /\ f.size <= Top.max_size
               ELSE /\ f.offset + f.size <= Top.offset
                    /\ \A j \in 1 .. k - 1 :
                         Top.fields[j].offset + Top.fields[j].size <= f.offset
      BY <1>2, <1>3 DEF FrameLaid
    <2>3. Top.max_align % Top.fields[k].align = 0
      BY <1>4, <2>2, Divides
    <2>4. Top.fields[k].offset + Top.fields[k].size <= size
      <3>1. Top.fields[k].offset \in Nat /\ Top.fields[k].size \in Nat
        BY <2>1 DEF Field
      <3>2. Top.fields[k].offset + Top.fields[k].size <= end
        <4>1. CASE union
          BY <1>9, <2>2, <3>1, <4>1
        <4>2. CASE ~union
          BY <1>10, <2>2, <4>2
        <4> QED BY <4>1, <4>2
      <3> QED BY <1>4, <1>7, <3>1, <3>2
    <2> QED BY <2>2, <2>3, <2>4
  <1>12. /\ cache'[s] = entry
         /\ \A r \in DOMAIN schemas : r # s => cache'[r] = cache[r]
    BY <1>4, <1>6 DEF IInv, TypeOK
  <1>13. LaidOut(s)'
    BY <1>6, <1>7, <1>8, <1>11, <1>12 DEF LaidOut
  <1>14. LayoutsAreSound'
    <2>1. ASSUME NEW r \in DOMAIN schemas, cache'[r].mark = "compiled", r # s
          PROVE  LaidOut(r)'
      BY <1>6, <1>12, <2>1 DEF LayoutIInv, LayoutsAreSound, LaidOut, IsCompiled
    <2> QED BY <1>6, <1>13, <2>1 DEF LayoutsAreSound, IsCompiled
  <1>15. (\A r \in DOMAIN schemas : IsCompiled(r) => cache[r].align \in PrimSizes)'
    BY <1>4, <1>6, <1>8, <1>12 DEF LayoutIInv, IsCompiled
  <1>16. (\A k \in DOMAIN stack : FrameLaid(stack[k]))'
    <2>1. \A k \in DOMAIN stack' : k \in DOMAIN stack /\ stack'[k] = stack[k]
      BY <1>1, <1>6, PopFacts
    <2> QED BY <1>6, <2>1, FramesStayLaid
  <1> QED BY <1>14, <1>15, <1>16 DEF LayoutIInv

LEMMA LayoutsStay ==
  ASSUME LayoutIInv, UNCHANGED <<schemas, cache, stack>>
  PROVE  LayoutIInv'
  BY DEF LayoutIInv, LayoutsAreSound, LaidOut, FrameLaid, IsCompiled

LEMMA StepLays ==
  ASSUME IInv, LayoutIInv, NothingWraps, [Next]_vars
  PROVE  LayoutIInv'
  <1>1. CASE Begin
    <2>1. stack \in Seq(Frame)
      BY DEF IInv, TypeOK
    <2>2. \A k \in DOMAIN stack' :
            \/ k \in DOMAIN stack /\ stack'[k] = stack[k]
            \/ stack'[k] = [schema |-> arg, fields |-> <<>>, offset |-> 0,
                            max_align |-> 1, max_size |-> 0]
      BY <1>1, <2>1 DEF Begin, NewFrame
    <2>3. FrameLaid([schema |-> arg, fields |-> <<>>, offset |-> 0, max_align |-> 1, max_size |-> 0])
      BY DEF FrameLaid, PrimSizes
    <2>4. \A s \in DOMAIN schemas :
            cache'[s].mark = "compiled" => IsCompiled(s) /\ cache'[s] = cache[s]
      BY <1>1 DEF IInv, TypeOK, Begin, IsCompiled
    <2> QED BY <1>1, <2>2, <2>3, <2>4, FramesStayLaid, CompiledStayLaid DEF Begin, LayoutIInv
  <1>2. CASE Unwind
    <2>1. stack \in Seq(Frame) /\ stack # <<>> /\ stack' = Below /\ schemas' = schemas
      BY <1>2 DEF IInv, TypeOK, Unwind
    <2>2. \A k \in DOMAIN stack' : k \in DOMAIN stack /\ stack'[k] = stack[k]
      BY <2>1, PopFacts
    <2>3. \A s \in DOMAIN schemas :
            cache'[s].mark = "compiled" => IsCompiled(s) /\ cache'[s] = cache[s]
      BY <1>2 DEF IInv, TypeOK, Unwind, IsCompiled
    <2> QED BY <2>1, <2>2, <2>3, FramesStayLaid, CompiledStayLaid DEF LayoutIInv
  <1> QED BY <1>1, <1>2, LayoutsStay, FieldLays, FinishLays
          DEF Next, Compile, Request, Refuse, CacheHit, CompileField, vars

-----------------------------------------------------------------------------
(* Theorems *)

(* IInv holds in every reachable state. *)
THEOREM InductiveInvariant == Spec => []IInv
  <1>1. Init => IInv
    BY InitIInv
  <1>2. IInv /\ [Next]_vars => IInv'
    BY StepIInv, StutterIInv
  <1> QED BY <1>1, <1>2, PTL DEF Spec

(* Every variable of the compiler stays in its range. *)
THEOREM TypeCorrect == Spec => []TypeOK
  BY InductiveInvariant, PTL DEF IInv

(* For every schema section: a schema is marked as in progress exactly     *)
(* while one frame of the recursion compiles it, and never twice.          *)
THEOREM MarksFollowFrames == Spec => []MarksAreFrames
  BY InductiveInvariant, PTL DEF IInv

(* A schema that holds itself by value, through any number of others, never *)
(* gets into the cache.                                                    *)
THEOREM NoRecursionByValue == Spec => []CompiledOnCompiled
  BY InductiveInvariant, PTL DEF IInv

(* A request that returns NULL has failed the runtime, and only such one. *)
THEOREM NullMeansFailed == Spec => []NullIsReported
  <1>1. IInv => NullIsReported
    BY DEF IInv, ResultFits, NullIsReported
  <1> QED BY <1>1, InductiveInvariant, PTL

(* What a view or an op has got of a compiled schema stays valid. *)
THEOREM CompiledNeverChanges == Spec => CompiledIsFinal
  <1>1. IInv /\ [Next]_vars => [\A s \in DOMAIN schemas : IsCompiled(s) => cache'[s] = cache[s]]_vars
    BY CompiledKept
  <1> QED BY <1>1, InductiveInvariant, PTL DEF Spec, CompiledIsFinal

(* Where no sum of the compiler reaches 2^w, every layout in the cache is   *)
(* sound: fields aligned, inside their schema and, in a struct, apart, and  *)
(* a size that keeps an array aligned.                                     *)
THEOREM LayoutsSound == Spec /\ []NothingWraps => []LayoutsAreSound
  <1>1. Init => LayoutIInv
    BY InitLays
  <1>2. IInv /\ LayoutIInv /\ NothingWraps /\ [Next]_vars => LayoutIInv'
    BY StepLays
  <1>3. LayoutIInv => LayoutsAreSound
    BY DEF LayoutIInv
  <1> QED BY <1>1, <1>2, <1>3, InductiveInvariant, PTL DEF Spec
-----------------------------------------------------------------------------
(* Views *)

LEMMA BytesType ==
  ASSUME NEW from \in Nat, NEW size \in Nat
  PROVE  Bytes(from, size) \in Region
  BY DEF Bytes, Region

LEMMA NoCallType == NoCall \in Call /\ NoCall.op = "none"
  BY BytesType DEF NoCall, Call, Ops, Nowhere

LEMMA InitViews == ViewsInit => ViewsIInv
  <1> SUFFICES ASSUME ViewsInit PROVE ViewsIInv
    OBVIOUS
  <1>1. IInv
    BY InitIInv DEF ViewsInit
  <1>2. ViewsTypeOK
    BY NoCallType, BytesType DEF ViewsInit, ViewsTypeOK, Nowhere
  <1>3. AllFieldsLaid
    BY DEF ViewsInit, Init, AllFieldsLaid, IsCompiled, Unmarked
  <1>4. HandlesOnCompiled /\ ResultAwaited /\ SubviewsHit
    BY NoCallType DEF ViewsInit, HandlesOnCompiled, ResultAwaited, SubviewsHit
  <1> QED BY <1>1, <1>2, <1>3, <1>4 DEF ViewsIInv

-----------------------------------------------------------------------------
(* The compiler runs *)

(* Finish puts in the cache all the fields of the schema. *)
LEMMA FinishLaysAll ==
  ASSUME IInv, Finish, AllFieldsLaid
  PROVE  AllFieldsLaid'
  <1>1. stack # <<>> /\ stack \in Seq(Frame)
    BY DEF IInv, TypeOK, ResultFits, Finish
  <1>2. Top \in Frame
    BY <1>1, PopFacts
  <1>3. /\ Top.schema \in DOMAIN schemas /\ Top.fields \in Seq(Field)
        /\ schemas[Top.schema].fields \in Seq(RawField)
    BY <1>2, RawFields DEF Frame
  <1>4. DOMAIN schemas[Top.schema].fields \subseteq DOMAIN Top.fields
    <2>1. ~(Len(Top.fields) < Len(schemas[Top.schema].fields))
      BY DEF Finish, FieldsLeft
    <2> QED BY <1>3, <2>1
  <1>5. /\ schemas' = schemas
        /\ cache'[Top.schema].fields = Top.fields
        /\ \A s \in DOMAIN schemas : s # Top.schema => cache'[s] = cache[s]
    BY <1>3 DEF IInv, TypeOK, Finish
  <1>6. ASSUME NEW s \in DOMAIN schemas, cache'[s].mark = "compiled"
        PROVE  DOMAIN schemas[s].fields \subseteq DOMAIN cache'[s].fields
    <2>1. CASE s = Top.schema
      BY <1>4, <1>5, <2>1
    <2>2. CASE s # Top.schema
      BY <1>5, <1>6, <2>2 DEF AllFieldsLaid, IsCompiled
    <2> QED BY <2>1, <2>2
  <1> QED BY <1>5, <1>6 DEF AllFieldsLaid, IsCompiled

(* No step but Finish makes a schema compiled. *)
LEMMA OnlyFinishCompiles ==
  ASSUME IInv, Compile, ~Finish, NEW s \in DOMAIN schemas, cache'[s].mark = "compiled"
  PROVE  IsCompiled(s) /\ cache'[s] = cache[s]
  <1>1. CASE Begin
    BY <1>1 DEF IInv, TypeOK, Begin, IsCompiled
  <1>2. CASE Unwind
    <2>1. Top.schema \in DOMAIN schemas
      BY <1>2, TopInProgress DEF Unwind
    <2> QED BY <1>2, <2>1 DEF IInv, TypeOK, Unwind, IsCompiled
  <1>3. CASE UNCHANGED cache
    BY <1>3 DEF IsCompiled
  <1> QED BY <1>1, <1>2, <1>3
          DEF Compile, Refuse, CacheHit, LayField, CompileField, TakeSubschema

LEMMA CompileKeepsViews ==
  ASSUME ViewsIInv, Compile, UNCHANGED <<views, call, access>>
  PROVE  ViewsIInv'
  <1>1. IInv /\ IInv'
    BY StepIInv DEF ViewsIInv, Next
  <1>2. /\ schemas' = schemas
        /\ \A s \in DOMAIN schemas : IsCompiled(s) => cache'[s] = cache[s]
    BY <1>1, CompiledKept DEF Next
  <1>3. ViewsTypeOK'
    BY DEF ViewsIInv, ViewsTypeOK
  <1>4. AllFieldsLaid'
    <2>1. CASE Finish
      BY <1>1, <2>1, FinishLaysAll DEF ViewsIInv
    <2>2. CASE ~Finish
      <3>1. \A s \in DOMAIN schemas :
              cache'[s].mark = "compiled" => IsCompiled(s) /\ cache'[s] = cache[s]
        BY <1>1, <2>2, OnlyFinishCompiles
      <3> QED BY <1>2, <3>1 DEF ViewsIInv, AllFieldsLaid, IsCompiled
    <2> QED BY <2>1, <2>2
  <1>5. HandlesOnCompiled'
    BY <1>2 DEF ViewsIInv, HandlesOnCompiled, IsCompiled
  <1>6. ResultAwaited'
    <2>1. CASE CacheHit
      BY <1>2, <2>1 DEF CacheHit, ResultAwaited, IsCompiled
    <2>2. CASE Finish
      <3>1. stack # <<>> /\ stack \in Seq(Frame)
        BY <1>1, <2>2 DEF IInv, TypeOK, ResultFits, Finish
      <3>2. Top.schema \in DOMAIN schemas
        BY <1>1, <3>1, TopInProgress
      <3>3. arg' = Top.schema /\ cache'[Top.schema].mark = "compiled"
        BY <1>1, <2>2, <3>2 DEF IInv, TypeOK, Finish
      <3> QED BY <1>2, <3>2, <3>3 DEF ResultAwaited, IsCompiled
    <2>3. CASE at' # "ok"
      BY <2>3 DEF ResultAwaited
    <2>4. at' # "ok" \/ CacheHit \/ Finish
      BY DEF Compile, Refuse, ReturnNull, Begin, LayField, Looping, CompileField,
             TakeSubschema, Unwind
    <2> QED BY <2>1, <2>2, <2>3, <2>4
  <1>7. SubviewsHit'
    <2>1. CASE call.op = "field"
      <3>1. /\ stack = <<>> /\ at \in {"call", "ok"}
            /\ arg \in DOMAIN schemas /\ IsCompiled(arg)
        BY <2>1 DEF ViewsIInv, SubviewsHit
      <3>2. CacheHit
        BY <3>1 DEF Compile, Refuse, Begin, IsCompiled, LayField, Looping, CompileField,
                    TakeSubschema, Finish, Unwind
      <3> QED BY <1>2, <3>1, <3>2 DEF CacheHit, SubviewsHit, IsCompiled
    <2>2. CASE call.op # "field"
      BY <2>2 DEF SubviewsHit
    <2> QED BY <2>1, <2>2
  <1> QED BY <1>1, <1>3, <1>4, <1>5, <1>6, <1>7 DEF ViewsIInv

-----------------------------------------------------------------------------
(* The functions on views *)

(* A function that asks for a schema. *)
LEMMA AskKeepsViews ==
  ASSUME ViewsIInv, NEW s \in 1 .. Len(schemas) + 1, Request(s),
         call' \in Call, UNCHANGED <<views, access>>,
         call'.op = "field" => s \in DOMAIN schemas /\ IsCompiled(s)
  PROVE  ViewsIInv'
  <1>1. IInv'
    BY RequestKeeps DEF ViewsIInv
  <1>2. /\ UNCHANGED <<schemas, cache, stack>> /\ stack = <<>>
        /\ at' = "call" /\ arg' = s
    BY DEF Request, Idle
  <1>3. ViewsTypeOK' /\ AllFieldsLaid' /\ HandlesOnCompiled'
    BY <1>2 DEF ViewsIInv, ViewsTypeOK, AllFieldsLaid, HandlesOnCompiled, IsCompiled
  <1>4. ResultAwaited' /\ SubviewsHit'
    BY <1>2 DEF ResultAwaited, SubviewsHit, IsCompiled
  <1> QED BY <1>1, <1>3, <1>4 DEF ViewsIInv

(* The compiler's invariant, over a function that does not call it. *)
LEMMA IdleKeeps ==
  ASSUME IInv, stack = <<>>, UNCHANGED <<schemas, cache, stack, arg>>,
         at' \in {"ok", "null"}, failed' = (at' = "null")
  PROVE  IInv'
  <1>1. TypeOK'
    BY DEF IInv, TypeOK, ValidImage, ValidField, Frame
  <1>2. ResultFits' /\ MarksAreFrames'
    BY DEF IInv, ResultFits, MarksAreFrames, IsCompiled
  <1>3. FramesChain'
    BY DEF FramesChain
  <1>4. FramesOnCompiled' /\ CompiledOnCompiled'
    BY DEF IInv, FramesOnCompiled, CompiledOnCompiled, IsCompiled
  <1> QED BY <1>1, <1>2, <1>3, <1>4 DEF IInv

(* A function that ends, with or without a new handle. *)
LEMMA EndKeepsViews ==
  ASSUME ViewsIInv, stack = <<>>, UNCHANGED <<schemas, cache, stack, arg>>,
         at' \in {"ok", "null"}, failed' = (at' = "null"),
         call' \in Call, call'.op = "none",
         \A v \in views' \ views :
           v \in Handle /\ v.schema \in DOMAIN schemas /\ IsCompiled(v.schema),
         access' \in [range : Region, region : Region]
  PROVE  ViewsIInv'
  <1>1. IInv'
    BY IdleKeeps DEF ViewsIInv
  <1>2. ViewsTypeOK'
    BY DEF ViewsIInv, ViewsTypeOK
  <1>3. AllFieldsLaid' /\ HandlesOnCompiled'
    BY DEF ViewsIInv, AllFieldsLaid, HandlesOnCompiled, IsCompiled
  <1>4. ResultAwaited' /\ SubviewsHit'
    BY DEF ResultAwaited, SubviewsHit
  <1> QED BY <1>1, <1>2, <1>3, <1>4 DEF ViewsIInv

(* The layout that a handle's schema has in the cache. *)
LEMMA HandleFacts ==
  ASSUME ViewsIInv, NEW v \in views
  PROVE  /\ v \in Handle /\ v.schema \in DOMAIN schemas /\ IsCompiled(v.schema)
         /\ cache[v.schema].size \in Nat
         /\ \A k \in DOMAIN schemas[v.schema].fields :
              /\ cache[v.schema].fields[k] \in Field
              /\ FieldAddress(v, k) \in Nat
  <1>1. v \in Handle /\ v.schema \in DOMAIN schemas /\ IsCompiled(v.schema)
    BY DEF ViewsIInv, ViewsTypeOK, HandlesOnCompiled
  <1>2. cache[v.schema].size \in Nat /\ cache[v.schema].fields \in Seq(Field)
    BY <1>1 DEF ViewsIInv, IInv, TypeOK
  <1>3. ASSUME NEW k \in DOMAIN schemas[v.schema].fields
        PROVE  cache[v.schema].fields[k] \in Field /\ FieldAddress(v, k) \in Nat
    <2>1. k \in DOMAIN cache[v.schema].fields
      BY <1>1 DEF ViewsIInv, AllFieldsLaid
    <2>2. cache[v.schema].fields[k] \in Field
      BY <1>2, <2>1
    <2> QED BY <1>1, <2>2 DEF FieldAddress, Handle, Field
  <1> QED BY <1>1, <1>2, <1>3

LEMMA MakeKeepsViews ==
  ASSUME ViewsIInv, NEW s \in 1 .. Len(schemas) + 1, NEW op \in {"view", "union", "array"},
         NEW base \in Bases, NEW count \in 0 .. MaxCount, Make(op, s, base, count)
  PROVE  ViewsIInv'
  <1>1. base \in Nat /\ count \in Nat
    BY BasesAssumption, MaxCountAssumption
  <1>2. call' \in Call /\ call'.op # "field"
    BY <1>1, BytesType DEF Make, Call, Ops, Nowhere
  <1> QED BY <1>2, AskKeepsViews DEF Make

LEMMA MakeHandleKeepsViews ==
  ASSUME ViewsIInv, MakeHandle
  PROVE  ViewsIInv'
  <1>1. /\ arg \in DOMAIN schemas /\ IsCompiled(arg) /\ call \in Call
        /\ stack = <<>> /\ at = "ok" /\ failed = FALSE
    BY DEF ViewsIInv, ViewsTypeOK, ResultAwaited, MakeHandle, Idle, IInv, TypeOK, ResultFits
  <1>2. arg \in Nat /\ cache[arg].size \in Nat
    BY <1>1 DEF ViewsIInv, IInv, TypeOK
  <1>3. Bytes(call.base, call.count * cache[arg].size) \in Region
    <2>1. call.base \in Nat /\ call.count * cache[arg].size \in Nat
      BY <1>1, <1>2 DEF Call
    <2> QED BY <2>1, BytesType
  <1>4. NewHandle \in Handle /\ NewHandle.schema = arg
    BY <1>1, <1>2, <1>3 DEF NewHandle, Handle, Call
  <1>5. /\ views' = views \cup {NewHandle} /\ call' = NoCall /\ access' = access
        /\ UNCHANGED <<schemas, cache, stack, at, arg, failed>>
    BY DEF MakeHandle, vars
  <1>6. access' \in [range : Region, region : Region]
    BY <1>5 DEF ViewsIInv, ViewsTypeOK
  <1> QED BY <1>1, <1>4, <1>5, <1>6, NoCallType, EndKeepsViews

(* No handle is made. *)
LEMMA RefusalsKeepViews ==
  ASSUME ViewsIInv, RefuseHandle \/ GiveUp \/ RefuseAccess
  PROVE  ViewsIInv'
  <1>1. /\ stack = <<>> /\ UNCHANGED <<schemas, cache, stack, arg, views, access>>
        /\ at' = "null"
        /\ \/ call' = NoCall
           \/ call' = call /\ call.op = "none"
    BY DEF RefuseHandle, GiveUp, RefuseAccess, ReturnNull, NotWaiting, Idle, vars
  <1>2. failed' = TRUE
    BY DEF RefuseHandle, GiveUp, RefuseAccess, ReturnNull, vars, ViewsIInv, IInv, ResultFits
  <1>3. call' \in Call /\ call'.op = "none"
    BY <1>1, NoCallType DEF ViewsIInv, ViewsTypeOK
  <1>4. access' \in [range : Region, region : Region]
    BY <1>1 DEF ViewsIInv, ViewsTypeOK
  <1> QED BY <1>1, <1>2, <1>3, <1>4, EndKeepsViews

LEMMA GetOrSetKeepsViews ==
  ASSUME ViewsIInv, NEW v \in views, NEW k \in DOMAIN schemas[v.schema].fields, GetOrSet(v, k)
  PROVE  ViewsIInv'
  <1>1. FieldAddress(v, k) \in Nat /\ cache[v.schema].fields[k].size \in Nat /\ v \in Handle
    BY HandleFacts DEF Field
  <1>2. access' \in [range : Region, region : Region]
    BY <1>1, BytesType DEF GetOrSet, Handle
  <1>3. /\ stack = <<>> /\ call' = call /\ call.op = "none" /\ at' = "ok" /\ failed' = FALSE
        /\ UNCHANGED <<schemas, cache, stack, arg, views>>
    BY DEF GetOrSet, NotWaiting, Idle
  <1>4. call' \in Call
    BY <1>3 DEF ViewsIInv, ViewsTypeOK
  <1> QED BY <1>2, <1>3, <1>4, EndKeepsViews

LEMMA GetStructKeepsViews ==
  ASSUME ViewsIInv, NEW v \in views, NEW k \in DOMAIN schemas[v.schema].fields, GetStruct(v, k)
  PROVE  ViewsIInv'
  <1>1. v \in Handle /\ v.schema \in DOMAIN schemas /\ IsCompiled(v.schema)
        /\ FieldAddress(v, k) \in Nat
    BY HandleFacts
  <1> DEFINE ref == schemas[v.schema].fields[k].ref
  <1>2. schemas[v.schema].fields[k].kind = "struct"
    BY DEF GetStruct, Finds
  <1>3. ref \in DOMAIN schemas /\ IsCompiled(ref)
    BY <1>1, <1>2, StructRef DEF ViewsIInv, IInv, CompiledOnCompiled
  <1>4. ref \in 1 .. Len(schemas) + 1
    BY <1>3 DEF ViewsIInv, IInv, TypeOK
  <1>5. call' \in Call
    BY <1>1 DEF GetStruct, Call, Ops, Handle
  <1> QED BY <1>3, <1>4, <1>5, AskKeepsViews DEF GetStruct

LEMMA GetElementKeepsViews ==
  ASSUME ViewsIInv, NEW v \in views, NEW idx \in 0 .. MaxCount, GetElement(v, idx)
  PROVE  ViewsIInv'
  <1>1. /\ v \in Handle /\ v.schema \in DOMAIN schemas /\ IsCompiled(v.schema)
        /\ cache[v.schema].size \in Nat /\ idx \in Nat
    BY HandleFacts, MaxCountAssumption
  <1> DEFINE elem == Element(v, idx)
  <1>2. idx * cache[v.schema].size \in Nat
    BY <1>1
  <1>3. elem \in Handle /\ elem.schema = v.schema
    <2>1. v.base + idx * cache[v.schema].size \in Nat
      BY <1>1, <1>2 DEF Handle
    <2> QED BY <1>1, <2>1 DEF Element, Handle
  <1>4. /\ views' = views \cup {elem} /\ stack = <<>> /\ call' = call /\ call.op = "none"
        /\ at' = "ok" /\ failed' = FALSE
        /\ UNCHANGED <<schemas, cache, stack, arg, access>>
    BY DEF GetElement, NotWaiting, Idle
  <1> HIDE DEF elem
  <1>5. call' \in Call /\ access' \in [range : Region, region : Region]
    BY <1>4 DEF ViewsIInv, ViewsTypeOK
  <1> QED BY <1>1, <1>3, <1>4, <1>5, EndKeepsViews

LEMMA StutterViews ==
  ASSUME ViewsIInv, UNCHANGED viewvars
  PROVE  ViewsIInv'
  <1>1. IInv'
    BY StutterIInv DEF ViewsIInv, viewvars, vars
  <1>2. ViewsTypeOK' /\ AllFieldsLaid' /\ HandlesOnCompiled' /\ ResultAwaited' /\ SubviewsHit'
    BY DEF ViewsIInv, viewvars, ViewsTypeOK, AllFieldsLaid, HandlesOnCompiled, ResultAwaited,
           SubviewsHit, IsCompiled
  <1> QED BY <1>1, <1>2 DEF ViewsIInv

LEMMA StepViews ==
  ASSUME ViewsIInv, ViewsNext
  PROVE  ViewsIInv'
  <1>1. CASE Compile /\ UNCHANGED <<views, call, access>>
    BY <1>1, CompileKeepsViews
  <1>2. ASSUME NEW s \in 1 .. Len(schemas) + 1, AskSchema(s)
        PROVE  ViewsIInv'
    <2>1. call' \in Call /\ call'.op # "field"
      BY <1>2 DEF AskSchema, NotWaiting, ViewsIInv, ViewsTypeOK
    <2> QED BY <1>2, <2>1, AskKeepsViews DEF AskSchema
  <1>3. CASE MakeHandle
    BY <1>3, MakeHandleKeepsViews
  <1>4. CASE RefuseHandle \/ GiveUp \/ RefuseAccess
    BY <1>4, RefusalsKeepViews
  <1> QED BY <1>1, <1>2, <1>3, <1>4, MakeKeepsViews, GetOrSetKeepsViews, GetStructKeepsViews,
             GetElementKeepsViews DEF ViewsNext

-----------------------------------------------------------------------------
(* Layouts, and what they keep inside *)

LEMMA InitInside == ViewsInit => LayoutIInv /\ InsideIInv
  BY InitLays, NoCallType
     DEF ViewsInit, InsideIInv, ViewsInside, AccessInside, Inside, Nowhere, Bytes

LEMMA LayoutsUnderViews ==
  ASSUME ViewsIInv, LayoutIInv, NothingWraps, [ViewsNext]_viewvars
  PROVE  LayoutIInv'
  <1>1. CASE Compile
    BY <1>1, StepLays DEF ViewsIInv, Next
  <1>2. CASE ~Compile
    BY <1>2, LayoutsStay
       DEF ViewsNext, viewvars, AskSchema, Make, Request, MakeHandle, RefuseHandle, GiveUp,
           GetOrSet, GetStruct, GetElement, RefuseAccess, vars
  <1> QED BY <1>1, <1>2

(* Element idx of count lies inside them all. *)
LEMMA ElementFits ==
  ASSUME NEW idx \in Nat, NEW count \in Nat, NEW size \in Nat, idx < count
  PROVE  idx * size + size <= count * size
  <1>1. PICK d \in Nat : count = idx + 1 + d
    <2>1. count - (idx + 1) \in Nat /\ count = idx + 1 + (count - (idx + 1))
      OBVIOUS
    <2> QED BY <2>1
  <1>2. count * size = idx * size + size + d * size
    BY <1>1
  <1>3. idx * size \in Nat /\ d * size \in Nat
    BY <1>1
  <1> QED BY <1>2, <1>3

(* A field's bytes lie inside its view's. *)
LEMMA FieldFits ==
  ASSUME ViewsIInv, LayoutIInv, InsideIInv,
         NEW v \in views, NEW k \in DOMAIN schemas[v.schema].fields, v.kind = "view"
  PROVE  Inside(Bytes(FieldAddress(v, k), cache[v.schema].fields[k].size), v.region)
  <1>1. /\ v \in Handle /\ v.schema \in DOMAIN schemas /\ IsCompiled(v.schema)
        /\ cache[v.schema].size \in Nat
        /\ cache[v.schema].fields[k] \in Field
    BY HandleFacts
  <1>2. k \in DOMAIN cache[v.schema].fields
    BY <1>1 DEF ViewsIInv, AllFieldsLaid
  <1>3. cache[v.schema].fields[k].offset + cache[v.schema].fields[k].size <= cache[v.schema].size
    BY <1>1, <1>2 DEF LayoutIInv, LayoutsAreSound, LaidOut
  <1>4. v.count = 1 /\ Inside(Bytes(v.base, v.count * cache[v.schema].size), v.region)
    BY DEF InsideIInv, ViewsInside
  <1>5. /\ v.region.from <= v.base
        /\ v.base + cache[v.schema].size <= v.region.to
    BY <1>1, <1>4 DEF Inside, Bytes
  <1> QED BY <1>1, <1>3, <1>5 DEF Inside, Bytes, FieldAddress, Field, Handle, Region

(* What the steps that make no handle and touch no memory keep. *)
LEMMA InsideStays ==
  ASSUME ViewsIInv, InsideIInv, UNCHANGED <<views, access>>,
         \A s \in DOMAIN schemas : IsCompiled(s) => cache'[s] = cache[s],
         call'.op \in {"view", "union", "field"} => call'.count = 1,
         call'.op = "field" => Inside(Bytes(call'.base, cache'[arg'].size), call'.region)
  PROVE  InsideIInv'
  <1>1. ViewsInside'
    <2>1. ASSUME NEW v \in views
          PROVE  Inside(Bytes(v.base, v.count * cache'[v.schema].size), v.region)
      BY HandleFacts DEF InsideIInv, ViewsInside
    <2> QED BY <2>1 DEF ViewsInside
  <1> QED BY <1>1 DEF InsideIInv, AccessInside

LEMMA CompileInside ==
  ASSUME ViewsIInv, InsideIInv, Compile, UNCHANGED <<views, call, access>>
  PROVE  InsideIInv'
  <1>1. \A s \in DOMAIN schemas : IsCompiled(s) => cache'[s] = cache[s]
    BY CompiledKept DEF ViewsIInv, Next
  <1>2. ASSUME call.op = "field"
        PROVE  Inside(Bytes(call.base, cache'[arg'].size), call.region)
    <2>1. /\ stack = <<>> /\ at \in {"call", "ok"}
          /\ arg \in DOMAIN schemas /\ IsCompiled(arg)
      BY <1>2 DEF ViewsIInv, SubviewsHit
    <2>2. CacheHit
      BY <2>1 DEF Compile, Refuse, Begin, IsCompiled, LayField, Looping, CompileField,
                  TakeSubschema, Finish, Unwind
    <2> QED BY <1>2, <2>2 DEF CacheHit, InsideIInv
  <1> QED BY <1>1, <1>2, InsideStays DEF InsideIInv

LEMMA GetStructInside ==
  ASSUME ViewsIInv, LayoutIInv, InsideIInv,
         NEW v \in views, NEW k \in DOMAIN schemas[v.schema].fields, GetStruct(v, k)
  PROVE  InsideIInv'
  <1>1. v.kind = "view" /\ schemas[v.schema].fields[k].kind = "struct"
    BY DEF GetStruct, Finds
  <1>2. cache[v.schema].fields[k].size = cache[schemas[v.schema].fields[k].ref].size
    BY <1>1, HandleFacts DEF ViewsIInv, IInv, CompiledOnCompiled
  <1>3. Inside(Bytes(FieldAddress(v, k), cache[v.schema].fields[k].size), v.region)
    BY <1>1, FieldFits
  <1>4. /\ call' = [op |-> "field", base |-> FieldAddress(v, k), count |-> 1, region |-> v.region]
        /\ arg' = schemas[v.schema].fields[k].ref
        /\ UNCHANGED <<schemas, cache, views, access>>
    BY DEF GetStruct, Request
  <1> QED BY <1>2, <1>3, <1>4, InsideStays

(* The steps that make a handle: it is inside as the others are. *)
LEMMA HandleInside ==
  ASSUME InsideIInv, NEW v, views' = views \cup {v}, call'.op = "none",
         UNCHANGED <<cache, access>>,
         v.kind = "view" => v.count = 1,
         Inside(Bytes(v.base, v.count * cache[v.schema].size), v.region)
  PROVE  InsideIInv'
  BY DEF InsideIInv, ViewsInside, AccessInside

LEMMA MakeHandleInside ==
  ASSUME ViewsIInv, InsideIInv, MakeHandle
  PROVE  InsideIInv'
  <1>1. /\ arg \in DOMAIN schemas /\ IsCompiled(arg) /\ call \in Call /\ call.op # "none"
    BY DEF ViewsIInv, ViewsTypeOK, ResultAwaited, MakeHandle
  <1>2. cache[arg].size \in Nat /\ call.base \in Nat /\ call.count \in Nat
    BY <1>1 DEF ViewsIInv, IInv, TypeOK, Call
  <1>3. call.count * cache[arg].size \in Nat
    BY <1>2
  <1>4. /\ NewHandle.base = call.base /\ NewHandle.count = call.count
        /\ NewHandle.schema = arg
        /\ NewHandle.kind = "view" <=> call.op # "array"
        /\ NewHandle.region = IF call.op = "field" THEN call.region
                              ELSE Bytes(call.base, call.count * cache[arg].size)
    BY DEF NewHandle
  <1>5. NewHandle.kind = "view" => NewHandle.count = 1
    BY <1>1, <1>4 DEF InsideIInv, Call, Ops
  <1>6. Inside(Bytes(NewHandle.base, NewHandle.count * cache[NewHandle.schema].size), NewHandle.region)
    <2>1. CASE call.op = "field"
      <3>1. call.count = 1 /\ Inside(Bytes(call.base, cache[arg].size), call.region)
        BY <2>1 DEF InsideIInv
      <3>2. call.count * cache[arg].size = cache[arg].size
        BY <1>2, <3>1
      <3> QED BY <1>4, <2>1, <3>1, <3>2
    <2>2. CASE call.op # "field"
      <3>1. Inside(Bytes(call.base, call.count * cache[arg].size),
                   Bytes(call.base, call.count * cache[arg].size))
        BY <1>2, <1>3 DEF Inside, Bytes
      <3> QED BY <1>4, <2>2, <3>1
    <2> QED BY <2>1, <2>2
  <1>7. views' = views \cup {NewHandle} /\ call'.op = "none" /\ UNCHANGED <<cache, access>>
    BY NoCallType DEF MakeHandle, vars
  <1> QED BY <1>5, <1>6, <1>7, HandleInside

LEMMA GetElementInside ==
  ASSUME ViewsIInv, InsideIInv, NEW v \in views, NEW idx \in 0 .. MaxCount, GetElement(v, idx)
  PROVE  InsideIInv'
  <1>1. /\ v \in Handle /\ cache[v.schema].size \in Nat /\ idx \in Nat
        /\ idx < v.count
    BY HandleFacts, MaxCountAssumption DEF GetElement, InArray
  <1>2. PICK size \in Nat : size = cache[v.schema].size
    BY <1>1
  <1>3. v.base \in Nat /\ v.count \in Nat /\ v.region.from \in Nat /\ v.region.to \in Nat
    BY <1>1 DEF Handle, Region
  <1>4. v.region.from <= v.base /\ v.base + v.count * size <= v.region.to
    BY <1>2, <1>3 DEF InsideIInv, ViewsInside, Inside, Bytes
  <1>5. idx * size + size <= v.count * size /\ idx * size \in Nat /\ v.count * size \in Nat
    BY <1>1, <1>3, ElementFits
  <1>6. v.region.from <= v.base + idx * size /\ v.base + idx * size + size <= v.region.to
    BY <1>3, <1>4, <1>5
  <1>7. /\ Element(v, idx).kind = "view" /\ Element(v, idx).count = 1
        /\ Element(v, idx).base = v.base + idx * size
        /\ Element(v, idx).schema = v.schema /\ Element(v, idx).region = v.region
    BY <1>2 DEF Element
  <1>8. Element(v, idx).count * cache[Element(v, idx).schema].size = size
    BY <1>2, <1>7
  <1>9. Inside(Bytes(v.base + idx * size, size), v.region)
    BY <1>3, <1>5, <1>6 DEF Inside, Bytes
  <1>10. /\ views' = views \cup {Element(v, idx)} /\ call'.op = "none"
         /\ UNCHANGED <<cache, access>>
    BY DEF GetElement, NotWaiting
  <1> QED BY <1>7, <1>8, <1>9, <1>10, HandleInside

LEMMA StepInside ==
  ASSUME ViewsIInv, LayoutIInv, InsideIInv, [ViewsNext]_viewvars
  PROVE  InsideIInv'
  <1>1. CASE Compile /\ UNCHANGED <<views, call, access>>
    BY <1>1, CompileInside
  <1>2. ASSUME NEW s \in 1 .. Len(schemas) + 1, AskSchema(s)
        PROVE  InsideIInv'
    BY <1>2, InsideStays DEF AskSchema, Request, NotWaiting
  <1>3. ASSUME NEW s \in 1 .. Len(schemas) + 1, NEW op \in {"view", "union", "array"},
               NEW base \in Bases, NEW count \in 0 .. MaxCount, Make(op, s, base, count)
        PROVE  InsideIInv'
    BY <1>3, InsideStays DEF Make, Request
  <1>4. CASE RefuseHandle \/ GiveUp \/ RefuseAccess
    <2>1. UNCHANGED <<cache, views, access>> /\ call'.op = "none"
      BY <1>4, NoCallType DEF RefuseHandle, GiveUp, RefuseAccess, NotWaiting, vars
    <2> QED BY <2>1, InsideStays
  <1>5. ASSUME NEW v \in views, NEW k \in DOMAIN schemas[v.schema].fields, GetOrSet(v, k)
        PROVE  InsideIInv'
    <2>1. Inside(Bytes(FieldAddress(v, k), cache[v.schema].fields[k].size), v.region)
      BY <1>5, FieldFits DEF GetOrSet, Finds
    <2> QED BY <1>5, <2>1 DEF GetOrSet, NotWaiting, InsideIInv, ViewsInside, AccessInside
  <1>6. CASE UNCHANGED viewvars
    BY <1>6 DEF viewvars, InsideIInv, ViewsInside, AccessInside
  <1> QED BY <1>1, <1>2, <1>3, <1>4, <1>5, <1>6, MakeHandleInside, GetStructInside,
             GetElementInside DEF ViewsNext

-----------------------------------------------------------------------------
(* Theorems *)

(* ViewsIInv holds in every reachable state, for any number of handles. *)
THEOREM ViewsInductive == ViewsSpec => []ViewsIInv
  <1>1. ViewsInit => ViewsIInv
    BY InitViews
  <1>2. ViewsIInv /\ [ViewsNext]_viewvars => ViewsIInv'
    BY StepViews, StutterViews
  <1> QED BY <1>1, <1>2, PTL DEF ViewsSpec

(* Handles, waiting calls and accesses stay in their ranges. *)
THEOREM ViewsTypeCorrect == ViewsSpec => []ViewsTypeOK
  BY ViewsInductive, PTL DEF ViewsIInv

(* For every schema section: once a view is there, no view.get of a struct  *)
(* field of it, at any depth, compiles a schema or lacks one.              *)
THEOREM NestedViewsHit == ViewsSpec => []SubviewsHit
  BY ViewsInductive, PTL DEF ViewsIInv

(* No handle is ever left with a schema that is not in the cache. *)
THEOREM HandlesStayOnCompiled == ViewsSpec => []HandlesOnCompiled
  BY ViewsInductive, PTL DEF ViewsIInv

(* InsideIInv holds wherever no sum of the schema compiler reaches 2^w. *)
THEOREM InsideInductive == ViewsSpec /\ []NothingWraps => []InsideIInv
  <1>1. ViewsInit => LayoutIInv /\ InsideIInv
    BY InitInside
  <1>2. ViewsIInv /\ LayoutIInv /\ NothingWraps /\ [ViewsNext]_viewvars => LayoutIInv'
    BY LayoutsUnderViews
  <1>3. ViewsIInv /\ LayoutIInv /\ InsideIInv /\ [ViewsNext]_viewvars => InsideIInv'
    BY StepInside
  <1> QED BY <1>1, <1>2, <1>3, ViewsInductive, PTL DEF ViewsSpec

(* There, a handle reached through any chain of fields and indices covers   *)
(* only memory the host named at the root of the chain.                    *)
THEOREM HandlesStayInside == ViewsSpec /\ []NothingWraps => []ViewsInside
  BY InsideInductive, PTL DEF InsideIInv

(* There, view.get and view.set touch only such memory. *)
THEOREM AccessesStayInside == ViewsSpec /\ []NothingWraps => []AccessInside
  BY InsideInductive, PTL DEF InsideIInv
=============================================================================
