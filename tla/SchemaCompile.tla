---------------------------- MODULE SchemaCompile ----------------------------
(***************************************************************************)
(* urbc_schema_compile: the layout of a schema, made on first use, kept in  *)
(* the image's cache, and compiled by recursion on the schemas its fields   *)
(* hold by value.  A recursive call is a frame on a stack; the cache tells  *)
(* a schema that some frame is compiling from one that is not.             *)
(***************************************************************************)
EXTENDS Naturals, Sequences

CONSTANTS
  Images,      \* the schema sections: sequences of [kind, fields]
  PointerSize, \* sizeof(void *)
  SizeModulus  \* 2^w for a size_t of w bits

(* Primitive types differ here only by their size, which is their alignment. *)
PrimSizes == {1, 2, 4, 8}

(* A pointer has the size of some integer type, uintptr_t. *)
ASSUME PointerSizeAssumption == PointerSize \in PrimSizes
ASSUME SizeModulusAssumption == SizeModulus \in Nat /\ SizeModulus > PointerSize

(* The bytes of a schema section, before anything is checked of them. *)
RawField == [kind : STRING, prim : Nat, aux : Nat, ref : Nat]
RawSchema == [kind : STRING, fields : Seq(RawField)]
ASSUME ImagesAssumption == Images \subseteq Seq(RawSchema)

VARIABLES
  schemas,  \* the schema section of the loaded image
  cache,    \* cache[s]: the mark "null", "in_progress" or "compiled", and the layout
  stack,    \* the frames of urbc_schema_compile, the outermost first
  at,       \* "call": urbc_schema_compile(arg) is called; "loop": the top frame is
            \* at its loop; "ok", "null": a call has returned that to the top frame,
            \* or to the host when there is none
  arg,      \* the schema of the call that is at "call" or "ok"
  failed    \* rt->failed

vars == <<schemas, cache, stack, at, arg, failed>>

FieldKinds == {"prim", "array", "struct", "pointer"}

(* urbc_schema_validate_field, urbc_schema_build_cache: what a loaded       *)
(* image's fields satisfy.                                                 *)
ValidField(img, f) ==
  /\ f.kind \in FieldKinds
  /\ f.kind \in {"prim", "array"} => f.prim \in PrimSizes
  /\ f.kind = "array" => f.aux > 0
  /\ f.kind = "struct" => f.ref \in DOMAIN img
ValidImage(img) ==
  \A s \in DOMAIN img :
    /\ img[s].kind \in {"struct", "union"}
    /\ \A k \in DOMAIN img[s].fields : ValidField(img, img[s].fields[k])

Unmarked == [mark |-> "null", fields |-> <<>>, align |-> 0, size |-> 0]

Init ==
  /\ schemas \in {img \in Images : ValidImage(img)}
  /\ cache = [s \in DOMAIN schemas |-> Unmarked]
  /\ stack = <<>>
  /\ at = "ok"
  /\ arg = 0
  /\ failed = FALSE

-----------------------------------------------------------------------------

IsCompiled(s) == cache[s].mark = "compiled"

Wrap(n) == n % SizeModulus
(* A slip: no rounding. *)
NoAlign(n, al) == n

AlignUp(n, al) == Wrap(((n + al - 1) \div al) * al)
Larger(a, b) == IF a > b THEN a ELSE b

Idle == stack = <<>> /\ at \in {"ok", "null"}
Top == stack[Len(stack)]
Below == SubSeq(stack, 1, Len(stack) - 1)
FieldsLeft == Len(Top.fields) < Len(schemas[Top.schema].fields)
NextField == schemas[Top.schema].fields[Len(Top.fields) + 1]
Looping(kinds) == at = "loop" /\ FieldsLeft /\ NextField.kind \in kinds

(* The API and the ops call urbc_schema_compile with any index, failed     *)
(* being clear.                                                            *)
Request(s) ==
  /\ Idle
  /\ at' = "call" /\ arg' = s /\ failed' = FALSE
  /\ UNCHANGED <<schemas, cache, stack>>

(* A slip: NULL without a failure. *)
ReturnNullSilently == at' = "null" /\ UNCHANGED failed

(* urbc_runtime_fail, and NULL to the caller. *)
ReturnNull == at' = "null" /\ failed' = TRUE

(* An index out of range, a schema that a frame below is compiling, or no   *)
(* memory for a schema not compiled yet.                                   *)
Refuse ==
  /\ at = "call"
  /\ arg \in DOMAIN schemas => ~IsCompiled(arg)
  /\ ReturnNull
  /\ UNCHANGED <<schemas, cache, stack, arg>>

CacheHit ==
  /\ at = "call"
  /\ arg \in DOMAIN schemas /\ IsCompiled(arg)
  /\ at' = "ok"
  /\ UNCHANGED <<schemas, cache, stack, arg, failed>>

NewFrame(s) ==
  Append(stack, [schema |-> s, fields |-> <<>>, offset |-> 0, max_align |-> 1, max_size |-> 0])

(* A slip: a compiled schema is compiled again. *)
BeginAgain ==
  /\ at = "call"
  /\ arg \in DOMAIN schemas /\ cache[arg].mark # "in_progress"
  /\ cache' = [cache EXCEPT ![arg].mark = "in_progress"]
  /\ stack' = NewFrame(arg)
  /\ at' = "loop"
  /\ UNCHANGED <<schemas, arg, failed>>

Begin ==
  /\ at = "call"
  /\ arg \in DOMAIN schemas /\ cache[arg].mark = "null"
  /\ cache' = [cache EXCEPT ![arg].mark = "in_progress"]
  /\ stack' = NewFrame(arg)
  /\ at' = "loop"
  /\ UNCHANGED <<schemas, arg, failed>>

(* The end of the loop's body: the next field has this size and alignment. *)
Place(size, align) ==
  LET union == schemas[Top.schema].kind = "union"
      place == IF union THEN 0 ELSE AlignUp(Top.offset, align)
  IN stack' = Append(Below,
       [Top EXCEPT !.fields = Append(@, [offset |-> place, size |-> size, align |-> align]),
                   !.max_align = Larger(@, align),
                   !.max_size = IF union THEN Larger(@, size) ELSE @,
                   !.offset = IF union THEN @ ELSE Wrap(place + size)])

LayField ==
  /\ Looping({"prim", "array", "pointer"})
  /\ LET f == NextField IN
     CASE f.kind = "prim" -> Place(f.prim, f.prim)
       [] f.kind = "array" -> Place(Wrap(f.prim * f.aux), f.prim)
       [] f.kind = "pointer" -> Place(PointerSize, PointerSize)
  /\ UNCHANGED <<schemas, cache, at, arg, failed>>

CompileField ==
  /\ Looping({"struct"})
  /\ at' = "call" /\ arg' = NextField.ref
  /\ UNCHANGED <<schemas, cache, stack, failed>>

TakeSubschema ==
  /\ at = "ok" /\ stack # <<>>
  /\ Place(cache[arg].size, cache[arg].align)
  /\ at' = "loop"
  /\ UNCHANGED <<schemas, cache, arg, failed>>

Finish ==
  /\ at = "loop" /\ ~FieldsLeft
  /\ LET s == Top.schema
         end == IF schemas[s].kind = "union" THEN Top.max_size ELSE Top.offset
     IN /\ cache' = [cache EXCEPT ![s] =
                       [mark |-> "compiled", fields |-> Top.fields, align |-> Top.max_align,
                        size |-> AlignUp(end, Top.max_align)]]
        /\ arg' = s
  /\ stack' = Below
  /\ at' = "ok"
  /\ UNCHANGED <<schemas, failed>>

(* Two slips: the field is tried again; NULL is not looked for, and the     *)
(* field takes no room.                                                    *)
UnwindRetries ==
  /\ at = "null" /\ stack # <<>>
  /\ at' = "loop"
  /\ UNCHANGED <<schemas, cache, stack, arg, failed>>

UnwindIgnored ==
  /\ at = "null" /\ stack # <<>>
  /\ Place(0, 1)
  /\ at' = "loop"
  /\ UNCHANGED <<schemas, cache, arg, failed>>

(* fail: free what the frame has, forget the schema, and fail in turn. *)
Unwind ==
  /\ at = "null" /\ stack # <<>>
  /\ cache' = [cache EXCEPT ![Top.schema].mark = "null"]
  /\ stack' = Below
  /\ ReturnNull
  /\ UNCHANGED <<schemas, arg>>

Compile ==
  Refuse \/ CacheHit \/ Begin \/ LayField \/ CompileField \/ TakeSubschema \/ Finish \/ Unwind

(* One past the last schema stands for every index out of range. *)
Next == Compile \/ \E s \in 1 .. Len(schemas) + 1 : Request(s)

Spec == Init /\ [][Next]_vars

(* The compiler is plain sequential code: once called it runs. *)
FairSpec == Spec /\ WF_vars(Compile)

-----------------------------------------------------------------------------
(* Properties *)

Field == [offset : Nat, size : Nat, align : Nat \ {0}]
Frame == [schema : DOMAIN schemas, fields : Seq(Field),
          offset : Nat, max_align : Nat \ {0}, max_size : Nat]
Marks == {"null", "in_progress", "compiled"}

TypeOK ==
  /\ schemas \in Seq(RawSchema) /\ ValidImage(schemas)
  /\ cache \in [DOMAIN schemas -> [mark : Marks, fields : Seq(Field), align : Nat, size : Nat]]
  /\ stack \in Seq(Frame)
  /\ at \in {"call", "loop", "ok", "null"}
  /\ arg \in Nat
  /\ failed \in BOOLEAN

(* A schema is marked as in progress exactly while a frame compiles it, and *)
(* no schema has two frames: whatever call fails, at whatever depth, no    *)
(* mark outlives the recursion to refuse the schema for ever after.        *)
MarksAreFrames ==
  /\ \A s \in DOMAIN schemas :
       cache[s].mark = "in_progress" <=> \E k \in DOMAIN stack : stack[k].schema = s
  /\ \A j, k \in DOMAIN stack : stack[j].schema = stack[k].schema => j = k

(* A compiled schema holds by value only compiled schemas, and has the size *)
(* its fields then had: recursion by value never gets into the cache.      *)
CompiledOnCompiled ==
  \A s \in DOMAIN schemas : IsCompiled(s) =>
    \A k \in DOMAIN schemas[s].fields :
      LET f == schemas[s].fields[k] IN
      f.kind = "struct" =>
        /\ f.ref # s /\ IsCompiled(f.ref)
        /\ cache[s].fields[k].size = cache[f.ref].size

(* "Structs: fields are aligned one by one, offsets increase.  Unions:      *)
(* every field offset is 0" (docs/BYTECODE.md, section 3.3): the fields of  *)
(* a compiled schema are aligned, lie inside it, and those of a struct do   *)
(* not overlap; its size keeps an array of it aligned.                     *)
LaidOut(s) ==
  LET fields == cache[s].fields IN
  /\ cache[s].size % cache[s].align = 0
  /\ \A k \in DOMAIN fields :
       /\ fields[k].offset % fields[k].align = 0
       /\ cache[s].align % fields[k].align = 0
       /\ fields[k].offset + fields[k].size <= cache[s].size
       /\ IF schemas[s].kind = "union"
            THEN fields[k].offset = 0
            ELSE \A j \in 1 .. k - 1 :
                   fields[j].offset + fields[j].size <= fields[k].offset
LayoutsAreSound == \A s \in DOMAIN schemas : IsCompiled(s) => LaidOut(s)

(* The request returns NULL exactly when it has failed the runtime.  (The    *)
(* NULL of urbc_schema.c:205, of a runtime without an image, fails nothing:  *)
(* schemas are asked for here while an image is bound, as every caller does.) *)
NullIsReported == at \in {"ok", "null"} => (at = "null" <=> failed)

(* Views keep a pointer to their compiled schema: it never moves or changes. *)
CompiledIsFinal == [][\A s \in DOMAIN schemas : IsCompiled(s) => cache'[s] = cache[s]]_vars

(* Every request returns, on recursive schemas too. *)
RequestsReturn == at = "call" ~> Idle

-----------------------------------------------------------------------------
(* The inductive invariant *)

(* A caller that has a result has the schema it asked for. *)
ResultFits ==
  /\ at = "null" <=> failed
  /\ at = "loop" => stack # <<>>
  /\ at = "ok" /\ stack # <<>> => arg \in DOMAIN schemas /\ IsCompiled(arg)
  /\ \A s \in DOMAIN schemas : IsCompiled(s) => cache[s].align > 0

AwaitsSchema(frame, s) ==
  LET todo == Len(frame.fields) + 1 IN
  /\ todo \in DOMAIN schemas[frame.schema].fields
  /\ schemas[frame.schema].fields[todo].kind = "struct"
  /\ schemas[frame.schema].fields[todo].ref = s

(* Each frame waits for the schema of the frame above it, the top frame     *)
(* for that of the call it has made.                                       *)
FramesChain ==
  /\ \A k \in DOMAIN stack :
       k < Len(stack) => AwaitsSchema(stack[k], stack[k + 1].schema)
  /\ stack # <<>> /\ at \in {"call", "ok"} => AwaitsSchema(Top, arg)

(* What a frame has laid out by value is compiled, with that size. *)
FramesOnCompiled ==
  \A k \in DOMAIN stack :
    LET frame == stack[k] IN
    \A j \in DOMAIN frame.fields :
      /\ j \in DOMAIN schemas[frame.schema].fields
      /\ LET f == schemas[frame.schema].fields[j] IN
         f.kind = "struct" =>
           IsCompiled(f.ref) /\ frame.fields[j].size = cache[f.ref].size

IInv ==
  /\ TypeOK
  /\ ResultFits
  /\ MarksAreFrames
  /\ FramesChain
  /\ FramesOnCompiled
  /\ CompiledOnCompiled

-----------------------------------------------------------------------------
(* Layouts that fit a size_t *)

(* The hypothesis of LayoutsAreSound: the sums and the rounding of the next *)
(* step stay below 2^w.  Nothing in the code sees to it.                   *)
NothingWraps ==
  /\ Looping({"prim", "array", "pointer"}) =>
       LET f == NextField
           align == IF f.kind = "pointer" THEN PointerSize ELSE f.prim
           size == IF f.kind = "array" THEN f.prim * f.aux ELSE align
       IN Top.offset + align - 1 + size < SizeModulus
  /\ at = "ok" /\ stack # <<>> =>
       Top.offset + cache[arg].align - 1 + cache[arg].size < SizeModulus
  /\ at = "loop" /\ ~FieldsLeft =>
       Larger(Top.offset, Top.max_size) + Top.max_align - 1 < SizeModulus

(* What a frame has laid out is as LaidOut asks, up to where it has got. *)
FrameLaid(frame) ==
  /\ frame.max_align \in PrimSizes
  /\ \A k \in DOMAIN frame.fields :
       LET f == frame.fields[k] IN
       /\ f.align \in PrimSizes /\ f.align <= frame.max_align
       /\ f.offset % f.align = 0
       /\ IF schemas[frame.schema].kind = "union"
            THEN f.offset = 0 /\ f.size <= frame.max_size
            ELSE /\ f.offset + f.size <= frame.offset
                 /\ \A j \in 1 .. k - 1 :
                      frame.fields[j].offset + frame.fields[j].size <= f.offset

(* The inductive invariant of LayoutsAreSound, over IInv and NothingWraps. *)
LayoutIInv ==
  /\ \A k \in DOMAIN stack : FrameLaid(stack[k])
  /\ \A s \in DOMAIN schemas : IsCompiled(s) => cache[s].align \in PrimSizes
  /\ LayoutsAreSound
=============================================================================
