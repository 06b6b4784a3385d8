------------------------------- MODULE Bindgen -------------------------------
(***************************************************************************)
(* urb-bindgen (bindgen/src/main.cpp): the declarations of a header, as     *)
(* libclang shows them, are collected one by one into tables of records,   *)
(* enums and functions, and then the tables are printed, as JSON or as a    *)
(* Node or Lua wrapper.  Printing follows fields into the records they      *)
(* name.                                                                    *)
(*                                                                         *)
(* A C type is [k |-> "int"], [k |-> "pointer", to |-> t], ...; names are    *)
(* numbers, in the order the program sorts them, and 0 is no name.  The     *)
(* tables keep the C type: Kind is what the program makes of it.  The text   *)
(* around the references that the output makes is left out.                *)
(***************************************************************************)
EXTENDS Integers, Sequences, FiniteSets, SequencesExt, FiniteSetsExt

CONSTANTS
  CTypes,   \* the C types of the headers
  Depth(_), \* how deep a type is
  Headers,  \* headers: decls in order, and the body and tag of each record
  Modes     \* what is emitted: "json", "node", "lua"

-----------------------------------------------------------------------------
(* Types *)

(* buildTypeInfo: the kind of the TypeInfo. *)
Kind(t) ==
  CASE t.k \in {"int", "char"} -> "primitive"
    [] t.k \in {"void", "enum", "record", "function"} -> t.k
    [] t.k = "pointer" -> IF t.to.k = "char" THEN "cstring" ELSE "pointer"
    [] t.k = "array" /\ t.of.k \in {"int", "char", "enum"} -> "array"
    [] OTHER -> "unsupported"  \* long double, an array without a size or of others

(* What it points at is kept. *)
HasPointee(t) == Kind(t) = "pointer" /\ Kind(t.to) \notin {"unsupported", "void"}

(* The types buildTypeInfo builds on the way. *)
Contents(t) ==
  CASE t.k = "pointer" /\ t.to.k # "char" -> <<t.to>>
    [] t.k = "array" -> <<t.of>>
    [] t.k = "function" -> t.types
    [] OTHER -> <<>>

Address == [k |-> "pointer", to |-> [k |-> "void"]]
Text == [k |-> "pointer", to |-> [k |-> "char"]]

OfTexts[t \in CTypes] == Kind(t) = "cstring" \/ (t.k = "array" /\ OfTexts[t.of])

(* buildTypeInfo of a parameter (TypeUse::FunctionParam), which libclang     *)
(* gives as it is declared: one that is a function stays one, and an array   *)
(* is a pointer with nothing known behind it.  An array of texts is a text.  *)
(* (The parameters of a function's type within a type are pointers already:  *)
(* it is the canonical type that has them.)                                *)
Parameter(t) ==
  CASE t.k = "array" -> IF OfTexts[t.of] THEN Text ELSE Address
    [] t.k = "open array" -> Address
    [] OTHER -> t

(* What a function returns, and takes. *)
Signature(types) == [i \in DOMAIN types |-> IF i = 1 THEN types[1] ELSE Parameter(types[i])]

(* The types a declaration at the top level has built. *)
Needs(d) ==
  CASE d.what = "function" -> IF d.external THEN d.types ELSE <<>>
    [] d.what \in {"record", "enum"} -> <<[k |-> d.what, key |-> d.key]>>
    [] d.what = "typedef" -> IF d.type.k \in {"record", "enum"} THEN <<d.type>> ELSE <<>>

(* A C type is a finite tree: it ends in names of records. *)
ASSUME CTypesAssumption ==
  \A t \in CTypes :
    /\ Depth(t) \in Nat
    /\ Contents(t) \in Seq(CTypes)
    /\ \A c \in Range(Contents(t)) : Depth(c) < Depth(t)
    /\ Kind(t) = "array" => t.count \in Nat

ASSUME ParametersAssumption == {Address, Text} \subseteq CTypes

(* All that is named is declared, and a name is a record's or an enum's.     *)
(* What a record holds by value is complete before it is.                  *)
IsHeader(h) ==
  /\ h.decls \in Seq(Range(h.decls))
  /\ \A d \in Range(h.decls) :
       /\ Needs(d) \in Seq(CTypes)
       /\ d.what = "typedef" => d.alias \in Nat
       /\ d.what = "function" => d.types # <<>>
  /\ IsFiniteSet(DOMAIN h.body) /\ DOMAIN h.body \subseteq Nat \ {0}
  /\ \A key \in DOMAIN h.body : h.body[key].fields \in Seq([flaw : STRING, type : CTypes])
  /\ \A key \in DOMAIN h.tag : h.tag[key] \in Nat
  /\ \E rank \in [DOMAIN h.body -> 0 .. Cardinality(DOMAIN h.body)] :
       \A key \in DOMAIN h.body : \A field \in Range(h.body[key].fields) :
         field.type.k = "record" => rank[field.type.key] < rank[key]
  /\ \A t \in CTypes :
       /\ t.k \in {"record", "enum"} => t.key \in DOMAIN h.tag
       /\ t.k = "record" => t.key \in DOMAIN h.body
       /\ t.k = "enum" => t.key \notin DOMAIN h.body

ASSUME HeadersAssumption == \A h \in Headers : IsHeader(h)

-----------------------------------------------------------------------------
VARIABLES
  header,
  mode,       \* options_.emit
  phase,      \* "parse", "collect", "build", "print"; or how it ended: "refused",
              \* "failed", "overflowed", "done"
  next,       \* declarations collected, and one
  building,   \* the records being built, innermost last, and the types they, or
              \* the declaration, have yet to build
  table,      \* recordsByKey_ and enumsByKey_
  exported,   \* exportedRecordKeys_ and exportedEnumKeys_
  aliases,    \* recordAliases_, enumAliases_: pairs of a type and a name
  functions,  \* functionsByKey_
  output,     \* the parts of the output still to be printed
  stack,      \* the part being printed: what its types contain, innermost last
  printed     \* the references and the nulls printed

tables == <<table, exported, aliases, functions>>
printing == <<output, stack, printed>>
bindvars == <<header, mode, phase, next, building, tables, printing>>

NoName == 0
NoKey == 0

(* The function f, with v at key. *)
With(f, key, v) == [k \in DOMAIN f \cup {key} |-> IF k = key THEN v ELSE f[k]]

-----------------------------------------------------------------------------
(* What libclang answers *)

Decls == header.decls
Body(key) == header.body[key]
Tag(key) == header.tag[key]

(* clang_getCanonicalCursor is the first declaration, and only a definition *)
(* has fields.  So a record declared before it is defined is incomplete.    *)
IsDefinition(key) ==
  LET first == CHOOSE i \in DOMAIN Decls :
                 /\ Decls[i].what = "record" /\ Decls[i].key = key
                 /\ \A j \in 1 .. i - 1 : ~(Decls[j].what = "record" /\ Decls[j].key = key)
  IN Decls[first].defines

-----------------------------------------------------------------------------
(* Collecting: a declaration at the top level is visited, the types it needs *)
(* are built, and then it is entered.                                      *)

Init ==
  /\ header \in Headers /\ mode \in Modes
  /\ phase = "parse" /\ next = 1 /\ building = <<>>
  /\ table = [records |-> <<>>, enums |-> {}]
  /\ exported = {} /\ aliases = {} /\ functions = <<>>
  /\ output = {} /\ stack = <<>> /\ printed = {}

(* parseTranslationUnit: a header with an error is refused. *)
Parse ==
  /\ phase = "parse"
  /\ phase' = IF header.broken THEN "refused" ELSE "collect"
  /\ UNCHANGED <<header, mode, next, building, tables, printing>>

(* A declaration of a file that an input header includes is not visited. *)
SkipOther ==
  /\ phase = "collect" /\ next <= Len(Decls) /\ ~Decls[next].target
  /\ next' = next + 1
  /\ UNCHANGED <<header, mode, phase, building, tables, printing>>

Visit ==
  /\ phase = "collect" /\ next <= Len(Decls) /\ Decls[next].target
  /\ phase' = "build"
  /\ building' = <<[key |-> NoKey, types |-> Needs(Decls[next])]>>
  /\ UNCHANGED <<header, mode, next, tables, printing>>

Innermost == building[Len(building)]
Built == Head(Innermost.types)
BuildingType == phase = "build" /\ building # <<>> /\ Innermost.types # <<>>

(* What is in a type is built before its neighbour. *)
Onward == [key |-> Innermost.key, types |-> Contents(Built) \o Tail(Innermost.types)]

InTable(t) == t.k = "record" => t.key \in DOMAIN table.records

(* buildTypeInfo, buildEnum, and buildRecord of a record that is there, if   *)
(* only just.                                                              *)
BuildType ==
  /\ BuildingType /\ InTable(Built)
  /\ building' = Append(Front(building), Onward)
  /\ table' = IF Built.k = "enum" THEN [table EXCEPT !.enums = @ \cup {Built.key}] ELSE table
  /\ UNCHANGED <<header, mode, phase, next, exported, aliases, functions, printing>>

(* A slip: the fields are kept, and their types not built. *)
NothingToBuild(key) == <<>>

(* Only a complete record has its fields visited. *)
FieldsOf(key) == IF IsDefinition(key) THEN Body(key).fields ELSE <<>>
TypesToBuild(key) == [i \in DOMAIN FieldsOf(key) |-> FieldsOf(key)[i].type]

(* buildRecord: the entry is there before its fields are built, so that     *)
(* they may name it.                                                       *)
BuildRecord ==
  /\ BuildingType /\ ~InTable(Built)
  /\ building' = Front(building) \o <<Onward, [key |-> Built.key, types |-> TypesToBuild(Built.key)]>>
  /\ table' = [table EXCEPT !.records =
       With(@, Built.key, [complete |-> IsDefinition(Built.key), fields |-> <<>>])]
  /\ UNCHANGED <<header, mode, phase, next, exported, aliases, functions, printing>>

(* The record has its fields. *)
EndRecord ==
  /\ phase = "build" /\ building # <<>> /\ Innermost.types = <<>>
  /\ building' = Front(building)
  /\ table' = IF Innermost.key = NoKey THEN table
              ELSE [table EXCEPT !.records[Innermost.key].fields = FieldsOf(Innermost.key)]
  /\ UNCHANGED <<header, mode, phase, next, exported, aliases, functions, printing>>

Visited(what) ==
  /\ phase = "build" /\ building = <<>>
  /\ Decls[next].what = what
  /\ phase' = "collect" /\ next' = next + 1
  /\ UNCHANGED <<header, mode, building, table, printing>>

Direct == {"primitive", "void", "pointer", "cstring", "enum"}

(* collectFunction; makeSignature succeeds if every type is one word. *)
CollectFunction ==
  /\ Visited("function")
  /\ LET d == Decls[next] IN
     functions' = IF ~d.external THEN functions
                  ELSE With(functions, d.key,
                            [types |-> Signature(d.types), variadic |-> d.variadic,
                             supported |-> \A t \in Range(Signature(d.types)) : Kind(t) \in Direct])
  /\ UNCHANGED <<exported, aliases>>

Export(key) == exported' = IF Tag(key) = NoName THEN exported ELSE exported \cup {key}

CollectRecord ==
  /\ Visited("record")
  /\ Export(Decls[next].key)
  /\ UNCHANGED <<aliases, functions>>

CollectEnum ==
  /\ Visited("enum")
  /\ Export(Decls[next].key)
  /\ UNCHANGED <<aliases, functions>>

(* A slip: only what has a tag is exported. *)
TypedefNames ==
  /\ Visited("typedef")
  /\ LET d == Decls[next] IN
     IF d.type.k \notin {"record", "enum"} THEN UNCHANGED aliases
     ELSE aliases' = aliases \cup {<<d.type.key, d.alias>>}
  /\ UNCHANGED <<exported, functions>>

(* collectTypedef: the alias of a record or an enum exports it. *)
CollectTypedef ==
  /\ Visited("typedef")
  /\ LET d == Decls[next] IN
     IF d.type.k \notin {"record", "enum"} THEN UNCHANGED <<exported, aliases>>
     ELSE /\ exported' = exported \cup {d.type.key}
          /\ aliases' = aliases \cup {<<d.type.key, d.alias>>}
  /\ UNCHANGED functions

-----------------------------------------------------------------------------
(* What may be printed *)

(* namesForRecord, namesForEnum *)
NamesOf(key) ==
  ({Tag(key)} \ {NoName}) \cup {a[2] : a \in {x \in aliases : x[1] = key}}

(* preferredRecordName, preferredEnumName: the first in order.  (The spelling *)
(* they fall back to is one only an anonymous member has, "(anonymous ...":  *)
(* no function takes that, and checkSchemaRecord says no to its record.)    *)
Preferred(key) == IF NamesOf(key) = {} THEN NoName ELSE Min(NamesOf(key))

Keys == DOMAIN table.records
Fields(key) == table.records[key].fields

(* The records that checkSchemaRecord, with checkSchemaType of each field,   *)
(* accepts within the records of path: flaw is "anonymous", "reserved",     *)
(* "bitfield" or "none".                                                   *)
SchemaRecords[path \in SUBSET Keys] ==
  {key \in Keys \ path :
     /\ table.records[key].complete
     /\ \A field \in Range(Fields(key)) :
          /\ field.flaw = "none"
          /\ Kind(field.type) \in Direct \cup {"array", "record"}
          /\ Kind(field.type) = "record" => field.type.key \in SchemaRecords[path \cup {key}]}

(* directDescriptorCompatibleType: below a pointer only functions are looked at. *)
DirectDescriptor[t \in CTypes] ==
  /\ Kind(t) # "unsupported"
  /\ Kind(t) = "pointer" /\ Kind(t.to) = "function" => DirectDescriptor[t.to]
  /\ Kind(t) = "record" => t.key \in SchemaRecords[{}]
  /\ Kind(t) = "function" => \A i \in DOMAIN t.types : DirectDescriptor[t.types[i]]

(* A slip: a record by value need only be known. *)
RichIfKnown(fn) ==
  /\ ~fn.supported /\ ~fn.variadic
  /\ \A i \in DOMAIN fn.types :
       Kind(fn.types[i]) = "record" \/ DirectDescriptor[fn.types[i]]

(* classifyCallable: called through a descriptor, not through a signature. *)
Rich(fn) ==
  /\ ~fn.supported /\ ~fn.variadic
  /\ \A i \in DOMAIN fn.types :
       /\ DirectDescriptor[fn.types[i]]
       /\ Kind(fn.types[i]) = "record" => Preferred(fn.types[i].key) # NoName

RichFunctions == {f \in DOMAIN functions : Rich(functions[f])}
Callable == {f \in DOMAIN functions : functions[f].supported} \cup RichFunctions

(* The tables of the output: RECORDS (of the records a schema can express)  *)
(* and ENUMS, as pairs of a name and what it names.                        *)
Named(keys) == UNION {{<<n, key>> : n \in NamesOf(key)} : key \in keys}
ExportedRecords == exported \cap Keys
PrintedRecords == Named(exported \cap SchemaRecords[{}])
PrintedEnums == Named(exported \cap table.enums)

-----------------------------------------------------------------------------
(* Printing: one type at a time, what it contains on top of the rest.       *)
(* A frame is the types of a record, a function, a pointer still to print;   *)
(* it is below if a pointer is between it and what a call takes by value,    *)
(* the pointers to functions that a function takes left out.                *)

Frame(style, key, below, types) ==
  [style |-> style, key |-> key, below |-> below, types |-> types]

FieldTypes(key) == [i \in DOMAIN Fields(key) |-> Fields(key)[i].type]
RecordFrame(style, key, below) == Frame(style, key, below, FieldTypes(key))

(* emitNodeFieldType, emitLuaField: a schema follows a pointer to a record. *)
SchemaFrames(t, below) ==
  CASE Kind(t) = "record" -> <<RecordFrame("schema", t.key, below)>>
    [] Kind(t) = "pointer" /\ Kind(t.to) = "record" -> <<RecordFrame("schema", t.to.key, below)>>
    [] OTHER -> <<>>

(* emitNodeAbiType, emitLuaAbiType: a descriptor follows every pointer. *)
AbiFrames(t, below) ==
  CASE Kind(t) = "record" -> <<RecordFrame("abi", t.key, below)>>
    [] HasPointee(t) -> <<Frame("abi", NoKey, below, <<t.to>>)>>
    [] Kind(t) = "function" -> <<Frame("abi", NoKey, below, t.types)>>
    [] OTHER -> <<>>

(* A slip: the fields of a record as well. *)
JsonWhole(t, below) ==
  CASE Kind(t) = "record" -> <<RecordFrame("json", t.key, below)>>
    [] HasPointee(t) -> <<Frame("json", NoKey, below, <<t.to>>)>>
    [] OTHER -> <<>>

(* emitJsonTypeSummary: of a record, only the name. *)
JsonFrames(t, below) ==
  CASE HasPointee(t) -> <<Frame("json", NoKey, below, <<t.to>>)>>
    [] Kind(t) = "function" -> <<Frame("json", NoKey, below, t.types)>>
    [] OTHER -> <<>>

Contained(style, t, below) ==
  CASE style = "schema" -> SchemaFrames(t, below)
    [] style = "abi" -> AbiFrames(t, below)
    [] style = "json" -> JsonFrames(t, below)

(* An array is printed with its element, a primitive or an enum. *)
Element(t) == IF Kind(t) = "array" THEN t.of ELSE t

(* What the output refers to by name, and what it says instead of a type it *)
(* has not (null, nil, unsupported).                                       *)
Written(style, t, below) ==
  CASE Kind(Element(t)) = "enum" /\ style = "abi" /\ Preferred(Element(t).key) # NoName ->
         {[to |-> "enum", name |-> Preferred(Element(t).key), key |-> Element(t).key]}
    [] Kind(t) = "unsupported" /\ style # "json" -> {[to |-> "null", below |-> below]}
    [] OTHER -> {}

(* The wrappers of a function refer to the schemas of its records. *)
WrapperReferences(f) ==
  {[to |-> "record", name |-> Preferred(t.key), key |-> t.key] :
     t \in {u \in Range(functions[f].types) : Kind(u) = "record"}}

Part(of, name, key) == [of |-> of, name |-> name, key |-> key]
FunctionParts(fs) == {Part("function", f, f) : f \in fs}

(* emitJson prints every table as it is. *)
JsonOutput ==
  {Part("record", key, key) : key \in ExportedRecords} \cup FunctionParts(DOMAIN functions)

(* emitNode and emitLua: RECORDS, with each name of a record, and functions. *)
WrapperOutput ==
  {Part("record", r[1], r[2]) : r \in PrintedRecords} \cup FunctionParts(RichFunctions)

FirstFrame(part) ==
  CASE part.of = "record" /\ mode = "json" -> Frame("json", NoKey, FALSE, FieldTypes(part.key))
    [] part.of = "record" /\ mode # "json" -> RecordFrame("schema", part.key, FALSE)
    [] part.of = "function" ->
         Frame(IF mode = "json" THEN "json" ELSE "abi", NoKey, FALSE, functions[part.key].types)

(* Records come before functions, and each in the order of the names. *)
Before(p, q) ==
  \/ p.of = "record" /\ q.of = "function"
  \/ p.of = q.of /\ p.name < q.name
First(part) == part \in output /\ \A other \in output : ~Before(other, part)

(* emitOutput, called once everything is collected. *)
BeginOutput ==
  /\ phase = "collect" /\ next > Len(Decls)
  /\ phase' = "print"
  /\ IF mode = "json" THEN output' = JsonOutput /\ UNCHANGED printed
     ELSE /\ output' = WrapperOutput
          /\ printed' = UNION {WrapperReferences(f) : f \in RichFunctions}
  /\ UNCHANGED <<header, mode, next, building, tables, stack>>

(* A slip: the loop stays where it is. *)
SamePart ==
  /\ phase = "print" /\ stack = <<>>
  /\ \E part \in output : First(part) /\ stack' = <<FirstFrame(part)>>
  /\ UNCHANGED <<header, mode, phase, next, building, tables, output, printed>>

NextPart ==
  /\ phase = "print" /\ stack = <<>>
  /\ \E part \in output :
       /\ First(part)
       /\ stack' = <<FirstFrame(part)>>
       /\ output' = output \ {part}
  /\ UNCHANGED <<header, mode, phase, next, building, tables, printed>>

(* Nothing looks at the path: a record inside itself is printed again, and   *)
(* so on.  Once more records are open than there are, the calls have no end. *)
Open == {i \in DOMAIN stack : stack[i].key # NoKey}
StackIsGone == Cardinality(Open) > Cardinality(Keys)

Top == stack[Len(stack)]
PrintedType == Head(Top.types)
Beneath == Top.below \/ (Kind(PrintedType) = "pointer" /\ (Open # {} \/ Kind(PrintedType.to) # "function"))

PrintType ==
  /\ phase = "print" /\ stack # <<>> /\ Top.types # <<>> /\ ~StackIsGone
  /\ stack' = Append(Front(stack), Frame(Top.style, Top.key, Top.below, Tail(Top.types)))
               \o Contained(Top.style, PrintedType, Beneath)
  /\ printed' = printed \cup Written(Top.style, PrintedType, Top.below)
  /\ UNCHANGED <<header, mode, phase, next, building, tables, output>>

EndFrame ==
  /\ phase = "print" /\ stack # <<>> /\ Top.types = <<>> /\ ~StackIsGone
  /\ stack' = Front(stack)
  /\ UNCHANGED <<header, mode, phase, next, building, tables, output, printed>>

Overflow ==
  /\ phase = "print" /\ StackIsGone
  /\ phase' = "overflowed"
  /\ UNCHANGED <<header, mode, next, building, tables, printing>>

(* run: the text is whole before the file is opened.  (No function is       *)
(* shimmed, so emitShimSource gives no text.)                              *)
WriteOutput ==
  /\ phase = "print" /\ stack = <<>> /\ output = {}
  /\ phase' \in {"done", "failed"}
  /\ UNCHANGED <<header, mode, next, building, tables, printing>>

BindgenStep ==
  \/ Parse \/ SkipOther \/ Visit \/ BuildType \/ BuildRecord \/ EndRecord
  \/ CollectFunction \/ CollectRecord \/ CollectEnum \/ CollectTypedef
  \/ BeginOutput \/ NextPart \/ PrintType \/ EndFrame \/ Overflow \/ WriteOutput

-----------------------------------------------------------------------------
(* Properties *)

Ended == phase \in {"refused", "failed", "overflowed", "done"}

(* The records and enums a type names. *)
Mentions[t \in CTypes] ==
  IF t.k \in {"record", "enum"} THEN {t.key} ELSE UNION {Mentions[c] : c \in Range(Contents(t))}

Known == Keys \cup table.enums

(* Records that name one another, in either order, are whole once the        *)
(* visit that met the first of them is over: each has every field of its    *)
(* definition, and all they name is in the tables (main.cpp:664).           *)
TablesWhole ==
  phase # "build" =>
    \A key \in Keys :
      /\ table.records[key].complete => Len(Fields(key)) = Len(Body(key).fields)
      /\ \A i \in DOMAIN Fields(key) : Mentions[Fields(key)[i].type] \subseteq Known

(* In the header: a declaration of an input file gives the type a name. *)
Exports(d, key) ==
  \/ d.what \in {"record", "enum"} /\ d.key = key /\ Tag(key) # NoName
  \/ d.what = "typedef" /\ d.type.k \in {"record", "enum"} /\ d.type.key = key
NamedInTarget(key) == \E d \in Range(Decls) : d.target /\ Exports(d, key)

(* C keeps tags and typedef names apart: two records may share a name. *)
HoldersOf(name) ==
  {key \in DOMAIN header.tag : Tag(key) = name}
  \cup {d.type.key : d \in {x \in Range(Decls) :
         x.what = "typedef" /\ x.type.k \in {"record", "enum"} /\ x.alias = name}}
Shared(name) == \E k1, k2 \in HoldersOf(name) : k1 # k2

(* What a wrapper finds under a name is what the function takes, if an       *)
(* input header itself names the type and the name is of one type only:     *)
(* a type of an included header is used and not in the tables (main.cpp:647, *)
(* 1982, 2148).                                                             *)
ReferencesResolve ==
  phase = "done" =>
    \A r \in printed :
      r.to \in {"record", "enum"} /\ NamedInTarget(r.key) /\ ~Shared(r.name) =>
        {p[2] : p \in {q \in PrintedRecords \cup PrintedEnums : q[1] = r.name}} = {r.key}

(* A wrapper is printed only for a call that descriptors can express: where *)
(* the output has null for a type, it is behind a pointer of a record or to   *)
(* data, never in what a function, or a function it is given, takes or       *)
(* returns by value (main.cpp:989, 1200, 1274).                             *)
NullsBehindPointers ==
  \A r \in printed : r.to = "null" => r.below

(* In the header: the records printed within a type. *)
SchemaFollows(t) ==
  CASE t.k = "record" -> {t.key}
    [] t.k = "pointer" /\ t.to.k = "record" -> {t.to.key}
    [] OTHER -> {}

AbiFollows[t \in CTypes] ==
  IF t.k = "record" THEN {t.key}
  ELSE IF t.k \in {"pointer", "function"} THEN UNION {AbiFollows[c] : c \in Range(Contents(t))}
  ELSE {}

Follows(style, t) == IF style = "abi" THEN AbiFollows[t] ELSE SchemaFollows(t)

FieldsFollow(style, key) == UNION {Follows(style, type) : type \in Range(TypesToBuild(key))}

Closed(style, keys) == \A key \in keys : FieldsFollow(style, key) \subseteq keys

(* The records that printing a record prints, and those in them, and so on. *)
Inside ==
  [style \in {"schema", "abi"} |->
    [key \in DOMAIN header.body |->
      {k \in DOMAIN header.body : \A keys \in SUBSET DOMAIN header.body :
         FieldsFollow(style, key) \subseteq keys /\ Closed(style, keys) => k \in keys}]]

InsideItself(key) == \E style \in {"schema", "abi"} : key \in Inside[style][key]

(* Printing runs out of stack only if a record is inside itself behind a     *)
(* pointer, and never when it prints JSON (main.cpp:1680, 1780, 2553).       *)
OverflowsOnlyInside ==
  phase = "overflowed" => mode # "json" /\ \E key \in DOMAIN header.body : InsideItself(key)

(* If no record is inside itself, every header is refused or printed.       *)
Prints ==
  (\A key \in DOMAIN header.body : ~InsideItself(key)) => <>Ended

-----------------------------------------------------------------------------
(* The inductive invariant *)

BuildFrames == [key : Keys \cup {NoKey}, types : Seq(CTypes)]
Frames ==
  [style : {"schema", "abi", "json"}, key : Keys \cup {NoKey}, below : BOOLEAN, types : Seq(CTypes)]
Printing == {"print", "failed", "overflowed", "done"}

TypeOK ==
  /\ header \in Headers
  /\ phase \in {"parse", "collect", "build", "refused"} \cup Printing
  /\ next \in Nat \ {0}
  /\ building \in Seq(BuildFrames)
  /\ table = [records |-> [key \in Keys |-> table.records[key]], enums |-> table.enums]
  /\ IsFiniteSet(Keys) /\ Keys \subseteq DOMAIN header.body
  /\ table.enums \subseteq DOMAIN header.tag \ DOMAIN header.body
  /\ \A f \in DOMAIN functions : functions[f].types \in Seq(CTypes)
  /\ stack \in Seq(Frames)

Entry(key, fields) == [complete |-> IsDefinition(key), fields |-> fields]
Mentioned(types) == UNION {Mentions[t] : t \in Range(types)}
Pending == UNION {Mentioned(building[i].types) : i \in DOMAIN building}

(* An entry has its fields, or its record is being built. *)
EntriesFollow ==
  \A key \in Keys :
    \/ table.records[key] = Entry(key, FieldsOf(key))
    \/ /\ table.records[key] = Entry(key, <<>>)
       /\ \E i \in DOMAIN building : building[i].key = key

(* What an entry or a declaration names is known, or about to be. *)
NamesFollow ==
  /\ \A key \in Keys : Mentioned(TypesToBuild(key)) \subseteq Known \cup Pending
  /\ phase = "build" =>
       /\ next \in DOMAIN Decls
       /\ Mentioned(Needs(Decls[next])) \subseteq Known \cup Pending
  /\ \A i \in DOMAIN Decls :
       i < next /\ Decls[i].target => Mentioned(Needs(Decls[i])) \subseteq Known
  /\ \A f \in DOMAIN functions : Mentioned(functions[f].types) \subseteq Known
  /\ building # <<>> => phase = "build"

(* What has been visited is exported. *)
ExportsFollow ==
  /\ exported \subseteq DOMAIN header.tag
  /\ \A i \in DOMAIN Decls : \A key \in DOMAIN header.tag :
       i < next /\ Decls[i].target /\ Exports(Decls[i], key) => key \in exported
  /\ \A a \in aliases : \E d \in Range(Decls) :
       d.what = "typedef" /\ d.type.k \in {"record", "enum"} /\ a = <<d.type.key, d.alias>>

(* What is printed, and what is to be. *)
IsReference(r) ==
  /\ r.name = Preferred(r.key) /\ r.name # NoName
  /\ \/ r.to = "record" /\ r.key \in SchemaRecords[{}]
     \/ r.to = "enum" /\ r.key \in table.enums

CanBePrinted(part) ==
  \/ part.of = "record" /\ part.key \in IF mode = "json" THEN Keys ELSE SchemaRecords[{}]
  \/ part.of = "function" /\ part.key \in IF mode = "json" THEN DOMAIN functions ELSE RichFunctions

PrintedFollow ==
  /\ phase \in Printing => next > Len(Decls)
  /\ phase \notin Printing => output = {} /\ stack = <<>> /\ printed = {}
  /\ \A r \in printed : (r.to = "null" /\ r.below) \/ IsReference(r)
  /\ \A part \in output : CanBePrinted(part)

(* Fields of a record that checkSchemaRecord has accepted. *)
FieldFits(t) ==
  /\ Kind(t) \in Direct \cup {"array", "record"}
  /\ Kind(t) = "record" => \E path \in SUBSET Keys : t.key \in SchemaRecords[path]

(* What is printed where no pointer is above it has been accepted. *)
AcceptedByValue(frames, i) ==
  frames[i].style # "json" /\ ~frames[i].below =>
    IF frames[i].key # NoKey THEN \A t \in Range(frames[i].types) : FieldFits(t)
    ELSE /\ \A j \in 1 .. i : frames[j].key = NoKey
         /\ \A t \in Range(frames[i].types) : DirectDescriptor[t]

(* What is printed is inside every record that is open. *)
InsideOpen(frames, i) ==
  \A j \in 1 .. i : frames[j].key # NoKey =>
    LET style == frames[i].style
        inside == Inside[style][frames[j].key]
    IN
    /\ \A t \in Range(frames[i].types) : Follows(style, t) \subseteq inside
    /\ j < i /\ frames[i].key # NoKey => frames[i].key \in inside

FrameFollows(frames, i) ==
  /\ frames[i].style = frames[1].style
  /\ frames[i].style = "json" <=> mode = "json"
  /\ frames[i].style = "json" => frames[i].key = NoKey
  /\ Mentioned(frames[i].types) \subseteq Known
  /\ AcceptedByValue(frames, i)
  /\ InsideOpen(frames, i)

FramesFollow == \A i \in DOMAIN stack : FrameFollows(stack, i)

IInv ==
  /\ TypeOK
  /\ EntriesFollow
  /\ NamesFollow
  /\ ExportsFollow
  /\ PrintedFollow
  /\ FramesFollow
=============================================================================
