------------------------------ MODULE MCBindgen ------------------------------
(* Headers with two records, an enum and a function; the second record and  *)
(* the enum may be of an included header.                                  *)
EXTENDS Wrapper

CInt == [k |-> "int"]
Void == [k |-> "void"]
Char == [k |-> "char"]
LongDouble == [k |-> "long double"]
OpenArray == [k |-> "open array"]
EnumType == [k |-> "enum", key |-> 3]
Struct(key) == [k |-> "record", key |-> key]
To(t) == [k |-> "pointer", to |-> t]
Array(t) == [k |-> "array", of |-> t, count |-> 2]
Fn(types) == [k |-> "function", types |-> types]

MCTypes ==
  LET fns == {Fn(<<Struct(2), To(Struct(1))>>), Fn(<<Void, Struct(2)>>)} IN
  {CInt, Void, Char, LongDouble, OpenArray, EnumType, Struct(1), Struct(2), To(Void), To(Char), To(LongDouble),
   To(Struct(1)), To(Struct(2)), To(To(Struct(1))), Array(CInt), Array(EnumType), Array(Struct(2)),
   Array(To(Char)), To(Array(EnumType))}
  \cup fns \cup {To(fn) : fn \in fns}

RECURSIVE MCDepth(_)
MCDepth(t) == Max({0} \cup {1 + MCDepth(c) : c \in Range(Contents(t))})

FieldOf(t) == [flaw |-> "none", type |-> t]
Flawed == {[flaw |-> flaw, type |-> CInt] : flaw \in {"anonymous", "reserved", "bitfield"}}

(* What a field of the first record may be, and of the second. *)
Firsts ==
  Flawed \cup {FieldOf(t) : t \in
    {CInt, LongDouble, OpenArray, EnumType, Array(EnumType), Array(Struct(2)), Struct(2), To(Void), To(Char),
     To(LongDouble), To(Struct(1)), To(Struct(2)), To(To(Struct(1))), To(Array(EnumType)), To(Fn(<<Struct(2), To(Struct(1))>>))}}
Seconds ==
  Flawed \cup {FieldOf(t) : t \in {CInt, LongDouble, To(Struct(1)), To(Struct(2)), Array(CInt)}}

Calls ==
  {<<Void, Struct(1)>>, <<Struct(1), CInt, Struct(2)>>, <<Void, Struct(1), To(Struct(2))>>, <<CInt, To(Struct(1))>>,
   <<EnumType, Struct(1), To(Fn(<<Void, Struct(2)>>))>>, <<Struct(1), LongDouble>>,
   <<Struct(2), Array(EnumType), Array(To(Char)), OpenArray, Fn(<<Void, Struct(2)>>)>>,
   <<Struct(1), To(Array(EnumType))>>}

Decl(what, key, target) == [what |-> what, key |-> key, target |-> target]
Record(key, defines, target) ==
  [what |-> "record", key |-> key, defines |-> defines, target |-> target]
Typedef(t, alias, target) == [what |-> "typedef", type |-> t, alias |-> alias, target |-> target]
Function(types, variadic, external) ==
  [what |-> "function", key |-> 1, types |-> types, variadic |-> variadic, external |-> external, target |-> TRUE]

(* forward: declared before; aliased: how the first record gets its name.    *)
NewHeader(first, second, kind, forward, aliased, included, function) ==
  [broken |-> FALSE,
   body |-> 1 :> [kind |-> kind, fields |-> <<FieldOf(CInt), first>>] @@ 2 :> [kind |-> "struct", fields |-> <<second>>],
   tag |-> 1 :> (IF aliased = "only" THEN NoName ELSE 4) @@ 2 :> 5 @@ 3 :> (IF aliased = "only" THEN NoName ELSE 6),
   decls |->
     <<Decl("enum", 3, ~included)>>
     \o (IF forward = 0 THEN <<>> ELSE <<Record(forward, FALSE, TRUE)>>)
     \o <<Record(2, TRUE, ~included), Record(1, TRUE, TRUE)>>
     \o (IF aliased = "no" THEN <<>>
         ELSE <<Typedef(Struct(1), IF aliased = "clash" THEN 5 ELSE 2, TRUE), Typedef(CInt, 7, TRUE),
                Typedef(EnumType, 8, ~included)>>)
     \o <<function>>]

MCHeaders ==
  {NewHeader(first, second, "struct", 0, "no", FALSE, Function(types, FALSE, TRUE)) :
     first \in Firsts, second \in Seconds, types \in Calls}
  \cup {NewHeader(first, FieldOf(To(Struct(1))), kind, forward, aliased, included, Function(<<Void, Struct(1)>>, FALSE, TRUE)) :
     first \in {FieldOf(t) : t \in {CInt, EnumType, Struct(2), To(Struct(2))}}, kind \in {"struct", "union"},
     forward \in {0, 1, 2}, aliased \in {"no", "also", "only", "clash"}, included \in BOOLEAN}
  \cup {NewHeader(FieldOf(CInt), FieldOf(CInt), "struct", 0, "no", included, Function(types, variadic, external)) :
     types \in Calls, included \in BOOLEAN, variadic \in BOOLEAN, external \in BOOLEAN}
  \cup {[NewHeader(FieldOf(CInt), FieldOf(CInt), "struct", 0, "no", FALSE, Function(<<Void>>, FALSE, TRUE)) EXCEPT !.broken = TRUE]}
=============================================================================
