-------------------------- MODULE MCRichDescriptors --------------------------
(* Functions of one to three arguments, over scalars and aggregates up to two *)
(* levels deep.                                                            *)
EXTENDS TypeLayouts

Void == [kind |-> "void"]
Prim(name) == [kind |-> "primitive", name |-> name]
CString == [kind |-> "cstring"]
Enum(underlying) == [kind |-> "enum", underlying |-> underlying]
Pointer == [kind |-> "pointer"]
FunctionPointer == [kind |-> "function"]
Array(element, length) == [kind |-> "array", element |-> element, length |-> length]
Struct(fields) == [kind |-> "struct", fields |-> fields]
Union(fields) == [kind |-> "union", fields |-> fields]

Pair == Struct(<<Prim("i8"), Prim("i32")>>)
Row == Array(Prim("i16"), 3)
Narrow == Union(<<Prim("i8")>>)
Either == Union(<<Prim("i32"), Prim("i64")>>)
Holder == Struct(<<Prim("i8"), Row, Pair>>)
Colour == Enum(Prim("i32"))
Tagged == Struct(<<Colour, Array(Enum(Prim("i8")), 2)>>)
Tree == Struct(<<Pair, Struct(<<Pointer, CString>>), Prim("i8")>>)
WithUnion == Struct(<<Prim("i8"), Either>>)
Rows == Struct(<<Array(Pair, 2)>>)

Types == {Prim("i32"), Colour, Pointer, FunctionPointer, Pair, Tagged, Row, Narrow, Either, Holder,
          Tree, WithUnion, Rows, Array(Pointer, 2)}
Returns == {Void, Prim("i8"), Pair, Either, Holder}

MCFunctions ==
  {<<ret, a>> : ret \in Returns, a \in Types}
  \cup {<<ret, a, b>> : ret \in Returns, a, b \in Types}
  \cup {<<ret, a, Prim("i32"), CString>> : ret \in Returns, a \in Types}
=============================================================================
