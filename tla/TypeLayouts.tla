---------------------------- MODULE TypeLayouts ----------------------------
(***************************************************************************)
(* The wrapper's conversion of a type to a layout, for the graphs of         *)
(* TypeGraphs, and the size of a value: by the binding that makes room for   *)
(* it and by libffi that passes it.                                        *)
(***************************************************************************)
EXTENDS TypeGraphs, SequencesExt, FiniteSetsExt

(* abiTypeToLayoutSchema; NoLayout is its exception, which the caller turns  *)
(* into null.  An array's elements must be written as a name.              *)
RECURSIVE TypeLayout(_)
TypeLayout(type) ==
  CASE type.kind = "primitive" -> [form |-> "name", name |-> type.name]
    [] type.kind = "cstring" -> [form |-> "name", name |-> "cstring"]
    [] type.kind \in {"pointer", "function"} -> [form |-> "pointer"]
    [] type.kind = "enum" -> TypeLayout(type.underlying)
    [] type.kind = "array" ->
         LET element == TypeLayout(type.element)
         IN IF element.form # "name" THEN NoLayout
            ELSE [form |-> "array", parts |-> [i \in 1..type.length |-> element]]
    [] type.kind \in {"struct", "union"} ->
         LET parts == [i \in DOMAIN type.fields |-> TypeLayout(type.fields[i])]
         IN IF NoLayout \in {parts[i] : i \in DOMAIN parts} THEN NoLayout
            ELSE [form |-> type.kind, parts |-> parts]
    [] OTHER -> NoLayout

(* A layout and those in it. *)
RECURSIVE LayoutsIn(_)
LayoutsIn(layout) ==
  {layout} \cup IF IsAggregate(layout) THEN UNION {LayoutsIn(part) : part \in Range(layout.parts)} ELSE {}

TypeLayouts == UNION {LayoutsIn(TypeLayout(type)) : type \in UNION {Range(f) : f \in Functions}} \ {NoLayout}

RECURSIVE LayoutDepth(_)
LayoutDepth(layout) ==
  IF IsAggregate(layout) THEN 1 + Max({0} \cup {LayoutDepth(part) : part \in Range(layout.parts)}) ELSE 0

-----------------------------------------------------------------------------
(* Sizes *)

(* Of a scalar, which is aligned to its size; pointers have 8 bytes. *)
NameSizes == [i8 |-> 1, i16 |-> 2, i32 |-> 4, i64 |-> 8, cstring |-> 8, pointer |-> 8]
Scalar(name) == [size |-> NameSizes[name], align |-> NameSizes[name]]

AlignUp(n, align) == ((n + align - 1) \div align) * align

(* One member after another, and the end rounded to the widest alignment. *)
Sequential(members) ==
  LET align == Max({1} \cup {m.align : m \in Range(members)})
      end == FoldLeft(LAMBDA at, m : AlignUp(at, m.align) + m.size, 0, members)
  IN [size |-> AlignUp(end, align), align |-> align]

(* compileSchema: what the binding allocates for a value of the layout. *)
RECURSIVE Sized(_)
Sized(layout) ==
  CASE layout.form = "name" -> Scalar(layout.name)
    [] layout.form = "pointer" -> Scalar("pointer")
    [] layout.form = "union" ->
         LET members == {Sized(part) : part \in Range(layout.parts)}
             align == Max({1} \cup {m.align : m \in members})
         IN [size |-> AlignUp(Max({0} \cup {m.size : m \in members}), align), align |-> align]
    [] OTHER -> Sequential([i \in DOMAIN layout.parts |-> Sized(layout.parts[i])])

(* initialize_aggregate: libffi measures the elements up to a null. *)
RECURSIVE Measured(_, _)
Measured(graph, type) ==
  IF type.leaf # "node" THEN Scalar(type.leaf)
  ELSE LET At(slot) == CHOOSE child \in Referred(graph) : <<slot, child>> \in graph.pool
           length == Min({n \in 0 .. graph.slots : <<type.elements + n, Null>> \in graph.pool})
       IN Sequential([n \in 1 .. length |-> Measured(graph, At(type.elements + n - 1))])

(* "Rich host descriptors built with ffi.type.func(...) support                *)
(* schema-compatible by-value struct/union/array arguments and returns"      *)
(* (README.md:785): what libffi measures of the entry of a position, and      *)
(* copies, is what the binding allocates for a value of its type.            *)
ValuesKeepTheirSize ==
  stage = "done" =>
    \A p \in Positions : ByValue(fn[p]) =>
      \E i \in DOMAIN attached :
        /\ attached[i].tag = tags[p]
        /\ Measured(attached[i].graph, attached[i].graph.root) = Sized(LayoutOf(fn[p]))
=============================================================================
