------------------------------- MODULE MCViews -------------------------------
(* Two kinds of sections.  Small ones whose schemas refer to one another in  *)
(* every way, cycles included, are compiled.  Larger ones are viewed too:    *)
(* they have every kind of field, by-value structs two deep, a union of     *)
(* structs, an empty struct, and a schema that cannot be compiled.         *)
EXTENDS Views

Fld(kind, prim, aux, ref) == [kind |-> kind, prim |-> prim, aux |-> aux, ref |-> ref]
Byte == Fld("prim", 1, 0, 1)
Shorts == Fld("array", 2, 3, 1)
Pointer == Fld("pointer", 1, 0, 1)
Held(r) == Fld("struct", 1, 0, r)
Schema(kind, fields) == [kind |-> kind, fields |-> fields]

Schemas(fields, most) ==
  [kind : {"struct", "union"}, fields : UNION {[1..k -> fields] : k \in 0..most}]

(* Of one or two schemas with up to two fields, and of three with up to one. *)
Small ==
  UNION {[1..n -> Schemas({Byte, Shorts, Pointer} \cup {Held(r) : r \in 1..n}, 2)] : n \in 1..2}
  \cup [1..3 -> Schemas({Shorts} \cup {Held(r) : r \in 1..3}, 1)]

MCViewed ==
  { <<Schema("struct", <<Byte, Shorts>>), Schema("struct", <<Byte, Held(1)>>),
      Schema("union", <<Held(2), Pointer>>)>>,
    <<Schema("struct", <<Byte, Pointer>>), Schema("union", <<Shorts, Held(1)>>),
      Schema("struct", <<Byte, Held(2)>>)>>,
    <<Schema("struct", <<>>), Schema("struct", <<Held(1), Byte>>)>>,
    <<Schema("struct", <<Byte, Held(2)>>), Schema("struct", <<Shorts, Held(2)>>)>> }

MCImages == Small \cup MCViewed
=============================================================================
