------------------------------ MODULE MCImages ------------------------------
(* Files whose sections are right, or wrong in one place, and whole, a byte  *)
(* short or a byte long; and what a host does with those that load.        *)
EXTENDS Lifetime

NewEntry(len, ref, kind, reserved, fields) ==
  [len |-> len, ref |-> ref, kind |-> kind, reserved |-> reserved, fields |-> fields]
Plain(ref) == NewEntry(0, ref, "none", 0, <<>>)
Text(len) == NewEntry(len, 0, "none", 0, <<>>)
Kinded(kind, ref) == NewEntry(0, ref, kind, 0, <<>>)
FieldOf(kind, name, ref, reserved) ==
  [kind |-> kind, name |-> name, prim |-> 1, aux |-> 1, ref |-> ref, reserved |-> reserved]
Typed(kind, prim, aux) == [FieldOf(kind, 0, 0, 0) EXCEPT !.prim = prim, !.aux = aux]
Sec(entries, count, bytes) == [count |-> count, bytes |-> bytes, entries |-> entries]

Base ==
  [strings |-> Sec(<<Text(0), Text(3)>>, 2, 7),
   signatures |-> Sec(<<Plain(1), Plain(0)>>, 2, 4),
   schemas |-> Sec(<<NewEntry(0, 0, "struct", 0, <<FieldOf("prim", 1, 0, 0), FieldOf("struct", 0, 1, 0)>>),
                     NewEntry(0, 0, "union", 0, <<>>)>>, 2, 28),
   constants |-> Sec(<<Kinded("string", 1), Kinded("sig", 0), Kinded("schema", 7), Kinded("i64", 0)>>, 4, 24),
   code |-> Sec(<<Kinded("const_ref", 3), Kinded("op", 300), Kinded("alias", 4)>>, 3, 12)]

(* Entries that are wrong in one way, or right at the bound. *)
Odd(s) ==
  CASE s = "strings" -> {Text(1)}
    [] s = "signatures" -> {Plain(1), Plain(2)}
    [] s = "schemas" ->
         {NewEntry(0, 0, "enum", 0, <<>>), NewEntry(0, 0, "struct", 1, <<>>)}
         \cup {NewEntry(0, 0, "struct", 0, <<f>>) : f \in
                {FieldOf("prim", 2, 0, 0), FieldOf("struct", 0, 2, 0), FieldOf("bits", 0, 0, 0),
                 FieldOf("pointer", 0, 9, 0), FieldOf("array", 0, 0, 1),
                 Typed("prim", 0, 0), Typed("prim", 13, 0), Typed("prim", 14, 0), Typed("array", 1, 0),
                 Typed("array", 14, 1), Typed("pointer", 0, 0)}}
    [] s = "constants" ->
         {Kinded("string", 2), Kinded("sig", 1), Kinded("sig", 2), Kinded("text", 0), Kinded("bool", 9),
          Kinded("null", 9), NewEntry(0, 0, "null", 1, <<>>)}
    [] s = "code" ->
         {Kinded("const_ref", 4), Kinded("alias", 5), Kinded("jump", 0), NewEntry(0, 0, "op", 1, <<>>)}

(* A section as it is, with its last entry changed, with a count or a size  *)
(* that lies by one, or empty.                                             *)
Size(s, entries, n) ==
  FoldLeft(LAMBDA sum, e : sum + EntrySize(s, e), 0, SubSeq(entries, 1, n))
Variants(s) ==
  LET b == Base[s] IN
  {Sec(entries, n, Size(s, entries, n) + more) :
     entries \in {b.entries} \cup {[b.entries EXCEPT ![b.count] = e] : e \in Odd(s)},
     n \in {b.count}, more \in {-1, 0, 1}}
  \cup {Sec(b.entries, n, m) : n \in {0, b.count - 1}, m \in {0, b.bytes}}

Total(sections) ==
  MapThenSumSet(LAMBDA s : sections[s].bytes, SectionNames) + 40

(* The sizes of the files above add up in MCModulus; those of Long do not. *)
MCModulus == 96
Long == [Base EXCEPT !.strings = Sec(<<Text(0), Text(40)>>, 2, 44)]

WithSize(sections, more) ==
  [header |-> TRUE, size |-> Total(sections) + more, sections |-> sections]

MCFiles ==
  {WithSize([Base EXCEPT ![s] = v], 0) :
     <<s, v>> \in UNION {{<<s, v>> : v \in Variants(s)} : s \in SectionNames}}
  \cup {WithSize(Base, more) : more \in {-1, 1}}
  \cup {WithSize(Long, more) : more \in {0, -1, -MCModulus, -MCModulus - 1}}
  \cup {[WithSize(Base, 0) EXCEPT !.header = FALSE]}
=============================================================================
