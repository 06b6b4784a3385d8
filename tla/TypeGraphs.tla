----------------------------- MODULE TypeGraphs -----------------------------
(***************************************************************************)
(* What the native side makes of the layout of a type passed by value: a     *)
(* graph of ffi_type nodes in one block, sized by a first walk over the     *)
(* layout and filled by a second.                                          *)
(***************************************************************************)
EXTENDS RichDescriptors

CONSTANTS
  Layouts,  \* the layouts of types, and those in them
  Depth(_)  \* how deep a layout is

IsAggregate(layout) == layout.form \in {"array", "struct", "union"}

(* What a wrapper gives: finite, the elements of an array are names and at   *)
(* least one, and names are those of scalars.                              *)
ASSUME LayoutsAssumption ==
  \A layout \in Layouts :
    /\ Depth(layout) \in Nat
    /\ IsAggregate(layout) \/ layout.form \in {"name", "pointer"}
    /\ layout.form = "name" => layout.name # "null"
    /\ IsAggregate(layout) =>
         /\ layout.parts \in Seq(Layouts)
         /\ \A i \in DOMAIN layout.parts : Depth(layout.parts[i]) < Depth(layout)
    /\ layout.form = "array" =>
         layout.parts # <<>> /\ \A i \in DOMAIN layout.parts : layout.parts[i].form = "name"

-----------------------------------------------------------------------------
(* The walk that sizes the block *)

Counts == [nodes : Nat, slots : Nat]
Plus(a, b) == [nodes |-> a.nodes + b.nodes, slots |-> a.slots + b.slots]

Total(own, counts) ==
  LET total[i \in 0 .. Len(counts)] == IF i = 0 THEN own ELSE Plus(total[i - 1], counts[i])
  IN total[Len(counts)]

(* An array counts its element once, which is enough because an element is a *)
(* name and takes no node.                                                 *)
Counted[layout \in Layouts] ==
  IF ~IsAggregate(layout) THEN [nodes |-> 0, slots |-> 0]
  ELSE LET own == [nodes |-> 1, slots |-> Len(layout.parts) + 1]
           parts == [i \in DOMAIN layout.parts |-> Counted[layout.parts[i]]]
       IN IF layout.form = "array" THEN Plus(own, parts[1]) ELSE Total(own, parts)

-----------------------------------------------------------------------------
(* The walk that fills it: graph.room is what was counted, nodes and slots   *)
(* are those taken, pool the stores made to slots, root what the walk       *)
(* returned; Null is a failure.                                            *)

Names == {layout.name : layout \in {l \in Layouts : l.form = "name"}}
FfiTypes == [leaf : {"node", "pointer", "null"} \cup Names, elements : Int]
Graphs == [room : Counts, nodes : Nat, slots : Nat, pool : SUBSET (Nat \X FfiTypes), root : FfiTypes]

Node(slot) == [leaf |-> "node", elements |-> slot]

(* A slip: the end of the elements is not counted. *)
OpenSlots(parts) == Len(parts)

SlotsFor(parts) == Len(parts) + 1

Opened(graph, parts) ==
  [graph EXCEPT !.nodes = @ + 1, !.slots = @ + SlotsFor(parts), !.root = Node(graph.slots)]

Store(graph, slot, child) == [graph EXCEPT !.pool = @ \cup {<<slot, child>>}]

(* One element, by the walk of its layout; none after one that failed.       *)
Element(walk, slot, graph) ==
  LET after == walk[graph]
  IN IF graph.root = Null THEN graph
     ELSE IF after.root = Null THEN after ELSE Store(after, slot, after.root)

Filled(walks, slot, open) ==
  LET filled[i \in 0 .. Len(walks)] ==
        IF i = 0 THEN open ELSE Element(walks[i], slot + i - 1, filled[i - 1])
  IN filled[Len(walks)]

(* The null after the elements, and the node is the walk's result. *)
Closed(graph, parts, slot) == [Store(graph, slot + Len(parts), Null) EXCEPT !.root = Node(slot)]

BuildStruct(parts, walks, graph) ==
  LET full == Filled(walks, graph.slots, Opened(graph, parts))
  IN IF graph.nodes >= graph.room.nodes THEN [graph EXCEPT !.root = Null]
     ELSE IF full.root = Null THEN full ELSE Closed(full, parts, graph.slots)

BuildNode[layout \in Layouts] ==
  [graph \in Graphs |->
     CASE layout.form = "name" -> [graph EXCEPT !.root = Leaf(layout.name)]
       [] layout.form = "pointer" -> [graph EXCEPT !.root = Leaf("pointer")]
       [] OTHER -> BuildStruct(layout.parts, [i \in DOMAIN layout.parts |-> BuildNode[layout.parts[i]]], graph)]

LayoutGraph(layout) == BuildNode[layout][[NoGraph EXCEPT !.room = Counted[layout]]]

(* The layouts and graphs of the call are these. *)
NoLayout == [form |-> "none"]
ASSUME ConversionsAssumption ==
  /\ \A f \in Functions : \A p \in DOMAIN f : LayoutOf(f[p]) \in Layouts \cup {NoLayout}
  /\ \A layout \in Layouts : GraphOf(layout) = LayoutGraph(layout)

-----------------------------------------------------------------------------
(* What libffi sees: the types a graph refers to, and those of them from     *)
(* which it reads the members of a layout.  The elements of a struct are     *)
(* read one by one up to a null.                                           *)

Referred(graph) == {graph.root} \cup {store[2] : store \in graph.pool}

Reads(graph) ==
  LET reads[layout \in Layouts] ==
        {child \in Referred(graph) :
           CASE layout.form = "name" -> child = Leaf(layout.name)
             [] layout.form = "pointer" -> child = Leaf("pointer")
             [] OTHER ->
                  /\ child.leaf = "node"
                  /\ <<child.elements + Len(layout.parts), Null>> \in graph.pool
                  /\ \A i \in DOMAIN layout.parts :
                       \E part \in reads[layout.parts[i]] : <<child.elements + i - 1, part>> \in graph.pool}
  IN reads

-----------------------------------------------------------------------------
(* Properties *)

(* "Count dynamic nodes and element pointer slots required"                 *)
(* (urb_ffi_napi.c:384): the walk that fills a block stores once to every    *)
(* slot, and takes every node, that the other walk made room for, and none  *)
(* beyond, so no layout of the wrapper meets "internal builder overflow".    *)
(* Only the nodes are checked while they are filled; the slots are not.     *)
CountsAreExact ==
  built # NoGraph =>
    /\ built.root # Null
    /\ built.nodes = built.room.nodes
    /\ {store[1] : store \in built.pool} = 0 .. built.room.slots - 1
    /\ \A a, b \in built.pool : a[1] = b[1] => a = b

(* The walk lays the members of a union one after another, as those of a     *)
(* struct: the graph of a layout with a union in it is not of that layout.   *)
HasUnion[layout \in Layouts] ==
  \/ layout.form = "union"
  \/ IsAggregate(layout) /\ \E i \in DOMAIN layout.parts : HasUnion[layout.parts[i]]

(* A finished descriptor has, for each aggregate of the function type and    *)
(* for nothing else, one entry under the tag its signature has there; and,   *)
(* but for an aggregate with a union in it, libffi reads from that entry the *)
(* members of that very aggregate in their order.                           *)
PositionsKeepLayouts ==
  stage = "done" =>
    /\ Len(attached) = Cardinality({p \in Positions : ByValue(fn[p])})
    /\ \A p \in Positions : ByValue(fn[p]) =>
         \E i \in DOMAIN attached :
           /\ attached[i].tag = tags[p]
           /\ ~HasUnion[LayoutOf(fn[p])] =>
                attached[i].graph.root \in Reads(attached[i].graph)[LayoutOf(fn[p])]
=============================================================================
