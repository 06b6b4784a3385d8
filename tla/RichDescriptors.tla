--------------------------- MODULE RichDescriptors ---------------------------
(***************************************************************************)
(* describeDescriptor, by which a binding describes a function type that    *)
(* takes or returns structs, unions and arrays by value.  The wrapper       *)
(* (index.js, urb_ffi.lua) turns each type into a layout; the native side   *)
(* writes "pointer(tag)" for it in a signature text, has the runtime parse  *)
(* the text, and attaches to the descriptor, under the tag, the graph of    *)
(* ffi_type nodes that libffi will measure.  Here is the call, for any      *)
(* conversion of types to layouts and of layouts to graphs; TypeGraphs has  *)
(* the two conversions of the bindings.                                    *)
(***************************************************************************)
EXTENDS Integers, Sequences, FiniteSets

CONSTANTS
  Functions,  \* function types: a sequence of types, what is returned first
  Bindings,   \* subset of {"node", "lua"}: whose native code runs
  MaxArgs,    \* FSIG_MAX_ARGS
  LayoutOf(_),  \* the layout of a type, a record with a form
  GraphOf(_)    \* the graph of a layout, a record with a root

ASSUME BindingsAssumption == Bindings \subseteq {"node", "lua"}
ASSUME MaxArgsAssumption == MaxArgs \in Nat \ {0}
ASSUME FunctionsAssumption ==
  \A f \in Functions : f # <<>> /\ f \in Seq({f[p] : p \in DOMAIN f})

VARIABLES
  stage,     \* "idle", "tags", "parse", "attach", "done", "failed", "collected"
  fn,        \* the function type described
  binding,
  tags,      \* tags[p]: the tag of position p; 0 if it has none
  next,      \* the position attached next
  desc,      \* the UrbcFfiDescriptor: "none", "live", "freed"
  attached,  \* its attached_types: a sequence of [tag, graph, owner]
  blocks,    \* the graph blocks allocated, named by the position they are for
  buffers,   \* the C strings allocated: <<"name", 1>>, <<"leaf", p>>, <<"tag", p>>
  built      \* the graph built last

vars == <<stage, fn, binding, tags, next, desc, attached, blocks, buffers, built>>

-----------------------------------------------------------------------------
(* An enum is what is under it, a primitive. *)
Simple == {"void", "primitive", "cstring", "pointer", "enum"}

(* Aggregates have a graph; what has no layout is described as a pointer. *)
ByValue(type) == LayoutOf(type).form \in {"array", "struct", "union"}

(* An ffi_type of libffi itself, which has no elements. *)
Leaf(name) == [leaf |-> name, elements |-> -1]
Null == Leaf("null")

(* A graph before its walk, and what is built before there is one. *)
NoGraph == [room |-> [nodes |-> 0, slots |-> 0], nodes |-> 0, slots |-> 0, pool |-> {}, root |-> Null]

-----------------------------------------------------------------------------
(* The call *)

Positions == DOMAIN fn

Init ==
  /\ stage = "idle"
  /\ fn \in Functions
  /\ binding \in Bindings
  /\ tags = [p \in Positions |-> 0]
  /\ next = 1
  /\ desc = "none"
  /\ attached = <<>>
  /\ blocks = {} /\ buffers = {}
  /\ built = NoGraph

(* Only a function with a type that is not a signature's goes this way. *)
DescribeFunctionType ==
  /\ stage = "idle"
  /\ \E p \in Positions : fn[p].kind \notin Simple
  /\ stage' = "tags"
  /\ UNCHANGED <<fn, binding, tags, next, desc, attached, blocks, buffers, built>>

TooManyArgs == Len(fn) - 1 > MaxArgs

(* urb_layout_N, by a counter. *)
TagAt(p) == IF ByValue(fn[p]) THEN Cardinality({q \in 1..p : ByValue(fn[q])}) ELSE 0

WriteSignature ==
  /\ stage = "tags"
  /\ binding = "lua" => ~TooManyArgs
  /\ tags' = [p \in Positions |-> TagAt(p)]
  /\ buffers' = {<<"name", 1>>} \cup ({"leaf"} \X Positions)
                  \cup {<<"tag", p>> : p \in {q \in Positions : ByValue(fn[q])}}
  /\ stage' = "parse"
  /\ UNCHANGED <<fn, binding, next, desc, attached, blocks, built>>

(* The Lua binding counts the arguments before it makes anything of them. *)
RefuseArgs ==
  /\ stage = "tags"
  /\ binding = "lua" /\ TooManyArgs
  /\ stage' = "failed"
  /\ UNCHANGED <<fn, binding, tags, next, desc, attached, blocks, buffers, built>>

Parse ==
  /\ stage = "parse"
  /\ ~TooManyArgs
  /\ desc' = "live"
  /\ stage' = "attach"
  /\ UNCHANGED <<fn, binding, tags, next, attached, blocks, buffers, built>>

(* fsig_parse stops at the argument there is no room for, and there may be   *)
(* no memory for the descriptor.  The Node binding frees none of its texts. *)
ParseFails ==
  /\ stage = "parse"
  /\ stage' = "failed"
  /\ buffers' = {b \in buffers : binding = "node"}
  /\ UNCHANGED <<fn, binding, tags, next, desc, attached, blocks, built>>

(* A slip: the descriptor goes, the blocks of its graphs stay. *)
TypesStay(types) == {}

(* What urbc_ffi_descriptor_release frees. *)
Owned(types) == {types[i].owner : i \in DOMAIN types}

(* A slip: the Lua binding's failure keeps the names of its tags, too. *)
TagsKept == {b \in buffers : b[1] = "tag" \/ (binding = "node" /\ b = <<"leaf", 1>>)}

(* What a failed attachment keeps.  The Node binding forgets ret_leaf. *)
Kept == {b \in buffers : binding = "node" /\ b = <<"leaf", 1>>}

GiveUp(held) ==
  /\ stage' = "failed"
  /\ desc' = "freed"
  /\ attached' = <<>>
  /\ blocks' = held \ Owned(attached)
  /\ buffers' = Kept

(* A slip: the layouts are looked up one position off. *)
LayoutBefore(p) == IF p > 1 /\ ByValue(fn[p - 1]) THEN LayoutOf(fn[p - 1]) ELSE LayoutOf(fn[p])

LayoutAt(p) == LayoutOf(fn[p])

SkipPosition ==
  /\ stage = "attach" /\ next \in Positions
  /\ tags[next] = 0
  /\ next' = next + 1
  /\ UNCHANGED <<stage, fn, binding, tags, desc, attached, blocks, buffers, built>>

(* There may be no memory for the block. *)
BuildFails ==
  /\ stage = "attach" /\ next \in Positions
  /\ tags[next] # 0
  /\ GiveUp(blocks)
  /\ UNCHANGED <<fn, binding, tags, next, built>>

(* urbc_ffi_descriptor_attach_ffi_type refuses a tag it has and a graph it   *)
(* has no memory for an entry of; the caller then frees the block itself.   *)
AttachFails ==
  /\ stage = "attach" /\ next \in Positions
  /\ tags[next] # 0
  /\ built' = GraphOf(LayoutAt(next))
  /\ GiveUp(blocks)
  /\ UNCHANGED <<fn, binding, tags, next>>

Attach ==
  /\ stage = "attach" /\ next \in Positions
  /\ tags[next] # 0
  /\ \A i \in DOMAIN attached : attached[i].tag # tags[next]
  /\ LET graph == GraphOf(LayoutAt(next))
     IN /\ graph.root # Null
        /\ built' = graph
        /\ attached' = Append(attached, [tag |-> tags[next], graph |-> graph, owner |-> next])
  /\ blocks' = blocks \cup {next}
  /\ next' = next + 1
  /\ UNCHANGED <<stage, fn, binding, tags, desc, buffers>>

Finish ==
  /\ stage = "attach" /\ next \notin Positions
  /\ stage' = "done"
  /\ buffers' = {}
  /\ UNCHANGED <<fn, binding, tags, next, desc, attached, blocks, built>>

(* The finalizer of the host's descriptor object. *)
Collect ==
  /\ stage = "done"
  /\ stage' = "collected"
  /\ desc' = "freed"
  /\ blocks' = blocks \ Owned(attached)
  /\ attached' = <<>>
  /\ UNCHANGED <<fn, binding, tags, next, buffers, built>>

Next ==
  \/ DescribeFunctionType \/ WriteSignature \/ RefuseArgs \/ Parse \/ ParseFails
  \/ SkipPosition \/ BuildFails \/ AttachFails \/ Attach \/ Finish \/ Collect

Spec == Init /\ [][Next]_vars

-----------------------------------------------------------------------------
(* Properties *)

(* A finished descriptor has, for each aggregate of the function type and    *)
(* for nothing else, one entry, under the tag its signature has there and    *)
(* with the graph of that very aggregate.                                   *)
PositionsKeepGraphs ==
  stage = "done" =>
    /\ Len(attached) = Cardinality({p \in Positions : ByValue(fn[p])})
    /\ \A p \in Positions : ByValue(fn[p]) =>
         \E i \in DOMAIN attached :
           attached[i].tag = tags[p] /\ attached[i].graph = GraphOf(LayoutOf(fn[p]))

(* Whatever fails and whenever the descriptor is collected, a graph's block  *)
(* is alive exactly while an entry of the live descriptor points into it:    *)
(* none is leaked, and none is freed under an entry or twice.               *)
BlocksHaveAnEntry ==
  /\ blocks = Owned(attached)
  /\ Cardinality(blocks) = Len(attached)
  /\ desc # "live" => attached = <<>>

(* The texts made for a description are freed when it ends; only the Node    *)
(* binding keeps some of them, and only of a description that failed.       *)
TextsAreFreed ==
  stage \in {"done", "collected"} \/ (stage = "failed" /\ binding = "lua") => buffers = {}
=============================================================================
