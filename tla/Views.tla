-------------------------------- MODULE Views --------------------------------
(***************************************************************************)
(* Views of native memory: a handle is an address and a compiled schema, an *)
(* array handle also a count.  Handles are made of memory the host names,   *)
(* and of other handles, by field or by index; all live until the image     *)
(* goes.  Making one asks the schema compiler for its layout: the call      *)
(* waits while the compiler of SchemaCompile runs.                         *)
(*                                                                         *)
(* The API functions and the ops of the same names do the same under the    *)
(* runtime's lock.  Reads and writes are kept as the range they touch.     *)
(***************************************************************************)
EXTENDS SchemaCompile, FiniteSets

CONSTANTS
  Viewed,   \* bound: the sections whose schemas the host makes views of
  Bases,    \* the addresses the host makes views at
  MaxCount, \* bound on the count of an array handle
  MaxViews  \* bound on the handles

ASSUME BasesAssumption == Bases \subseteq Nat
ASSUME MaxCountAssumption == MaxCount \in Nat

VARIABLES
  views,   \* the handles
  call,    \* the function that waits for its schema, and its arguments
  access   \* the memory the last view.get or view.set touched

viewvars == <<schemas, cache, stack, at, arg, failed, views, call, access>>

(* region, in all three, is the memory the host named at the root of a      *)
(* chain of handles: history, no code reads it.                            *)
Region == [from : Nat, to : Nat]
Bytes(from, size) == [from |-> from, to |-> from + size]
Nowhere == Bytes(0, 0)

Handle == [kind : {"view", "array"}, schema : Nat, base : Nat, count : Nat, region : Region]
Ops == {"none", "view", "union", "array", "field"}
Call == [op : Ops, base : Nat, count : Nat, region : Region]
NoCall == [op |-> "none", base |-> 0, count |-> 0, region |-> Nowhere]

ViewsInit ==
  /\ Init
  /\ views = {}
  /\ call = NoCall
  /\ access = [range |-> Nowhere, region |-> Nowhere]

NotWaiting == Idle /\ call.op = "none"

(* schema.sizeof, schema.offsetof, urbc_schema_compile_value *)
AskSchema(s) ==
  /\ NotWaiting
  /\ Request(s)
  /\ UNCHANGED <<views, call, access>>

(* view.make and union.make have one schema's worth of memory, view.array   *)
(* has count of them.  It is memory the process has: addresses in it do    *)
(* not wrap.                                                               *)
Make(op, s, base, count) ==
  /\ NotWaiting
  /\ schemas \in Viewed
  /\ op # "array" => count = 1
  /\ Request(s)
  /\ call' = [op |-> op, base |-> base, count |-> count, region |-> Nowhere]
  /\ UNCHANGED <<views, access>>

NewHandle ==
  [kind |-> IF call.op = "array" THEN "array" ELSE "view",
   schema |-> arg, base |-> call.base, count |-> call.count,
   region |-> IF call.op = "field" THEN call.region
              ELSE Bytes(call.base, call.count * cache[arg].size)]

(* The schema is there: urbc_new_view, urbc_new_varray. *)
MakeHandle ==
  /\ Idle /\ at = "ok" /\ call.op # "none"
  /\ call.op = "union" => schemas[arg].kind = "union"
  /\ views' = views \cup {NewHandle}
  /\ Cardinality(views') <= MaxViews
  /\ call' = NoCall
  /\ UNCHANGED <<vars, access>>

(* union.make was given a struct, or there is no memory for the handle. *)
RefuseHandle ==
  /\ Idle /\ at = "ok" /\ call.op # "none"
  /\ ReturnNull
  /\ call' = NoCall
  /\ UNCHANGED <<schemas, cache, stack, arg, views, access>>

(* There is no schema, and so no handle. *)
GiveUp ==
  /\ Idle /\ at = "null" /\ call.op # "none"
  /\ call' = NoCall
  /\ UNCHANGED <<vars, views, access>>

-----------------------------------------------------------------------------
(* view.get and view.set *)

(* A slip: pointer arithmetic, in units of the field's size. *)
FieldAddressScaled(v, k) ==
  v.base + cache[v.schema].fields[k].offset * cache[v.schema].fields[k].size

(* urbc_field_addr *)
FieldAddress(v, k) == v.base + cache[v.schema].fields[k].offset

(* A name of a field of the view's schema, found by urbc_schema_field. *)
Finds(v, k, kinds) ==
  /\ v.kind = "view"
  /\ k \in DOMAIN schemas[v.schema].fields
  /\ schemas[v.schema].fields[k].kind \in kinds

(* A primitive or a pointer is read, or written by view.set.  An array's    *)
(* address is given away: what is touched is the array.                    *)
GetOrSet(v, k) ==
  /\ NotWaiting
  /\ v \in views
  /\ Finds(v, k, {"prim", "pointer", "array"})
  /\ access' = [range |-> Bytes(FieldAddress(v, k), cache[v.schema].fields[k].size),
                region |-> v.region]
  /\ at' = "ok" /\ failed' = FALSE
  /\ UNCHANGED <<schemas, cache, stack, arg, views, call>>

(* A struct field: a view of it, once its schema is there. *)
GetStruct(v, k) ==
  /\ NotWaiting
  /\ v \in views
  /\ Finds(v, k, {"struct"})
  /\ Request(schemas[v.schema].fields[k].ref)
  /\ call' = [op |-> "field", base |-> FieldAddress(v, k), count |-> 1, region |-> v.region]
  /\ UNCHANGED <<views, access>>

(* A slip: the count itself is an index. *)
InArrayOrNext(v, idx) == idx <= v.count

InArray(v, idx) == idx < v.count

Element(v, idx) ==
  [kind |-> "view", schema |-> v.schema, base |-> v.base + idx * cache[v.schema].size,
   count |-> 1, region |-> v.region]

(* view.get of "N" on an array handle. *)
GetElement(v, idx) ==
  /\ NotWaiting
  /\ v \in views /\ v.kind = "array"
  /\ InArray(v, idx)
  /\ views' = views \cup {Element(v, idx)}
  /\ Cardinality(views') <= MaxViews
  /\ at' = "ok" /\ failed' = FALSE
  /\ UNCHANGED <<schemas, cache, stack, arg, call, access>>

(* No such field, an index out of range, view.set of an array or a struct,  *)
(* no handle or one of the wrong kind, no memory for the element's handle.  *)
RefuseAccess ==
  /\ NotWaiting
  /\ ReturnNull
  /\ UNCHANGED <<schemas, cache, stack, arg, views, call, access>>

ViewsNext ==
  \/ Compile /\ UNCHANGED <<views, call, access>>
  \/ \E s \in 1 .. Len(schemas) + 1 :
       \/ AskSchema(s)
       \/ \E op \in {"view", "union", "array"}, base \in Bases, count \in 0 .. MaxCount :
            Make(op, s, base, count)
  \/ MakeHandle \/ RefuseHandle \/ GiveUp
  \/ \E v \in views :
       \/ \E k \in DOMAIN schemas[v.schema].fields : GetOrSet(v, k) \/ GetStruct(v, k)
       \/ \E idx \in 0 .. MaxCount : GetElement(v, idx)
  \/ RefuseAccess

ViewsSpec == ViewsInit /\ [][ViewsNext]_viewvars

(* The compiler is fair, as in FairSpec; the host's calls are not. *)
ViewsFairSpec ==
  ViewsSpec /\ WF_viewvars(Compile /\ UNCHANGED <<views, call, access>>)

-----------------------------------------------------------------------------
(* Properties *)

ViewsTypeOK ==
  /\ views \subseteq Handle
  /\ call \in Call
  /\ access \in [range : Region, region : Region]

Inside(r, outer) == outer.from <= r.from /\ r.to <= outer.to

(* However many steps of field and index lie between a handle and the memory *)
(* the host named, the handle's own memory is within it.                   *)
ViewsInside ==
  \A v \in views : Inside(Bytes(v.base, v.count * cache[v.schema].size), v.region)

(* So is all that is read or written through handles. *)
AccessInside == Inside(access.range, access.region)

(* Every handle has a schema that is compiled and in the cache. *)
HandlesOnCompiled ==
  \A v \in views : v.schema \in DOMAIN schemas /\ IsCompiled(v.schema)

(* view.get of a struct field never compiles and never fails for want of a  *)
(* schema: the one it asks for was compiled with the schema that holds it.  *)
SubviewsHit ==
  call.op = "field" =>
    /\ stack = <<>> /\ at \in {"call", "ok"}
    /\ arg \in DOMAIN schemas /\ IsCompiled(arg)

(* A function whose schema has come has a compiled one. *)
ResultAwaited ==
  call.op # "none" /\ at = "ok" => arg \in DOMAIN schemas /\ IsCompiled(arg)

(* A compiled schema has laid out every field. *)
AllFieldsLaid ==
  \A s \in DOMAIN schemas : IsCompiled(s) =>
    DOMAIN schemas[s].fields \subseteq DOMAIN cache[s].fields

(* The inductive invariant of SubviewsHit and HandlesOnCompiled. *)
ViewsIInv ==
  /\ IInv
  /\ ViewsTypeOK
  /\ AllFieldsLaid
  /\ HandlesOnCompiled
  /\ ResultAwaited
  /\ SubviewsHit

(* The inductive invariant of ViewsInside and AccessInside, over ViewsIInv   *)
(* and the layouts: what view.get of a struct waits to make a view of is     *)
(* inside too.                                                             *)
InsideIInv ==
  /\ ViewsInside
  /\ AccessInside
  /\ \A v \in views : v.kind = "view" => v.count = 1
  /\ call.op \in {"view", "union", "field"} => call.count = 1
  /\ call.op = "field" => Inside(Bytes(call.base, cache[arg].size), call.region)
=============================================================================
