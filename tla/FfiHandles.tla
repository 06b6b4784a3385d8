------------------------------ MODULE FfiHandles ------------------------------
(***************************************************************************)
(* The objects of the FFI layer and who frees them: a descriptor is a       *)
(* parsed signature; a bound function and a callback closure copy the       *)
(* signature but keep a pointer to the descriptor, to look by-value layouts *)
(* up when they are called.  A descriptor belongs to the host object that   *)
(* wraps it, to the runtime's cache (bytecode ops), or to one API call      *)
(* (entry points that take a signature string).  A bound function lives in  *)
(* the image's owned heap, a closure on the runtime's list.                *)
(*                                                                         *)
(* The host is a binding: its garbage collector releases a descriptor when  *)
(* no host object reaches it, and bound and callback objects reach theirs.  *)
(* It keeps a callback object as long as C may call it (README.md), and     *)
(* calls nothing once it has torn the runtime down.                        *)
(***************************************************************************)
EXTENDS FiniteSets

CONSTANTS
  Descs, Handles, Closures,  \* the objects that may be allocated
  NoDesc,
  StringKinds                \* the signatures the host gives to the entry points
                             \* urbc_ffi_bind and urbc_ffi_callback as text

ASSUME NoDescAssumption == NoDesc \notin Descs
ASSUME ObjectsAssumption ==
  Descs \cap Handles = {} /\ Descs \cap Closures = {} /\ Handles \cap Closures = {}

VARIABLES
  desc,     \* desc[d]: [state, kind, owner]
  handle,   \* handle[h]: [state, desc], a UrbcBoundFn
  closure,  \* closure[c]: [state, desc], a UrbcCallbackClosure
  roots,    \* the objects the host holds
  torn,     \* how far the host's teardown is: "no", "runtime", "image"
  fault     \* has freed memory been read, or freed again?

vars == <<desc, handle, closure, roots, torn, fault>>

(* What a signature says: no tagged pointer; a tagged pointer; a tagged     *)
(* pointer whose tag has a by-value layout attached, which only a host's    *)
(* rich descriptor has.                                                    *)
Signatures == {"plain", "tagged"}
ASSUME StringKindsAssumption == StringKinds \subseteq Signatures

Kinds == Signatures \cup {"byvalue"}

NoObject == [state |-> "none", desc |-> NoDesc]

Init ==
  /\ desc = [d \in Descs |-> [state |-> "none", kind |-> "plain", owner |-> "host"]]
  /\ handle = [h \in Handles |-> NoObject]
  /\ closure = [c \in Closures |-> NoObject]
  /\ roots = {}
  /\ torn = "no"
  /\ fault = FALSE

Live == torn = "no"
Fresh(objects) == {o \in DOMAIN objects : objects[o].state = "none"}

Allocated(d, kind, owner) ==
  [desc EXCEPT ![d] = [state |-> "live", kind |-> kind, owner |-> owner]]

(* urbc_ffi_descriptor_release *)
Released(descs, d) == [descs EXCEPT ![d].state = "freed"]

Object(d) == [state |-> "live", desc |-> d]

-----------------------------------------------------------------------------
(* Descriptors of the host *)

Describe(d, kind) ==
  /\ Live
  /\ d \in Fresh(desc)
  /\ desc' = Allocated(d, kind, "host")
  /\ roots' = roots \cup {d}
  /\ UNCHANGED <<handle, closure, torn, fault>>

Drop(o) ==
  /\ roots' = roots \ {o}
  /\ o \in roots
  /\ UNCHANGED <<desc, handle, closure, torn, fault>>

(* A slip: the host's objects do not refer to their descriptors. *)
ReachableDirectly == roots

(* A bound or callback object of the host has its descriptor as a field. *)
Reachable ==
  roots \cup {handle[h].desc : h \in roots \cap Handles}
        \cup {closure[c].desc : c \in roots \cap Closures}

(* The finalizer of a descriptor object, which may run at any time. *)
Collect(d) ==
  /\ desc[d].owner = "host" /\ desc[d].state = "live"
  /\ d \notin Reachable
  /\ desc' = Released(desc, d)
  /\ UNCHANGED <<handle, closure, roots, torn, fault>>

-----------------------------------------------------------------------------
(* Bound functions.  When a type is not supported or libffi refuses, the    *)
(* half-made bound function stays in the owned heap and nobody has it.     *)

Bind(h, d, descs) ==
  /\ Live
  /\ h \in Fresh(handle)
  /\ handle' = [handle EXCEPT ![h] = Object(d)]
  /\ desc' = descs
  /\ \E ok \in BOOLEAN : roots' = IF ok THEN roots \cup {h} ELSE roots
  /\ UNCHANGED <<closure, torn, fault>>

(* A closure that cannot be made is freed at once. *)
MakeCallback(c, d, descs) ==
  /\ Live
  /\ c \in Fresh(closure)
  /\ \E ok \in BOOLEAN :
       /\ closure' = IF ok THEN [closure EXCEPT ![c] = Object(d)] ELSE closure
       /\ roots' = IF ok THEN roots \cup {c} ELSE roots
  /\ desc' = descs
  /\ UNCHANGED <<handle, torn, fault>>

BindDescriptor(h, d) == d \in roots \cap Descs /\ Bind(h, d, desc)
CallbackDescriptor(c, d) == d \in roots \cap Descs /\ MakeCallback(c, d, desc)

(* A slip: the descriptor is not released. *)
ForOneCallKept(d, sig) == Allocated(d, sig, "call")

(* The entry points that take a signature string describe it, use the       *)
(* descriptor, and release it before they return.                          *)
ForOneCall(d, sig) == Released(Allocated(d, sig, "call"), d)

BindString(h, d, sig) ==
  d \in Fresh(desc) /\ Bind(h, d, ForOneCall(d, sig))
CallbackString(c, d, sig) ==
  d \in Fresh(desc) /\ MakeCallback(c, d, ForOneCall(d, sig))

(* The ops ffi.bind and ffi.callback: urbc_ffi_descriptor_cache_get finds  *)
(* the signature's descriptor or makes one that the runtime keeps.         *)
Cached(sig) ==
  {d \in Descs : desc[d].state = "live" /\ desc[d].owner = "cache" /\ desc[d].kind = sig}

(* A slip: the cache is not searched. *)
OpBindUncached(h, d, sig) ==
  d \in Fresh(desc) /\ Bind(h, d, Allocated(d, sig, "cache"))

OpBind(h, d, sig) ==
  IF Cached(sig) # {}
    THEN d \in Cached(sig) /\ Bind(h, d, desc)
    ELSE d \in Fresh(desc) /\ Bind(h, d, Allocated(d, sig, "cache"))
OpCallback(c, d, sig) ==
  IF Cached(sig) # {}
    THEN d \in Cached(sig) /\ MakeCallback(c, d, desc)
    ELSE d \in Fresh(desc) /\ MakeCallback(c, d, Allocated(d, sig, "cache"))

(* Only for a tagged pointer is the descriptor itself looked at. *)
Reads(o) ==
  /\ fault' = (fault \/ o.state = "freed" \/
                 (desc[o.desc].kind # "plain" /\ desc[o.desc].state = "freed"))
  /\ UNCHANGED <<desc, handle, closure, roots, torn>>

Call(h) == Live /\ h \in roots \cap Handles /\ Reads(handle[h])
InvokeClosure(c) == Live /\ c \in roots \cap Closures /\ Reads(closure[c])

-----------------------------------------------------------------------------
(* Teardown: the runtime first, then its image *)

Gone(o) == IF o.state = "live" THEN [o EXCEPT !.state = "freed"] ELSE o

(* urbc_runtime_destroy: closures, then the cached descriptors. *)
DestroyRuntime ==
  /\ Live
  /\ closure' = [c \in Closures |-> Gone(closure[c])]
  /\ desc' = [d \in Descs |-> IF desc[d].owner = "cache" THEN Gone(desc[d]) ELSE desc[d]]
  /\ fault' = (fault \/ \E d \in Descs : desc[d].owner = "cache" /\ desc[d].state = "freed")
  /\ torn' = "runtime"
  /\ roots' = {}
  /\ UNCHANGED handle

(* urbc_image_destroy: the owned heap. *)
DestroyImage ==
  /\ torn = "runtime"
  /\ handle' = [h \in Handles |-> Gone(handle[h])]
  /\ torn' = "image"
  /\ UNCHANGED <<desc, closure, roots, fault>>

Next ==
  \/ \E d \in Descs, kind \in Kinds : Describe(d, kind)
  \/ \E d \in Descs : Collect(d)
  \/ \E o \in Descs \cup Handles \cup Closures : Drop(o)
  \/ \E h \in Handles, d \in Descs :
       \/ BindDescriptor(h, d)
       \/ \E sig \in StringKinds : BindString(h, d, sig)
       \/ \E sig \in Signatures : OpBind(h, d, sig)
  \/ \E c \in Closures, d \in Descs :
       \/ CallbackDescriptor(c, d)
       \/ \E sig \in StringKinds : CallbackString(c, d, sig)
       \/ \E sig \in Signatures : OpCallback(c, d, sig)
  \/ \E h \in Handles : Call(h)
  \/ \E c \in Closures : InvokeClosure(c)
  \/ DestroyRuntime \/ DestroyImage

Spec == Init /\ [][Next]_vars

-----------------------------------------------------------------------------
(* Properties *)

States == {"none", "live", "freed"}
Owners == {"host", "cache", "call"}

TypeOK ==
  /\ desc \in [Descs -> [state : States, kind : Kinds, owner : Owners]]
  /\ handle \in [Handles -> [state : States, desc : Descs \cup {NoDesc}]]
  /\ closure \in [Closures -> [state : States, desc : Descs \cup {NoDesc}]]
  /\ \A h \in Handles : handle[h].state = "none" <=> handle[h].desc = NoDesc
  /\ \A c \in Closures : closure[c].state = "none" <=> closure[c].desc = NoDesc
  /\ roots \subseteq Descs \cup Handles \cup Closures
  /\ torn \in {"no", "runtime", "image"}
  /\ fault \in BOOLEAN

(* No call of a bound function and no callback looks into a descriptor that *)
(* was freed, whatever the collector freed before and whichever of the      *)
(* three owners the descriptor had; and nothing is freed twice.            *)
NoUseAfterFree == ~fault

(* "pointer(tag) is accepted; the tag is metadata only" (docs/BYTECODE.md, *)
(* section 6): a tag in a signature makes no call touch freed memory that   *)
(* the same call without the tag would not.                                *)
TagIsMetadata == [][fault' => fault]_vars

(* Bytecode that binds the same signature text again shares one descriptor. *)
OneCachedPerSignature ==
  \A d, e \in Descs :
    desc[d].owner = "cache" /\ desc[d].state = "live" /\ e \in Cached(desc[d].kind) => d = e

(* After the teardown nothing of the runtime or the image is left but the   *)
(* descriptors that host objects wrap, which their finalizers release.     *)
TeardownFrees ==
  torn = "image" =>
    /\ \A h \in Handles : handle[h].state # "live"
    /\ \A c \in Closures : closure[c].state # "live"
    /\ \A d \in Descs : desc[d].state = "live" => desc[d].owner = "host"
=============================================================================
