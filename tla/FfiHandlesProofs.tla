--------------------------- MODULE FfiHandlesProofs ---------------------------
(***************************************************************************)
(* Proofs about FfiHandles, for any number of descriptors, bound functions   *)
(* and closures.  Owned is what holds whatever signatures the host binds as  *)
(* text; Reaching adds what keeps calls away from freed descriptors, which   *)
(* needs that such a text has no tag.                                       *)
(***************************************************************************)
EXTENDS FfiHandles, TLAPS

(* Descriptors of one call are gone at once, and those of the cache at the   *)
(* teardown, with the closures; the owned heap goes with the image.         *)
DescsOwned ==
  \A d \in Descs :
    /\ desc[d].owner = "call" => desc[d].state = "freed"
    /\ torn = "no" /\ desc[d].owner = "cache" => desc[d].state = "live"
    /\ torn # "no" /\ desc[d].owner = "cache" => desc[d].state # "live"

ObjectsOwned ==
  /\ torn # "no" => roots = {} /\ \A c \in Closures : closure[c].state # "live"
  /\ torn = "image" => \A h \in Handles : handle[h].state # "live"

(* What is said of the descriptors alone. *)
DescsType == desc \in [Descs -> [state : States, kind : Kinds, owner : Owners]]
DescsOk == DescsType /\ OneCachedPerSignature /\ DescsOwned

(* What is said of the rest. *)
RestType ==
  /\ handle \in [Handles -> [state : States, desc : Descs \cup {NoDesc}]]
  /\ closure \in [Closures -> [state : States, desc : Descs \cup {NoDesc}]]
  /\ \A h \in Handles : handle[h].state = "none" <=> handle[h].desc = NoDesc
  /\ \A c \in Closures : closure[c].state = "none" <=> closure[c].desc = NoDesc
  /\ roots \subseteq Descs \cup Handles \cup Closures
  /\ torn \in {"no", "runtime", "image"}
  /\ fault \in BOOLEAN

Owned == DescsOk /\ RestType /\ ObjectsOwned

(* A call may look at what is described: only a tag makes it look there. *)
Readable(d) == d \in Descs /\ desc[d].state # "none" /\ (desc[d].kind # "plain" => desc[d].state = "live")

(* What the host holds may be used: its descriptors are live, and so are its *)
(* functions and closures, on descriptors that may be looked at.            *)
Usable(o) == o.state = "live" /\ Readable(o.desc)
Reaching ==
  /\ ~fault
  /\ \A d \in roots \cap Descs : desc[d].state = "live"
  /\ \A h \in roots \cap Handles : Usable(handle[h])
  /\ \A c \in roots \cap Closures : Usable(closure[c])

-----------------------------------------------------------------------------
(* The descriptors *)

(* A descriptor that is made belongs to its owner as the others do. *)
LEMMA AllocatedIsOwned ==
  ASSUME DescsOk, torn = "no", torn' = torn,
         NEW d \in Fresh(desc), NEW kind \in Kinds, NEW owner \in {"host", "cache"},
         owner = "cache" => Cached(kind) = {},
         desc' = Allocated(d, kind, owner)
  PROVE  DescsOk'
<1>1. d \in Descs /\ desc[d].state = "none" BY DEF Fresh, DescsOk, DescsType
<1>2. desc' = [desc EXCEPT ![d] = [state |-> "live", kind |-> kind, owner |-> owner]] BY DEF Allocated
<1>3. DescsType' BY <1>1, <1>2 DEF DescsOk, DescsType, States, Owners
<1>4. \A e \in Descs : e # d => desc'[e] = desc[e] BY <1>1, <1>2 DEF DescsOk, DescsType
<1>5. desc'[d] = [state |-> "live", kind |-> kind, owner |-> owner] BY <1>1, <1>2 DEF DescsOk, DescsType
<1>6. DescsOwned' BY <1>4, <1>5 DEF DescsOk, DescsOwned
<1>7. OneCachedPerSignature' BY <1>4, <1>5 DEF DescsOk, OneCachedPerSignature, Cached
<1> QED BY <1>3, <1>6, <1>7 DEF DescsOk

(* A descriptor for one call is freed, and nothing else changes. *)
LEMMA OneCallIsOwned ==
  ASSUME DescsOk, torn' = torn,
         NEW d \in Fresh(desc), NEW sig \in Signatures,
         desc' = ForOneCall(d, sig)
  PROVE  DescsOk'
<1>1. d \in Descs BY DEF Fresh, DescsOk, DescsType
<1>2. /\ \A e \in Descs : e # d => desc'[e] = desc[e]
      /\ desc'[d] = [state |-> "freed", kind |-> sig, owner |-> "call"]
      /\ desc' = [desc EXCEPT ![d] = desc'[d]]
  <2> DEFINE one == [desc EXCEPT ![d] = [state |-> "live", kind |-> sig, owner |-> "call"]]
  <2>1. desc' = [one EXCEPT ![d] = [one[d] EXCEPT !.state = "freed"]] BY DEF ForOneCall, Released, Allocated
  <2>2. one[d] = [state |-> "live", kind |-> sig, owner |-> "call"] BY <1>1 DEF DescsOk, DescsType
  <2>3. [one[d] EXCEPT !.state = "freed"] = [state |-> "freed", kind |-> sig, owner |-> "call"] BY <2>2
  <2> HIDE DEF one
  <2>4. DOMAIN one = Descs /\ \A e \in Descs : e # d => one[e] = desc[e]  BY <1>1 DEF one, DescsOk, DescsType
  <2>5. desc' = [one EXCEPT ![d] = [state |-> "freed", kind |-> sig, owner |-> "call"]] BY <2>1, <2>3
  <2>6. desc' = [desc EXCEPT ![d] = [state |-> "freed", kind |-> sig, owner |-> "call"]]
    BY <1>1, <2>5 DEF one, DescsOk, DescsType
  <2> QED BY <1>1, <2>6 DEF DescsOk, DescsType
<1>3. DescsType'
  <2>1. [state |-> "freed", kind |-> sig, owner |-> "call"] \in [state : States, kind : Kinds, owner : Owners]
    BY DEF States, Kinds, Owners
  <2> QED BY <1>1, <1>2, <2>1 DEF DescsOk, DescsType
<1>4. DescsOwned' BY <1>2 DEF DescsOk, DescsOwned
<1>5. OneCachedPerSignature' BY <1>2 DEF DescsOk, OneCachedPerSignature, Cached
<1> QED BY <1>3, <1>4, <1>5 DEF DescsOk

(* The collector frees a descriptor of the host. *)
LEMMA CollectedIsOwned ==
  ASSUME DescsOk, torn' = torn, NEW d \in Descs, Collect(d)
  PROVE  DescsOk'
<1>1. desc' = [desc EXCEPT ![d] = [desc[d] EXCEPT !.state = "freed"]] BY DEF Collect, Released
<1>2. desc[d] \in [state : States, kind : Kinds, owner : Owners] BY DEF DescsOk, DescsType
<1>3. /\ \A e \in Descs : e # d => desc'[e] = desc[e]
      /\ desc'[d].owner = "host" /\ desc'[d].kind = desc[d].kind /\ desc'[d].state = "freed"
  BY <1>1, <1>2 DEF Collect, DescsOk, DescsType
<1>4. DescsType' BY <1>1, <1>2 DEF DescsOk, DescsType, States
<1>5. DescsOwned' BY <1>3 DEF DescsOk, DescsOwned
<1>6. OneCachedPerSignature' BY <1>3 DEF DescsOk, OneCachedPerSignature, Cached
<1> QED BY <1>4, <1>5, <1>6 DEF DescsOk

(* The teardown frees those of the cache. *)
LEMMA DestroyedIsOwned ==
  ASSUME DescsOk, DestroyRuntime
  PROVE  DescsOk'
<1> DEFINE Torn(d) == IF desc[d].owner = "cache" THEN Gone(desc[d]) ELSE desc[d]
<1>1. desc' = [d \in Descs |-> Torn(d)] /\ torn = "no" /\ torn' = "runtime" BY DEF DestroyRuntime, Live
<1>2. \A d \in Descs :
        /\ Torn(d) \in [state : States, kind : Kinds, owner : Owners]
        /\ Torn(d).owner = desc[d].owner /\ Torn(d).kind = desc[d].kind
        /\ desc[d].owner # "cache" => Torn(d) = desc[d]
        /\ desc[d].owner = "cache" => Torn(d).state # "live"
  BY DEF DescsOk, DescsType, Gone, States
<1> HIDE DEF Torn
<1>3. DescsType' BY <1>1, <1>2 DEF DescsType
<1>4. DescsOwned' BY <1>1, <1>2 DEF DescsOk, DescsOwned
<1>5. OneCachedPerSignature' BY <1>1, <1>2 DEF DescsOk, OneCachedPerSignature, Cached
<1> QED BY <1>3, <1>4, <1>5 DEF DescsOk

-----------------------------------------------------------------------------
(* What the entry points do to bound functions, closures and roots *)

LEMMA BindKeepsRest ==
  ASSUME RestType, ObjectsOwned, NEW h \in Handles, NEW d \in Descs, NEW descs, Bind(h, d, descs)
  PROVE  RestType' /\ ObjectsOwned'
<1>1. torn = "no" /\ torn' = torn BY DEF Bind, Live
<1>2. handle' = [handle EXCEPT ![h] = [state |-> "live", desc |-> d]] BY DEF Bind, Object
<1>3. roots' \subseteq roots \cup {h} BY DEF Bind
<1>4. closure' = closure /\ fault' = fault BY DEF Bind
<1>5. [state |-> "live", desc |-> d] \in [state : States, desc : Descs \cup {NoDesc}] BY DEF States
<1>6. d # NoDesc BY NoDescAssumption
<1>7. RestType' BY <1>1, <1>2, <1>3, <1>4, <1>5, <1>6 DEF RestType
<1> QED BY <1>1, <1>7 DEF ObjectsOwned

LEMMA CallbackKeepsRest ==
  ASSUME RestType, ObjectsOwned, NEW c \in Closures, NEW d \in Descs, NEW descs, MakeCallback(c, d, descs)
  PROVE  RestType' /\ ObjectsOwned'
<1>1. torn = "no" /\ torn' = torn BY DEF MakeCallback, Live
<1>2. closure' = [closure EXCEPT ![c] = [state |-> "live", desc |-> d]] \/ closure' = closure
  BY DEF MakeCallback, Object
<1>3. roots' \subseteq roots \cup {c} BY DEF MakeCallback
<1>4. handle' = handle /\ fault' = fault BY DEF MakeCallback
<1>5. [state |-> "live", desc |-> d] \in [state : States, desc : Descs \cup {NoDesc}] BY DEF States
<1>6. d # NoDesc BY NoDescAssumption
<1>7. RestType' BY <1>1, <1>2, <1>3, <1>4, <1>5, <1>6 DEF RestType
<1> QED BY <1>1, <1>7 DEF ObjectsOwned

LEMMA DestroyKeepsRest ==
  ASSUME RestType, ObjectsOwned, DestroyRuntime \/ DestroyImage
  PROVE  RestType' /\ ObjectsOwned'
<1>1. \A c \in Closures : closure[c] \in [state : States, desc : Descs \cup {NoDesc}] BY DEF RestType
<1>2. \A h \in Handles : handle[h] \in [state : States, desc : Descs \cup {NoDesc}] BY DEF RestType
<1>3. \A o \in [state : States, desc : Descs \cup {NoDesc}] :
        /\ Gone(o) \in [state : States, desc : Descs \cup {NoDesc}]
        /\ Gone(o).desc = o.desc /\ Gone(o).state # "live"
        /\ Gone(o).state = "none" <=> o.state = "none"
  BY DEF Gone, States
<1>4. CASE DestroyRuntime
  <2>1. closure' = [c \in Closures |-> Gone(closure[c])] BY <1>4 DEF DestroyRuntime
  <2>2. /\ closure' \in [Closures -> [state : States, desc : Descs \cup {NoDesc}]]
        /\ \A c \in Closures :
             closure'[c].state # "live" /\ (closure'[c].state = "none" <=> closure'[c].desc = NoDesc)
    BY <1>1, <1>3, <2>1 DEF RestType
  <2>3. handle' = handle /\ roots' = {} /\ torn' = "runtime" /\ fault' \in BOOLEAN
    BY <1>4 DEF DestroyRuntime, RestType
  <2> QED BY <2>2, <2>3 DEF RestType, ObjectsOwned
<1>5. CASE DestroyImage
  <2>1. handle' = [h \in Handles |-> Gone(handle[h])] BY <1>5 DEF DestroyImage
  <2>2. /\ handle' \in [Handles -> [state : States, desc : Descs \cup {NoDesc}]]
        /\ \A h \in Handles :
             handle'[h].state # "live" /\ (handle'[h].state = "none" <=> handle'[h].desc = NoDesc)
    BY <1>2, <1>3, <2>1 DEF RestType
  <2>3. closure' = closure /\ roots' = roots /\ torn = "runtime" /\ torn' = "image" /\ fault' = fault
    BY <1>5 DEF DestroyImage
  <2> QED BY <2>2, <2>3 DEF RestType, ObjectsOwned
<1> QED BY <1>4, <1>5

-----------------------------------------------------------------------------
(* Who owns what *)

LEMMA OwnedAtFirst == Init => Owned
<1> SUFFICES ASSUME Init PROVE Owned OBVIOUS
<1>1. /\ desc = [d \in Descs |-> [state |-> "none", kind |-> "plain", owner |-> "host"]]
      /\ handle = [h \in Handles |-> [state |-> "none", desc |-> NoDesc]]
      /\ closure = [c \in Closures |-> [state |-> "none", desc |-> NoDesc]]
      /\ roots = {} /\ torn = "no" /\ fault = FALSE
  BY DEF Init, NoObject
<1>2. DescsType BY <1>1 DEF DescsType, States, Kinds, Signatures, Owners
<1>3. RestType BY <1>1 DEF RestType, States
<1>4. OneCachedPerSignature /\ DescsOwned BY <1>1 DEF OneCachedPerSignature, DescsOwned
<1>5. ObjectsOwned BY <1>1 DEF ObjectsOwned
<1> QED BY <1>2, <1>3, <1>4, <1>5 DEF Owned, DescsOk

(* The descriptors of an op: found in the cache, or made for it. *)
LEMMA OpKeepsDescs ==
  ASSUME DescsOk, torn = "no", torn' = torn, NEW d \in Descs, NEW sig \in Signatures,
         IF Cached(sig) # {} THEN desc' = desc
           ELSE d \in Fresh(desc) /\ desc' = Allocated(d, sig, "cache")
  PROVE  DescsOk'
<1>1. CASE Cached(sig) # {}
  BY <1>1 DEF DescsOk, DescsType, DescsOwned, OneCachedPerSignature, Cached
<1>2. CASE Cached(sig) = {}
  BY <1>2, AllocatedIsOwned DEF Kinds
<1> QED BY <1>1, <1>2

LEMMA OwnedStays ==
  ASSUME Owned, [Next]_vars
  PROVE  Owned'
<1> USE DEF Owned
<1>0. ASSUME desc' = desc, torn' = torn PROVE DescsOk'
  BY <1>0 DEF DescsOk, DescsType, DescsOwned, OneCachedPerSignature, Cached
<1>1. ASSUME NEW d \in Descs, NEW kind \in Kinds, Describe(d, kind) PROVE Owned'
  <2>1. DescsOk' BY <1>1, AllocatedIsOwned DEF Describe, Live
  <2>2. RestType' /\ ObjectsOwned' BY <1>1 DEF Describe, Live, RestType, ObjectsOwned
  <2> QED BY <2>1, <2>2
<1>2. ASSUME NEW d \in Descs, Collect(d) PROVE Owned'
  <2>1. DescsOk' BY <1>2, CollectedIsOwned DEF Collect
  <2>2. RestType' /\ ObjectsOwned' BY <1>2 DEF Collect, RestType, ObjectsOwned
  <2> QED BY <2>1, <2>2
<1>3. ASSUME NEW o \in Descs \cup Handles \cup Closures, Drop(o) PROVE Owned'
  <2>1. DescsOk' BY <1>0, <1>3 DEF Drop
  <2>2. RestType' /\ ObjectsOwned' BY <1>3 DEF Drop, RestType, ObjectsOwned
  <2> QED BY <2>1, <2>2
<1>4. ASSUME NEW h \in Handles, NEW d \in Descs, BindDescriptor(h, d) PROVE Owned'
  <2>1. DescsOk' BY <1>0, <1>4 DEF BindDescriptor, Bind
  <2>2. RestType' /\ ObjectsOwned' BY <1>4, BindKeepsRest DEF BindDescriptor
  <2> QED BY <2>1, <2>2
<1>5. ASSUME NEW h \in Handles, NEW d \in Descs, NEW sig \in StringKinds, BindString(h, d, sig) PROVE Owned'
  <2>1. DescsOk' BY <1>5, OneCallIsOwned, StringKindsAssumption DEF BindString, Bind
  <2>2. RestType' /\ ObjectsOwned' BY <1>5, BindKeepsRest DEF BindString
  <2> QED BY <2>1, <2>2
<1>6. ASSUME NEW h \in Handles, NEW d \in Descs, NEW sig \in Signatures, OpBind(h, d, sig) PROVE Owned'
  <2>1. DescsOk' BY <1>6, OpKeepsDescs DEF OpBind, Bind, Live
  <2>2. RestType' /\ ObjectsOwned' BY <1>6, BindKeepsRest DEF OpBind
  <2> QED BY <2>1, <2>2
<1>7. ASSUME NEW c \in Closures, NEW d \in Descs, CallbackDescriptor(c, d) PROVE Owned'
  <2>1. DescsOk' BY <1>0, <1>7 DEF CallbackDescriptor, MakeCallback
  <2>2. RestType' /\ ObjectsOwned' BY <1>7, CallbackKeepsRest DEF CallbackDescriptor
  <2> QED BY <2>1, <2>2
<1>8. ASSUME NEW c \in Closures, NEW d \in Descs, NEW sig \in StringKinds, CallbackString(c, d, sig) PROVE Owned'
  <2>1. DescsOk' BY <1>8, OneCallIsOwned, StringKindsAssumption DEF CallbackString, MakeCallback
  <2>2. RestType' /\ ObjectsOwned' BY <1>8, CallbackKeepsRest DEF CallbackString
  <2> QED BY <2>1, <2>2
<1>9. ASSUME NEW c \in Closures, NEW d \in Descs, NEW sig \in Signatures, OpCallback(c, d, sig) PROVE Owned'
  <2>1. DescsOk' BY <1>9, OpKeepsDescs DEF OpCallback, MakeCallback, Live
  <2>2. RestType' /\ ObjectsOwned' BY <1>9, CallbackKeepsRest DEF OpCallback
  <2> QED BY <2>1, <2>2
<1>10. ASSUME NEW o, Reads(o) PROVE Owned'
  <2>1. DescsOk' BY <1>0, <1>10 DEF Reads
  <2>2. RestType' /\ ObjectsOwned' BY <1>10 DEF Reads, RestType, ObjectsOwned
  <2> QED BY <2>1, <2>2
<1>11. CASE DestroyRuntime
  BY <1>11, DestroyedIsOwned, DestroyKeepsRest
<1>12. CASE DestroyImage
  <2>1. DescsOk' BY <1>12 DEF DestroyImage, DescsOk, DescsType, DescsOwned, OneCachedPerSignature, Cached
  <2> QED BY <1>12, <2>1, DestroyKeepsRest
<1>13. CASE UNCHANGED vars
  <2>1. DescsOk' BY <1>0, <1>13 DEF vars
  <2>2. RestType' /\ ObjectsOwned' BY <1>13 DEF vars, RestType, ObjectsOwned
  <2> QED BY <2>1, <2>2
<1> QED
  BY <1>1, <1>2, <1>3, <1>4, <1>5, <1>6, <1>7, <1>8, <1>9, <1>10, <1>11, <1>12, <1>13
  DEF Next, Call, InvokeClosure

(* Every object has a state and an owner, and one that was made has its      *)
(* descriptor.                                                              *)
THEOREM ObjectsHaveTypes == Spec => []TypeOK
<1>1. Owned => TypeOK BY DEF Owned, TypeOK, DescsOk, DescsType, RestType
<1> QED BY <1>1, OwnedAtFirst, OwnedStays, PTL DEF Spec

(* Bytecode that binds one signature text again and again shares one         *)
(* descriptor, and the image's teardown leaves only what host objects wrap.  *)
THEOREM OneDescriptorPerSignature == Spec => []OneCachedPerSignature
<1>1. Owned => OneCachedPerSignature BY DEF Owned, DescsOk
<1> QED BY <1>1, OwnedAtFirst, OwnedStays, PTL DEF Spec

THEOREM TeardownLeavesHostsOnly == Spec => []TeardownFrees
<1>1. Owned => TeardownFrees
  BY DEF Owned, DescsOk, DescsType, RestType, DescsOwned, ObjectsOwned, TeardownFrees, Owners
<1> QED BY <1>1, OwnedAtFirst, OwnedStays, PTL DEF Spec

-----------------------------------------------------------------------------
(* What calls read *)

(* A step that makes descriptors, or none, and gives the host one object o   *)
(* at most, on a descriptor that may be looked at.                          *)
LEMMA BoundIsUsable ==
  ASSUME Owned, Reaching, NEW h \in Handles, NEW d \in Descs, NEW descs, Bind(h, d, descs),
         \A e \in Descs : desc[e].state # "none" => desc'[e] = desc[e],
         Readable(d)'
  PROVE  Reaching'
<1> USE DEF Owned
<1>1. /\ handle' = [handle EXCEPT ![h] = [state |-> "live", desc |-> d]]
      /\ roots' \subseteq roots \cup {h} /\ closure' = closure /\ fault' = fault
  BY DEF Bind, Object
<1>2. \A e : Readable(e) => Readable(e)' BY DEF Readable
<1>3. handle'[h].state = "live" /\ handle'[h].desc = d /\ \A g \in Handles : g # h => handle'[g] = handle[g]
  BY <1>1 DEF RestType
<1>4. \A e \in roots' \cap Descs : desc'[e].state = "live"
  BY <1>1, ObjectsAssumption DEF Reaching
<1>5. \A g \in roots' \cap Handles : Usable(handle[g])'
  BY <1>1, <1>2, <1>3 DEF Reaching, Usable
<1>6. \A c \in roots' \cap Closures : Usable(closure[c])'
  BY <1>1, <1>2, ObjectsAssumption DEF Reaching, Usable
<1> QED BY <1>1, <1>4, <1>5, <1>6 DEF Reaching

LEMMA CallbackIsUsable ==
  ASSUME Owned, Reaching, NEW c \in Closures, NEW d \in Descs, NEW descs, MakeCallback(c, d, descs),
         \A e \in Descs : desc[e].state # "none" => desc'[e] = desc[e],
         Readable(d)'
  PROVE  Reaching'
<1> USE DEF Owned
<1>1. /\ \/ closure' = [closure EXCEPT ![c] = [state |-> "live", desc |-> d]] /\ roots' = roots \cup {c}
         \/ closure' = closure /\ roots' = roots
      /\ handle' = handle /\ fault' = fault
  BY DEF MakeCallback, Object
<1>2. \A e : Readable(e) => Readable(e)' BY DEF Readable
<1>3. \A e \in roots' \cap Descs : desc'[e].state = "live"
  BY <1>1, ObjectsAssumption DEF Reaching
<1>4. \A h \in roots' \cap Handles : Usable(handle[h])'
  BY <1>1, <1>2, ObjectsAssumption DEF Reaching, Usable
<1>5. \A b \in roots' \cap Closures : Usable(closure[b])'
  <2>1. CASE closure' = closure /\ roots' = roots
    BY <1>2, <2>1 DEF Reaching, Usable
  <2>2. CASE closure' = [closure EXCEPT ![c] = [state |-> "live", desc |-> d]] /\ roots' = roots \cup {c}
    <3>1. /\ closure'[c].state = "live" /\ closure'[c].desc = d
          /\ \A b \in Closures : b # c => closure'[b] = closure[b]
      BY <2>2 DEF RestType
    <3> QED BY <1>2, <2>2, <3>1 DEF Reaching, Usable
  <2> QED BY <1>1, <2>1, <2>2
<1> QED BY <1>1, <1>3, <1>4, <1>5 DEF Reaching

(* The collector takes what no object reaches. *)
LEMMA CollectedIsUnreached ==
  ASSUME Owned, Reaching, NEW d \in Descs, Collect(d)
  PROVE  Reaching'
<1> USE DEF Owned
<1>1. /\ d \notin Reachable
      /\ desc' = [desc EXCEPT ![d] = [desc[d] EXCEPT !.state = "freed"]]
      /\ UNCHANGED <<handle, closure, roots, torn, fault>>
  BY DEF Collect, Released
<1>2. \A e \in Descs : e # d => desc'[e] = desc[e] BY <1>1 DEF DescsOk, DescsType
<1>3. \A e : e # d /\ Readable(e) => Readable(e)' BY <1>2 DEF Readable
<1>4. d \notin roots /\ (\A h \in roots \cap Handles : handle[h].desc # d)
        /\ \A c \in roots \cap Closures : closure[c].desc # d
  BY <1>1 DEF Reachable
<1> QED BY <1>1, <1>2, <1>3, <1>4 DEF Reaching, Usable

(* A signature text for one call must have no tag: its descriptor is gone    *)
(* when the call returns.                                                   *)
LEMMA ReachingStays ==
  ASSUME StringKinds \subseteq {"plain"}, Owned, Reaching, [Next]_vars
  PROVE  Reaching'
<1> USE DEF Owned
<1>0. ASSUME NEW d \in Fresh(desc), NEW kind \in Kinds, NEW owner \in Owners, desc' = Allocated(d, kind, owner)
      PROVE  /\ \A e \in Descs : desc[e].state # "none" => desc'[e] = desc[e]
             /\ Readable(d)' /\ desc'[d].state = "live"
  BY <1>0 DEF Fresh, Allocated, Readable, DescsOk, DescsType
<1>1. ASSUME NEW d \in Fresh(desc), NEW sig \in StringKinds, desc' = ForOneCall(d, sig)
      PROVE  (\A e \in Descs : desc[e].state # "none" => desc'[e] = desc[e]) /\ Readable(d)'
  <2> DEFINE one == [desc EXCEPT ![d] = [state |-> "live", kind |-> sig, owner |-> "call"]]
  <2>1. d \in Descs /\ desc[d].state = "none" /\ sig = "plain" BY DEF Fresh, DescsOk, DescsType
  <2>2. desc' = [one EXCEPT ![d] = [one[d] EXCEPT !.state = "freed"]] BY <1>1 DEF ForOneCall, Released, Allocated
  <2>3. one[d] = [state |-> "live", kind |-> sig, owner |-> "call"] BY <2>1 DEF DescsOk, DescsType
  <2>4. DOMAIN one = Descs /\ \A e \in Descs : e # d => one[e] = desc[e] BY <2>1 DEF DescsOk, DescsType
  <2> HIDE DEF one
  <2>5. desc'[d].state = "freed" /\ desc'[d].kind = "plain" BY <2>1, <2>2, <2>3, <2>4
  <2>6. \A e \in Descs : e # d => desc'[e] = desc[e] BY <2>2, <2>4
  <2> QED BY <2>1, <2>5, <2>6 DEF Readable
<1>2. ASSUME desc' = desc, NEW d \in roots \cap Descs PROVE Readable(d)'
  BY <1>2 DEF Readable, Reaching
<1>3. ASSUME NEW d \in Descs, NEW sig \in Signatures,
             IF Cached(sig) # {} THEN d \in Cached(sig) /\ desc' = desc
               ELSE d \in Fresh(desc) /\ desc' = Allocated(d, sig, "cache")
      PROVE  (\A e \in Descs : desc[e].state # "none" => desc'[e] = desc[e]) /\ Readable(d)'
  <2>1. CASE Cached(sig) # {} BY <1>3, <2>1 DEF Cached, Readable
  <2>2. CASE Cached(sig) = {} BY <1>0, <1>3, <2>2 DEF Kinds, Owners
  <2> QED BY <2>1, <2>2
<1>4. ASSUME NEW d \in Descs, NEW kind \in Kinds, Describe(d, kind) PROVE Reaching'
  <2>1. /\ \A e \in Descs : desc[e].state # "none" => desc'[e] = desc[e]
        /\ desc'[d].state = "live"
    BY <1>0, <1>4 DEF Describe, Owners
  <2>2. \A e : Readable(e) => Readable(e)' BY <2>1 DEF Readable
  <2>3. roots' = roots \cup {d} /\ UNCHANGED <<handle, closure, fault>> BY <1>4 DEF Describe
  <2> QED BY <2>1, <2>2, <2>3, ObjectsAssumption DEF Reaching, Usable
<1>5. ASSUME NEW d \in Descs, Collect(d) PROVE Reaching'
  BY <1>5, CollectedIsUnreached
<1>6. ASSUME NEW o, Drop(o) PROVE Reaching'
  BY <1>6 DEF Drop, Reaching, Usable, Readable
<1>7. ASSUME NEW h \in Handles, NEW d \in Descs, BindDescriptor(h, d) PROVE Reaching'
  BY <1>2, <1>7, BoundIsUsable DEF BindDescriptor, Bind
<1>8. ASSUME NEW h \in Handles, NEW d \in Descs, NEW sig \in StringKinds, BindString(h, d, sig) PROVE Reaching'
  <2>1. d \in Fresh(desc) /\ desc' = ForOneCall(d, sig) /\ Bind(h, d, ForOneCall(d, sig))
    BY <1>8 DEF BindString, Bind
  <2> QED BY <1>1, <2>1, BoundIsUsable
<1>9. ASSUME NEW h \in Handles, NEW d \in Descs, NEW sig \in Signatures, OpBind(h, d, sig) PROVE Reaching'
  <2>1. IF Cached(sig) # {} THEN d \in Cached(sig) /\ desc' = desc
          ELSE d \in Fresh(desc) /\ desc' = Allocated(d, sig, "cache")
    BY <1>9 DEF OpBind, Bind
  <2>2. (\A e \in Descs : desc[e].state # "none" => desc'[e] = desc[e]) /\ Readable(d)' BY <1>3, <2>1
  <2>3. PICK descs : Bind(h, d, descs) BY <1>9 DEF OpBind
  <2> QED BY <2>2, <2>3, BoundIsUsable
<1>10. ASSUME NEW c \in Closures, NEW d \in Descs, CallbackDescriptor(c, d) PROVE Reaching'
  BY <1>2, <1>10, CallbackIsUsable DEF CallbackDescriptor, MakeCallback
<1>11. ASSUME NEW c \in Closures, NEW d \in Descs, NEW sig \in StringKinds, CallbackString(c, d, sig) PROVE Reaching'
  <2>1. d \in Fresh(desc) /\ desc' = ForOneCall(d, sig) /\ MakeCallback(c, d, ForOneCall(d, sig))
    BY <1>11 DEF CallbackString, MakeCallback
  <2> QED BY <1>1, <2>1, CallbackIsUsable
<1>12. ASSUME NEW c \in Closures, NEW d \in Descs, NEW sig \in Signatures, OpCallback(c, d, sig) PROVE Reaching'
  <2>1. IF Cached(sig) # {} THEN d \in Cached(sig) /\ desc' = desc
          ELSE d \in Fresh(desc) /\ desc' = Allocated(d, sig, "cache")
    BY <1>12 DEF OpCallback, MakeCallback
  <2>2. (\A e \in Descs : desc[e].state # "none" => desc'[e] = desc[e]) /\ Readable(d)' BY <1>3, <2>1
  <2>3. PICK descs : MakeCallback(c, d, descs) BY <1>12 DEF OpCallback
  <2> QED BY <2>2, <2>3, CallbackIsUsable
<1>13. ASSUME NEW o, Usable(o), Reads(o) PROVE Reaching'
  <2>1. ~fault' BY <1>13 DEF Reads, Usable, Readable, Reaching
  <2> QED BY <1>13, <2>1 DEF Reads, Reaching, Usable, Readable
<1>14. CASE DestroyRuntime
  <2>1. ~fault' /\ roots' = {} BY <1>14 DEF DestroyRuntime, Live, DescsOk, DescsOwned, Reaching
  <2> QED BY <2>1 DEF Reaching
<1>15. CASE DestroyImage
  <2>1. roots = {} /\ UNCHANGED <<roots, fault>> BY <1>15 DEF DestroyImage, ObjectsOwned
  <2> QED BY <2>1 DEF Reaching
<1>16. CASE UNCHANGED vars
  BY <1>16 DEF vars, Reaching, Usable, Readable
<1>17. ASSUME NEW h \in Handles, Call(h) PROVE Reaching'
  BY <1>13, <1>17 DEF Call, Reaching
<1>18. ASSUME NEW c \in Closures, InvokeClosure(c) PROVE Reaching'
  BY <1>13, <1>18 DEF InvokeClosure, Reaching
<1> QED
  BY <1>4, <1>5, <1>6, <1>7, <1>8, <1>9, <1>10, <1>11, <1>12, <1>14, <1>15, <1>16, <1>17, <1>18 DEF Next

(* If the host binds no text with a tag, no call and no callback reads a     *)
(* freed descriptor, and the teardown frees none again.                     *)
THEOREM UntaggedTextsAreSafe ==
  ASSUME StringKinds \subseteq {"plain"}
  PROVE  Spec => []NoUseAfterFree
<1>1. Init => Reaching BY DEF Init, Reaching
<1>2. Owned /\ Reaching /\ [Next]_vars => Reaching' BY ReachingStays
<1>3. Reaching => NoUseAfterFree BY DEF Reaching, NoUseAfterFree
<1> QED BY <1>1, <1>2, <1>3, OwnedAtFirst, OwnedStays, PTL DEF Spec
=============================================================================
