------------------------------ MODULE Lifetime ------------------------------
(***************************************************************************)
(* What lives how long: a loaded image, the runtime bound to it, and what   *)
(* both own.  The image owns its sections, the compiled schemas and its     *)
(* heap; the runtime owns lists, host bindings, tracked externals, closures *)
(* and cached descriptors.  Destroying the runtime calls the release        *)
(* function of every external, and release functions are host code that    *)
(* may use the runtime again.                                              *)
(***************************************************************************)
EXTENDS ImageLoader

CONSTANTS
  Names,   \* host names
  Fns,     \* host functions
  MaxMade  \* bound on the objects made after the load

VARIABLES
  phase,       \* of the runtime: "none", "ready", then through its destruction:
               \* "externals", "release" inside a release function, "gone"
  exec, stack, \* the runtime's lists: which one, 0 for none, and is it its own
  hosts,       \* the bindings, in the order of their list
  callbacks,   \* the closures: each points to a binding
  descriptors, \* the cached signatures
  externals,   \* what the host had tracked and not yet seen released
  held,        \* the external whose release function runs
  made,        \* objects made so far: the number of the next
  latest,      \* history: the function last registered under each name
  lost,        \* history: blocks no pointer reaches any more
  careless     \* history: the host bound again, or made FFI objects in a release

rtvars == <<phase, exec, stack, hosts, callbacks, descriptors, externals, held, made,
            latest, lost, careless>>

NoList == [id |-> 0, own |-> FALSE]

Init ==
  /\ LoadInit
  /\ phase = "none" /\ exec = NoList /\ stack = NoList
  /\ hosts = <<>> /\ callbacks = <<>> /\ descriptors = <<>> /\ externals = <<>>
  /\ held = 0 /\ made = 1
  /\ latest = [name \in Names |-> "null"]
  /\ lost = {} /\ careless = FALSE

(* The lists of bindings, closures, descriptors and externals are made with *)
(* their first member, and counted with it.                                *)
OwnList(kind, list) == IF list.own THEN {Block(kind, list.id)} ELSE {}
FfiBlocks ==
  {Block("callback", c.id) : c \in Range(callbacks)}
    \cup {Block("descriptor", d.id) : d \in Range(descriptors)}
HostBlocks == {Block("binding", b.id) : b \in Range(hosts)}
ListBlocks == OwnList("exec", exec) \cup OwnList("stack", stack)
ExternalBlocks ==
  {Block("external", e) : e \in Range(externals)}
    \cup (IF held = 0 THEN {} ELSE {Block("external", held)})
OwnedByRuntime == FfiBlocks \cup HostBlocks \cup ListBlocks \cup ExternalBlocks

Loaded == section = "loaded"
HostRuns == phase \in {"ready", "release"}
Makes(kind) ==
  /\ made <= MaxMade
  /\ made' = made + 1
  /\ live' = live \cup {Block(kind, made)}
FfiInRelease == careless' = (careless \/ phase = "release")

KeepLoad == UNCHANGED <<file, section, started, done, off, base, buffer, read, status>>

-----------------------------------------------------------------------------
(* The runtime at work *)

RuntimeInit ==
  /\ phase = "none" /\ section \notin {"failed"}
  /\ phase' = "ready"
  /\ UNCHANGED <<loadvars, exec, stack, hosts, callbacks, descriptors, externals, held, made,
                 latest, lost, careless>>

(* urbc_runtime_bind: a list the host does not give is made, and replaces   *)
(* the one of an earlier bind.                                             *)
Bind(givenExec, givenStack) ==
  /\ phase = "ready" /\ Loaded
  /\ made <= MaxMade /\ made' = made + 1
  /\ exec' = [id |-> made, own |-> ~givenExec]
  /\ stack' = [id |-> made, own |-> ~givenStack]
  /\ live' = live \cup OwnList("exec", exec') \cup OwnList("stack", stack')
  /\ lost' = lost \cup ListBlocks
  /\ careless' = (careless \/ ListBlocks # {})
  /\ KeepLoad
  /\ UNCHANGED <<image, phase, hosts, callbacks, descriptors, externals, held, latest>>

(* urbc_runtime_alloc_owned: a handle, a view, a text, a struct returned by *)
(* value.  It lives as long as the image.                                  *)
AllocOwned ==
  /\ HostRuns /\ Loaded /\ exec # NoList
  /\ made <= MaxMade /\ made' = made + 1
  /\ live' = live \cup {Block("owned", made), Block("owned_heap", 0)}
  /\ image' = PushOwned(Block("owned", made))
  /\ KeepLoad
  /\ UNCHANGED <<phase, exec, stack, hosts, callbacks, descriptors, externals, held,
                 latest, lost, careless>>

(* A schema is compiled, and stays in the image's cache. *)
Compile(s) ==
  /\ HostRuns /\ Loaded /\ exec # NoList
  /\ image' = [image EXCEPT !.compiled = @ \cup {s}]
  /\ live' = live \cup {Block("compiled", s)}
  /\ KeepLoad
  /\ UNCHANGED rtvars

BindingsOf(name) == {b \in Range(hosts) : b.name = name}

(* A slip: a name registered again gets a second binding. *)
RegisterHostTwice(name, fn) ==
  /\ HostRuns
  /\ Makes("binding")
  /\ hosts' = Append(hosts, [id |-> made, name |-> name, fn |-> fn])
  /\ latest' = [latest EXCEPT ![name] = fn]
  /\ KeepLoad
  /\ UNCHANGED <<image, phase, exec, stack, callbacks, descriptors, externals, held, lost, careless>>

(* urbc_runtime_register_host: the binding of a name that has one is        *)
(* rewritten where it is, so that the closures that point to it follow.    *)
RegisterHost(name, fn) ==
  /\ HostRuns
  /\ IF BindingsOf(name) # {}
       THEN /\ hosts' = [k \in DOMAIN hosts |->
                           IF hosts[k].name = name THEN [hosts[k] EXCEPT !.fn = fn] ELSE hosts[k]]
            /\ UNCHANGED <<live, made>>
       ELSE /\ Makes("binding")
            /\ hosts' = Append(hosts, [id |-> made, name |-> name, fn |-> fn])
  /\ latest' = [latest EXCEPT ![name] = fn]
  /\ KeepLoad
  /\ UNCHANGED <<image, phase, exec, stack, callbacks, descriptors, externals, held, lost, careless>>

TrackExternal ==
  /\ HostRuns
  /\ Makes("external")
  /\ externals' = Append(externals, made)
  /\ KeepLoad
  /\ UNCHANGED <<image, phase, exec, stack, hosts, callbacks, descriptors, held, latest, lost, careless>>

(* urbc_ffi_make_callback_desc, of a name or of the binding itself. *)
MakeCallback(name) ==
  /\ HostRuns
  /\ \E b \in BindingsOf(name) :
       callbacks' = Append(callbacks, [id |-> made, binding |-> b.id, name |-> name])
  /\ Makes("callback")
  /\ FfiInRelease
  /\ KeepLoad
  /\ UNCHANGED <<image, phase, exec, stack, hosts, descriptors, externals, held, latest, lost>>

(* urbc_ffi_descriptor_cache_get of a signature not yet there. *)
CacheDescriptor ==
  /\ HostRuns
  /\ Makes("descriptor")
  /\ descriptors' = Append(descriptors, [id |-> made])
  /\ FfiInRelease
  /\ KeepLoad
  /\ UNCHANGED <<image, phase, exec, stack, hosts, callbacks, externals, held, latest, lost>>

-----------------------------------------------------------------------------
(* Destruction *)

(* urbc_ffi_cleanup_runtime *)
CleanupFfi ==
  /\ phase = "ready"
  /\ live' = live \ FfiBlocks
  /\ callbacks' = <<>> /\ descriptors' = <<>>
  /\ phase' = "externals"
  /\ KeepLoad
  /\ UNCHANGED <<image, exec, stack, hosts, externals, held, made, latest, lost, careless>>

(* A slip: the externals are released in the order they were tracked. *)
NextReleasedFirst == 1

NextReleased == Len(externals)

ReleaseExternal ==
  /\ phase = "externals" /\ externals # <<>>
  /\ held' = externals[NextReleased]
  /\ externals' = RemoveAt(externals, NextReleased)
  /\ phase' = "release"
  /\ UNCHANGED <<loadvars, exec, stack, hosts, callbacks, descriptors, made, latest, lost, careless>>

EndRelease ==
  /\ phase = "release"
  /\ live' = live \ {Block("external", held)}
  /\ held' = 0
  /\ phase' = "externals"
  /\ KeepLoad
  /\ UNCHANGED <<image, exec, stack, hosts, callbacks, descriptors, externals, made,
                 latest, lost, careless>>

FreedLast == HostBlocks \cup ListBlocks

(* The bindings, the lists and the runtime itself; what release functions   *)
(* left on the FFI side is forgotten with it.                              *)
DestroyRuntime ==
  /\ phase = "externals" /\ externals = <<>>
  /\ live' = live \ FreedLast
  /\ lost' = lost \cup FfiBlocks
  /\ hosts' = <<>> /\ callbacks' = <<>> /\ descriptors' = <<>>
  /\ exec' = NoList /\ stack' = NoList
  /\ phase' = "gone"
  /\ KeepLoad
  /\ UNCHANGED <<image, externals, held, made, latest, careless>>

(* The host destroys the image before or after the runtime; with the image  *)
(* gone it uses of the runtime only what does not need it.                 *)
DestroyImage ==
  /\ Loaded /\ phase # "none"
  /\ live' = DestroyedImage
  /\ image' = Zeroed
  /\ section' = "unloaded"
  /\ UNCHANGED <<file, started, done, off, base, buffer, read, status, rtvars>>

HostStep ==
  \/ RuntimeInit \/ AllocOwned \/ TrackExternal \/ CacheDescriptor
  \/ \E e, s \in BOOLEAN : Bind(e, s)
  \/ \E s \in 1 .. Of("schemas").count : Compile(s)
  \/ \E name \in Names : MakeCallback(name) \/ \E fn \in Fns : RegisterHost(name, fn)
  \/ CleanupFfi \/ ReleaseExternal \/ EndRelease \/ DestroyRuntime \/ DestroyImage

Next ==
  \/ LoadStep /\ UNCHANGED rtvars
  \/ ~Loading /\ HostStep

Spec == Init /\ [][Next]_<<loadvars, rtvars>>

-----------------------------------------------------------------------------
(* Properties *)

(* In every state, through failed loads and release functions that use the  *)
(* runtime, the blocks that are allocated are those the image and the       *)
(* runtime reach, each by one pointer, so that nothing is freed twice or    *)
(* not at all; unless the host binds a runtime again that has lists of its  *)
(* own, or makes FFI objects in a release function, which are lost.        *)
NothingLeaks ==
  /\ live = buffer \cup OwnedBy(image) \cup OwnedByRuntime \cup lost
  /\ IsInjective(image.heap) /\ IsInjective(externals)
  /\ \A e \in Range(externals) : e # held
  /\ ~careless => lost = {}

(* A closure's binding is in the registry until the closure is freed, and   *)
(* calls what its name was last registered to; a name has one binding.     *)
ClosuresCallLatest ==
  /\ \A c \in Range(callbacks) :
       \E b \in Range(hosts) : b.id = c.binding /\ b.name = c.name /\ b.fn = latest[c.name]
  /\ \A a, b \in Range(hosts) : a.name = b.name => a = b

(* An external is released after everything tracked later, and before       *)
(* anything a release function of it tracks.  No closure made before the    *)
(* destruction began is left by then, and every external is released.       *)
ReleasedLastFirst ==
  /\ [][held' # held /\ held' # 0 =>
          /\ \A e \in Range(externals) : e <= held'
          /\ ~careless => callbacks = <<>>]_<<loadvars, rtvars>>
  /\ [](phase = "gone" => externals = <<>> /\ held = 0)
=============================================================================
