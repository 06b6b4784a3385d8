# Verification of urb-ffi

TLA+ models of urb-ffi: its C runtime (`src/src`, `src/include`), the parts of its Node and Lua
bindings that share state with it (`bindings`), and the generator of wrappers (`bindgen`), checked
with TLC and, where the prover reaches, proved with TLAPS.  Paths below are relative to the
repository; `urbc_*.c` are in `src/src`.

## 1. The system

urb-ffi loads a bytecode image, runs it on a small stack machine, and lets it, or a host
program, call native functions through libffi, make native callbacks, and read native memory
through schemas.  A *binding* (Node, Lua) is a host: it owns one runtime and one image and
exposes the API to scripts.  *bindgen* reads a C header and prints a wrapper over a binding.

| Component | Source | State | Operations | Interacts through |
|---|---|---|---|---|
| Runtime lock | `urbc_runtime.c` 47-71 | mutex, `lock_owner`, `lock_owned`, `lock_depth` | lock, unlock | every entry of the API |
| Calls, callbacks, current runtime | `urbc_ops_ffi.c`, `urbc_api.c`, `urbc_runtime.c` | thread-local `g_urbc_runtime`, `failed`, `last_error`, the C stacks | `ffi_call_bound`, trampoline, `host_call`, `runtime_run`, ops | lock; native code calls back |
| Interpreter | `urbc_runtime.c` 360-517, `urbc_ops_core.c`, `urb.h` | `mem`, `stack`, `exec`, `i`, `failed` | the loop, aliases, core ops | loader encodes, loop decodes |
| Loader, format | `urbc_loader.c`, `urbc_format.c` | image, cursors, the file's buffer | load, destroy on failure | gives interpreter and schema compiler their input |
| Lifetime, owned heap, externals, host registry | `urbc_runtime.c` 94-358 | the lists of the runtime and of the image | bind, register, alloc_owned, track, destroy | everything; release functions call back |
| Schema compiler | `urbc_schema.c` | `schema_cache`, recursion | compile, validate | views and API ask for layouts |
| Views | `urbc_ops_schema.c` | view and array handles | make, array, get, set, union make | point to compiled schemas |
| FFI descriptors, handles, closures | `urbc_ops_ffi.c` | descriptors, bound functions, closures, the signature cache | describe, bind, callback, cleanup | shared pointers; finalizers of the bindings |
| Rich descriptors | `bindings/node`, `bindings/lua` | layouts, graphs of `ffi_type`, attached types | describe a function type that passes structs by value | descriptors; collector |
| bindgen | `bindgen/src/main.cpp` | tables of records, enums and functions; in the printed wrapper the library and the blocks of a call | collect, print; load, call, copy | header through libclang; wrapper through a binding |
| Signature parser | `urbc_ffi_sig.c` | none | `fsig_parse` | describe |
| Lists | `urb.h` | list | push, pop, insert, remove, shift | everything above |
| Legacy add-on | `src/src/node` | as the Node binding | over the amalgamated header, with its own Makefile; package and top Makefile build `bindings/node` | |
| Tools, platform wrappers | `tools`, `urbc_platform.c` | none that outlives a call | | |

What makes them correct, and what is hard about each:

* **Lock**: it is a reentrant monitor, although it tests its owner without the mutex.  Hard:
  every interleaving of single loads and stores.
* **Calls**: each path, error paths above all, gives back the lock and the current runtime;
  failures reach the run that caused them; a native thread that fires a callback never
  deadlocks with the thread that waits for it.  Hard: re-entrance in any order, several
  threads, several runtimes.
* **Interpreter**: what the document says a token does is what its encoded word does.  Hard:
  wrap-around, unsigned conversions, macros of two widths, ids outside the table.
* **Loader**: what it takes the document describes, no section is read beyond the bytes its header
  gives it, whatever counts it claims, and a load that fails at any point leaves an image that
  destroy can take apart.  Hard: five sections that index one another, sizes whose sum wraps, a
  failure at every allocation.
* **Lifetime**: every block has one owner until the end, in either order of destruction.  Hard:
  release functions are host code that uses the runtime while it is taken down; a name
  registered again under closures that point to it.
* **Schema compiler**: the recursion ends, failures leave no mark, layouts are sound, and a
  compiled schema is final because views point to it.  Hard: recursion by value, failures at
  depth, sizes that wrap.
* **Views**: through any number of fields and elements a handle stays inside the memory the
  host named, and on a compiled schema.  Hard: arrays and structs nested in each other, a
  schema asked for again on every access to a struct field, failures in between.
* **Handles**: nothing is read after it was freed.  Hard: three owners of a descriptor, a
  collector that runs at any time, and teardown in a fixed order.
* **Rich descriptors**: libffi measures each position by the graph of that position's type, and
  should find the size the binding gave it.  Hard: two walks over a layout, one that counts and one
  that fills; two numberings of the positions; memory that runs out between them.
* **bindgen**: what the wrapper refers to it also defines, and the printing ends.  Hard: records
  through pointers to one another, typedefs and tags in one name space, declarations of
  included headers, forward declarations.  **The printed wrapper**: what a call allocates it
  frees, whatever throws, and copies stay in their records as far as the code sees to it.  Hard:
  descriptors that look like records and are not, values longer than their fields.

The hazards, each at the line where it bites, are in `PROJECT.json`.

## 2. Plan

The core came first, each step over what came before it:

1. `ReentrantMonitor` (abstract) and `RuntimeLock` (detailed); `CallFrames`, the composition of
   lock, current runtime, failures and threads, which takes the lock by what `RuntimeLock`
   proves of it.
2. `BytecodeMachine` (abstract) and `Interpreter` (detailed).
3. `FfiHandles`; `SchemaCompile`; `Views`, composed with `SchemaCompile`.
4. `ImageLoader`; `Lifetime`, composed with it.
5. `Bindgen`; `Wrapper`, composed with it; `RichDescriptors`, and `TypeGraphs` over it.
6. Proofs for the lock, frames, interpreter, handles, schemas, views, loads, lifetime, the
   description of function types with the graphs of their types, and bindgen with its wrapper.

What a next step would add: libraries, and callables bound from their symbols, to `FfiHandles`;
the tail call of the Lua binding's `__call` and Lua's error jumps over native frames; the
callback registry of the bindings; `fsig_parse` and the lists as operators against a reference
definition.

## 3. Modules

Each module's constants, state and actions are named after the source; `PROJECT.json` "map"
gives the lines of every definition.  Operators introduced by a comment "A slip: ..." are not
part of any specification: each is a plausible wrong version of the definition that follows
it, and shows which property notices (section 6).

### ReentrantMonitor, RuntimeLock, RuntimeLockProofs

`RuntimeLock` has one action per load or store of `urbc_runtime_lock` and
`urbc_runtime_unlock` (pthread build): the fields of the C struct are `mutex`, `owned`,
`owner` and `depth`; `pc[t]` names the statement thread `t` is at; `nest[t]` counts the
sections it is in.  The fast-path test `lock_owned && pthread_equal(lock_owner, self)` is two
actions, `ReadOwned` and `ReadOwner`, so another thread may write between them.  The fields
are plain C variables, read without the mutex: formally a data race.  The model lets the race
have every outcome of the interleavings of whole-word loads and stores in program order, which
is what an optimised x86-64 build does (the stores stay in the order owner, owned, depth).
`ReentrantMonitor` is one counter per thread, entered and left in one step, and never two
threads inside.

### CallFrames, MCCallFrames, CallFramesProofs

The state of every thread is a stack of frames (a native call, a trampoline, a host call, a
run), the thread's `current` runtime and how often it holds each runtime's lock; each runtime
has its `failed` flag.  The lock is that of `ReentrantMonitor`.  `Enter` is the prologue all
four kinds share (lock, save current, set current, clear failed); the returns differ, and each
is an action: `RefuseCall` is the `fail` label of `urbc_ffi_call_bound`, `ReturnCall` its
normal end, `ReturnTrampoline`, `ReturnHostCall`, `ReturnRun` those of the other functions.
`LeafApi` stands for the entries that take the lock, work, and give it back without calling
anything.  Native code is external: it may call any closure (`InvokeClosure`), start threads
that do, and wait for them (`Join`).  The return of a trampoline for an argument type it does
not support is the return of a failing host function: it has the same effect on this state.
`lost` is history: a run remembers that an op of it failed.

A *scope* is a process: its threads, its runtimes and how deep its stacks may be; `Init` picks
one.  In a process with several runtimes and several threads the host enters the runtimes in
one order (`InOrder`): the code keeps no order of its own, and two threads that cross would
wait for each other, as with any two locks.

### Words, BytecodeMachine, Interpreter, InterpreterProofs

`BytecodeMachine` follows `docs/BYTECODE.md`: a program of constants and tokens, absolute branch
targets, what each core op does to the stack. It is an abstract specification and maps to no code.
`Interpreter` works on the words `urbc_load_code` encodes: `IsTokenWord`, `IsConstRefWord` and the
equality tests against the aliases decide what a word is, in the order of the loop; indexes and jump
targets are unsigned words that wrap; `exec` is the table with its NULL gaps. `MacroBits` is the
width of `INT_MIN` and `INT_MAX` where the `.c` files use them, `WordBits` the width of a word, and
`Words` the arithmetic of words. Lists count in half a word (`HalfBits`), so that two tables fit in
the range of a word. The macros are those of an `int` whichever target is built for, since a system
header redefines them: on a 32-bit target that is a word, on a 64-bit one half of it, and
`WidthsAssumption` allows both. `HostStacks` is what a stack may hold that the host hands to
`urbc_runtime_bind`. `OpsRun`, which is proved and in no run, says of the step at the token of an op
alone that it is the document's; it holds where the other tokens are mistaken for something else. An
id past the end of the table of ops has no name in `BytecodeMachine`, as one in a gap: the document
is silent, and the machine promises nothing of it.

### FfiHandles, FfiHandlesProofs

A descriptor is `none`, `live` or `freed`, with an owner: a host object, the runtime's
signature cache, or one API call.  Bound functions (in the image's owned heap) and closures (on
the runtime's list) keep a pointer to it.  `Bind` and `MakeCallback` are the functions that
take a descriptor; `BindDescriptor`, `BindString` and `OpBind`, and likewise for callbacks, are
the entries that reach them with a host's descriptor, with a signature text, and from bytecode.
`Reads` is what a call does: only for a tagged pointer does it look into the descriptor.
`Collect` is the finalizer of a descriptor object, at any time nothing reaches it.
`DestroyRuntime` and `DestroyImage` are the teardown of both bindings.

### SchemaCompile, SchemaCompileProofs

The recursion of `urbc_schema_compile` is a stack of frames, each with the fields laid out so
far, `offset`, `max_align` and `max_size`; `cache[s]` is NULL, the in-progress mark or the
compiled schema.  `Refuse` covers every early NULL (index, recursion, memory); `Begin` marks;
`LayField`, `CompileField` and `TakeSubschema` are the loop's body for fields that need no call
and for those that do; `Finish` and `Unwind` are the two ends.  Sizes are `size_t`: sums and
roundings are taken modulo `SizeModulus`.  Sections are arbitrary; `Init` takes those
`urbc_schema_build_cache` accepts.

### Views, MCViews

Composes with `SchemaCompile`, whose variables and steps it has as its own: a function that
needs a schema records itself in `call` and makes a `Request`; while the compiler's stack is
busy nothing else of the runtime moves, as under the lock; `MakeHandle`, `RefuseHandle` and
`GiveUp` are the three ends of the call.  The API functions and the ops of the same names are
one action each.  Its proofs go on from the compiler's, in `SchemaCompileProofs`.  A handle's
`region` is history: the memory its root was made of.  `access` is
the memory the last read or write touched; the values are left out.  `Finds` names a field by
its position.  Querying `count` and `ptr` reads the handle alone.  `Viewed` bounds a run: on the
sections of it the host makes handles, on the others it only asks the compiler for schemas
(`schema.sizeof`, `schema.offsetof`, `urbc_schema_compile_value`).

### ImageLoader, Lifetime, MCImages, LifetimeProofs

A file is what its bytes decode as: a header that is one or is not, its size, and for each section
the count and bytes the header claims and the entries that are really there. The load takes one
entry at a time: `Fits` is `urbc_expect_space`, by which both a section's cursor and the five
sections as a whole are checked, the latter with a sum (`Space`) that is taken in 32 bits
(`SizeModulus`; `AllBytes` is the exact one), `ValidEntry` the checks of the five loops with those
of `urbc_schema_validate_field`, `Made` and `Given` what an entry puts into the image and asks of
malloc. `GiveUp` is a check or a malloc that fails, and `FailLoad` the label `fail`. `live` are the
blocks malloc has given and free has not taken, and a block is named for the pointer that has it, so
that a table that is left, or freed twice, shows. A buffer read from a file (`LoadFromFile`) goes
when the load returns.

`Lifetime` has the loader's variables and steps as its own and adds the runtime: its lists,
bindings, closures, cached descriptors and externals, each a sequence of numbered objects.
`urbc_runtime_destroy` is in steps, `CleanupFfi`, then `ReleaseExternal` and `EndRelease` for each
external, then `DestroyRuntime`, because a release function is host code: between the two
`phase` is `"release"` and the host may register, track, allocate and describe.  `DestroyImage`
comes before or after.  `careless` is history, of a host that binds again a runtime that has
lists of its own, or makes FFI objects in a release function: the code loses those, and
the models say so (`lost`) rather than exclude it.

### Bindgen, Wrapper, MCBindgen, BindgenProofs

`Bindgen` visits the declarations of a header one by one and then prints. A visit (`Visit`) first
builds the types the declaration needs, one type at a time: `building` is the call stack of
`buildRecord`, each frame a record and the types it, or the declaration, has yet to build.
`BuildRecord` enters the record before its fields are built, `BuildType` is a type that adds no
record, `EndRecord` gives the record its fields. (The code appends each field when its type is
built; nothing reads the fields of a record that is being built.) When nothing is left to build,
`CollectRecord`, `CollectEnum`, `CollectTypedef` or `CollectFunction` ends the visit. C types are
trees, and the tables keep the tree: `Kind` is the `TypeInfo` that `buildTypeInfo` makes of it,
where it is not the parameter of a function; of those `Parameter` gives what the code takes instead,
an address or a text for an array, and `Signature` a function's types with it. `SchemaRecords` is
`checkSchemaRecord` turned round: the records it accepts, given the path of those it is in. `output`
is the set of parts still to print and `Before` their order. Printing is a stack of what is still to
be printed (`PrintType`), since records are printed by recursion into the records they hold: a
record that is inside itself, through any pointers, never ends, and the model ends in `"overflowed"`
once more records are open than there are. libclang is external; its canonical cursor of a record is
the first declaration, which is why a record declared before its definition counts as incomplete.
`Preferred` leaves out the last resort of `preferredRecordName`, the spelling `(anonymous ...)` of
an anonymous member: no function can name the type of one, so no output asks for it.

`Wrapper` is the printed program: `load()` binds each function in turn and may throw at any of them; a
call prepares its arguments one by one (`PrepareRecord`, `PassAsIs`), calls, copies back and
frees in `finally`; anything may throw in between.  `Touched` and `RecordWords` walk descriptors
as the printed helpers do, `Touched` for a value whose arrays are `longer` than declared by some of
`Longer`: `writeArray` writes as many elements as the value has.  Reading a result back counts
by the descriptor.  `faults` keeps what the copies did wrong: past the record although every array
has its length (`"outside"`), past the field for an array that has not (`"overrun"`), in what a
pointer points at (`"pointee"`).  Memory is counted in words.

### RichDescriptors, TypeGraphs, TypeLayouts, MCRichDescriptors, RichDescriptorsProofs

`RichDescriptors` is the call that describes a function type, for any conversion of types to
layouts (`LayoutOf`) and of layouts to graphs (`GraphOf`): `WriteSignature` numbers the positions
that pass a struct, union or array by value, and `Attach` takes them one by one a second time.
The text may be refused and a malloc may fail, and the failure paths of the two bindings
differ (`Bindings`): Lua frees everything, Node leaves texts.

`TypeGraphs` is what the native side makes of a layout.  `Counted` is the walk that sizes a block of
`ffi_type` nodes and element slots, `BuildNode` the walk that fills it: it takes the next node and
slots (`Opened`), has each part walked and stores what comes back (`Element`, `Filled`), and ends
the elements with a null (`Closed`).  Both are functions of the layout, and `Filled` and `Total` are
the loops over the parts.  `Reads` is what libffi, which is external, makes of a graph: which of its
types read as a layout, member by member up to the null.  A node is told by the slot its elements
begin at, and the pool is the set of the stores that were made, so a slot that is stored to twice
shows.  `TypeLayouts` has the wrapper's conversion of types to layouts, with recursive operators;
the configuration gives it as `LayoutOf`, and `LayoutGraph` as `GraphOf`.  It also has the two ways a
value gets its size: `Sized` is `compileSchema` of `index.js`, `Measured` what libffi, external, adds up
over a graph.

## 4. Runs

| Run | Distinct states | Shows |
|---|---|---|
| `RuntimeLock` | 1,086 | the lock refines the monitor, holds no thread out for ever, and no thread waits for itself |
| `CallFrames` | 252,934 | in three processes: locks and current runtime follow the frames, callbacks stay on their thread, no wait cycle, failures of ops are reported |
| `Interpreter` | 826,608 | with one width for the macros the decoded words implement `BytecodeMachine` |
| `InterpreterInt` | | *violation*: with the widths of a 64-bit build a constant reference is not one |
| `FfiHandles` | 172,910 | no use after free, one cached descriptor per signature, teardown frees everything, for hosts that use descriptors |
| `FfiHandlesString` | | *violation*: a signature text with a tagged pointer leaves a dangling descriptor |
| `Views` | 330,638 | marks, layouts, finality and termination of the compiler over every small section; on larger ones, handles made and used while schemas compile and fail stay in their memory and on compiled schemas, and struct fields find theirs in the cache |
| `Images` | 817,607 | what loads is what the document describes, and reads inside its sections and, unless their sizes wrap, inside the file; every block is freed once, through failed loads and release functions; closures call the latest function; externals go last in, first out |
| `Bindgen` | 187,773 | the printed wrapper finds what it names, frees what it prepares, and copies past a record only arrays longer than their fields; printing ends unless a record is inside itself |
| `BindgenPointers` | | *violation*: a Node wrapper copies what a pointer field points at |
| `RichDescriptors` | 27,854 | each position has the graph made of its own type, which reads as that type where no union is in it, in a block exactly as large as what is put there, freed once |
| `UnionsByValue` | | *violation*: a struct with a union has one size for the binding and another for libffi |

**Bounds, and why they are enough.** *RuntimeLock*: three threads give an owner, a stale reader and
a waiter at once; nesting of two is the least with both ends of the nested path; the proofs have
neither bound. *CallFrames*: one runtime with two host threads and a native thread, four frames
each: run, native call, trampoline and a call from it, the longest chain in which each kind is above
each kind it can be above, and the least threads for a wait cycle through a join; one thread with
two runtimes, four frames; two threads with two runtimes, two frames. *Interpreter*: words of six
bits, and of ten with macros of five in the run of the real widths; an empty stack or one of two
that a host hands over; two constants, each false, negative, or a jump target inside or outside the
program, so that data and targets meet; code of any two tokens, alone or after any three constant
references, enough operands for every op; a table with entries, a gap and an end, and an id past it.
*FfiHandles*: three descriptors so that each owner has one at the same time; two handles and two
closures so that two share one. *Views*: for the compiler, every section of up to two schemas with
two fields, or three with one, over primitive, array, pointer and by-value fields: recursion of
length one, two and three, failures at each depth; no size reaches the modulus. For the handles,
four more sections hold every kind of field, structs by value two deep, a union of structs, an empty
struct and a schema that cannot be compiled; counts of zero, one and two have the first index, the
last and the one past it; three handles are an array, its element and a field of that, or a failure
between two of them. *Images*: 119 files, a right one and those that are wrong in one place: each
count, each size, each kind, type and reserved word, each index at its limit, an end too early or
too late; sizes add up modulo 96, which no right file reaches, and some files' sums pass it. Every
malloc may fail. After the load, one name, two functions and four objects: a closure on a binding
that is rewritten, or two externals of which the release of the second tracks a third and makes a
closure. *Bindgen*: 4,191 initial states: two records that may hold or point to one another, a
struct or a union, declared before or not, named by a tag, a typedef or both, with an enum that may
be of an included header, and a function, with arrays of enums and texts as fields and as
parameters; three outputs; values that fit their arrays or are one element longer.
*RichDescriptors*: every function of one or two arguments over fourteen types, nested structs and
unions, arrays and what cannot be laid out among them, and some of three, one more than a signature
has room for.

**Fairness.** `RuntimeLock`'s `FairSpec` is weak fairness of each thread's own steps inside lock and
unlock, which the operating system's scheduler gives; nothing makes a thread call lock, or favours
one waiter, so what is claimed is that *some* waiter enters. `SchemaCompile`'s, and that of `Views`
over it, is weak fairness of the compiler, sequential code that runs once called; requests are not
fair. `Bindgen`'s is weak fairness of the tool's own steps: a program that was started and runs;
nothing of the wrapper's use is fair. The other specifications have no fairness and claim no
liveness.

**Deadlock.**  `CHECK_DEADLOCK FALSE` appears where the program ends: after teardown
(`FfiHandles`, `FfiHandlesString`, `Images`), after an abort or a crash (`Interpreter`,
`InterpreterInt`, `CallFrames`), at the end of a tool or of one call (`Bindgen`,
`BindgenPointers`, `RichDescriptors`, `UnionsByValue`).  In the others TLC checks that there is none.

## 5. Proofs

`RuntimeLockProofs` proves for every set of threads and every `MaxDepth` that the lock's
invariants hold and that it implements `ReentrantMonitor`.  `MutualExclusion` and the rest are
not inductive: the strengthening `IInv` adds who may be inside given the mutex
(`HolderInside`), that a thread's statement fits its nesting (`LabelFitsNest`), that `owned` and
`depth` have the values the holder's statement has given them (`OwnedFits`, `DepthFits`), and,
the heart of it, that a thread outside which has read `owned` as true will not find its own
name in `owner` (`ReaderFits`): the owner was another thread at that moment, and only a thread
itself ever writes its name there.  That no thread waits for the mutex it holds
(`SlowPathSound`) follows from the same.  The refinement maps the monitor's counter
to `nest`; each step is an entry, an exit or a stutter.

`CallFramesProofs` proves for any threads, scopes and nesting and any finite set of runtimes that
a thread holds a lock as often as it has frames inside the runtime, that its current runtime is
one it holds, and that callbacks run on their runtime's thread.  `FramesInv` says of every stack
that all frames below the top one are in the middle of a call, that the runtime a frame saved is
that of a frame below it (or none), so what a return restores is held; that a trampoline past its
check is on its owner's thread; and that a native thread has nothing but a callback it may not
make.  `WaitsInv` adds that each runtime has one holder, that a thread about to lock a
runtime has it or comes from runtimes before it (`EntersInOrder`), and what a run that no other
run was nested in finds when a call of its op returns (`RunsStay`).  From it follow that no
threads wait for one another in a circle (`ThreadsNeverCross`: of those in such a circle that
want a lock, take the one that wants the last runtime; its holder wants one after it, or is
joining native threads, which want none), and that such a run has each failure of its ops on
record when it looks (`FailuresAreReported`).

`InterpreterProofs` proves, for every table, program, width of a word and either width of the macros,
that the stack holds words and the index is one, however a program jumps (`TypesHold`), and that
at the token of an op the loop does what the document says of that op (`OpsRunAsDocumented`).
That the loop implements `BytecodeMachine` (`LoopImplementsMachine`) is proved of programs whose
tokens the build tells by their words (`Told`): all tokens where the macros are those of a word, as
on 32-bit targets, and the tokens of ops where they are half of one, as on 64-bit targets.  The
run `InterpreterInt` shows that for those the hypothesis cannot be dropped.  What the tests of the
loop, in their order, tell of a word is the kind of the token it encodes (`Decoding`); the ranges of
aliases, ops, literals and references are disjoint because a list counts in half a word.  With
macros of half a word the word of an op is negative, below a bound that is then an unsigned sum,
and none of the aliases, which are at the limit of a word.  `IInv` adds to the types
that the program is one the loader takes; the words `urbc_load_code` wrote are a function of it.
Each action is then a step of the machine, or stutters.

`FfiHandlesProofs` proves for any number of objects that the cache has one descriptor of a text and
that teardown frees what the host does not hold, and that nothing is read after it was freed
if no signature text has a tagged pointer.  `Owned` says to whom each descriptor belongs and
what may therefore free it; `Reaching` that what the host holds is usable.  The condition is
necessary: the run `FfiHandlesString` drops it.

`SchemaCompileProofs` proves, for every set of sections, pointer size and modulus, type
correctness, `MarksAreFrames`, `CompiledOnCompiled`, `NullIsReported` and `CompiledIsFinal`.
`IInv` adds that each frame waits for the schema of the frame above it (`FramesChain`), that a
frame has taken only compiled schemas (`FramesOnCompiled`), and that a returned schema is the
one asked for (`ResultFits`).  With them a schema that is compiled can hold by value neither
itself nor one in progress: this is why the recursion check is enough.  `LayoutsSound` proves
`LayoutsAreSound` of every behaviour in which the next sum or rounding stays below `SizeModulus`
(`NothingWraps`).  The code has no such check, so it is a hypothesis and not an invariant: it
holds in every state of the run `Views`, and a modulus of 32 there breaks the layouts.
`LayoutIInv` says of each frame what the layout says of the finished schema; alignments are 1, 2,
4 or 8, of which the larger is always a multiple of the smaller, so the largest aligns the whole.

It goes on with `Views` and proves, for any sections, addresses, counts and number of handles, type
correctness, `SubviewsHit` and that every handle's schema is compiled.  `ViewsIInv` adds to the
compiler's invariant that a compiled schema has laid out all its fields (`AllFieldsLaid`) and
that a call whose schema has come has a compiled one (`ResultAwaited`); the rest is that a
schema held by value was compiled first and stays so, which the compiler's invariant gives.
`HandlesStayInside` and `AccessesStayInside` prove `ViewsInside` and `AccessInside` where
`NothingWraps`: `InsideIInv` adds that the memory a waiting call will make its handle of is inside
what its root was made of.

`LifetimeProofs` proves, for any files, names, functions and number of objects, `ReadsInside`,
`LoadsDocumented`, `WordsAreSound`, `NothingLeaks`, `ClosuresCallLatest` and `ReleasedLastFirst`.
`LoadInv` is about a load: its cursor is inside its section and the sections inside the file
(`CursorInside`); each table has as many rows as entries read, so a later section's index that was
checked against a count is in the table (`TablesGrow`); the next block is not in the owned heap yet
(`HeapGrows`); and strings and pointers are in it (`PointersOwned`); and every token behind the load
is an alias or names a constant there is (`WordsFit`, which the growth of the memory keeps). From
the first of these `ReadsInside` follows: the cursor is within the bytes the header claims, and
those within the file when the sum that was checked is the exact one (`SizesAddUp`). For
`LoadsDocumented`, `ReadSoFar` says that the sections behind the load are as the document has them
and that the cursor is where the entries read so far end. `LifeInv` adds the runtime: nothing before
the load is over (`NothingYet`, `LoadOver`), objects numbered below the next and externals in the
order they were tracked (`Numbered`), lost lists older than the runtime's own (`LostLists`), and the
account of all blocks (`Accounted`). The account is only inductive because a block's name tells
whose it is, so that no destructor takes another's (`NamesApart`), and because what is lost is never
found again.

`RichDescriptorsProofs` proves, for any function types and whatever their types' layouts and
graphs are, `BlocksHaveAnEntry` and `TextsAreFreed`, that no tag is given twice (`TagsAreFree`), and
`PositionsKeepGraphs`: each position passed by value, and no other, has an entry with the graph of
its own type under the tag its signature has there.  `IInv` says that the entries are those of the
positions reached, in their order (`EntriesFit`, `EntriesInOrder`, `NoneIsSkipped`); in that order
their owners and, since the counter only grows, their tags are all different.

For the conversion of `TypeGraphs` it proves `CountsAreExact` for layouts of any shape and depth,
and `PositionsKeepLayouts` for those without a union (of one, the graph reads as a struct of its
members, and `UnionsByValue` shows what that does to its size). The claim that is inductive is about
one walk (`Fills`): started on a block that has room for what was counted of its layout, with no
store at or after the next slot (`Fits`), it takes exactly what was counted, stores once to each
slot it takes, and returns a type that reads as the layout in the pool it leaves (`Walked`). Under
it lies an induction over the parts of an aggregate (`After`): after the first i of them the slots
stored to are the aggregate's first i and all those its parts took, which begin behind its own; so
the slot of the next part, and at the end that of the null, is still free. A part stays readable
because later stores take nothing away (`ReadsGrow`). That an array's element is counted once and
walked many times agrees because an element takes nothing (`CountsAddUp`); with elements that are
structs, which the wrapper refuses, it would not.

`BindgenProofs` proves, for any C types and headers and any of the three outputs, all six invariants of
the run `Bindgen`.  `IInv` says of collecting that an entry has the fields of its definition or is
being built (`EntriesFollow`); that what an entry, a function or a declaration already visited
names is in the tables or still to be built by a frame (`NamesFollow`), which with nothing left to
build gives `TablesWhole`; and that what input headers name is exported (`ExportsFollow`), from which
`ReferencesResolve` follows.  Of printing it says that each part and each reference was accepted by
the tests that chose it (`PrintedFollow`), and of each frame on the stack (`FramesFollow`) that, where no
pointer is above it, `directDescriptorCompatibleType` or `checkSchemaRecord` has accepted its types
(`AcceptedByValue`, hence `NullsBehindPointers`), and that it is inside every record that is open
(`InsideOpen`).  More open records than there are records then means, by counting, that one is open
twice, so inside itself: `OverflowsOnlyInside`.  `PreparedAreFreed` needs only that the blocks are
those the call holds.  `CopiesStayInside` is an induction over records by what they hold by value:
sizes are natural numbers, each field ends inside its record, and a copy of arrays of their declared
length that does not take a pointer for a record touches what the size covers; a record without an
array is touched alike by values of any length (`TouchedAlike`), so what is overrun has one.

The recursive definitions of these two modules are functions over finite trees (types, layouts) or
ranked by depth (records by value, paths), and loops.  That each is the function its equation
describes, and that a claim holds for all its arguments, is proved by the least natural number at
which it would fail (`LeastNatural`, `Recursion`, `RecordInduction`, `LayoutInduction`, `LoopIs`),
since the libraries' rules take an operator, which the provers cannot instantiate.

Assumptions are those the modules name. `RuntimeLock`: a positive nesting bound, and `NoThread`
outside `Threads`. `CallFrames`: finitely many runtimes, numbered in the order the host enters them,
and threads that are the host's or native. `FfiHandles`: the sets of objects are disjoint.
`SchemaCompile`: sections made of records, a pointer size that is a primitive's, and a modulus above
it. `Views`: addresses and counts that are natural numbers. `ImageLoader`: files that decode as
`FilesAssumption` says, whose sections have the entries they count, and a positive modulus for the
sum of their sizes. `Interpreter`: lists count in half a word, twice of which and the aliases fit in
one, the macros have that half or all of it, the table's ops are core ops and gaps
(`ExecAssumption`), what a host hands over is made of words, and a program's constants and code fit
in a list. Counts in a file are of 16 bits, so on 64 bits every file's program does; on 32 bits the
theorems say nothing of programs of 65,536 words and more. `RichDescriptors`: a function type is a
sequence that begins with what it returns. `TypeGraphs`: layouts are finite, and an array has at
least one element and elements that are names (`LayoutsAssumption`, which `abiTypeToLayoutSchema`
and `ffi.type.array` refuse to break), and the call's conversions are the module's
(`ConversionsAssumption`). `Bindgen`: a C type is finite, as any type a compiler has read
(`CTypesAssumption`), addresses and texts are C types (`ParametersAssumption`), and
`HeadersAssumption`: a header names only what libclang has declarations of, records apart from
enums, its records are finitely many, and a record holds by value only what was complete before it,
as C demands (a rank of the records). `Wrapper`: a value is longer than its array by a natural
number (`LongerAssumption`).

Only model-checked: liveness (`SomeWaiterEnters`, `RequestsReturn`, `Prints`), since the prover has no
temporal reasoning under fairness; and that the wrapper's own conversion (`TypeLayouts`) satisfies
`LayoutsAssumption`, which TLC evaluates on the run's types.

## 6. How the properties were tried

For each property of a passing run `PROJECT.json` "mutants" names a slip: one definition is
replaced by a wrong one of the kind a maintenance change could introduce (a forgotten unlock or
reset, a check moved after the lock, a cache not searched, a mark not cleared, a table left, an
index compared with `<=`), and the property must then fail.

## 7. Disagreements between the code and its documents

Four have a run that ends in a counterexample and an entry in "findings": the width of
`INT_MIN`/`INT_MAX` in the compiled files (`InterpreterInt`); dangling descriptors for tagged
pointers in signature texts (`FfiHandlesString`); Node wrappers that take a pointer field for a
record (`BindgenPointers`); unions by value, which both bindings describe to libffi as structs of all
their members, one after another (`UnionsByValue`).

Others were met on the way and have no run:

* A nested run sets the current runtime to NULL when it ends (`urbc_runtime.c` 416), so an op of
  the outer run that fails later leaves its status `URBC_OK` (`docs/BYTECODE.md` 231).
* A callback's failure is cleared by the next callback (`urbc_ops_ffi.c` 777).
* Offsets are `size_t` and may wrap over some tens of nested schemas (`urbc_schema.c` 284,
  `docs/BYTECODE.md` 107); layouts and handles are proved sound where none does (`NothingWraps`).
* The five section sizes are `uint32_t` and their sum wraps (`urbc_loader.c` 252): a file whose sum
  does passes the check of the space and is read past its end.  `ReadsInside` says what holds then.
* The printed copies give the caller's value to `writeArray` (`main.cpp` 2054 and 2356), which writes
  as many elements as that has: one longer than its field is copied past it.  `CopiesStayInside` says
  that nothing else is, and no document promises otherwise.
* A struct type that cannot be converted to a layout is described as a pointer.

## 8. Not modelled, or only in part

*Loader and lifetime.*  Two things the models have as the code does: with no schemas
the bytes of the schema section are not looked at, and the index of a schema constant is not
checked before it is asked for.  The owned heap of `urbc_ffi_dlerror_copy`, pushed without the
lock, is one step here.

*Calls and handles.*  Arguments, results and their conversions are data no property tells
apart.  Libraries and the addresses they keep alive are not modelled; nor are Lua's tail calls
and error jumps.

*bindgen.*  Text, options and libclang's parsing are left out.  Seen in the code and in the
model, outside what the properties claim: records and enums of included headers are referred to
and not in the tables; a tag and a typedef of one name share a key and the later wins; a null
behind a record's pointer makes `load()` throw; a preparation that throws leaves the blocks
before it; `load()` that fails to bind abandons the library; functions may be called after
`close()`.  Not in the model: arrays of no elements, which are printed though the runtime refuses
them, and values shorter than their array, which leave the rest of it zero.

*Rich descriptors.*  Fields named `__...` are skipped by the bindings and do not occur here.
Arrays count one element whatever their length, which is enough because an element must be a
scalar's name.

*Not at all.*  The signature parser (a scanner of one text, whose results are inputs here), the
lists (`insert`, `remove`, `shift` and `reverse` are called by nothing in the runtime), memory ops
and value conversions, dynamic loading, the legacy add-on, the scripts.  The Windows build of
the lock (a critical section) has the same shape as the pthread one and is not modelled apart.
