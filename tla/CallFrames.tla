----------------------------- MODULE CallFrames -----------------------------
(***************************************************************************)
(* The calls that re-enter a runtime: host code calls the API, the API runs *)
(* bytecode or calls a native function, native code invokes a callback     *)
(* closure, the closure calls a host function, which may call the API      *)
(* again.  Each of these C functions keeps three things in step: the       *)
(* runtime's lock (here the monitor RuntimeLock implements), the thread's  *)
(* current runtime, and the runtime's failed flag.                         *)
(*                                                                         *)
(* A thread's C stack is a sequence of frames, the top one last.           *)
(***************************************************************************)
EXTENDS Naturals, Sequences, FiniteSets

CONSTANTS
  HostThreads,    \* threads that run host code and may call the API
  NativeThreads,  \* threads a native library starts; they only invoke closures
  Runtimes,       \* numbers: the order in which hosts of several enter them
  NoRuntime,      \* the NULL thread-local current runtime
  Scopes          \* processes: their threads, their runtimes, and a bound on
                  \* the frames of one thread's stack

ASSUME ThreadsAssumption == HostThreads \cap NativeThreads = {}
ASSUME RuntimesAssumption ==
  Runtimes \subseteq Nat /\ IsFiniteSet(Runtimes) /\ NoRuntime \notin Runtimes

Threads == HostThreads \cup NativeThreads

ASSUME ScopesAssumption ==
  Scopes \subseteq [threads : SUBSET Threads, runtimes : SUBSET Runtimes, frames : Nat]

VARIABLES
  scope,     \* the process that runs: one of Scopes, never changed
  holds,     \* holds[r][t]: sections of r's lock thread t is inside
  current,   \* current[t]: g_urbc_runtime of thread t
  failed,    \* failed[r]: rt->failed
  stack      \* stack[t]: the frames of thread t

vars == <<scope, holds, current, failed, stack>>

(***************************************************************************)
(* A frame: which function it is, the runtime it works on, the current      *)
(* runtime it saved, how far it has got, and for a trampoline the thread   *)
(* that made its closure.  The last two record history for the properties:  *)
(* lost is set when an op of the run failed; nest, when a host function     *)
(* that an op called has run bytecode.                                     *)
(*   at = "check"   a trampoline before it compares threads                *)
(*        "wait"    at urbc_runtime_lock                                   *)
(*        "args"    a native call checking its arguments                   *)
(*        "native"  inside the native function                             *)
(*        "join"    the native function waits for its native threads       *)
(*        "vm"      a run between two ops                                  *)
(*        "host"    inside a host function                                 *)
(*        "crash"   a core op went through a NULL current runtime          *)
(***************************************************************************)
Kinds == {"call", "host_call", "run", "trampoline"}
Ats == {"check", "wait", "args", "native", "join", "vm", "host", "crash"}
Frames == [kind : Kinds, rt : Runtimes, prev : Runtimes \cup {NoRuntime},
           at : Ats, owner : Threads, lost : BOOLEAN, nest : BOOLEAN]

Frame(kind, r, owner) ==
  [kind |-> kind, rt |-> r, prev |-> NoRuntime, owner |-> owner,
   at |-> IF kind = "trampoline" THEN "check" ELSE "wait",
   lost |-> FALSE, nest |-> FALSE]

Empty(t) == stack[t] = <<>>
Top(t) == stack[t][Len(stack[t])]
TopIs(t, kind, at) == ~Empty(t) /\ Top(t).kind = kind /\ Top(t).at = at
TopAt(t, at) == ~Empty(t) /\ Top(t).at = at
Below(t) == SubSeq(stack[t], 1, Len(stack[t]) - 1)

Push(t, f) ==
  /\ Len(stack[t]) < scope.frames
  /\ stack' = [stack EXCEPT ![t] = Append(@, f)]

SetTop(t, f) == stack' = [stack EXCEPT ![t] = Append(Below(t), f)]

(* What the frame under the returning one learns from the return. *)
Return(t, Learn(_)) ==
  LET rest == Below(t) IN
  stack' = [stack EXCEPT ![t] =
              IF rest = <<>> THEN rest
              ELSE [rest EXCEPT ![Len(rest)] = Learn(@)]]

Init ==
  /\ scope \in Scopes
  /\ holds = [r \in Runtimes |-> [t \in Threads |-> 0]]
  /\ current = [t \in Threads |-> NoRuntime]
  /\ failed = [r \in Runtimes |-> FALSE]
  /\ stack = [t \in Threads |-> <<>>]

Lockable(r, t) == \A u \in Threads \ {t} : holds[r][u] = 0
Unlock(r, t) == holds' = [holds EXCEPT ![r][t] = @ - 1]

(* urbc_runtime_fail(urbc_runtime_current()): with no current runtime it   *)
(* returns at once and the failure is recorded nowhere.                    *)
FailCurrent(c) == failed' = [r \in Runtimes |-> failed[r] \/ r = c]

-----------------------------------------------------------------------------
(* Calls *)

(* Host code runs at the bottom of a host thread's stack and in host functions. *)
InHostCode(t) == t \in HostThreads /\ (Empty(t) \/ TopAt(t, "host"))

(* A thread that is inside a runtime enters another only in the order of    *)
(* their numbers.  Nothing in the code makes it: it is what NoWaitCycle    *)
(* asks of a host that has several runtimes and several threads.           *)
InOrder(t, r) ==
  holds[r][t] > 0 \/ \A q \in Runtimes : holds[q][t] > 0 => q < r

CallApi(t, kind, r) ==
  /\ InHostCode(t)
  /\ InOrder(t, r)
  /\ Push(t, Frame(kind, r, t))
  /\ UNCHANGED <<holds, current, failed>>

(* An API function that calls nothing back: schema, view, bind, callback.  *)
(* It clears failed and, if it fails, sets it; current is as it was.       *)
LeafApi(t, r) ==
  /\ InHostCode(t)
  /\ InOrder(t, r)
  /\ Lockable(r, t)
  /\ \E ok \in BOOLEAN : failed' = [failed EXCEPT ![r] = ~ok]
  /\ UNCHANGED <<holds, current, stack>>

(* What every function does once it has the lock: save current, make the   *)
(* runtime current and clear its failed flag.  (A run saves nothing.)      *)
Enter(t) ==
  /\ TopAt(t, "wait")
  /\ LET f == Top(t)
         body == CASE f.kind = "call" -> "args"
                   [] f.kind = "run" -> "vm"
                   [] OTHER -> "host"
     IN /\ Lockable(f.rt, t)
        /\ holds' = [holds EXCEPT ![f.rt][t] = @ + 1]
        /\ current' = [current EXCEPT ![t] = f.rt]
        /\ failed' = [failed EXCEPT ![f.rt] = FALSE]
        /\ SetTop(t, [f EXCEPT !.prev = current[t], !.at = body])

(* urbc_host_call of a name nobody registered returns an error at once. *)
HostCallUnknown(t) ==
  /\ TopIs(t, "host_call", "wait")
  /\ LET f == Top(t) IN
     /\ Lockable(f.rt, t)
     /\ failed' = [failed EXCEPT ![f.rt] = TRUE]
     /\ Return(t, LAMBDA g : g)
     /\ UNCHANGED <<holds, current>>

(* Two slips in the error path of a call: no unlock, no failure recorded. *)
RefuseCallLocked(t) ==
  /\ TopIs(t, "call", "args")
  /\ LET f == Top(t) IN
     /\ current' = [current EXCEPT ![t] = f.prev]
     /\ failed' = [failed EXCEPT ![f.rt] = TRUE]
     /\ Return(t, LAMBDA g : IF g.at = "vm" THEN [g EXCEPT !.lost = TRUE] ELSE g)
     /\ UNCHANGED holds
RefuseCallSilently(t) ==
  /\ TopIs(t, "call", "args")
  /\ LET f == Top(t) IN
     /\ current' = [current EXCEPT ![t] = f.prev]
     /\ Unlock(f.rt, t)
     /\ Return(t, LAMBDA g : IF g.at = "vm" THEN [g EXCEPT !.lost = TRUE] ELSE g)
     /\ UNCHANGED failed

(* urbc_ffi_call_bound refuses the handle or an argument: the error goes   *)
(* back to the caller, and a bytecode op that made the call fails with it. *)
RefuseCall(t) ==
  /\ TopIs(t, "call", "args")
  /\ LET f == Top(t) IN
     /\ current' = [current EXCEPT ![t] = f.prev]
     /\ Unlock(f.rt, t)
     /\ failed' = [failed EXCEPT ![f.rt] = TRUE]
     /\ Return(t, LAMBDA g : IF g.at = "vm" THEN [g EXCEPT !.lost = TRUE] ELSE g)

CallNative(t) ==
  /\ TopIs(t, "call", "args")
  /\ SetTop(t, [Top(t) EXCEPT !.at = "native"])
  /\ UNCHANGED <<holds, current, failed>>

(* The native function returns: urbc_ffi_call_bound does not look at       *)
(* rt->failed and returns URBC_OK.                                         *)
ReturnCall(t) ==
  /\ TopIs(t, "call", "native")
  /\ LET f == Top(t) IN
     /\ current' = [current EXCEPT ![t] = f.prev]
     /\ Unlock(f.rt, t)
     /\ Return(t, LAMBDA g : g)
     /\ UNCHANGED failed

-----------------------------------------------------------------------------
(* Native code and the trampoline *)

(* Native code invokes a closure of runtime r made by thread o: from a     *)
(* native call, from a native thread, or from a host thread that reached   *)
(* native code some other way.                                             *)
InvokeClosure(t, r, o) ==
  /\ Empty(t) \/ TopAt(t, "native")
  /\ InOrder(t, r)
  /\ Push(t, Frame("trampoline", r, o))
  /\ UNCHANGED <<holds, current, failed>>

(* A slip: no thread is foreign. *)
OnAnyThread(t, f) == TRUE

OnOwnerThread(t, f) == f.owner = t

(* A slip: the thread is looked at only under the lock. *)
CheckThreadLater(t) ==
  /\ TopAt(t, "check")
  /\ SetTop(t, [Top(t) EXCEPT !.at = "wait"])
  /\ UNCHANGED <<holds, current, failed>>

(* urbc_callback_trampoline compares threads before it touches the lock:   *)
(* on a foreign thread it zeroes the result and returns.                   *)
CheckThread(t) ==
  /\ TopAt(t, "check")
  /\ IF OnOwnerThread(t, Top(t))
       THEN SetTop(t, [Top(t) EXCEPT !.at = "wait"])
       ELSE Return(t, LAMBDA g : g)
  /\ UNCHANGED <<holds, current, failed>>

(* A native function may wait for the threads it started to finish. *)
Join(t) ==
  /\ TopAt(t, "native")
  /\ SetTop(t, [Top(t) EXCEPT !.at = "join"])
  /\ UNCHANGED <<holds, current, failed>>

Joined(t) ==
  /\ TopAt(t, "join")
  /\ \A w \in NativeThreads : Empty(w)
  /\ SetTop(t, [Top(t) EXCEPT !.at = "native"])
  /\ UNCHANGED <<holds, current, failed>>

-----------------------------------------------------------------------------
(* Host functions and bytecode *)

(* A slip: the trampoline does not restore the current runtime. *)
ReturnTrampolineStale(t) ==
  /\ TopIs(t, "trampoline", "host")
  /\ LET f == Top(t) IN
     \E ok \in BOOLEAN :
       /\ Unlock(f.rt, t)
       /\ failed' = [failed EXCEPT ![f.rt] = @ \/ ~ok]
       /\ Return(t, LAMBDA g : g)
       /\ UNCHANGED current

(* The host function of a trampoline returns; both bindings report an      *)
(* error by urbc_runtime_fail as the last thing they do.                   *)
ReturnTrampoline(t) ==
  /\ TopIs(t, "trampoline", "host")
  /\ LET f == Top(t) IN
     \E ok \in BOOLEAN :
       /\ current' = [current EXCEPT ![t] = f.prev]
       /\ Unlock(f.rt, t)
       /\ failed' = [failed EXCEPT ![f.rt] = @ \/ ~ok]
       /\ Return(t, LAMBDA g : g)

(* urbc_host_call returns URBC_OK whatever the host function did. *)
ReturnHostCall(t) ==
  /\ TopIs(t, "host_call", "host")
  /\ LET f == Top(t) IN
     \E ok \in BOOLEAN :
       /\ current' = [current EXCEPT ![t] = f.prev]
       /\ Unlock(f.rt, t)
       /\ failed' = [failed EXCEPT ![f.rt] = @ \/ ~ok]
       /\ Return(t, LAMBDA g : g)

(* The loop of urbc_runtime_run takes another op. *)
Running(t) == TopIs(t, "run", "vm") /\ ~failed[Top(t).rt]

OpFails(t) ==
  /\ Running(t)
  /\ FailCurrent(current[t])
  /\ SetTop(t, [Top(t) EXCEPT !.lost = TRUE])
  /\ UNCHANGED <<holds, current>>

(* stack.*, ptr.*, cmp.* and logic.* read urbc_runtime_current()->failed,   *)
(* where the other ops only pass the current runtime on.                   *)
CoreOpCrashes(t) ==
  /\ Running(t)
  /\ current[t] = NoRuntime
  /\ SetTop(t, [Top(t) EXCEPT !.at = "crash"])
  /\ UNCHANGED <<holds, current, failed>>

(* ffi.call0 .. ffi.callv; urbc_ffi_call_bound refuses a NULL runtime. *)
OpFfiCall(t) ==
  /\ Running(t)
  /\ IF current[t] = NoRuntime
       THEN SetTop(t, [Top(t) EXCEPT !.lost = TRUE])
       ELSE Push(t, Frame("call", current[t], t))
  /\ UNCHANGED <<holds, current, failed>>

(* host.call0 .. host.call3; with no current runtime no host is found. *)
OpHostCall(t) ==
  /\ Running(t)
  /\ SetTop(t, IF current[t] = NoRuntime
                 THEN [Top(t) EXCEPT !.lost = TRUE]
                 ELSE [Top(t) EXCEPT !.at = "host"])
  /\ UNCHANGED <<holds, current, failed>>

(* The host function of the op returns; one that fails has failed the      *)
(* runtime it was given.                                                   *)
ReturnOpHost(t) ==
  /\ TopIs(t, "run", "host")
  /\ \E ok \in BOOLEAN :
       /\ failed' = [failed EXCEPT ![Top(t).rt] = @ \/ ~ok]
       /\ SetTop(t, [Top(t) EXCEPT !.at = "vm", !.lost = @ \/ ~ok])
  /\ UNCHANGED <<holds, current>>

(* The program ends or the loop saw failed; the run's status is failed.    *)
(* It leaves no current runtime, whatever was current before it.           *)
ReturnRun(t) ==
  /\ TopIs(t, "run", "vm")
  /\ current' = [current EXCEPT ![t] = NoRuntime]
  /\ Unlock(Top(t).rt, t)
  /\ Return(t, LAMBDA g : [g EXCEPT !.nest = @ \/ g.kind = "run"])
  /\ UNCHANGED failed

-----------------------------------------------------------------------------

Step ==
  \/ \E t \in scope.threads, r \in scope.runtimes :
       \/ LeafApi(t, r)
       \/ \E kind \in Kinds \ {"trampoline"} : CallApi(t, kind, r)
       \/ \E o \in HostThreads \cap scope.threads : InvokeClosure(t, r, o)
  \/ \E t \in scope.threads :
       \/ Enter(t) \/ HostCallUnknown(t) \/ RefuseCall(t) \/ CallNative(t) \/ ReturnCall(t)
       \/ CheckThread(t) \/ Join(t) \/ Joined(t)
       \/ ReturnTrampoline(t) \/ ReturnHostCall(t)
       \/ OpFails(t) \/ CoreOpCrashes(t) \/ OpFfiCall(t) \/ OpHostCall(t) \/ ReturnOpHost(t) \/ ReturnRun(t)

Next == Step /\ UNCHANGED scope

Spec == Init /\ [][Next]_vars

-----------------------------------------------------------------------------
(* Properties *)

TypeOK ==
  /\ scope \in Scopes
  /\ holds \in [Runtimes -> [Threads -> Nat]]
  /\ current \in [Threads -> Runtimes \cup {NoRuntime}]
  /\ failed \in [Runtimes -> BOOLEAN]
  /\ stack \in [Threads -> Seq(Frames)]

Entered(t, r) == {i \in DOMAIN stack[t] : stack[t][i].rt = r /\ stack[t][i].at \notin {"check", "wait"}}

(* On every path, the error paths and foreign callbacks included, a thread *)
(* has locked a runtime once for each of its frames that works on it, so   *)
(* that an empty stack has released everything.                            *)
LockMatchesFrames ==
  \A t \in Threads, r \in Runtimes : holds[r][t] = Cardinality(Entered(t, r))

(* A thread's current runtime is one it has locked: what the ops reach     *)
(* through urbc_runtime_current they reach under that runtime's lock.      *)
CurrentIsLocked ==
  \A t \in Threads : current[t] # NoRuntime => holds[current[t]][t] > 0

(* A host function runs for a callback only on the thread that made the    *)
(* closure, and a native library's thread never takes a runtime's lock     *)
(* (docs/BYTECODE.md, notes on ffi.callback).                              *)
CallbacksOnOwnerThread ==
  /\ \A t \in Threads : \A i \in DOMAIN stack[t] :
       stack[t][i].kind = "trampoline" /\ stack[t][i].at \notin {"check"}
         => stack[t][i].owner = t
  /\ \A w \in NativeThreads, r \in Runtimes : holds[r][w] = 0

(* Who keeps a thread from going on: the holder of the lock it wants, or   *)
(* the native threads it waits for.                                        *)
BlockedBy(t) ==
  CASE TopAt(t, "wait") -> {u \in Threads \ {t} : holds[Top(t).rt][u] > 0}
    [] TopAt(t, "join") -> {w \in NativeThreads : ~Empty(w)}
    [] OTHER -> {}

(* No threads wait for each other around a circle: not a caller whose       *)
(* native code waits for its workers, and not the threads of two runtimes  *)
(* whose callbacks cross, when they are entered in order.                  *)
NoWaitCycle ==
  \A S \in (SUBSET Threads) \ {{}} :
    \E t \in S : BlockedBy(t) \cap S = {}

(* A run one of whose ops failed has the failure recorded, so that the     *)
(* loop stops and the run returns it: "on runtime failure, execution stops  *)
(* and last_error is filled" (docs/BYTECODE.md:231).  It is not so of a run *)
(* whose host function has run bytecode itself: the inner run leaves no     *)
(* current runtime, and a failure with no current runtime goes nowhere.     *)
RunReportsFailure ==
  \A t \in Threads :
    TopIs(t, "run", "vm") /\ Top(t).lost /\ ~Top(t).nest => failed[Top(t).rt]
=============================================================================
