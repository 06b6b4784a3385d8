---------------------------- MODULE RuntimeLock ----------------------------
(***************************************************************************)
(* The lock of a runtime, urbc_runtime_lock and urbc_runtime_unlock, one    *)
(* load or store of shared memory to a step.                               *)
(*                                                                         *)
(* The lock is a plain (not recursive) mutex made recursive by three plain  *)
(* fields.  A caller reads lock_owned and lock_owner before it has the     *)
(* mutex, so those reads race with the stores of the thread that has it.   *)
(* The stores are taken in program order, which is the order the x86-64    *)
(* build keeps (owner first, then owned and depth).                        *)
(***************************************************************************)
EXTENDS Naturals

CONSTANTS
  Threads,     \* the threads that use the runtime
  NoThread,    \* nobody: a free mutex, and lock_owner as memset leaves it
  MaxDepth     \* bound on the sections one thread nests

ASSUME ThreadsAssumption == NoThread \notin Threads
ASSUME DepthAssumption == MaxDepth \in Nat \ {0}

VARIABLES
  mutex,       \* the thread that has the pthread mutex, or NoThread
  lock_owner,  \* rt->lock_owner
  lock_owned,  \* rt->lock_owned
  lock_depth,  \* rt->lock_depth
  pc,          \* where each thread is inside lock or unlock; "out" outside both
  nest         \* sections each thread has entered and not left (what it believes)

fields == <<lock_owner, lock_owned, lock_depth>>
vars == <<mutex, lock_owner, lock_owned, lock_depth, pc, nest>>

LockLabels == {"read_owned", "read_owner", "deepen", "acquire",
               "set_owner", "set_owned", "set_depth"}
UnlockLabels == {"unlock_read_owned", "unlock_read_owner", "unlock_read_depth",
                 "clear_depth", "clear_owned", "release"}

Init ==
  /\ mutex = NoThread
  /\ lock_owner = NoThread
  /\ lock_owned = 0
  /\ lock_depth = 0
  /\ pc = [t \in Threads |-> "out"]
  /\ nest = [t \in Threads |-> 0]

Goto(t, from, to) == pc[t] = from /\ pc' = [pc EXCEPT ![t] = to]

EnterSection(t) == nest' = [nest EXCEPT ![t] = @ + 1]
LeaveSection(t) == nest' = [nest EXCEPT ![t] = @ - 1]

-----------------------------------------------------------------------------
(* urbc_runtime_lock *)

CallLock(t) ==
  /\ nest[t] < MaxDepth
  /\ Goto(t, "out", "read_owned")
  /\ UNCHANGED <<mutex, fields, nest>>

(* A slip: only the owner is compared, although it outlives the ownership. *)
ReadOwnedSkipped(t) ==
  /\ Goto(t, "read_owned", "read_owner")
  /\ UNCHANGED <<mutex, fields, nest>>

ReadOwned(t) ==
  /\ Goto(t, "read_owned", IF lock_owned = 1 THEN "read_owner" ELSE "acquire")
  /\ UNCHANGED <<mutex, fields, nest>>

(* Two slips: whoever finds the runtime owned goes in; the owner waits for itself. *)
ReadOwnerAnyone(t) ==
  /\ Goto(t, "read_owner", "deepen")
  /\ UNCHANGED <<mutex, fields, nest>>
ReadOwnerNobody(t) ==
  /\ Goto(t, "read_owner", "acquire")
  /\ UNCHANGED <<mutex, fields, nest>>

ReadOwner(t) ==
  /\ Goto(t, "read_owner", IF lock_owner = t THEN "deepen" ELSE "acquire")
  /\ UNCHANGED <<mutex, fields, nest>>

Deepen(t) ==
  /\ Goto(t, "deepen", "out")
  /\ lock_depth' = lock_depth + 1
  /\ EnterSection(t)
  /\ UNCHANGED <<mutex, lock_owner, lock_owned>>

Acquire(t) ==
  /\ mutex = NoThread
  /\ Goto(t, "acquire", "set_owner")
  /\ mutex' = t
  /\ UNCHANGED <<fields, nest>>

SetOwner(t) ==
  /\ Goto(t, "set_owner", "set_owned")
  /\ lock_owner' = t
  /\ UNCHANGED <<mutex, lock_owned, lock_depth, nest>>

SetOwned(t) ==
  /\ Goto(t, "set_owned", "set_depth")
  /\ lock_owned' = 1
  /\ UNCHANGED <<mutex, lock_owner, lock_depth, nest>>

SetDepth(t) ==
  /\ Goto(t, "set_depth", "out")
  /\ lock_depth' = 1
  /\ EnterSection(t)
  /\ UNCHANGED <<mutex, lock_owner, lock_owned>>

-----------------------------------------------------------------------------
(* urbc_runtime_unlock: the two early returns leave every field alone *)

CallUnlock(t) ==
  /\ nest[t] > 0
  /\ Goto(t, "out", "unlock_read_owned")
  /\ UNCHANGED <<mutex, fields, nest>>

UnlockReadOwned(t) ==
  /\ Goto(t, "unlock_read_owned", IF lock_owned = 1 THEN "unlock_read_owner" ELSE "out")
  /\ IF lock_owned = 1 THEN UNCHANGED nest ELSE LeaveSection(t)
  /\ UNCHANGED <<mutex, fields>>

UnlockReadOwner(t) ==
  /\ Goto(t, "unlock_read_owner", IF lock_owner = t THEN "unlock_read_depth" ELSE "out")
  /\ IF lock_owner = t THEN UNCHANGED nest ELSE LeaveSection(t)
  /\ UNCHANGED <<mutex, fields>>

(* A slip: the last section is left as a nested one. *)
UnlockNestedAtOne(t) ==
  /\ lock_depth >= 1
  /\ Goto(t, "unlock_read_depth", "out")
  /\ lock_depth' = lock_depth - 1
  /\ LeaveSection(t)
  /\ UNCHANGED <<mutex, lock_owner, lock_owned>>

UnlockNested(t) ==
  /\ lock_depth > 1
  /\ Goto(t, "unlock_read_depth", "out")
  /\ lock_depth' = lock_depth - 1
  /\ LeaveSection(t)
  /\ UNCHANGED <<mutex, lock_owner, lock_owned>>

UnlockLast(t) ==
  /\ lock_depth <= 1
  /\ Goto(t, "unlock_read_depth", "clear_depth")
  /\ UNCHANGED <<mutex, fields, nest>>

(* A slip: the mutex is released with lock_owned still set. *)
ClearDepthOnly(t) ==
  /\ Goto(t, "clear_depth", "release")
  /\ lock_depth' = 0
  /\ UNCHANGED <<mutex, lock_owner, lock_owned, nest>>

ClearDepth(t) ==
  /\ Goto(t, "clear_depth", "clear_owned")
  /\ lock_depth' = 0
  /\ UNCHANGED <<mutex, lock_owner, lock_owned, nest>>

ClearOwned(t) ==
  /\ Goto(t, "clear_owned", "release")
  /\ lock_owned' = 0
  /\ UNCHANGED <<mutex, lock_owner, lock_depth, nest>>

(* A slip: the mutex is not released. *)
ReleaseForgotten(t) ==
  /\ Goto(t, "release", "out")
  /\ LeaveSection(t)
  /\ UNCHANGED <<mutex, fields>>

Release(t) ==
  /\ Goto(t, "release", "out")
  /\ mutex' = NoThread
  /\ LeaveSection(t)
  /\ UNCHANGED fields

-----------------------------------------------------------------------------

InLock(t) ==
  \/ ReadOwned(t) \/ ReadOwner(t) \/ Deepen(t)
  \/ SetOwner(t) \/ SetOwned(t) \/ SetDepth(t)

InUnlock(t) ==
  \/ UnlockReadOwned(t) \/ UnlockReadOwner(t) \/ UnlockNested(t) \/ UnlockLast(t)
  \/ ClearDepth(t) \/ ClearOwned(t) \/ Release(t)

Next ==
  \E t \in Threads :
    CallLock(t) \/ InLock(t) \/ Acquire(t) \/ CallUnlock(t) \/ InUnlock(t)

Spec == Init /\ [][Next]_vars

(***************************************************************************)
(* A thread inside lock or unlock goes on; the mutex, when free, goes to    *)
(* one of the threads waiting for it, not to any one of them in particular *)
(* (POSIX promises no order); and a section ends: a thread that is again   *)
(* and again outside both functions at one depth does not stay that deep.  *)
(***************************************************************************)
Fairness ==
  /\ \A t \in Threads : WF_vars(InLock(t)) /\ WF_vars(InUnlock(t))
  /\ WF_vars(\E t \in Threads : Acquire(t))
  /\ \A t \in Threads, d \in 1..MaxDepth : SF_vars(nest[t] = d /\ CallUnlock(t))

FairSpec == Spec /\ Fairness

-----------------------------------------------------------------------------
(* Properties *)

TypeOK ==
  /\ mutex \in Threads \cup {NoThread}
  /\ lock_owner \in Threads \cup {NoThread}
  /\ lock_owned \in {0, 1}
  /\ lock_depth \in Nat
  /\ pc \in [Threads -> LockLabels \cup UnlockLabels \cup {"out"}]
  /\ nest \in [Threads -> Nat]

(* Two threads are never inside the runtime at once: everything the API    *)
(* does between urbc_runtime_lock and urbc_runtime_unlock relies on it.    *)
MutualExclusion ==
  \A t, u \in Threads : nest[t] > 0 /\ nest[u] > 0 => t = u

(* A thread that takes the fast path of urbc_runtime_lock on the strength  *)
(* of two unsynchronised reads does have the mutex.                        *)
FastPathHolds == \A t \in Threads : pc[t] = "deepen" => mutex = t

(* A thread that goes on to pthread_mutex_lock does not have the mutex     *)
(* already: a nested API call never blocks on its own thread.              *)
NoSelfDeadlock == \A t \in Threads : pc[t] = "acquire" => mutex # t

(* Unlock never returns early for a thread that is inside: neither test    *)
(* at its top can mistake the caller for a stranger.                       *)
UnlockSeesOwner ==
  \A t \in Threads :
    /\ pc[t] = "unlock_read_owned" => lock_owned = 1
    /\ pc[t] \in {"unlock_read_owner", "unlock_read_depth"} => lock_owner = t

(* When no thread is inside and none is on its way in or out, the mutex is *)
(* free: nested calls and returns never leave a lock behind.               *)
QuiescentIsFree ==
  (\A t \in Threads : pc[t] = "out" /\ nest[t] = 0) => mutex = NoThread /\ lock_owned = 0

(* When threads wait for the runtime and sections end, one of them gets it. *)
SomeWaiterEnters ==
  (\E t \in Threads : pc[t] = "acquire") ~> (\E t \in Threads : pc[t] = "set_owner")

Monitor == INSTANCE ReentrantMonitor WITH holds <- nest

(* The field-by-field lock is a re-entrant monitor. *)
ImplementsMonitor == Monitor!Spec

-----------------------------------------------------------------------------
(* The inductive invariant *)

(* Where a thread that has the mutex can be. *)
HoldingLabels == {"deepen", "set_owner", "set_owned", "set_depth"} \cup UnlockLabels

(* The thread that has the mutex is the one inside or on its way in or out. *)
HolderInside ==
  \A t \in Threads : mutex = t <=> nest[t] > 0 \/ pc[t] \in HoldingLabels

(* Labels fit the number of sections: the slow path starts from outside, a *)
(* deeper entry and every exit from inside.                                *)
LabelFitsNest ==
  \A t \in Threads :
    /\ pc[t] \in {"acquire", "set_owner", "set_owned", "set_depth"} => nest[t] = 0
    /\ pc[t] \in UnlockLabels \cup {"deepen"} => nest[t] > 0
    /\ pc[t] \in {"clear_depth", "clear_owned", "release"} => nest[t] = 1

(* lock_owned is set exactly while some thread is past SetOwned and not    *)
(* past ClearOwned; that thread is then the owner.                         *)
OwnedFits ==
  /\ lock_owned = 1 <=> \E t \in Threads : mutex = t /\ pc[t] \notin {"set_owner", "set_owned", "release"}
  /\ lock_owned = 1 => lock_owner = mutex
  /\ \A t \in Threads : mutex = t /\ pc[t] = "set_owned" => lock_owner = t

(* lock_depth counts the holder's sections. *)
DepthFits ==
  \A t \in Threads :
    mutex = t /\ pc[t] \notin {"set_owner", "set_owned", "set_depth", "clear_owned", "release"}
      => lock_depth = nest[t]

(* A thread outside that saw lock_owned set will not find its own name in  *)
(* lock_owner: the owner was another thread then, and only a thread itself *)
(* ever writes its name there.                                             *)
ReaderFits ==
  \A t \in Threads : pc[t] = "read_owner" /\ nest[t] = 0 => lock_owner # t

IInv ==
  /\ TypeOK
  /\ HolderInside
  /\ LabelFitsNest
  /\ OwnedFits
  /\ DepthFits
  /\ ReaderFits
=============================================================================
