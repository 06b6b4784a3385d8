------------------------- MODULE RuntimeLockProofs -------------------------
(***************************************************************************)
(* The lock of RuntimeLock, proved for any set of threads and any nesting:  *)
(* IInv is inductive, each safety property of the module follows from it,   *)
(* and the lock implements ReentrantMonitor.                               *)
(***************************************************************************)
EXTENDS RuntimeLock, TLAPS

Labels == LockLabels \cup UnlockLabels \cup {"out"}

Moves(t) ==
  \/ CallLock(t) \/ InLock(t) \/ Acquire(t) \/ CallUnlock(t) \/ InUnlock(t)

(* The initial state has nobody inside and every field as memset leaves it. *)
LEMMA InitIInv == Init => IInv
<1> SUFFICES ASSUME Init PROVE IInv
  OBVIOUS
<1>1. TypeOK
  BY DEF Init, TypeOK
<1>2. HolderInside /\ LabelFitsNest
  BY ThreadsAssumption
  DEF Init, HolderInside, LabelFitsNest, HoldingLabels, UnlockLabels
<1>3. OwnedFits /\ DepthFits /\ ReaderFits
  BY ThreadsAssumption DEF Init, OwnedFits, DepthFits, ReaderFits
<1> QED
  BY <1>1, <1>2, <1>3 DEF IInv

(* Every step keeps the types; the guard of the step that lowers the depth *)
(* and the label of every step that leaves a section keep both counts      *)
(* natural.                                                                *)
LEMMA StepTypeOK == IInv /\ [Next]_vars => TypeOK'
<1> SUFFICES ASSUME IInv, [Next]_vars PROVE TypeOK'
  OBVIOUS
<1> USE DEF IInv, TypeOK, LockLabels, UnlockLabels, fields, Goto
<1>1. CASE UNCHANGED vars
  BY <1>1 DEF vars
<1>2. ASSUME NEW t \in Threads, Moves(t) PROVE TypeOK'
  <2>1. CASE CallLock(t) \/ ReadOwned(t) \/ ReadOwner(t) \/ Acquire(t)
    BY <2>1 DEF CallLock, ReadOwned, ReadOwner, Acquire
  <2>2. CASE SetOwner(t) \/ SetOwned(t) \/ ClearDepth(t) \/ ClearOwned(t)
    BY <2>2 DEF SetOwner, SetOwned, ClearDepth, ClearOwned
  <2>3. CASE Deepen(t) \/ SetDepth(t)
    BY <2>3 DEF Deepen, SetDepth, EnterSection
  <2>4. CASE CallUnlock(t) \/ UnlockLast(t)
    BY <2>4 DEF CallUnlock, UnlockLast
  <2>5. CASE UnlockReadOwned(t)
    BY <2>5 DEF UnlockReadOwned, LeaveSection, LabelFitsNest
  <2>6. CASE UnlockReadOwner(t)
    BY <2>6 DEF UnlockReadOwner, LeaveSection, LabelFitsNest
  <2>7. CASE UnlockNested(t)
    BY <2>7 DEF UnlockNested, LeaveSection, LabelFitsNest
  <2>8. CASE Release(t)
    BY <2>8 DEF Release, LeaveSection, LabelFitsNest
  <2> QED
    BY <1>2, <2>1, <2>2, <2>3, <2>4, <2>5, <2>6, <2>7, <2>8
    DEF Moves, InLock, InUnlock
<1> QED
  BY <1>1, <1>2 DEF Next, Moves

(* Every step keeps the five facts that tie the fields to the mutex and to *)
(* the sections.                                                           *)
LEMMA StepIInv == IInv /\ [Next]_vars => IInv'
<1> SUFFICES ASSUME IInv, [Next]_vars PROVE IInv'
  OBVIOUS
<1>0. TypeOK'
  BY StepTypeOK
<1> USE <1>0, ThreadsAssumption
    DEF IInv, TypeOK, LockLabels, UnlockLabels, HoldingLabels, fields, Goto
<1>1. CASE UNCHANGED vars
  BY <1>1 DEF vars, HolderInside, LabelFitsNest, OwnedFits, DepthFits, ReaderFits
<1>2. ASSUME NEW t \in Threads, CallLock(t) PROVE IInv'
  <2>1. HolderInside'
    BY <1>2 DEF CallLock, HolderInside, LabelFitsNest, OwnedFits, DepthFits, ReaderFits
  <2>2. LabelFitsNest'
    BY <1>2 DEF CallLock, HolderInside, LabelFitsNest, OwnedFits, DepthFits, ReaderFits
  <2>3. OwnedFits'
    BY <1>2 DEF CallLock, HolderInside, LabelFitsNest, OwnedFits, DepthFits, ReaderFits
  <2>4. DepthFits'
    BY <1>2 DEF CallLock, HolderInside, LabelFitsNest, OwnedFits, DepthFits, ReaderFits
  <2>5. ReaderFits'
    BY <1>2 DEF CallLock, HolderInside, LabelFitsNest, OwnedFits, DepthFits, ReaderFits
  <2> QED
    BY <2>1, <2>2, <2>3, <2>4, <2>5
<1>3. ASSUME NEW t \in Threads, ReadOwned(t) PROVE IInv'
  <2>1. HolderInside'
    BY <1>3 DEF ReadOwned, HolderInside, LabelFitsNest, OwnedFits, DepthFits, ReaderFits
  <2>2. LabelFitsNest'
    BY <1>3 DEF ReadOwned, HolderInside, LabelFitsNest, OwnedFits, DepthFits, ReaderFits
  <2>3. OwnedFits'
    BY <1>3 DEF ReadOwned, HolderInside, LabelFitsNest, OwnedFits, DepthFits, ReaderFits
  <2>4. DepthFits'
    BY <1>3 DEF ReadOwned, HolderInside, LabelFitsNest, OwnedFits, DepthFits, ReaderFits
  <2>5. ReaderFits'
    BY <1>3 DEF ReadOwned, HolderInside, LabelFitsNest, OwnedFits, DepthFits, ReaderFits
  <2> QED
    BY <2>1, <2>2, <2>3, <2>4, <2>5
<1>4. ASSUME NEW t \in Threads, ReadOwner(t) PROVE IInv'
  <2>1. HolderInside'
    BY <1>4 DEF ReadOwner, HolderInside, LabelFitsNest, OwnedFits, DepthFits, ReaderFits
  <2>2. LabelFitsNest'
    BY <1>4 DEF ReadOwner, HolderInside, LabelFitsNest, OwnedFits, DepthFits, ReaderFits
  <2>3. OwnedFits'
    BY <1>4 DEF ReadOwner, HolderInside, LabelFitsNest, OwnedFits, DepthFits, ReaderFits
  <2>4. DepthFits'
    BY <1>4 DEF ReadOwner, HolderInside, LabelFitsNest, OwnedFits, DepthFits, ReaderFits
  <2>5. ReaderFits'
    BY <1>4 DEF ReadOwner, HolderInside, LabelFitsNest, OwnedFits, DepthFits, ReaderFits
  <2> QED
    BY <2>1, <2>2, <2>3, <2>4, <2>5
<1>5. ASSUME NEW t \in Threads, Deepen(t) PROVE IInv'
  <2>1. HolderInside'
    BY <1>5 DEF Deepen, EnterSection, HolderInside, LabelFitsNest, OwnedFits, DepthFits, ReaderFits
  <2>2. LabelFitsNest'
    BY <1>5 DEF Deepen, EnterSection, HolderInside, LabelFitsNest, OwnedFits, DepthFits, ReaderFits
  <2>3. OwnedFits'
    BY <1>5 DEF Deepen, EnterSection, HolderInside, LabelFitsNest, OwnedFits, DepthFits, ReaderFits
  <2>4. DepthFits'
    BY <1>5 DEF Deepen, EnterSection, HolderInside, LabelFitsNest, OwnedFits, DepthFits, ReaderFits
  <2>5. ReaderFits'
    BY <1>5 DEF Deepen, EnterSection, HolderInside, LabelFitsNest, OwnedFits, DepthFits, ReaderFits
  <2> QED
    BY <2>1, <2>2, <2>3, <2>4, <2>5
<1>6. ASSUME NEW t \in Threads, Acquire(t) PROVE IInv'
  <2>1. HolderInside'
    BY <1>6 DEF Acquire, HolderInside, LabelFitsNest, OwnedFits, DepthFits, ReaderFits
  <2>2. LabelFitsNest'
    BY <1>6 DEF Acquire, HolderInside, LabelFitsNest, OwnedFits, DepthFits, ReaderFits
  <2>3. OwnedFits'
    BY <1>6 DEF Acquire, HolderInside, LabelFitsNest, OwnedFits, DepthFits, ReaderFits
  <2>4. DepthFits'
    BY <1>6 DEF Acquire, HolderInside, LabelFitsNest, OwnedFits, DepthFits, ReaderFits
  <2>5. ReaderFits'
    BY <1>6 DEF Acquire, HolderInside, LabelFitsNest, OwnedFits, DepthFits, ReaderFits
  <2> QED
    BY <2>1, <2>2, <2>3, <2>4, <2>5
<1>7. ASSUME NEW t \in Threads, SetOwner(t) PROVE IInv'
  <2>1. HolderInside'
    BY <1>7 DEF SetOwner, HolderInside, LabelFitsNest, OwnedFits, DepthFits, ReaderFits
  <2>2. LabelFitsNest'
    BY <1>7 DEF SetOwner, HolderInside, LabelFitsNest, OwnedFits, DepthFits, ReaderFits
  <2>3. OwnedFits'
    BY <1>7 DEF SetOwner, HolderInside, LabelFitsNest, OwnedFits, DepthFits, ReaderFits
  <2>4. DepthFits'
    BY <1>7 DEF SetOwner, HolderInside, LabelFitsNest, OwnedFits, DepthFits, ReaderFits
  <2>5. ReaderFits'
    BY <1>7 DEF SetOwner, HolderInside, LabelFitsNest, OwnedFits, DepthFits, ReaderFits
  <2> QED
    BY <2>1, <2>2, <2>3, <2>4, <2>5
<1>8. ASSUME NEW t \in Threads, SetOwned(t) PROVE IInv'
  <2>1. HolderInside'
    BY <1>8 DEF SetOwned, HolderInside, LabelFitsNest, OwnedFits, DepthFits, ReaderFits
  <2>2. LabelFitsNest'
    BY <1>8 DEF SetOwned, HolderInside, LabelFitsNest, OwnedFits, DepthFits, ReaderFits
  <2>3. OwnedFits'
    BY <1>8 DEF SetOwned, HolderInside, LabelFitsNest, OwnedFits, DepthFits, ReaderFits
  <2>4. DepthFits'
    BY <1>8 DEF SetOwned, HolderInside, LabelFitsNest, OwnedFits, DepthFits, ReaderFits
  <2>5. ReaderFits'
    BY <1>8 DEF SetOwned, HolderInside, LabelFitsNest, OwnedFits, DepthFits, ReaderFits
  <2> QED
    BY <2>1, <2>2, <2>3, <2>4, <2>5
<1>9. ASSUME NEW t \in Threads, SetDepth(t) PROVE IInv'
  <2>1. HolderInside'
    BY <1>9 DEF SetDepth, EnterSection, HolderInside, LabelFitsNest, OwnedFits, DepthFits, ReaderFits
  <2>2. LabelFitsNest'
    BY <1>9 DEF SetDepth, EnterSection, HolderInside, LabelFitsNest, OwnedFits, DepthFits, ReaderFits
  <2>3. OwnedFits'
    BY <1>9 DEF SetDepth, EnterSection, HolderInside, LabelFitsNest, OwnedFits, DepthFits, ReaderFits
  <2>4. DepthFits'
    BY <1>9 DEF SetDepth, EnterSection, HolderInside, LabelFitsNest, OwnedFits, DepthFits, ReaderFits
  <2>5. ReaderFits'
    BY <1>9 DEF SetDepth, EnterSection, HolderInside, LabelFitsNest, OwnedFits, DepthFits, ReaderFits
  <2> QED
    BY <2>1, <2>2, <2>3, <2>4, <2>5
<1>10. ASSUME NEW t \in Threads, CallUnlock(t) PROVE IInv'
  <2>1. HolderInside'
    BY <1>10 DEF CallUnlock, HolderInside, LabelFitsNest, OwnedFits, DepthFits, ReaderFits
  <2>2. LabelFitsNest'
    BY <1>10 DEF CallUnlock, HolderInside, LabelFitsNest, OwnedFits, DepthFits, ReaderFits
  <2>3. OwnedFits'
    BY <1>10 DEF CallUnlock, HolderInside, LabelFitsNest, OwnedFits, DepthFits, ReaderFits
  <2>4. DepthFits'
    BY <1>10 DEF CallUnlock, HolderInside, LabelFitsNest, OwnedFits, DepthFits, ReaderFits
  <2>5. ReaderFits'
    BY <1>10 DEF CallUnlock, HolderInside, LabelFitsNest, OwnedFits, DepthFits, ReaderFits
  <2> QED
    BY <2>1, <2>2, <2>3, <2>4, <2>5
<1>11. ASSUME NEW t \in Threads, UnlockReadOwned(t) PROVE IInv'
  <2>1. HolderInside'
    BY <1>11 DEF UnlockReadOwned, LeaveSection, HolderInside, LabelFitsNest, OwnedFits, DepthFits, ReaderFits
  <2>2. LabelFitsNest'
    BY <1>11 DEF UnlockReadOwned, LeaveSection, HolderInside, LabelFitsNest, OwnedFits, DepthFits, ReaderFits
  <2>3. OwnedFits'
    BY <1>11 DEF UnlockReadOwned, LeaveSection, HolderInside, LabelFitsNest, OwnedFits, DepthFits, ReaderFits
  <2>4. DepthFits'
    BY <1>11 DEF UnlockReadOwned, LeaveSection, HolderInside, LabelFitsNest, OwnedFits, DepthFits, ReaderFits
  <2>5. ReaderFits'
    BY <1>11 DEF UnlockReadOwned, LeaveSection, HolderInside, LabelFitsNest, OwnedFits, DepthFits, ReaderFits
  <2> QED
    BY <2>1, <2>2, <2>3, <2>4, <2>5
<1>12. ASSUME NEW t \in Threads, UnlockReadOwner(t) PROVE IInv'
  <2>1. HolderInside'
    BY <1>12 DEF UnlockReadOwner, LeaveSection, HolderInside, LabelFitsNest, OwnedFits, DepthFits, ReaderFits
  <2>2. LabelFitsNest'
    BY <1>12 DEF UnlockReadOwner, LeaveSection, HolderInside, LabelFitsNest, OwnedFits, DepthFits, ReaderFits
  <2>3. OwnedFits'
    BY <1>12 DEF UnlockReadOwner, LeaveSection, HolderInside, LabelFitsNest, OwnedFits, DepthFits, ReaderFits
  <2>4. DepthFits'
    BY <1>12 DEF UnlockReadOwner, LeaveSection, HolderInside, LabelFitsNest, OwnedFits, DepthFits, ReaderFits
  <2>5. ReaderFits'
    BY <1>12 DEF UnlockReadOwner, LeaveSection, HolderInside, LabelFitsNest, OwnedFits, DepthFits, ReaderFits
  <2> QED
    BY <2>1, <2>2, <2>3, <2>4, <2>5
<1>13. ASSUME NEW t \in Threads, UnlockNested(t) PROVE IInv'
  <2>1. HolderInside'
    BY <1>13 DEF UnlockNested, LeaveSection, HolderInside, LabelFitsNest, OwnedFits, DepthFits, ReaderFits
  <2>2. LabelFitsNest'
    BY <1>13 DEF UnlockNested, LeaveSection, HolderInside, LabelFitsNest, OwnedFits, DepthFits, ReaderFits
  <2>3. OwnedFits'
    BY <1>13 DEF UnlockNested, LeaveSection, HolderInside, LabelFitsNest, OwnedFits, DepthFits, ReaderFits
  <2>4. DepthFits'
    BY <1>13 DEF UnlockNested, LeaveSection, HolderInside, LabelFitsNest, OwnedFits, DepthFits, ReaderFits
  <2>5. ReaderFits'
    BY <1>13 DEF UnlockNested, LeaveSection, HolderInside, LabelFitsNest, OwnedFits, DepthFits, ReaderFits
  <2> QED
    BY <2>1, <2>2, <2>3, <2>4, <2>5
<1>14. ASSUME NEW t \in Threads, UnlockLast(t) PROVE IInv'
  <2>1. HolderInside'
    BY <1>14 DEF UnlockLast, HolderInside, LabelFitsNest, OwnedFits, DepthFits, ReaderFits
  <2>2. LabelFitsNest'
    BY <1>14 DEF UnlockLast, HolderInside, LabelFitsNest, OwnedFits, DepthFits, ReaderFits
  <2>3. OwnedFits'
    BY <1>14 DEF UnlockLast, HolderInside, LabelFitsNest, OwnedFits, DepthFits, ReaderFits
  <2>4. DepthFits'
    BY <1>14 DEF UnlockLast, HolderInside, LabelFitsNest, OwnedFits, DepthFits, ReaderFits
  <2>5. ReaderFits'
    BY <1>14 DEF UnlockLast, HolderInside, LabelFitsNest, OwnedFits, DepthFits, ReaderFits
  <2> QED
    BY <2>1, <2>2, <2>3, <2>4, <2>5
<1>15. ASSUME NEW t \in Threads, ClearDepth(t) PROVE IInv'
  <2>1. HolderInside'
    BY <1>15 DEF ClearDepth, HolderInside, LabelFitsNest, OwnedFits, DepthFits, ReaderFits
  <2>2. LabelFitsNest'
    BY <1>15 DEF ClearDepth, HolderInside, LabelFitsNest, OwnedFits, DepthFits, ReaderFits
  <2>3. OwnedFits'
    BY <1>15 DEF ClearDepth, HolderInside, LabelFitsNest, OwnedFits, DepthFits, ReaderFits
  <2>4. DepthFits'
    BY <1>15 DEF ClearDepth, HolderInside, LabelFitsNest, OwnedFits, DepthFits, ReaderFits
  <2>5. ReaderFits'
    BY <1>15 DEF ClearDepth, HolderInside, LabelFitsNest, OwnedFits, DepthFits, ReaderFits
  <2> QED
    BY <2>1, <2>2, <2>3, <2>4, <2>5
<1>16. ASSUME NEW t \in Threads, ClearOwned(t) PROVE IInv'
  <2>1. HolderInside'
    BY <1>16 DEF ClearOwned, HolderInside, LabelFitsNest, OwnedFits, DepthFits, ReaderFits
  <2>2. LabelFitsNest'
    BY <1>16 DEF ClearOwned, HolderInside, LabelFitsNest, OwnedFits, DepthFits, ReaderFits
  <2>3. OwnedFits'
    BY <1>16 DEF ClearOwned, HolderInside, LabelFitsNest, OwnedFits, DepthFits, ReaderFits
  <2>4. DepthFits'
    BY <1>16 DEF ClearOwned, HolderInside, LabelFitsNest, OwnedFits, DepthFits, ReaderFits
  <2>5. ReaderFits'
    BY <1>16 DEF ClearOwned, HolderInside, LabelFitsNest, OwnedFits, DepthFits, ReaderFits
  <2> QED
    BY <2>1, <2>2, <2>3, <2>4, <2>5
<1>17. ASSUME NEW t \in Threads, Release(t) PROVE IInv'
  <2>1. HolderInside'
    BY <1>17 DEF Release, LeaveSection, HolderInside, LabelFitsNest, OwnedFits, DepthFits, ReaderFits
  <2>2. LabelFitsNest'
    BY <1>17 DEF Release, LeaveSection, HolderInside, LabelFitsNest, OwnedFits, DepthFits, ReaderFits
  <2>3. OwnedFits'
    BY <1>17 DEF Release, LeaveSection, HolderInside, LabelFitsNest, OwnedFits, DepthFits, ReaderFits
  <2>4. DepthFits'
    BY <1>17 DEF Release, LeaveSection, HolderInside, LabelFitsNest, OwnedFits, DepthFits, ReaderFits
  <2>5. ReaderFits'
    BY <1>17 DEF Release, LeaveSection, HolderInside, LabelFitsNest, OwnedFits, DepthFits, ReaderFits
  <2> QED
    BY <2>1, <2>2, <2>3, <2>4, <2>5
<1> QED
  BY <1>1, <1>2, <1>3, <1>4, <1>5, <1>6, <1>7, <1>8, <1>9, <1>10, <1>11, <1>12, <1>13, <1>14, <1>15, <1>16, <1>17
  DEF Next, InLock, InUnlock

(* The invariant holds in every reachable state, for any set of threads    *)
(* and any nesting.                                                        *)
THEOREM InductiveInvariant == Spec => []IInv
<1> QED
  BY InitIInv, StepIInv, PTL DEF Spec

(* The fields of the runtime's lock keep their types. *)
THEOREM TypeCorrect == Spec => []TypeOK
<1>1. IInv => TypeOK
  BY DEF IInv
<1> QED
  BY <1>1, InductiveInvariant, PTL

(* No two threads are between urbc_runtime_lock and urbc_runtime_unlock at *)
(* once: a thread inside is the one that has the mutex.                    *)
THEOREM LockExcludes == Spec => []MutualExclusion
<1>1. IInv => MutualExclusion
  BY DEF IInv, HolderInside, MutualExclusion
<1> QED
  BY <1>1, InductiveInvariant, PTL

(* The unsynchronised fast path is taken only by the thread that has the   *)
(* mutex.                                                                  *)
THEOREM FastPathSound == Spec => []FastPathHolds
<1>1. IInv => FastPathHolds
  BY DEF IInv, HolderInside, HoldingLabels, FastPathHolds
<1> QED
  BY <1>1, InductiveInvariant, PTL

(* A thread never asks the mutex it has for itself again. *)
THEOREM SlowPathSound == Spec => []NoSelfDeadlock
<1>1. IInv => NoSelfDeadlock
  BY DEF IInv, HolderInside, LabelFitsNest, HoldingLabels, UnlockLabels, NoSelfDeadlock
<1> QED
  BY <1>1, InductiveInvariant, PTL

(* urbc_runtime_unlock never takes its caller for a thread that does not   *)
(* own the lock.                                                           *)
THEOREM UnlockFindsOwner == Spec => []UnlockSeesOwner
<1>1. IInv => UnlockSeesOwner
  BY DEF IInv, TypeOK, HolderInside, LabelFitsNest, OwnedFits, HoldingLabels,
         UnlockLabels, UnlockSeesOwner
<1> QED
  BY <1>1, InductiveInvariant, PTL

(* Calls and returns that balance leave the mutex free. *)
THEOREM BalancedCallsRelease == Spec => []QuiescentIsFree
<1>1. IInv => QuiescentIsFree
  BY ThreadsAssumption
  DEF IInv, TypeOK, HolderInside, OwnedFits, HoldingLabels, UnlockLabels, QuiescentIsFree
<1> QED
  BY <1>1, InductiveInvariant, PTL

-----------------------------------------------------------------------------

(* The field-by-field lock is a re-entrant monitor: only four of its steps *)
(* move a thread in or out, and each finds the other threads outside.      *)
THEOREM LockImplementsMonitor == Spec => ImplementsMonitor
<1>1. Init => Monitor!Init
  BY DEF Init, Monitor!Init
<1>2. IInv /\ [Next]_vars => [Monitor!Next]_nest
  <2> SUFFICES ASSUME IInv, Next PROVE Monitor!Next \/ UNCHANGED nest
    BY DEF vars
  <2> USE DEF IInv, TypeOK, Goto, Monitor!Next, Monitor!Enter, Monitor!Leave, Monitor!Alone
  <2>1. ASSUME NEW t \in Threads, Deepen(t) \/ SetDepth(t) PROVE Monitor!Enter(t)
    BY <2>1 DEF Deepen, SetDepth, EnterSection, HolderInside, HoldingLabels
  <2>2. ASSUME NEW t \in Threads, UnlockNested(t) \/ Release(t) PROVE Monitor!Leave(t)
    BY <2>2 DEF UnlockNested, Release, LeaveSection, LabelFitsNest, UnlockLabels
  <2>3. ASSUME NEW t \in Threads, UnlockReadOwned(t) PROVE UNCHANGED nest
    BY <2>3 DEF UnlockReadOwned, HolderInside, LabelFitsNest, OwnedFits, HoldingLabels, UnlockLabels
  <2>4. ASSUME NEW t \in Threads, UnlockReadOwner(t) PROVE UNCHANGED nest
    BY <2>4 DEF UnlockReadOwner, HolderInside, LabelFitsNest, OwnedFits, HoldingLabels, UnlockLabels
  <2>5. ASSUME NEW t \in Threads,
               \/ CallLock(t) \/ ReadOwned(t) \/ ReadOwner(t) \/ Acquire(t)
               \/ SetOwner(t) \/ SetOwned(t) \/ CallUnlock(t) \/ UnlockLast(t)
               \/ ClearDepth(t) \/ ClearOwned(t)
        PROVE  UNCHANGED nest
    BY <2>5 DEF CallLock, ReadOwned, ReadOwner, Acquire, SetOwner, SetOwned,
                CallUnlock, UnlockLast, ClearDepth, ClearOwned
  <2> QED
    BY <2>1, <2>2, <2>3, <2>4, <2>5 DEF Next, InLock, InUnlock
<1> QED
  BY <1>1, <1>2, InductiveInvariant, PTL DEF Spec, ImplementsMonitor, Monitor!Spec
=============================================================================
