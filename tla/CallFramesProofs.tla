--------------------------- MODULE CallFramesProofs ---------------------------
(***************************************************************************)
(* Proofs about CallFrames: for any threads, runtimes and depth of stacks,  *)
(* locks follow the frames, a current runtime is a locked one, host         *)
(* functions run on the threads that made their closures, no threads wait   *)
(* for each other around a circle, and a run reports what failed in it.     *)
(***************************************************************************)
EXTENDS CallFrames, FiniteSetTheorems, SequenceTheorems, TLAPS

(* What is true of every thread's stack: the frames that called something   *)
(* are inside; a saved current runtime is that of a frame below; and a      *)
(* native thread has no more than a callback it may not make.              *)
Calling == {"native", "vm", "host"}
Outside == {"check", "wait"}

CallersInside(t) == \A i \in 1 .. Len(stack[t]) - 1 : stack[t][i].at \in Calling
SavedBelow(t) ==
  \A i \in 1 .. Len(stack[t]) :
    stack[t][i].prev # NoRuntime => \E j \in 1 .. i - 1 : stack[t][j].rt = stack[t][i].prev
CurrentEntered(t) == current[t] # NoRuntime => Entered(t, current[t]) # {}
OwnersOnly(t) ==
  \A i \in 1 .. Len(stack[t]) :
    stack[t][i].kind = "trampoline" /\ stack[t][i].at # "check" => stack[t][i].owner = t
NativeRefused(t) ==
  t \in NativeThreads =>
    \A i \in 1 .. Len(stack[t]) : stack[t][i].at = "check" /\ stack[t][i].owner \in HostThreads

SoundStack(t) ==
  CallersInside(t) /\ SavedBelow(t) /\ CurrentEntered(t) /\ OwnersOnly(t) /\ NativeRefused(t)

FramesInv == TypeOK /\ LockMatchesFrames /\ \A t \in Threads : SoundStack(t)

-----------------------------------------------------------------------------
(* What a step does to a stack, frame by frame *)

Elsewhere(t) ==
  stack' \in [Threads -> Seq(Frames)] /\ \A u \in Threads : u # t => stack'[u] = stack[u]

Pushed(t, f) ==
  /\ Elsewhere(t)
  /\ Len(stack'[t]) = Len(stack[t]) + 1
  /\ stack'[t][Len(stack[t]) + 1] = f
  /\ \A i \in 1 .. Len(stack[t]) : stack'[t][i] = stack[t][i]

Replaced(t, f) ==
  /\ Elsewhere(t)
  /\ Len(stack'[t]) = Len(stack[t])
  /\ stack'[t][Len(stack[t])] = f
  /\ \A i \in 1 .. Len(stack[t]) - 1 : stack'[t][i] = stack[t][i]

(* But for the two histories, lost and nest. *)
Alike(f, g) ==
  f.kind = g.kind /\ f.rt = g.rt /\ f.prev = g.prev /\ f.at = g.at /\ f.owner = g.owner

Popped(t) ==
  /\ Elsewhere(t)
  /\ Len(stack'[t]) = Len(stack[t]) - 1
  /\ \A i \in 1 .. Len(stack[t]) - 1 : Alike(stack'[t][i], stack[t][i])

(* The frame below the top one, and that it is g once the top one is gone. *)
Caller(t) == stack[t][Len(stack[t]) - 1]
PoppedTo(t, g) ==
  /\ Popped(t)
  /\ Len(stack[t]) > 1 => stack'[t][Len(stack[t]) - 1] = g
  /\ \A i \in 1 .. Len(stack[t]) - 2 : stack'[t][i] = stack[t][i]

LEMMA PushFacts ==
  ASSUME TypeOK, NEW t \in Threads, NEW f \in Frames, Push(t, f)
  PROVE  Pushed(t, f)
<1>1. stack \in [Threads -> Seq(Frames)] /\ stack' = [stack EXCEPT ![t] = Append(stack[t], f)]
  BY DEF TypeOK, Push
<1>2. /\ Append(stack[t], f) \in Seq(Frames)
      /\ Len(Append(stack[t], f)) = Len(stack[t]) + 1
      /\ Append(stack[t], f)[Len(stack[t]) + 1] = f
      /\ \A i \in 1 .. Len(stack[t]) : Append(stack[t], f)[i] = stack[t][i]
  BY <1>1, AppendProperties
<1> QED BY <1>1, <1>2 DEF Pushed, Elsewhere

LEMMA TopFacts ==
  ASSUME TypeOK, NEW t \in Threads, ~Empty(t)
  PROVE  /\ Len(stack[t]) \in Nat \ {0}
         /\ Top(t) \in Frames /\ Top(t) = stack[t][Len(stack[t])]
         /\ Below(t) \in Seq(Frames) /\ Len(Below(t)) = Len(stack[t]) - 1
         /\ \A i \in 1 .. Len(stack[t]) - 1 : Below(t)[i] = stack[t][i]
<1>1. stack[t] \in Seq(Frames) /\ Len(stack[t]) \in Nat \ {0}
  BY EmptySeq DEF TypeOK, Empty
<1>2. \A i \in 1 .. Len(stack[t]) : stack[t][i] \in Frames BY <1>1, ElementOfSeq
<1>3. Top(t) \in Frames /\ Top(t) = stack[t][Len(stack[t])] BY <1>1, <1>2 DEF Top
<1>4. /\ Below(t) \in Seq(Frames)
      /\ Len(Below(t)) = IF 1 <= Len(stack[t]) - 1 THEN Len(stack[t]) - 1 - 1 + 1 ELSE 0
      /\ \A i \in 1 .. Len(stack[t]) - 1 - 1 + 1 : Below(t)[i] = stack[t][1 + i - 1]
  <2>1. \A i \in 1 .. Len(stack[t]) - 1 : stack[t][i] \in Frames BY <1>1, <1>2
  <2>2. 1 \in Int /\ Len(stack[t]) - 1 \in Int BY <1>1
  <2> QED BY <2>1, <2>2, SubSeqProperties DEF Below
<1> QED BY <1>1, <1>3, <1>4

LEMMA SetTopFacts ==
  ASSUME TypeOK, NEW t \in Threads, ~Empty(t), NEW f \in Frames, SetTop(t, f)
  PROVE  Replaced(t, f)
<1>1. stack \in [Threads -> Seq(Frames)] /\ stack' = [stack EXCEPT ![t] = Append(Below(t), f)]
  BY DEF TypeOK, SetTop
<1>2. /\ Append(Below(t), f) \in Seq(Frames)
      /\ Len(Append(Below(t), f)) = Len(Below(t)) + 1
      /\ Append(Below(t), f)[Len(Below(t)) + 1] = f
      /\ \A i \in 1 .. Len(Below(t)) : Append(Below(t), f)[i] = Below(t)[i]
  BY TopFacts, AppendProperties
<1> QED BY <1>1, <1>2, TopFacts DEF Replaced, Elsewhere

(* The frame below learns no more than what went wrong. *)
LEMMA ReturnFacts ==
  ASSUME TypeOK, NEW t \in Threads, ~Empty(t), NEW g,
         Below(t) # <<>> => g \in Frames /\ Alike(g, Below(t)[Len(Below(t))]),
         stack' = [stack EXCEPT ![t] =
                     IF Below(t) = <<>> THEN Below(t) ELSE [Below(t) EXCEPT ![Len(Below(t))] = g]]
  PROVE  PoppedTo(t, g)
<1>1. stack \in [Threads -> Seq(Frames)] BY DEF TypeOK
<1>2. CASE Below(t) = <<>>
  <2>1. stack' = [stack EXCEPT ![t] = Below(t)] BY <1>2
  <2> QED BY <1>1, <2>1, TopFacts DEF PoppedTo, Popped, Elsewhere, Alike
<1>3. CASE Below(t) # <<>>
  <2> DEFINE rest == [Below(t) EXCEPT ![Len(Below(t))] = g]
  <2>1. Len(Below(t)) \in 1 .. Len(Below(t)) BY <1>3, TopFacts, EmptySeq
  <2>2. /\ rest \in Seq(Frames) /\ Len(rest) = Len(Below(t))
        /\ \A i \in 1 .. Len(Below(t)) : rest[i] = IF i = Len(Below(t)) THEN g ELSE Below(t)[i]
    BY <1>3, <2>1, TopFacts, ExceptSeq
  <2>3. stack' = [stack EXCEPT ![t] = rest] BY <1>3
  <2> HIDE DEF rest
  <2>4. Elsewhere(t) /\ stack'[t] = rest BY <1>1, <2>2, <2>3 DEF Elsewhere
  <2>5. \A i \in 1 .. Len(Below(t)) : Alike(rest[i], Below(t)[i]) BY <1>3, <2>2 DEF Alike
  <2>6. Popped(t) BY <2>2, <2>4, <2>5, TopFacts DEF Popped
  <2>7. \A i \in 1 .. Len(stack[t]) - 2 : stack'[t][i] = stack[t][i]
    <3>1. ASSUME NEW i \in 1 .. Len(stack[t]) - 2 PROVE stack'[t][i] = stack[t][i]
      <4>1. i \in 1 .. Len(Below(t)) /\ i # Len(Below(t)) /\ i \in 1 .. Len(stack[t]) - 1 BY TopFacts
      <4> QED BY <2>2, <2>4, <4>1, TopFacts
    <3> QED BY <3>1
  <2>8. stack'[t][Len(stack[t]) - 1] = g BY <2>1, <2>2, <2>4, TopFacts
  <2> QED BY <2>6, <2>7, <2>8 DEF PoppedTo
<1> QED BY <1>2, <1>3

-----------------------------------------------------------------------------
(* A step of thread t *)

LEMMA StackType ==
  ASSUME TypeOK, NEW t \in Threads
  PROVE  /\ stack[t] \in Seq(Frames) /\ Len(stack[t]) \in Nat /\ DOMAIN stack[t] = 1 .. Len(stack[t])
         /\ \A i \in 1 .. Len(stack[t]) : stack[t][i] \in Frames
         /\ \A r : IsFiniteSet(Entered(t, r))
<1>1. stack[t] \in Seq(Frames) /\ Len(stack[t]) \in Nat /\ DOMAIN stack[t] = 1 .. Len(stack[t])
  BY LenProperties DEF TypeOK
<1>2. \A i \in 1 .. Len(stack[t]) : stack[t][i] \in Frames BY <1>1, ElementOfSeq
<1>3. ASSUME NEW r PROVE IsFiniteSet(Entered(t, r))
  <2>1. IsFiniteSet(1 .. Len(stack[t]))
    <3>1. 1 \in Int /\ Len(stack[t]) \in Int BY <1>1
    <3> QED BY <3>1, FS_Interval
  <2>2. Entered(t, r) \in SUBSET (1 .. Len(stack[t])) BY <1>1 DEF Entered
  <2> QED BY <2>1, <2>2, FS_Subset
<1> QED BY <1>1, <1>2, <1>3

OnlyBy(t) ==
  /\ scope' = scope /\ failed' \in [Runtimes -> BOOLEAN]
  /\ holds' \in [Runtimes -> [Threads -> Nat]] /\ current' \in [Threads -> Runtimes \cup {NoRuntime}]
  /\ \A u \in Threads : u # t => current'[u] = current[u] /\ \A r \in Runtimes : holds'[r][u] = holds[r][u]

LEMMA StepOf ==
  ASSUME FramesInv, NEW t \in Threads, OnlyBy(t), Elsewhere(t), SoundStack(t)',
         \A r \in Runtimes : holds'[r][t] = Cardinality(Entered(t, r))'
  PROVE  FramesInv'
<1>1. TypeOK' BY DEF FramesInv, TypeOK, OnlyBy, Elsewhere
<1>2. ASSUME NEW u \in Threads, u # t
      PROVE  SoundStack(u)' /\ \A r \in Runtimes : holds'[r][u] = Cardinality(Entered(u, r))'
  <2>1. stack'[u] = stack[u] /\ current'[u] = current[u] BY <1>2 DEF Elsewhere, OnlyBy
  <2>2. \A r : Entered(u, r)' = Entered(u, r) BY <2>1 DEF Entered
  <2>3. SoundStack(u) /\ \A r \in Runtimes : holds[r][u] = Cardinality(Entered(u, r))
    BY DEF FramesInv, LockMatchesFrames
  <2>4. SoundStack(u)'
    BY <2>1, <2>2, <2>3
    DEF SoundStack, CallersInside, SavedBelow, CurrentEntered, OwnersOnly, NativeRefused
  <2> QED BY <1>2, <2>2, <2>3, <2>4 DEF OnlyBy
<1>3. \A u \in Threads : SoundStack(u)' BY <1>2
<1>4. LockMatchesFrames' BY <1>2 DEF LockMatchesFrames
<1> QED BY <1>1, <1>3, <1>4 DEF FramesInv

(* A function is called: its frame is outside the lock. *)
LEMMA PushKeeps ==
  ASSUME FramesInv, NEW t \in Threads, NEW f \in Frames, Pushed(t, f),
         UNCHANGED <<scope, holds, current, failed>>,
         f.at \in Outside, f.prev = NoRuntime, f.kind = "trampoline" => f.at = "check",
         Empty(t) \/ Top(t).at \in Calling,
         t \in NativeThreads => f.at = "check" /\ f.owner \in HostThreads
  PROVE  FramesInv'
<1>1. SoundStack(t) /\ \A r \in Runtimes : holds[r][t] = Cardinality(Entered(t, r))
  BY DEF FramesInv, LockMatchesFrames
<1>2. TypeOK BY DEF FramesInv
<1>3. /\ Len(stack[t]) \in Nat /\ DOMAIN stack[t] = 1 .. Len(stack[t])
      /\ DOMAIN stack'[t] = 1 .. Len(stack[t]) + 1
  BY <1>2, StackType, LenProperties DEF Pushed, Elsewhere
<1>4. \A r : Entered(t, r)' = Entered(t, r) BY <1>3 DEF Entered, Pushed, Outside
<1>5. Len(stack[t]) # 0 => stack[t][Len(stack[t])].at \in Calling
  BY <1>2, <1>3, StackType, EmptySeq DEF Empty, Top
<1>6. CallersInside(t)' BY <1>1, <1>3, <1>5 DEF SoundStack, CallersInside, Pushed
<1>7. SavedBelow(t)'
  <2>1. ASSUME NEW i \in 1 .. Len(stack[t]) + 1, stack'[t][i].prev # NoRuntime
        PROVE  \E j \in 1 .. i - 1 : stack'[t][j].rt = stack'[t][i].prev
    <3>1. i \in 1 .. Len(stack[t]) /\ stack'[t][i] = stack[t][i] BY <1>3, <2>1 DEF Pushed
    <3>2. PICK j \in 1 .. i - 1 : stack[t][j].rt = stack[t][i].prev
      BY <1>1, <2>1, <3>1 DEF SoundStack, SavedBelow
    <3>3. j \in 1 .. Len(stack[t]) /\ stack'[t][j] = stack[t][j] BY <1>3, <3>1 DEF Pushed
    <3> QED BY <3>1, <3>2, <3>3
  <2> QED BY <1>3, <2>1 DEF SavedBelow, Pushed
<1>8. CurrentEntered(t)' BY <1>1, <1>4 DEF SoundStack, CurrentEntered
<1>9. OwnersOnly(t)' BY <1>1, <1>3 DEF SoundStack, OwnersOnly, Pushed
<1>10. NativeRefused(t)' BY <1>1, <1>3 DEF SoundStack, NativeRefused, Pushed
<1>11. OnlyBy(t) BY <1>2 DEF OnlyBy, TypeOK
<1>12. \A r \in Runtimes : holds'[r][t] = Cardinality(Entered(t, r))' BY <1>1, <1>4
<1> QED BY <1>6, <1>7, <1>8, <1>9, <1>10, <1>11, <1>12, StepOf DEF SoundStack, Pushed

(* The top function goes on, on its side of the lock. *)
LEMMA ReplaceKeeps ==
  ASSUME FramesInv, NEW t \in Threads, ~Empty(t), NEW f \in Frames, Replaced(t, f),
         scope' = scope, UNCHANGED <<holds, current>>, failed' \in [Runtimes -> BOOLEAN],
         f.kind = Top(t).kind, f.rt = Top(t).rt, f.prev = Top(t).prev, f.owner = Top(t).owner,
         f.at \in Outside <=> Top(t).at \in Outside,
         Top(t).at = "check" => f.owner = t /\ t \in HostThreads
  PROVE  FramesInv'
<1>1. SoundStack(t) /\ \A r \in Runtimes : holds[r][t] = Cardinality(Entered(t, r))
  BY DEF FramesInv, LockMatchesFrames
<1>2. TypeOK BY DEF FramesInv
<1>3. /\ Len(stack[t]) \in Nat \ {0} /\ Top(t) = stack[t][Len(stack[t])]
      /\ DOMAIN stack[t] = 1 .. Len(stack[t])
      /\ DOMAIN stack'[t] = 1 .. Len(stack[t])
  BY <1>2, TopFacts, StackType, LenProperties DEF Replaced, Elsewhere
<1>4. \A r : Entered(t, r)' = Entered(t, r) BY <1>3 DEF Entered, Replaced, Outside
<1>5. CallersInside(t)' BY <1>1, <1>3 DEF SoundStack, CallersInside, Replaced
<1>6. SavedBelow(t)' BY <1>1, <1>3 DEF SoundStack, SavedBelow, Replaced
<1>7. CurrentEntered(t)' BY <1>1, <1>4 DEF SoundStack, CurrentEntered
<1>8. OwnersOnly(t)' BY <1>1, <1>3 DEF SoundStack, OwnersOnly, Replaced
<1>9. NativeRefused(t)' BY <1>1, <1>3, ThreadsAssumption DEF SoundStack, NativeRefused, Replaced
<1>10. OnlyBy(t) BY <1>2 DEF OnlyBy, TypeOK
<1>11. \A r \in Runtimes : holds'[r][t] = Cardinality(Entered(t, r))' BY <1>1, <1>4
<1> QED BY <1>5, <1>6, <1>7, <1>8, <1>9, <1>10, <1>11, StepOf DEF SoundStack, Replaced

(* The lock is taken: the runtime that was current is that of a frame below. *)
LEMMA EnterKeeps ==
  ASSUME FramesInv, NEW t \in Threads, Enter(t), scope' = scope
  PROVE  FramesInv'
<1> DEFINE f == Top(t)
<1> DEFINE n == Len(stack[t])
<1>1. SoundStack(t) /\ \A r \in Runtimes : holds[r][t] = Cardinality(Entered(t, r))
  BY DEF FramesInv, LockMatchesFrames
<1>2. TypeOK /\ ~Empty(t) /\ f.at = "wait" BY DEF FramesInv, Enter, TopAt
<1>3. /\ n \in Nat \ {0} /\ f = stack[t][n] /\ f \in Frames
      /\ DOMAIN stack[t] = 1 .. n /\ stack[t] \in Seq(Frames)
  BY <1>2, TopFacts, StackType
<1>4. PICK body \in {"args", "vm", "host"} : SetTop(t, [f EXCEPT !.prev = current[t], !.at = body])
  BY DEF Enter
<1> DEFINE g == [f EXCEPT !.prev = current[t], !.at = body]
<1>5. /\ g \in Frames /\ g.kind = f.kind /\ g.rt = f.rt /\ g.owner = f.owner
      /\ g.prev = current[t] /\ g.at = body
  <2>1. current[t] \in Runtimes \cup {NoRuntime} /\ body \in Ats BY <1>2, <1>4 DEF TypeOK, Ats
  <2> QED BY <1>3, <2>1 DEF Frames
<1>6. Replaced(t, g) BY <1>2, <1>4, <1>5, SetTopFacts
<1> HIDE DEF f, n, g
<1>7. DOMAIN stack'[t] = 1 .. n /\ Len(stack'[t]) = n /\ stack'[t][n] = g
        /\ \A i \in 1 .. n - 1 : stack'[t][i] = stack[t][i]
  BY <1>6, LenProperties DEF Replaced, Elsewhere, n
<1>8. /\ holds' = [holds EXCEPT ![f.rt][t] = holds[f.rt][t] + 1]
      /\ current' = [current EXCEPT ![t] = f.rt]
      /\ failed' = [failed EXCEPT ![f.rt] = FALSE]
  BY DEF Enter, f
<1>9. f.rt \in Runtimes BY <1>3 DEF Frames
<1>10. \A r : Entered(t, r)' = IF r = f.rt THEN Entered(t, r) \cup {n} ELSE Entered(t, r)
  BY <1>2, <1>3, <1>5, <1>7 DEF Entered
<1>11. n \notin Entered(t, f.rt) BY <1>2, <1>3 DEF Entered
<1>12. CallersInside(t)' BY <1>1, <1>3, <1>7 DEF SoundStack, CallersInside, n
<1>13. SavedBelow(t)'
  <2>1. ASSUME NEW i \in 1 .. n, stack'[t][i].prev # NoRuntime
        PROVE  \E j \in 1 .. i - 1 : stack'[t][j].rt = stack'[t][i].prev
    <3>1. CASE i = n
      <4>1. current[t] # NoRuntime /\ stack'[t][i].prev = current[t] BY <1>5, <1>7, <2>1, <3>1
      <4>2. PICK j \in Entered(t, current[t]) : TRUE BY <1>1, <4>1 DEF SoundStack, CurrentEntered
      <4>3. j \in 1 .. n - 1 /\ stack[t][j].rt = current[t] BY <1>2, <1>3, <4>2 DEF Entered
      <4> QED BY <1>7, <3>1, <4>1, <4>3
    <3>2. CASE i # n
      <4>1. i \in 1 .. n - 1 /\ stack'[t][i] = stack[t][i] BY <1>3, <1>7, <3>2
      <4>2. PICK j \in 1 .. i - 1 : stack[t][j].rt = stack[t][i].prev
        BY <1>1, <1>3, <2>1, <4>1 DEF SoundStack, SavedBelow, n
      <4> QED BY <1>3, <1>7, <4>1, <4>2
    <3> QED BY <3>1, <3>2
  <2> QED BY <1>7, <2>1 DEF SavedBelow
<1>14. CurrentEntered(t)' BY <1>2, <1>8, <1>10 DEF CurrentEntered, TypeOK
<1>15. OwnersOnly(t)'
  <2>1. f.kind = "trampoline" => f.owner = t BY <1>1, <1>2, <1>3 DEF SoundStack, OwnersOnly, n
  <2> QED BY <1>1, <1>3, <1>5, <1>7, <2>1 DEF SoundStack, OwnersOnly, n
<1>16. NativeRefused(t)' BY <1>1, <1>2, <1>3 DEF SoundStack, NativeRefused, n
<1>17. OnlyBy(t) /\ holds'[f.rt][t] = holds[f.rt][t] + 1 /\ \A r \in Runtimes : r # f.rt => holds'[r][t] = holds[r][t]
  <2>1. holds'[f.rt] = [holds[f.rt] EXCEPT ![t] = holds[f.rt][t] + 1] BY <1>2, <1>8, <1>9 DEF TypeOK
  <2>2. holds[f.rt] \in [Threads -> Nat] BY <1>2, <1>9 DEF TypeOK
  <2>3. holds' \in [Runtimes -> [Threads -> Nat]] BY <1>2, <1>8, <1>9, <2>2 DEF TypeOK
  <2>4. \A r \in Runtimes : r # f.rt => holds'[r] = holds[r] BY <1>2, <1>8 DEF TypeOK
  <2>5. scope' = scope /\ failed' \in [Runtimes -> BOOLEAN] /\ current' \in [Threads -> Runtimes \cup {NoRuntime}]
    BY <1>2, <1>8, <1>9 DEF TypeOK
  <2> QED BY <1>2, <1>8, <2>1, <2>2, <2>3, <2>4, <2>5 DEF OnlyBy, TypeOK
<1>18. \A r \in Runtimes : holds'[r][t] = Cardinality(Entered(t, r))'
  BY <1>1, <1>2, <1>9, <1>10, <1>11, <1>17, StackType, FS_AddElement
<1> QED BY <1>6, <1>12, <1>13, <1>14, <1>15, <1>16, <1>17, <1>18, StepOf DEF SoundStack, Replaced

(* A function returns: what is left are frames that called something. *)
LEMMA PopFacts ==
  ASSUME FramesInv, NEW t \in Threads, ~Empty(t), Popped(t)
  PROVE  /\ CallersInside(t)' /\ SavedBelow(t)' /\ OwnersOnly(t)' /\ NativeRefused(t)'
         /\ \A r : Entered(t, r)' = {i \in 1 .. Len(stack[t]) - 1 : stack[t][i].rt = r}
         /\ \A r : {i \in 1 .. Len(stack[t]) - 1 : stack[t][i].rt = r} = Entered(t, r) \ {Len(stack[t])}
<1> DEFINE n == Len(stack[t])
<1>1. SoundStack(t) /\ TypeOK BY DEF FramesInv
<1>2. n \in Nat \ {0} /\ DOMAIN stack[t] = 1 .. n BY <1>1, TopFacts, StackType
<1>3. /\ Len(stack'[t]) = n - 1 /\ DOMAIN stack'[t] = 1 .. n - 1
      /\ \A i \in 1 .. n - 1 : Alike(stack'[t][i], stack[t][i])
  BY LenProperties DEF Popped, Elsewhere
<1> HIDE DEF n
<1>4. \A i \in 1 .. n - 1 : stack[t][i].at \in Calling BY <1>1 DEF SoundStack, CallersInside, n
<1>5. \A r : Entered(t, r)' = {i \in 1 .. n - 1 : stack[t][i].rt = r}
  BY <1>3, <1>4 DEF Entered, Alike, Calling
<1>6. \A r : {i \in 1 .. n - 1 : stack[t][i].rt = r} = Entered(t, r) \ {n}
  BY <1>2, <1>4 DEF Entered, Calling
<1>7. CallersInside(t)' BY <1>2, <1>3, <1>4 DEF CallersInside, Alike
<1>8. SavedBelow(t)'
  <2>1. ASSUME NEW i \in 1 .. n - 1, stack'[t][i].prev # NoRuntime
        PROVE  \E j \in 1 .. i - 1 : stack'[t][j].rt = stack'[t][i].prev
    <3>1. i \in 1 .. n /\ stack'[t][i].prev = stack[t][i].prev BY <1>2, <1>3 DEF Alike
    <3>2. PICK j \in 1 .. i - 1 : stack[t][j].rt = stack[t][i].prev
      BY <1>1, <2>1, <3>1 DEF SoundStack, SavedBelow, n
    <3>3. j \in 1 .. n - 1 /\ stack'[t][j].rt = stack[t][j].rt BY <1>2, <1>3 DEF Alike
    <3> QED BY <3>1, <3>2, <3>3
  <2> QED BY <1>3, <2>1 DEF SavedBelow
<1>9. OwnersOnly(t)' BY <1>1, <1>2, <1>3 DEF SoundStack, OwnersOnly, Alike, n
<1>10. NativeRefused(t)' BY <1>1, <1>2, <1>3 DEF SoundStack, NativeRefused, Alike, n
<1> QED BY <1>5, <1>6, <1>7, <1>8, <1>9, <1>10 DEF n

(* A function returns before it had the lock. *)
LEMMA DropKeeps ==
  ASSUME FramesInv, NEW t \in Threads, ~Empty(t), Popped(t), Top(t).at \in Outside,
         scope' = scope, UNCHANGED <<holds, current>>, failed' \in [Runtimes -> BOOLEAN]
  PROVE  FramesInv'
<1>1. SoundStack(t) /\ TypeOK /\ \A r \in Runtimes : holds[r][t] = Cardinality(Entered(t, r))
  BY DEF FramesInv, LockMatchesFrames
<1>2. \A r : Len(stack[t]) \notin Entered(t, r) BY <1>1, TopFacts DEF Entered, Outside
<1>3. \A r : Entered(t, r)' = Entered(t, r)
  <2>1. \A r : Entered(t, r) \ {Len(stack[t])} = Entered(t, r) BY <1>2
  <2> QED BY <2>1, PopFacts
<1>4. CurrentEntered(t)' BY <1>1, <1>3 DEF SoundStack, CurrentEntered
<1>5. OnlyBy(t) BY <1>1 DEF OnlyBy, TypeOK
<1>6. \A r \in Runtimes : holds'[r][t] = Cardinality(Entered(t, r))' BY <1>1, <1>3
<1> QED BY <1>4, <1>5, <1>6, PopFacts, StepOf DEF SoundStack, Popped

(* A function returns, unlocks, and makes current what was or nothing. *)
LEMMA LeaveKeeps ==
  ASSUME FramesInv, NEW t \in Threads, ~Empty(t), Popped(t), Top(t).at \notin Outside,
         scope' = scope, failed' \in [Runtimes -> BOOLEAN],
         Unlock(Top(t).rt, t),
         NEW c \in {Top(t).prev, NoRuntime}, current' = [current EXCEPT ![t] = c]
  PROVE  FramesInv'
<1>0. PICK r0 : r0 = Top(t).rt OBVIOUS
<1> DEFINE n == Len(stack[t])
<1>1. SoundStack(t) /\ TypeOK /\ \A r \in Runtimes : holds[r][t] = Cardinality(Entered(t, r))
  BY DEF FramesInv, LockMatchesFrames
<1>2. n \in Nat \ {0} /\ Top(t) = stack[t][n] /\ Top(t) \in Frames /\ DOMAIN stack[t] = 1 .. n
  BY <1>1, TopFacts, StackType
<1>3. r0 \in Runtimes /\ c \in Runtimes \cup {NoRuntime} BY <1>0, <1>2 DEF Frames
<1>4. holds' = [holds EXCEPT ![r0][t] = holds[r0][t] - 1] BY <1>0 DEF Unlock
<1> HIDE DEF n
<1>5. n \in Entered(t, r0) /\ \A r : n \in Entered(t, r) => r = r0
  BY <1>0, <1>2 DEF Entered, Outside
<1>6. \A r : Entered(t, r)' = Entered(t, r) \ {n} BY PopFacts DEF n
<1>7. ASSUME NEW r \in Runtimes
      PROVE  /\ Cardinality(Entered(t, r)') = IF r = r0 THEN holds[r][t] - 1 ELSE holds[r][t]
             /\ Cardinality(Entered(t, r)') \in Nat
  <2>1. IsFiniteSet(Entered(t, r)) BY <1>1, StackType
  <2>2. /\ IsFiniteSet(Entered(t, r) \ {n})
        /\ Cardinality(Entered(t, r) \ {n}) =
             IF n \in Entered(t, r) THEN Cardinality(Entered(t, r)) - 1 ELSE Cardinality(Entered(t, r))
    BY <2>1, FS_RemoveElement
  <2>3. Cardinality(Entered(t, r) \ {n}) \in Nat BY <2>2, FS_CardinalityType
  <2> QED BY <1>1, <1>5, <1>6, <2>2, <2>3
<1>8. Cardinality(Entered(t, r0)') = holds[r0][t] - 1 /\ Cardinality(Entered(t, r0)') \in Nat
  BY <1>3, <1>7
<1>9. OnlyBy(t) /\ \A r \in Runtimes : holds'[r][t] = Cardinality(Entered(t, r))'
  <2>1. holds[r0] \in [Threads -> Nat] /\ holds[r0][t] - 1 \in Nat BY <1>1, <1>3, <1>8 DEF TypeOK
  <2>2. holds'[r0] = [holds[r0] EXCEPT ![t] = holds[r0][t] - 1] BY <1>1, <1>3, <1>4 DEF TypeOK
  <2>9. holds'[r0][t] = holds[r0][t] - 1 /\ \A u \in Threads : u # t => holds'[r0][u] = holds[r0][u]
    BY <2>1, <2>2
  <2>3. holds' \in [Runtimes -> [Threads -> Nat]] BY <1>1, <1>3, <1>4, <2>1 DEF TypeOK
  <2>4. \A r \in Runtimes : r # r0 => holds'[r] = holds[r] BY <1>1, <1>4 DEF TypeOK
  <2>5. current' \in [Threads -> Runtimes \cup {NoRuntime}] /\ \A u \in Threads : u # t => current'[u] = current[u]
    BY <1>1, <1>3 DEF TypeOK
  <2>7. OnlyBy(t) BY <2>3, <2>4, <2>5, <2>9 DEF OnlyBy
  <2>8. \A r \in Runtimes : holds'[r][t] = Cardinality(Entered(t, r)') BY <1>7, <2>4, <2>9
  <2> QED BY <2>7, <2>8
<1>10. CurrentEntered(t)'
  <2>1. current'[t] = c BY <1>1 DEF TypeOK
  <2>2. ASSUME c # NoRuntime PROVE Entered(t, c)' # {}
    <3>1. c = stack[t][n].prev /\ n \in 1 .. Len(stack[t]) BY <1>2, <2>2 DEF n
    <3>2. PICK j \in 1 .. n - 1 : stack[t][j].rt = c
      BY <1>1, <2>2, <3>1 DEF SoundStack, SavedBelow
    <3> QED BY <3>2, PopFacts DEF n
  <2> QED BY <2>1, <2>2 DEF CurrentEntered
<1> QED BY <1>9, <1>10, PopFacts, StepOf DEF SoundStack, Popped

-----------------------------------------------------------------------------
(* The actions *)

LEMMA NewFrame ==
  ASSUME NEW kind \in Kinds, NEW r \in Runtimes, NEW o \in Threads
  PROVE  /\ Frame(kind, r, o) \in Frames
         /\ Frame(kind, r, o).kind = kind /\ Frame(kind, r, o).rt = r /\ Frame(kind, r, o).owner = o
         /\ Frame(kind, r, o).prev = NoRuntime
         /\ Frame(kind, r, o).at = IF kind = "trampoline" THEN "check" ELSE "wait"
  BY DEF Frame, Frames, Ats

LEMMA Moved ==
  ASSUME NEW f \in Frames, NEW at \in Ats
  PROVE  LET g == [f EXCEPT !.at = at] IN
         /\ g \in Frames /\ g.kind = f.kind /\ g.rt = f.rt /\ g.prev = f.prev /\ g.owner = f.owner /\ g.at = at
         /\ g = [f EXCEPT !.at = at, !.lost = f.lost]
  BY DEF Frames

(* What a return leaves when the frame below learns nothing. *)
LEMMA PlainReturn ==
  ASSUME TypeOK, NEW t \in Threads, ~Empty(t), Return(t, LAMBDA g : g)
  PROVE  Popped(t) /\ PoppedTo(t, Caller(t))
<1>1. stack' = [stack EXCEPT ![t] =
                  IF Below(t) = <<>> THEN Below(t)
                  ELSE [Below(t) EXCEPT ![Len(Below(t))] = Below(t)[Len(Below(t))]]]
  BY DEF Return
<1>2. Below(t) # <<>> => Below(t)[Len(Below(t))] \in Frames
  BY TopFacts, EmptySeq, ElementOfSeq
<1>3. PoppedTo(t, Below(t)[Len(Below(t))]) BY <1>1, <1>2, ReturnFacts DEF Alike
<1>4. Len(stack[t]) > 1 => Below(t)[Len(Below(t))] = Caller(t) BY TopFacts DEF Caller
<1> QED BY <1>3, <1>4 DEF PoppedTo

LEMMA FailureReturn ==
  ASSUME TypeOK, NEW t \in Threads, ~Empty(t),
         Return(t, LAMBDA g : IF g.at = "vm" THEN [g EXCEPT !.lost = TRUE] ELSE g)
  PROVE  Popped(t) /\ PoppedTo(t, IF Caller(t).at = "vm" THEN [Caller(t) EXCEPT !.lost = TRUE] ELSE Caller(t))
<1> DEFINE g == Below(t)[Len(Below(t))]
<1> DEFINE h == IF g.at = "vm" THEN [g EXCEPT !.lost = TRUE] ELSE g
<1>1. stack' = [stack EXCEPT ![t] =
                  IF Below(t) = <<>> THEN Below(t) ELSE [Below(t) EXCEPT ![Len(Below(t))] = h]]
  BY DEF Return
<1>2. Below(t) # <<>> => g \in Frames BY TopFacts, EmptySeq, ElementOfSeq
<1>3. g \in Frames => h \in Frames /\ Alike(h, g) BY DEF Frames, Alike
<1>4. Len(stack[t]) > 1 => g = Caller(t) BY TopFacts DEF Caller
<1>5. Len(stack[t]) > 1 => h = IF Caller(t).at = "vm" THEN [Caller(t) EXCEPT !.lost = TRUE] ELSE Caller(t) BY <1>4
<1> HIDE DEF g, h
<1>6. PoppedTo(t, h) BY <1>1, <1>2, <1>3, ReturnFacts DEF g
<1> QED BY <1>5, <1>6 DEF PoppedTo

LEMMA RunReturn ==
  ASSUME TypeOK, NEW t \in Threads, ~Empty(t),
         Return(t, LAMBDA g : [g EXCEPT !.nest = @ \/ g.kind = "run"])
  PROVE  Popped(t) /\ PoppedTo(t, [Caller(t) EXCEPT !.nest = Caller(t).nest \/ Caller(t).kind = "run"])
<1> DEFINE g == Below(t)[Len(Below(t))]
<1> DEFINE h == [g EXCEPT !.nest = g.nest \/ g.kind = "run"]
<1>1. stack' = [stack EXCEPT ![t] =
                  IF Below(t) = <<>> THEN Below(t) ELSE [Below(t) EXCEPT ![Len(Below(t))] = h]]
  BY DEF Return
<1>2. Below(t) # <<>> => g \in Frames BY TopFacts, EmptySeq, ElementOfSeq
<1>3. g \in Frames => h \in Frames /\ Alike(h, g) BY DEF Frames, Alike
<1>4. Len(stack[t]) > 1 => g = Caller(t) BY TopFacts DEF Caller
<1>5. Len(stack[t]) > 1 => h = [Caller(t) EXCEPT !.nest = Caller(t).nest \/ Caller(t).kind = "run"] BY <1>4
<1> HIDE DEF g, h
<1>6. PoppedTo(t, h) BY <1>1, <1>2, <1>3, ReturnFacts DEF g
<1> QED BY <1>5, <1>6 DEF PoppedTo

(* Host code and native code call. *)
LEMMA CallsKeep ==
  ASSUME FramesInv, NEW t \in Threads, NEW r \in Runtimes, scope' = scope
  PROVE  /\ \A kind \in Kinds \ {"trampoline"} : CallApi(t, kind, r) => FramesInv'
         /\ \A o \in HostThreads : InvokeClosure(t, r, o) => FramesInv'
<1>1. TypeOK BY DEF FramesInv
<1>2. ASSUME NEW kind \in Kinds \ {"trampoline"}, CallApi(t, kind, r) PROVE FramesInv'
  <2>1. Push(t, Frame(kind, r, t)) /\ UNCHANGED <<holds, current, failed>> BY <1>2 DEF CallApi
  <2>2. t \in HostThreads /\ (Empty(t) \/ Top(t).at = "host") BY <1>2 DEF CallApi, InHostCode, TopAt
  <2>3. Pushed(t, Frame(kind, r, t)) BY <1>1, <2>1, NewFrame, PushFacts
  <2> QED BY <2>1, <2>2, <2>3, NewFrame, PushKeeps, ThreadsAssumption DEF Calling, Outside
<1>3. ASSUME NEW o \in HostThreads, InvokeClosure(t, r, o) PROVE FramesInv'
  <2>1. Push(t, Frame("trampoline", r, o)) /\ UNCHANGED <<holds, current, failed>>
    BY <1>3 DEF InvokeClosure
  <2>2. Empty(t) \/ Top(t).at = "native" BY <1>3 DEF InvokeClosure, TopAt
  <2>3. o \in Threads /\ "trampoline" \in Kinds BY DEF Threads, Kinds
  <2>4. Pushed(t, Frame("trampoline", r, o)) BY <1>1, <2>1, <2>3, NewFrame, PushFacts
  <2> QED BY <2>1, <2>2, <2>3, <2>4, NewFrame, PushKeeps DEF Calling, Outside
<1> QED BY <1>2, <1>3

(* A function returns. *)
LEMMA ReturnsKeep ==
  ASSUME FramesInv, NEW t \in Threads, scope' = scope,
         HostCallUnknown(t) \/ RefuseCall(t) \/ ReturnCall(t)
           \/ ReturnTrampoline(t) \/ ReturnHostCall(t) \/ ReturnRun(t)
  PROVE  FramesInv'
<1>1. TypeOK /\ ~Empty(t)
  BY DEF FramesInv, HostCallUnknown, RefuseCall, ReturnCall, ReturnTrampoline, ReturnHostCall, ReturnRun, TopIs
<1>2. CASE HostCallUnknown(t)
  <2>1. Top(t).at = "wait" /\ UNCHANGED <<holds, current>> /\ failed' \in [Runtimes -> BOOLEAN]
    BY <1>1, <1>2 DEF HostCallUnknown, TopIs, TypeOK
  <2>2. Popped(t) BY <1>1, <1>2, PlainReturn DEF HostCallUnknown
  <2> QED BY <1>1, <2>1, <2>2, DropKeeps DEF Outside
<1>3. CASE RefuseCall(t)
  <2>1. /\ Top(t).at = "args" /\ current' = [current EXCEPT ![t] = Top(t).prev]
        /\ Unlock(Top(t).rt, t) /\ failed' \in [Runtimes -> BOOLEAN]
    BY <1>1, <1>3 DEF RefuseCall, TopIs, TypeOK
  <2>2. Popped(t) BY <1>1, <1>3, FailureReturn DEF RefuseCall
  <2> QED BY <1>1, <2>1, <2>2, LeaveKeeps DEF Outside
<1>4. CASE ReturnCall(t)
  <2>1. /\ Top(t).at = "native" /\ current' = [current EXCEPT ![t] = Top(t).prev]
        /\ Unlock(Top(t).rt, t) /\ failed' \in [Runtimes -> BOOLEAN]
    BY <1>1, <1>4 DEF ReturnCall, TopIs, TypeOK
  <2>2. Popped(t) BY <1>1, <1>4, PlainReturn DEF ReturnCall
  <2> QED BY <1>1, <2>1, <2>2, LeaveKeeps DEF Outside
<1>5. CASE ReturnTrampoline(t) \/ ReturnHostCall(t)
  <2>1. /\ Top(t).at = "host" /\ current' = [current EXCEPT ![t] = Top(t).prev]
        /\ Unlock(Top(t).rt, t) /\ failed' \in [Runtimes -> BOOLEAN]
    BY <1>1, <1>5 DEF ReturnTrampoline, ReturnHostCall, TopIs, TypeOK
  <2>2. Popped(t) BY <1>1, <1>5, PlainReturn DEF ReturnTrampoline, ReturnHostCall
  <2> QED BY <1>1, <2>1, <2>2, LeaveKeeps DEF Outside
<1>6. CASE ReturnRun(t)
  <2>1. /\ Top(t).at = "vm" /\ current' = [current EXCEPT ![t] = NoRuntime]
        /\ Unlock(Top(t).rt, t) /\ failed' \in [Runtimes -> BOOLEAN]
    BY <1>1, <1>6 DEF ReturnRun, TopIs, TypeOK
  <2>2. Popped(t) BY <1>1, <1>6, RunReturn DEF ReturnRun
  <2> QED BY <1>1, <2>1, <2>2, LeaveKeeps DEF Outside
<1> QED BY <1>2, <1>3, <1>4, <1>5, <1>6

(* The top function goes on to another place, having learned something. *)
LEMMA MovesKeep ==
  ASSUME FramesInv, NEW t \in Threads, ~Empty(t), scope' = scope,
         UNCHANGED <<holds, current>>, failed' \in [Runtimes -> BOOLEAN],
         Top(t).at \notin Outside,
         NEW at \in Ats \ Outside, NEW lost \in BOOLEAN,
         SetTop(t, [Top(t) EXCEPT !.at = at, !.lost = lost])
  PROVE  FramesInv'
<1>1. TypeOK /\ Top(t) \in Frames BY TopFacts DEF FramesInv
<1> DEFINE g == [Top(t) EXCEPT !.at = at, !.lost = lost]
<1>2. /\ g \in Frames /\ g.kind = Top(t).kind /\ g.rt = Top(t).rt /\ g.prev = Top(t).prev
      /\ g.owner = Top(t).owner /\ g.at = at
  BY <1>1 DEF Frames
<1>3. Replaced(t, g) BY <1>1, <1>2, SetTopFacts
<1> HIDE DEF g
<1> QED BY <1>2, <1>3, ReplaceKeeps DEF Outside

LEMMA CheckKeeps ==
  ASSUME FramesInv, NEW t \in Threads, CheckThread(t), scope' = scope
  PROVE  FramesInv'
<1>1. TypeOK /\ ~Empty(t) /\ Top(t).at = "check" /\ Top(t) \in Frames
  BY TopFacts DEF FramesInv, CheckThread, TopAt
<1>2. UNCHANGED <<holds, current, failed>> BY DEF CheckThread
<1>3. failed' \in [Runtimes -> BOOLEAN] BY <1>1, <1>2 DEF TypeOK
<1>4. CASE OnOwnerThread(t, Top(t))
  <2> DEFINE g == [Top(t) EXCEPT !.at = "wait"]
  <2>1. SetTop(t, g) /\ Top(t).owner = t BY <1>4 DEF CheckThread, OnOwnerThread
  <2>2. /\ g \in Frames /\ g.kind = Top(t).kind /\ g.rt = Top(t).rt /\ g.prev = Top(t).prev
        /\ g.owner = Top(t).owner /\ g.at = "wait"
    BY <1>1, Moved DEF Ats
  <2>3. Replaced(t, g) BY <1>1, <2>1, <2>2, SetTopFacts
  <2>4. t \in HostThreads
    <3>1. SoundStack(t) BY DEF FramesInv
    <3>2. Len(stack[t]) \in 1 .. Len(stack[t]) /\ Top(t) = stack[t][Len(stack[t])] BY <1>1, TopFacts
    <3> QED BY <2>1, <3>1, <3>2 DEF SoundStack, NativeRefused, Threads
  <2> HIDE DEF g
  <2> QED BY <1>1, <1>2, <1>3, <2>1, <2>2, <2>3, <2>4, ReplaceKeeps DEF Outside
<1>5. CASE ~OnOwnerThread(t, Top(t))
  <2>1. Popped(t) BY <1>1, <1>5, PlainReturn DEF CheckThread
  <2> QED BY <1>1, <1>2, <1>3, <2>1, DropKeeps DEF Outside
<1> QED BY <1>4, <1>5

(* Native code waits or goes on, and an op runs. *)
LEMMA InsideKeeps ==
  ASSUME FramesInv, NEW t \in Threads, scope' = scope,
         CallNative(t) \/ Join(t) \/ Joined(t) \/ OpFails(t) \/ CoreOpCrashes(t)
           \/ OpFfiCall(t) \/ OpHostCall(t) \/ ReturnOpHost(t)
  PROVE  FramesInv'
<1>1. TypeOK /\ ~Empty(t)
  BY DEF FramesInv, CallNative, Join, Joined, OpFails, CoreOpCrashes, OpFfiCall, OpHostCall,
         ReturnOpHost, Running, TopIs, TopAt
<1>2. Top(t) \in Frames BY <1>1, TopFacts
<1>3. Top(t).lost \in BOOLEAN BY <1>2 DEF Frames
<1>4. failed \in [Runtimes -> BOOLEAN] BY <1>1 DEF TypeOK
<1>5. ASSUME Top(t).at \notin Outside, UNCHANGED <<holds, current>>, failed' \in [Runtimes -> BOOLEAN],
             NEW at \in Ats \ Outside, SetTop(t, [Top(t) EXCEPT !.at = at])
      PROVE  FramesInv'
  <2>1. SetTop(t, [Top(t) EXCEPT !.at = at, !.lost = Top(t).lost]) BY <1>2, <1>5, Moved
  <2> QED BY <1>1, <1>3, <1>5, <2>1, MovesKeep
<1>6. ASSUME Top(t).at \notin Outside, UNCHANGED <<holds, current>>, failed' \in [Runtimes -> BOOLEAN],
             NEW lost \in BOOLEAN, SetTop(t, [Top(t) EXCEPT !.lost = lost])
      PROVE  FramesInv'
  <2>1. Top(t).at \in Ats /\ [Top(t) EXCEPT !.lost = lost] = [Top(t) EXCEPT !.at = Top(t).at, !.lost = lost]
    BY <1>2 DEF Frames
  <2>2. SetTop(t, [Top(t) EXCEPT !.at = Top(t).at, !.lost = lost]) BY <1>6, <2>1
  <2> QED BY <1>1, <1>6, <2>1, <2>2, MovesKeep
<1>7. CASE CallNative(t)
  BY <1>4, <1>5, <1>7 DEF CallNative, TopIs, Ats, Outside
<1>8. CASE Join(t)
  BY <1>4, <1>5, <1>8 DEF Join, TopAt, Ats, Outside
<1>9. CASE Joined(t)
  BY <1>4, <1>5, <1>9 DEF Joined, TopAt, Ats, Outside
<1>10. CASE OpFails(t)
  BY <1>4, <1>6, <1>10 DEF OpFails, FailCurrent, Running, TopIs, Outside
<1>11. CASE CoreOpCrashes(t)
  BY <1>4, <1>5, <1>11 DEF CoreOpCrashes, Running, TopIs, Ats, Outside
<1>12. CASE OpFfiCall(t)
  <2>1. CASE current[t] = NoRuntime
    BY <1>4, <1>6, <1>12, <2>1 DEF OpFfiCall, Running, TopIs, Outside
  <2>2. CASE current[t] # NoRuntime
    <3>1. /\ Push(t, Frame("call", current[t], t)) /\ UNCHANGED <<holds, current, failed>>
          /\ Top(t).at = "vm"
      BY <1>12, <2>2 DEF OpFfiCall, Running, TopIs
    <3>2. current[t] \in Runtimes /\ "call" \in Kinds BY <1>1, <2>2 DEF TypeOK, Kinds
    <3>3. Pushed(t, Frame("call", current[t], t)) BY <1>1, <3>1, <3>2, NewFrame, PushFacts
    <3>4. t \in HostThreads
      <4>1. SoundStack(t) BY DEF FramesInv
      <4>2. Len(stack[t]) \in 1 .. Len(stack[t]) /\ Top(t) = stack[t][Len(stack[t])] BY <1>1, TopFacts
      <4> QED BY <3>1, <4>1, <4>2 DEF SoundStack, NativeRefused, Threads
    <3> QED BY <3>1, <3>2, <3>3, <3>4, NewFrame, PushKeeps, ThreadsAssumption DEF Calling, Outside
  <2> QED BY <2>1, <2>2
<1>13. CASE OpHostCall(t)
  <2>1. CASE current[t] = NoRuntime
    BY <1>4, <1>6, <1>13, <2>1 DEF OpHostCall, Running, TopIs, Outside
  <2>2. CASE current[t] # NoRuntime
    BY <1>4, <1>5, <1>13, <2>2 DEF OpHostCall, Running, TopIs, Ats, Outside
  <2> QED BY <2>1, <2>2
<1>14. CASE ReturnOpHost(t)
  <2>1. Top(t).at = "host" /\ UNCHANGED <<holds, current>> BY <1>14 DEF ReturnOpHost, TopIs
  <2>2. PICK ok \in BOOLEAN :
          /\ failed' = [failed EXCEPT ![Top(t).rt] = failed[Top(t).rt] \/ ~ok]
          /\ SetTop(t, [Top(t) EXCEPT !.at = "vm", !.lost = Top(t).lost \/ ~ok])
    BY <1>14 DEF ReturnOpHost
  <2>3. failed' \in [Runtimes -> BOOLEAN] BY <1>4, <2>2
  <2>4. (Top(t).lost \/ ~ok) \in BOOLEAN OBVIOUS
  <2> QED BY <1>1, <2>1, <2>2, <2>3, <2>4, MovesKeep DEF Ats, Outside
<1> QED BY <1>7, <1>8, <1>9, <1>10, <1>11, <1>12, <1>13, <1>14

LEMMA FramesStay ==
  ASSUME FramesInv, [Next]_vars
  PROVE  FramesInv'
<1>1. scope.threads \subseteq Threads /\ scope.runtimes \subseteq Runtimes
  BY ScopesAssumption DEF FramesInv, TypeOK
<1>2. ASSUME NEW t \in Threads, NEW r \in Runtimes, LeafApi(t, r), scope' = scope PROVE FramesInv'
  <2>1. failed' \in [Runtimes -> BOOLEAN] /\ UNCHANGED <<scope, holds, current, stack>>
    BY <1>2 DEF LeafApi, FramesInv, TypeOK
  <2> QED
    BY <2>1
    DEF FramesInv, TypeOK, LockMatchesFrames, Entered, SoundStack, CallersInside, SavedBelow,
        CurrentEntered, OwnersOnly, NativeRefused
<1>3. CASE UNCHANGED vars
  BY <1>3
  DEF vars, FramesInv, TypeOK, LockMatchesFrames, Entered, SoundStack, CallersInside, SavedBelow,
      CurrentEntered, OwnersOnly, NativeRefused
<1>4. CASE Next
  <2>1. CASE \E t \in scope.threads, r \in scope.runtimes :
               \/ LeafApi(t, r)
               \/ \E kind \in Kinds \ {"trampoline"} : CallApi(t, kind, r)
               \/ \E o \in HostThreads \cap scope.threads : InvokeClosure(t, r, o)
    BY <1>1, <1>2, <1>4, <2>1, CallsKeep DEF Next
  <2>2. CASE \E t \in scope.threads :
               \/ Enter(t) \/ HostCallUnknown(t) \/ RefuseCall(t) \/ CallNative(t) \/ ReturnCall(t)
               \/ CheckThread(t) \/ Join(t) \/ Joined(t)
               \/ ReturnTrampoline(t) \/ ReturnHostCall(t)
               \/ OpFails(t) \/ CoreOpCrashes(t) \/ OpFfiCall(t) \/ OpHostCall(t)
               \/ ReturnOpHost(t) \/ ReturnRun(t)
    <3>1. scope' = scope BY <1>4 DEF Next
    <3> QED BY <1>1, <2>2, <3>1, EnterKeeps, CheckKeeps, ReturnsKeep, InsideKeeps
  <2> QED BY <1>4, <2>1, <2>2 DEF Next, Step
<1> QED BY <1>3, <1>4

LEMMA NoFramesAtFirst == Init => FramesInv
<1> SUFFICES ASSUME Init PROVE FramesInv OBVIOUS
<1>1. /\ stack = [t \in Threads |-> <<>>] /\ current = [t \in Threads |-> NoRuntime]
      /\ holds = [r \in Runtimes |-> [t \in Threads |-> 0]]
  BY DEF Init
<1>2. TypeOK BY EmptySeq DEF Init, TypeOK
<1>3. \A t \in Threads : stack[t] = <<>> /\ Len(stack[t]) = 0 BY <1>1, EmptySeq
<1>4. \A t \in Threads : \A r : Entered(t, r) = {} BY <1>2, <1>3, StackType DEF Entered
<1>5. LockMatchesFrames BY <1>1, <1>4, FS_EmptySet DEF LockMatchesFrames
<1>6. \A t \in Threads : SoundStack(t)
  BY <1>1, <1>3 DEF SoundStack, CallersInside, SavedBelow, CurrentEntered, OwnersOnly, NativeRefused
<1> QED BY <1>2, <1>5, <1>6 DEF FramesInv

LEMMA FramesAlways == Spec => []FramesInv
  BY NoFramesAtFirst, FramesStay, PTL DEF Spec

(* On every path each thread has locked a runtime as many times as it has    *)
(* frames inside it: urbc_runtime_lock and urbc_runtime_unlock are paired,  *)
(* the error paths and refused callbacks included.                          *)
THEOREM LocksAreFrames == Spec => []LockMatchesFrames
<1>1. FramesInv => LockMatchesFrames BY DEF FramesInv
<1> QED BY <1>1, FramesAlways, PTL

(* What urbc_runtime_current gives a thread, the thread has locked. *)
THEOREM CurrentUnderLock == Spec => []CurrentIsLocked
<1>1. ASSUME FramesInv PROVE CurrentIsLocked
  <2>1. ASSUME NEW t \in Threads, current[t] # NoRuntime PROVE holds[current[t]][t] > 0
    <3>1. TypeOK /\ Entered(t, current[t]) # {} BY <1>1, <2>1 DEF FramesInv, SoundStack, CurrentEntered
    <3>2. current[t] \in Runtimes BY <2>1, <3>1 DEF TypeOK
    <3>3. Cardinality(Entered(t, current[t])) # 0 /\ Cardinality(Entered(t, current[t])) \in Nat
      BY <3>1, StackType, FS_EmptySet, FS_CardinalityType
    <3> QED BY <1>1, <3>2, <3>3 DEF FramesInv, LockMatchesFrames
  <2> QED BY <2>1 DEF CurrentIsLocked
<1> QED BY <1>1, FramesAlways, PTL

(* A host function runs for a callback on the thread that made its closure,  *)
(* and a native library's thread never holds a runtime.                     *)
THEOREM CallbacksStayHome == Spec => []CallbacksOnOwnerThread
<1>1. ASSUME FramesInv PROVE CallbacksOnOwnerThread
  <2>1. TypeOK /\ \A t \in Threads : SoundStack(t) BY <1>1 DEF FramesInv
  <2>2. ASSUME NEW w \in NativeThreads, NEW r \in Runtimes PROVE holds[r][w] = 0
    <3>1. w \in Threads BY DEF Threads
    <3>2. Entered(w, r) = {} BY <2>1, <3>1, StackType DEF SoundStack, NativeRefused, Entered
    <3> QED BY <1>1, <3>1, <3>2, FS_EmptySet DEF FramesInv, LockMatchesFrames
  <2>3. \A t \in Threads : DOMAIN stack[t] = 1 .. Len(stack[t]) BY <2>1, StackType
  <2> QED BY <2>1, <2>2, <2>3 DEF CallbacksOnOwnerThread, SoundStack, OwnersOnly
<1> QED BY <1>1, FramesAlways, PTL
-----------------------------------------------------------------------------
(* Who waits for whom, and what a run knows of its failures *)

MutualExclusion ==
  \A r \in Runtimes, t, u \in Threads : holds[r][t] > 0 /\ holds[r][u] > 0 => t = u

(* A thread that is about to lock a runtime is inside it already or comes   *)
(* from runtimes before it.                                                *)
EntersInOrder(t) ==
  ~Empty(t) /\ Top(t).at \in Outside =>
    holds[Top(t).rt][t] > 0 \/ \A q \in Runtimes : holds[q][t] > 0 => q < Top(t).rt

(* A run no other run has been nested in: its runtime is current whenever   *)
(* one of its ops is at work, and comes back when what an op called        *)
(* returns; a native call of it is for its own runtime; and an op that has *)
(* failed is the last one, the failure being recorded.                     *)
Watched(f) == f.kind = "run" /\ f.at \in {"vm", "host"} /\ ~f.nest
RunStays(t, i) ==
  LET f == stack[t][i]
      g == stack[t][i + 1]
  IN /\ f.at = "check" => f.kind = "trampoline"
     /\ f.kind = "run" /\ f.at \in Outside => ~f.lost
     /\ Watched(f) =>
          /\ f.lost => i = Len(stack[t]) /\ f.at = "vm" /\ failed[f.rt]
          /\ i = Len(stack[t]) => current[t] = f.rt
          /\ i < Len(stack[t]) =>
               /\ g.at \in Outside => current[t] = f.rt
               /\ g.at \notin Outside => g.kind = "run" \/ g.prev = f.rt
               /\ f.at = "vm" => g.kind = "call" /\ g.rt = f.rt
RunsStay(t) == \A i \in 1 .. Len(stack[t]) : RunStays(t, i)

WaitsInv ==
  /\ FramesInv
  /\ MutualExclusion
  /\ \A t \in Threads : EntersInOrder(t) /\ RunsStay(t)

LEMMA HeldInside ==
  ASSUME FramesInv, NEW t \in Threads, NEW i \in 1 .. Len(stack[t]), stack[t][i].at \notin Outside
  PROVE  stack[t][i].rt \in Runtimes /\ holds[stack[t][i].rt][t] > 0
<1> DEFINE r == stack[t][i].rt
<1>1. TypeOK BY DEF FramesInv
<1>2. r \in Runtimes BY <1>1, StackType DEF Frames
<1>3. i \in Entered(t, r) BY <1>1, StackType DEF Entered, Outside
<1>4. IsFiniteSet(Entered(t, r)) BY <1>1, StackType
<1> HIDE DEF r
<1>5. Cardinality(Entered(t, r)) # 0 /\ Cardinality(Entered(t, r)) \in Nat
  BY <1>3, <1>4, FS_EmptySet, FS_CardinalityType
<1> QED BY <1>2, <1>5 DEF r, FramesInv, LockMatchesFrames

(* A step of one thread leaves the others what they know, if it clears the  *)
(* failed flag of no runtime that another is inside.                       *)
LEMMA OthersKeep ==
  ASSUME WaitsInv, NEW t \in Threads, FramesInv', OnlyBy(t), Elsewhere(t),
         MutualExclusion', EntersInOrder(t)', RunsStay(t)',
         \A r \in Runtimes : failed[r] /\ ~failed'[r] => Lockable(r, t)
  PROVE  WaitsInv'
<1>1. ASSUME NEW u \in Threads, u # t PROVE EntersInOrder(u)' /\ RunsStay(u)'
  <2>1. /\ stack'[u] = stack[u] /\ current'[u] = current[u] /\ Len(stack[u]) \in Nat
        /\ \A r \in Runtimes : holds'[r][u] = holds[r][u]
    BY <1>1, StackType DEF Elsewhere, OnlyBy, WaitsInv, FramesInv
  <2>2. EntersInOrder(u) /\ RunsStay(u) BY DEF WaitsInv
  <2>3. EntersInOrder(u)'
    <3>1. Empty(u)' <=> Empty(u) BY <2>1 DEF Empty
    <3>2. Top(u)' = Top(u) BY <2>1 DEF Top
    <3>3. ~Empty(u) => Top(u).rt \in Runtimes BY TopFacts DEF WaitsInv, FramesInv, Frames
    <3> QED BY <2>1, <2>2, <3>1, <3>2, <3>3 DEF EntersInOrder
  <2>4. ASSUME NEW i \in 1 .. Len(stack[u]) PROVE RunStays(u, i)'
    <3>1. RunStays(u, i) BY <2>2 DEF RunsStay
    <3>2. Watched(stack[u][i]) /\ failed[stack[u][i].rt] => failed'[stack[u][i].rt]
      <4>1. Watched(stack[u][i]) => stack[u][i].rt \in Runtimes /\ holds[stack[u][i].rt][u] > 0
        BY HeldInside DEF WaitsInv, Watched, Outside
      <4>2. holds \in [Runtimes -> [Threads -> Nat]] BY DEF WaitsInv, FramesInv, TypeOK
      <4> QED BY <1>1, <4>1, <4>2 DEF Lockable
    <3> QED BY <2>1, <3>1, <3>2 DEF RunStays, Watched
  <2> QED BY <2>1, <2>3, <2>4 DEF RunsStay
<1> QED BY <1>1 DEF WaitsInv

LEMMA HoldsLess ==
  ASSUME MutualExclusion, holds \in [Runtimes -> [Threads -> Nat]],
         holds' \in [Runtimes -> [Threads -> Nat]],
         \A r \in Runtimes, u \in Threads : holds'[r][u] <= holds[r][u]
  PROVE  MutualExclusion'
<1> SUFFICES ASSUME NEW r \in Runtimes, NEW t \in Threads, NEW u \in Threads,
                    holds'[r][t] > 0, holds'[r][u] > 0
             PROVE  t = u
  BY DEF MutualExclusion
<1>1. holds[r][t] \in Nat /\ holds[r][u] \in Nat /\ holds'[r][t] \in Nat /\ holds'[r][u] \in Nat OBVIOUS
<1>2. holds[r][t] > 0 /\ holds[r][u] > 0 BY <1>1
<1> QED BY <1>2 DEF MutualExclusion

(* A function is called. *)
LEMMA PushWaits ==
  ASSUME WaitsInv, NEW t \in Threads, NEW f \in Frames, Pushed(t, f), FramesInv',
         UNCHANGED <<scope, holds, current, failed>>,
         f.at \in Outside, ~f.lost, f.at = "check" => f.kind = "trampoline",
         holds[f.rt][t] > 0 \/ \A q \in Runtimes : holds[q][t] > 0 => q < f.rt,
         \/ Empty(t)
         \/ Top(t).at \in {"host", "native"}
         \/ Top(t).at = "vm" /\ ~failed[Top(t).rt] /\ f.kind = "call" /\ f.rt = current[t]
  PROVE  WaitsInv'
<1>1. FramesInv /\ TypeOK /\ RunsStay(t) BY DEF WaitsInv, FramesInv
<1>0. PICK n \in Nat : n = Len(stack[t]) BY <1>1, StackType
<1>2. n # 0 => ~Empty(t) /\ Top(t) = stack[t][n] BY <1>1, <1>0, StackType, EmptySeq DEF Empty, Top
<1>3. /\ Len(stack'[t]) = n + 1 /\ stack'[t][n + 1] = f
      /\ \A i \in 1 .. n : stack'[t][i] = stack[t][i]
  BY <1>0 DEF Pushed
<1>4. ASSUME NEW i \in 1 .. n PROVE RunStays(t, i)'
  <2>1. RunStays(t, i) BY <1>1, <1>0 DEF RunsStay
  <2>2. CASE i = n
    <3>1. \/ stack[t][i].at \in {"host", "native"}
          \/ stack[t][i].at = "vm" /\ ~failed[stack[t][i].rt] /\ f.kind = "call" /\ f.rt = current[t]
      BY <1>2, <2>2
    <3>2. Watched(stack[t][i]) => ~stack[t][i].lost /\ current[t] = stack[t][i].rt
      BY <1>0, <2>1, <2>2, <3>1 DEF RunStays, Watched
    <3>3. stack[t][i].at \notin Outside BY <3>1 DEF Outside
    <3>4. /\ stack'[t][i] = stack[t][i] /\ stack'[t][i + 1] = f /\ i + 1 = Len(stack'[t])
          /\ i < Len(stack'[t]) /\ i # Len(stack'[t])
      BY <1>3, <2>2
    <3>5. Watched(stack[t][i]) /\ stack[t][i].at = "vm" => f.kind = "call" /\ f.rt = stack[t][i].rt
      BY <3>1, <3>2
    <3>6. stack'[t][i + 1].at \in Outside BY <3>4
    <3> QED BY <3>2, <3>3, <3>4, <3>5, <3>6 DEF RunStays, Watched, Outside
  <2>3. CASE i # n
    <3>1. i < n /\ i + 1 \in 1 .. n BY <1>2, <2>3
    <3> QED BY <1>0, <1>3, <2>1, <3>1 DEF RunStays, Watched
  <2> QED BY <2>2, <2>3
<1>5. RunStays(t, n + 1)' BY <1>2, <1>3 DEF RunStays, Watched, Outside
<1>6. RunsStay(t)' BY <1>2, <1>3, <1>4, <1>5 DEF RunsStay
<1>7. Top(t)' = f BY <1>3 DEF Top
<1>8. EntersInOrder(t)' BY <1>7 DEF EntersInOrder
<1>9. MutualExclusion' BY DEF WaitsInv, MutualExclusion
<1>10. OnlyBy(t) BY <1>1 DEF OnlyBy, TypeOK
<1> QED BY <1>6, <1>8, <1>9, <1>10, OthersKeep DEF Pushed

(* The top function goes on. *)
LEMMA ReplaceWaits ==
  ASSUME WaitsInv, NEW t \in Threads, ~Empty(t), NEW f \in Frames, Replaced(t, f), FramesInv',
         scope' = scope, UNCHANGED <<holds, current>>, failed' \in [Runtimes -> BOOLEAN],
         \A r \in Runtimes : failed[r] => failed'[r],
         f.kind = Top(t).kind, f.rt = Top(t).rt, f.prev = Top(t).prev, f.nest = Top(t).nest,
         f.at \in Outside <=> Top(t).at \in Outside,
         f.at \in Outside => f.lost = Top(t).lost, f.at # "check",
         Watched(f) =>
           /\ f.lost => f.at = "vm" /\ failed'[f.rt]
           /\ current[t] = f.rt
  PROVE  WaitsInv'
<1>1. FramesInv /\ TypeOK /\ RunsStay(t) /\ CallersInside(t) BY DEF WaitsInv, FramesInv, SoundStack
<1>0. PICK n \in Nat \ {0} : n = Len(stack[t]) BY <1>1, TopFacts
<1>2. Top(t) = stack[t][n] BY <1>0, <1>1, TopFacts
<1>3. /\ Len(stack'[t]) = n /\ stack'[t][n] = f
      /\ \A i \in 1 .. n - 1 : stack'[t][i] = stack[t][i]
  BY <1>0 DEF Replaced
<1>4. ASSUME NEW i \in 1 .. n - 1 PROVE RunStays(t, i)'
  <2>1. RunStays(t, i) BY <1>1, <1>0 DEF RunsStay
  <2>2. /\ i # Len(stack[t]) /\ i < Len(stack[t]) /\ i # Len(stack'[t]) /\ i < Len(stack'[t])
        /\ stack'[t][i] = stack[t][i]
    BY <1>0, <1>3
  <2>3. /\ stack'[t][i + 1].kind = stack[t][i + 1].kind /\ stack'[t][i + 1].rt = stack[t][i + 1].rt
        /\ stack'[t][i + 1].prev = stack[t][i + 1].prev
        /\ stack'[t][i + 1].at \in Outside <=> stack[t][i + 1].at \in Outside
    <3>1. CASE i + 1 = n BY <1>2, <1>3, <3>1
    <3>2. CASE i + 1 # n
      <4>1. i + 1 \in 1 .. n - 1 BY <3>2
      <4> QED BY <1>3, <4>1
    <3> QED BY <3>1, <3>2
  <2> QED BY <2>1, <2>2, <2>3 DEF RunStays, Watched
<1>5. RunStays(t, n)'
  <2>1. RunStays(t, n) BY <1>0, <1>1 DEF RunsStay
  <2>2. f.kind = "run" /\ f.at \in Outside => ~f.lost BY <1>2, <2>1 DEF RunStays
  <2> QED BY <1>3, <2>2 DEF RunStays, Watched
<1>6. RunsStay(t)' BY <1>3, <1>4, <1>5 DEF RunsStay
<1>7. Top(t)' = f BY <1>3 DEF Top
<1>8. EntersInOrder(t)'
  <2>1. f.at \in Outside => holds[f.rt][t] > 0 \/ \A q \in Runtimes : holds[q][t] > 0 => q < f.rt
    BY DEF WaitsInv, EntersInOrder
  <2> QED BY <1>7, <2>1 DEF EntersInOrder
<1>9. MutualExclusion' BY DEF WaitsInv, MutualExclusion
<1>10. OnlyBy(t) BY <1>1 DEF OnlyBy, TypeOK
<1> QED BY <1>6, <1>8, <1>9, <1>10, OthersKeep DEF Replaced

(* The lock is taken: what was current is saved. *)
LEMMA EnterWaits ==
  ASSUME WaitsInv, NEW t \in Threads, Enter(t), scope' = scope, FramesInv'
  PROVE  WaitsInv'
<1>1. FramesInv /\ TypeOK /\ RunsStay(t) /\ CallersInside(t) BY DEF WaitsInv, FramesInv, SoundStack
<1>a. ~Empty(t) /\ Top(t).at = "wait" /\ Top(t) \in Frames BY <1>1, TopFacts DEF Enter, TopAt
<1>b. PICK f \in Frames : f = Top(t) BY <1>a
<1>0. PICK n \in Nat \ {0} : n = Len(stack[t]) BY <1>1, <1>a, TopFacts
<1>2. f = stack[t][n] /\ f.rt \in Runtimes BY <1>0, <1>1, <1>a, <1>b, TopFacts DEF Frames
<1>c. PICK body \in {"args", "vm", "host"} : SetTop(t, [f EXCEPT !.prev = current[t], !.at = body])
  BY <1>b DEF Enter
<1>d. PICK g : g = [f EXCEPT !.prev = current[t], !.at = body] OBVIOUS
<1>e. /\ g \in Frames /\ g.kind = f.kind /\ g.rt = f.rt /\ g.lost = f.lost
      /\ g.prev = current[t] /\ g.at = body
  <2>1. current[t] \in Runtimes \cup {NoRuntime} /\ body \in Ats BY <1>1, <1>c DEF TypeOK, Ats
  <2> QED BY <1>d, <2>1 DEF Frames
<1>f. Replaced(t, g) BY <1>1, <1>a, <1>c, <1>d, <1>e, SetTopFacts
<1>3. /\ Len(stack'[t]) = n /\ stack'[t][n] = g
      /\ \A i \in 1 .. n - 1 : stack'[t][i] = stack[t][i]
  BY <1>0, <1>f DEF Replaced
<1>g. /\ holds' = [holds EXCEPT ![f.rt][t] = holds[f.rt][t] + 1]
      /\ current' = [current EXCEPT ![t] = f.rt]
      /\ failed' = [failed EXCEPT ![f.rt] = FALSE]
      /\ Lockable(f.rt, t)
  BY <1>b DEF Enter
<1>4. ASSUME NEW i \in 1 .. n - 1 PROVE RunStays(t, i)'
  <2>1. RunStays(t, i) BY <1>1, <1>0 DEF RunsStay
  <2>2. /\ i # Len(stack[t]) /\ i < Len(stack[t]) /\ i # Len(stack'[t]) /\ i < Len(stack'[t])
        /\ stack'[t][i] = stack[t][i]
    BY <1>0, <1>3
  <2>3. stack[t][i].at \notin Outside BY <1>0, <1>1 DEF CallersInside, Calling, Outside
  <2>4. CASE i + 1 = n
    <3>1. stack[t][i + 1] = f /\ stack'[t][i + 1] = g BY <1>2, <1>3, <2>4
    <3>2. f.at \in Outside /\ g.at \notin Outside BY <1>a, <1>b, <1>c, <1>e DEF Outside
    <3> QED BY <1>e, <2>1, <2>2, <2>3, <3>1, <3>2 DEF RunStays, Watched
  <2>5. CASE i + 1 # n
    <3>1. i + 1 \in 1 .. n - 1 BY <2>5
    <3>2. stack'[t][i + 1] = stack[t][i + 1] /\ stack[t][i + 1].at \notin Outside
      BY <1>0, <1>1, <1>3, <3>1 DEF CallersInside, Calling, Outside
    <3> QED BY <2>1, <2>2, <2>3, <3>2 DEF RunStays, Watched
  <2> QED BY <2>4, <2>5
<1>5. RunStays(t, n)'
  <2>1. RunStays(t, n) BY <1>0, <1>1 DEF RunsStay
  <2>2. f.kind = "run" => ~f.lost BY <1>2, <1>a, <1>b, <2>1 DEF RunStays, Outside
  <2>3. current'[t] = g.rt BY <1>1, <1>e, <1>g DEF TypeOK
  <2>4. g.at \notin Outside BY <1>c, <1>e DEF Outside
  <2> QED BY <1>3, <1>e, <2>2, <2>3, <2>4 DEF RunStays, Watched, Outside
<1>6. RunsStay(t)' BY <1>3, <1>4, <1>5 DEF RunsStay
<1>7. Top(t)' = g BY <1>3 DEF Top
<1>8. EntersInOrder(t)' BY <1>7, <1>c, <1>e DEF EntersInOrder, Outside
<1>h. /\ holds' \in [Runtimes -> [Threads -> Nat]]
      /\ \A r \in Runtimes, u \in Threads :
           holds'[r][u] = IF r = f.rt /\ u = t THEN holds[r][u] + 1 ELSE holds[r][u]
  <2>1. holds[f.rt] \in [Threads -> Nat] BY <1>1, <1>2 DEF TypeOK
  <2>2. holds'[f.rt] = [holds[f.rt] EXCEPT ![t] = holds[f.rt][t] + 1] BY <1>1, <1>2, <1>g DEF TypeOK
  <2>3. \A r \in Runtimes : r # f.rt => holds'[r] = holds[r] BY <1>1, <1>g DEF TypeOK
  <2>4. holds' \in [Runtimes -> [Threads -> Nat]] BY DEF FramesInv, TypeOK
  <2> QED BY <2>1, <2>2, <2>3, <2>4
<1>9. MutualExclusion'
  <2> SUFFICES ASSUME NEW r \in Runtimes, NEW u \in Threads, NEW v \in Threads,
                      holds'[r][u] > 0, holds'[r][v] > 0
               PROVE  u = v
    BY DEF MutualExclusion
  <2>1. CASE r = f.rt
    <3>1. \A x \in Threads \ {t} : holds'[r][x] = 0 BY <1>g, <1>h, <2>1 DEF Lockable
    <3> QED BY <1>h, <3>1
  <2>2. CASE r # f.rt BY <1>h, <2>2 DEF WaitsInv, MutualExclusion
  <2> QED BY <2>1, <2>2
<1>10. OnlyBy(t) BY <1>1, <1>g, <1>h DEF OnlyBy, FramesInv, TypeOK
<1>11. \A r \in Runtimes : failed[r] /\ ~failed'[r] => Lockable(r, t)
  BY <1>1, <1>2, <1>g DEF TypeOK
<1> QED BY <1>6, <1>8, <1>9, <1>10, <1>11, <1>f, OthersKeep DEF Replaced

(* A function returns: its caller has g, and c is current. *)
LEMMA PopWaits ==
  ASSUME WaitsInv, NEW t \in Threads, ~Empty(t), NEW g, PoppedTo(t, g), FramesInv', OnlyBy(t),
         \A r \in Runtimes : holds'[r][t] <= holds[r][t] /\ (failed[r] => failed'[r]),
         Len(stack[t]) > 1 /\ Watched(g) =>
           /\ Watched(Caller(t)) /\ Top(t).kind # "run"
           /\ current'[t] = IF Top(t).at \in Outside THEN current[t] ELSE Top(t).prev
           /\ g.rt = Caller(t).rt
           /\ g.lost => g.at = "vm" /\ failed'[g.rt]
  PROVE  WaitsInv'
<1>1. FramesInv /\ TypeOK /\ RunsStay(t) /\ CallersInside(t) BY DEF WaitsInv, FramesInv, SoundStack
<1>0. PICK n \in Nat \ {0} : n = Len(stack[t]) BY <1>1, TopFacts
<1>2. Top(t) = stack[t][n] BY <1>0, <1>1, TopFacts
<1>3. /\ Len(stack'[t]) = n - 1
      /\ n > 1 => stack'[t][n - 1] = g
      /\ \A i \in 1 .. n - 2 : stack'[t][i] = stack[t][i]
      /\ \A i \in 1 .. n - 1 : stack'[t][i].at = stack[t][i].at
  BY <1>0 DEF PoppedTo, Popped, Alike
<1>4. ASSUME NEW i \in 1 .. n - 2 PROVE RunStays(t, i)'
  <2>1. RunStays(t, i) BY <1>1, <1>0 DEF RunsStay
  <2>2. /\ i # Len(stack[t]) /\ i < Len(stack[t]) /\ i # Len(stack'[t]) /\ i < Len(stack'[t])
        /\ stack'[t][i] = stack[t][i]
    BY <1>0, <1>3
  <2>3. i + 1 \in 1 .. n - 1 OBVIOUS
  <2>4. stack[t][i + 1].at \notin Outside /\ stack[t][i].at \notin Outside
    BY <1>0, <1>1, <2>3 DEF CallersInside, Calling, Outside
  <2>5. Alike(stack'[t][i + 1], stack[t][i + 1]) BY <1>0, <2>3 DEF PoppedTo, Popped
  <2> QED BY <2>1, <2>2, <2>4, <2>5 DEF RunStays, Watched, Alike
<1>5. ASSUME n > 1 PROVE RunStays(t, n - 1)'
  <2>1. RunStays(t, n - 1) /\ n - 1 # Len(stack[t]) /\ n - 1 < Len(stack[t])
    BY <1>0, <1>1, <1>5 DEF RunsStay
  <2>2. Caller(t) = stack[t][n - 1] /\ stack'[t][n - 1] = g /\ n - 1 = Len(stack'[t])
    BY <1>0, <1>3, <1>5 DEF Caller
  <2>3. g.at \notin Outside
    <3>1. n - 1 \in 1 .. n - 1 /\ n - 1 \in 1 .. Len(stack[t]) - 1
      BY <1>0, <1>5
    <3>2. stack'[t][n - 1].at = stack[t][n - 1].at
      BY <1>3, <3>1
    <3>3. stack[t][n - 1].at \in Calling
      BY <1>1, <3>1 DEF CallersInside
    <3> QED BY <2>2, <3>2, <3>3 DEF Calling, Outside
  <2>4. Watched(g) => current'[t] = g.rt
    <3>1. (n - 1) + 1 = n OBVIOUS
    <3> QED BY <1>0, <1>2, <1>5, <2>1, <2>2, <3>1 DEF RunStays
  <2>5. n > 1 BY <1>5
  <2> QED BY <1>0, <2>2, <2>3, <2>4, <2>5 DEF RunStays, Outside
<1>6. RunsStay(t)'
  <2>1. \A i \in 1 .. n - 1 : i \in 1 .. n - 2 \/ (i = n - 1 /\ n > 1) OBVIOUS
  <2> QED BY <1>3, <1>4, <1>5, <2>1 DEF RunsStay
<1>7. EntersInOrder(t)'
  <2>1. ~Empty(t)' => n > 1
    <3>1. stack'[t] \in Seq(Frames) BY DEF PoppedTo, Popped, Elsewhere
    <3> QED BY <1>3, <3>1, EmptySeq DEF Empty
  <2>2. n > 1 => Top(t)'.at \notin Outside
    BY <1>0, <1>1, <1>3 DEF CallersInside, Calling, Outside, Top
  <2> QED BY <2>1, <2>2 DEF EntersInOrder
<1>8. MutualExclusion'
  <2>1. holds \in [Runtimes -> [Threads -> Nat]] /\ holds' \in [Runtimes -> [Threads -> Nat]]
    BY <1>1 DEF TypeOK, OnlyBy
  <2>2. ASSUME NEW r \in Runtimes, NEW u \in Threads PROVE holds'[r][u] <= holds[r][u]
    <3>1. holds[r][u] \in Nat BY <2>1
    <3>2. u # t => holds'[r][u] = holds[r][u] BY DEF OnlyBy
    <3> QED BY <3>1, <3>2
  <2> QED BY <2>1, <2>2, HoldsLess DEF WaitsInv
<1> QED BY <1>6, <1>7, <1>8, OthersKeep DEF PoppedTo, Popped

LEMMA Unlocked ==
  ASSUME TypeOK, NEW t \in Threads, NEW r \in Runtimes, Unlock(r, t)
  PROVE  /\ \A q \in Runtimes, u \in Threads : u # t => holds'[q][u] = holds[q][u]
         /\ \A q \in Runtimes : holds'[q][t] <= holds[q][t]
<1>1. /\ holds \in [Runtimes -> [Threads -> Nat]]
      /\ holds' = [holds EXCEPT ![r] = [holds[r] EXCEPT ![t] = holds[r][t] - 1]]
  BY DEF TypeOK, Unlock
<1>2. holds[r] \in [Threads -> Nat] BY <1>1
<1>3. holds'[r] = [holds[r] EXCEPT ![t] = holds[r][t] - 1] BY <1>1
<1>4. \A q \in Runtimes : q # r => holds'[q] = holds[q] BY <1>1
<1>5. \A q \in Runtimes : holds[q][t] \in Nat BY <1>1
<1>6. holds'[r][t] = holds[r][t] - 1 BY <1>2, <1>3
<1>7. \A q \in Runtimes : holds'[q][t] <= holds[q][t] BY <1>4, <1>5, <1>6
<1> QED BY <1>2, <1>3, <1>4, <1>7

LEMMA CallsWait ==
  ASSUME WaitsInv, NEW t \in Threads, NEW r \in Runtimes, scope' = scope, FramesInv'
  PROVE  /\ \A kind \in Kinds \ {"trampoline"} : CallApi(t, kind, r) => WaitsInv'
         /\ \A o \in HostThreads : InvokeClosure(t, r, o) => WaitsInv'
<1>1. TypeOK BY DEF WaitsInv, FramesInv
<1>2. ASSUME NEW kind \in Kinds, NEW o \in Threads, InOrder(t, r), UNCHANGED <<holds, current, failed>>,
             Push(t, Frame(kind, r, o)), Empty(t) \/ Top(t).at \in {"host", "native"}
      PROVE  WaitsInv'
  <2>1. PICK f : f = Frame(kind, r, o) OBVIOUS
  <2>2. f \in Frames /\ f.rt = r /\ f.at \in Outside /\ ~f.lost /\ (f.at = "check" => f.kind = "trampoline")
    BY <2>1, NewFrame DEF Frame, Outside
  <2>3. Pushed(t, f) BY <1>1, <1>2, <2>1, <2>2, PushFacts
  <2>4. holds[f.rt][t] > 0 \/ \A q \in Runtimes : holds[q][t] > 0 => q < f.rt
    BY <1>2, <2>2 DEF InOrder
  <2> QED BY <1>2, <2>2, <2>3, <2>4, PushWaits
<1>3. ASSUME NEW kind \in Kinds \ {"trampoline"}, CallApi(t, kind, r) PROVE WaitsInv'
  BY <1>2, <1>3 DEF CallApi, InHostCode, TopAt
<1>4. ASSUME NEW o \in HostThreads, InvokeClosure(t, r, o) PROVE WaitsInv'
  BY <1>2, <1>4 DEF InvokeClosure, TopAt, Kinds, Threads
<1> QED BY <1>3, <1>4

LEMMA ReturnsWait ==
  ASSUME WaitsInv, NEW t \in Threads, scope' = scope, FramesInv',
         HostCallUnknown(t) \/ RefuseCall(t) \/ ReturnCall(t)
           \/ ReturnTrampoline(t) \/ ReturnHostCall(t) \/ ReturnRun(t)
  PROVE  WaitsInv'
<1>1. TypeOK /\ TypeOK' /\ FramesInv /\ ~Empty(t)
  BY DEF WaitsInv, FramesInv, HostCallUnknown, RefuseCall, ReturnCall, ReturnTrampoline,
         ReturnHostCall, ReturnRun, TopIs
<1>2. PICK f \in Frames : f = Top(t) /\ f = stack[t][Len(stack[t])] BY <1>1, TopFacts
<1>3. f.rt \in Runtimes /\ \A r \in Runtimes : holds[r][t] \in Nat
  BY <1>1, <1>2 DEF Frames, TypeOK
<1>4. Len(stack[t]) \in Nat \ {0} BY <1>1, TopFacts
(* What the caller was before the return. *)
<1>5. ASSUME Len(stack[t]) > 1
      PROVE  /\ Caller(t) \in Frames /\ Caller(t).at \in Calling
             /\ Watched(Caller(t)) =>
                  /\ ~Caller(t).lost
                  /\ f.at \notin Outside => f.kind = "run" \/ f.prev = Caller(t).rt
                  /\ Caller(t).at = "vm" => f.rt = Caller(t).rt
  <2>0. Len(stack[t]) - 1 \in 1 .. Len(stack[t]) - 1 BY <1>4, <1>5
  <2>1. PICK k \in 1 .. Len(stack[t]) - 1 : k = Len(stack[t]) - 1 BY <2>0
  <2>2. RunStays(t, k) /\ stack[t][k].at \in Calling /\ stack[t][k] \in Frames
    BY <1>1, <1>4, <2>1, StackType DEF WaitsInv, RunsStay, FramesInv, SoundStack, CallersInside
  <2>3. Caller(t) = stack[t][k] /\ k + 1 = Len(stack[t]) /\ k < Len(stack[t]) BY <1>4, <2>1 DEF Caller
  <2> QED BY <1>2, <2>2, <2>3 DEF RunStays
<1>6. CASE HostCallUnknown(t)
  <2>1. f.at = "wait" /\ f.kind = "host_call" /\ UNCHANGED <<holds, current>> /\ Return(t, LAMBDA g : g)
    BY <1>2, <1>6 DEF HostCallUnknown, TopIs
  <2>2. PoppedTo(t, Caller(t)) BY <1>1, <2>1, PlainReturn
  <2>3. OnlyBy(t) BY <1>1, <2>1 DEF OnlyBy, TypeOK
  <2>4. \A r \in Runtimes : holds'[r][t] <= holds[r][t] /\ (failed[r] => failed'[r])
    BY <1>1, <1>2, <1>3, <1>6, <2>1 DEF HostCallUnknown, TypeOK
  <2>5. current'[t] = current[t] /\ f.at \in Outside BY <2>1 DEF Outside
  <2> QED BY <1>1, <1>2, <1>5, <2>1, <2>2, <2>3, <2>4, <2>5, PopWaits
(* The other returns unlock, and make c current. *)
<1>7. ASSUME NEW g, PoppedTo(t, g), Unlock(f.rt, t), \A r \in Runtimes : failed[r] => failed'[r],
             NEW c, current' = [current EXCEPT ![t] = c], f.at \notin Outside,
             Len(stack[t]) > 1 /\ Watched(g) =>
               /\ Watched(Caller(t)) /\ g.rt = Caller(t).rt /\ f.kind # "run" /\ c = f.prev
               /\ g.lost => Caller(t).lost \/ (g.at = "vm" /\ failed'[f.rt])
      PROVE  WaitsInv'
  <2>1. current'[t] = c /\ \A u \in Threads : u # t => current'[u] = current[u]
    BY <1>1, <1>7 DEF TypeOK
  <2>2. OnlyBy(t) BY <1>1, <1>3, <1>7, <2>1, Unlocked DEF OnlyBy, TypeOK
  <2>3. \A r \in Runtimes : holds'[r][t] <= holds[r][t] BY <1>1, <1>3, <1>7, Unlocked
  <2>4. ASSUME Len(stack[t]) > 1, Watched(g) PROVE g.lost => g.at = "vm" /\ failed'[g.rt]
    <3>1. Watched(Caller(t)) /\ g.rt = Caller(t).rt /\ ~Caller(t).lost BY <1>5, <1>7, <2>4
    <3>2. g.at = Caller(t).at
      BY <1>4, <1>7, <2>4 DEF PoppedTo, Popped, Alike, Caller
    <3> QED BY <1>5, <1>7, <2>4, <3>1, <3>2
  <2>5. Len(stack[t]) > 1 /\ Watched(g) =>
          /\ Watched(Caller(t)) /\ Top(t).kind # "run" /\ g.rt = Caller(t).rt
          /\ current'[t] = IF Top(t).at \in Outside THEN current[t] ELSE Top(t).prev
    BY <1>2, <1>7, <2>1
  <2>6. \A r \in Runtimes : holds'[r][t] <= holds[r][t] /\ (failed[r] => failed'[r]) BY <1>7, <2>3
  <2> QED BY <1>1, <1>7, <2>2, <2>4, <2>5, <2>6, PopWaits
<1>8. CASE RefuseCall(t)
  <2>1. /\ f.kind = "call" /\ f.at \notin Outside
        /\ Return(t, LAMBDA g : IF g.at = "vm" THEN [g EXCEPT !.lost = TRUE] ELSE g)
        /\ Unlock(f.rt, t) /\ current' = [current EXCEPT ![t] = f.prev]
        /\ failed' = [failed EXCEPT ![f.rt] = TRUE]
    BY <1>2, <1>8 DEF RefuseCall, TopIs, Outside
  <2>2. PICK g : g = IF Caller(t).at = "vm" THEN [Caller(t) EXCEPT !.lost = TRUE] ELSE Caller(t)
    OBVIOUS
  <2>3. PoppedTo(t, g) BY <1>1, <2>1, <2>2, FailureReturn
  <2>4. failed'[f.rt] /\ \A r \in Runtimes : failed[r] => failed'[r] BY <1>1, <1>3, <2>1 DEF TypeOK
  <2>5. ASSUME Len(stack[t]) > 1, Watched(g)
        PROVE  /\ Watched(Caller(t)) /\ g.rt = Caller(t).rt
               /\ g.lost => Caller(t).lost \/ (g.at = "vm" /\ failed'[f.rt])
    BY <1>5, <2>2, <2>4, <2>5 DEF Watched, Frames
  <2> QED BY <1>7, <2>1, <2>3, <2>4, <2>5
<1>9. CASE ReturnCall(t) \/ ReturnTrampoline(t) \/ ReturnHostCall(t)
  <2>1. /\ f.kind # "run" /\ f.at \notin Outside /\ Return(t, LAMBDA g : g)
        /\ Unlock(f.rt, t) /\ current' = [current EXCEPT ![t] = f.prev]
    BY <1>2, <1>9 DEF ReturnCall, ReturnTrampoline, ReturnHostCall, TopIs, Outside
  <2>2. \A r \in Runtimes : failed[r] => failed'[r]
    BY <1>1, <1>2, <1>3, <1>9 DEF ReturnCall, ReturnTrampoline, ReturnHostCall, TypeOK
  <2>3. PoppedTo(t, Caller(t)) BY <1>1, <2>1, PlainReturn
  <2> QED BY <1>7, <2>1, <2>2, <2>3
<1>10. CASE ReturnRun(t)
  <2>1. /\ f.kind = "run" /\ f.at \notin Outside
        /\ Return(t, LAMBDA g : [g EXCEPT !.nest = @ \/ g.kind = "run"])
        /\ Unlock(f.rt, t) /\ current' = [current EXCEPT ![t] = NoRuntime] /\ failed' = failed
    BY <1>2, <1>10 DEF ReturnRun, TopIs, Outside
  <2>2. PICK g : g = [Caller(t) EXCEPT !.nest = Caller(t).nest \/ Caller(t).kind = "run"] OBVIOUS
  <2>3. PoppedTo(t, g) BY <1>1, <2>1, <2>2, RunReturn
  <2>4. ASSUME Len(stack[t]) > 1, Watched(g) PROVE FALSE
    BY <1>5, <2>2, <2>4 DEF Watched, Frames
  <2> QED BY <1>7, <2>1, <2>3, <2>4
<1> QED BY <1>6, <1>8, <1>9, <1>10

LEMMA InsideWaits ==
  ASSUME WaitsInv, NEW t \in Threads, scope' = scope, FramesInv',
         CallNative(t) \/ Join(t) \/ Joined(t) \/ OpFails(t) \/ CoreOpCrashes(t)
           \/ OpFfiCall(t) \/ OpHostCall(t) \/ ReturnOpHost(t)
  PROVE  WaitsInv'
<1>1. TypeOK /\ FramesInv /\ ~Empty(t)
  BY DEF WaitsInv, FramesInv, CallNative, Join, Joined, OpFails, CoreOpCrashes, OpFfiCall, OpHostCall,
         ReturnOpHost, Running, TopIs, TopAt
<1>2. PICK f \in Frames : f = Top(t) /\ f = stack[t][Len(stack[t])] BY <1>1, TopFacts
<1>3. f.rt \in Runtimes /\ f.lost \in BOOLEAN /\ f.at \in Ats BY <1>2 DEF Frames
<1>4. failed \in [Runtimes -> BOOLEAN] /\ current \in [Threads -> Runtimes \cup {NoRuntime}]
  BY <1>1 DEF TypeOK
<1>5. Watched(f) => current[t] = f.rt /\ (f.lost => f.at = "vm" /\ failed[f.rt])
  <2>1. Len(stack[t]) \in 1 .. Len(stack[t]) BY <1>1, TopFacts
  <2>2. RunStays(t, Len(stack[t])) BY <2>1 DEF WaitsInv, RunsStay
  <2> QED BY <1>2, <2>2 DEF RunStays
(* The top frame goes to a place inside, having learned whether it lost. *)
<1>6. ASSUME f.at \notin Outside, UNCHANGED <<holds, current>>, failed' \in [Runtimes -> BOOLEAN],
             \A r \in Runtimes : failed[r] => failed'[r],
             NEW at \in Ats \ Outside, NEW lost \in BOOLEAN,
             SetTop(t, [Top(t) EXCEPT !.at = at, !.lost = lost]),
             f.kind = "run" /\ at \in {"vm", "host"} /\ ~f.nest =>
               Watched(f) /\ (lost => at = "vm" /\ failed'[f.rt])
      PROVE  WaitsInv'
  <2>1. PICK g : g = [f EXCEPT !.at = at, !.lost = lost] OBVIOUS
  <2>2. /\ g \in Frames /\ g.kind = f.kind /\ g.rt = f.rt /\ g.prev = f.prev /\ g.nest = f.nest
        /\ g.at = at /\ g.lost = lost
    BY <1>6, <2>1 DEF Frames
  <2>3. Replaced(t, g) BY <1>1, <1>2, <1>6, <2>1, <2>2, SetTopFacts
  <2>4. Watched(g) => (g.lost => g.at = "vm" /\ failed'[g.rt]) /\ current[t] = g.rt
    BY <1>5, <1>6, <2>2 DEF Watched
  <2> QED BY <1>1, <1>2, <1>6, <2>2, <2>3, <2>4, ReplaceWaits DEF Outside
(* The top frame stays where it is, or its loss is as it was. *)
<1>7. \A at \in Ats : [f EXCEPT !.at = at] = [f EXCEPT !.at = at, !.lost = f.lost] BY <1>2 DEF Frames
<1>8. \A lost \in BOOLEAN : [f EXCEPT !.lost = lost] = [f EXCEPT !.at = f.at, !.lost = lost]
  BY <1>2 DEF Frames
<1>9. CASE CallNative(t) \/ Join(t) \/ Joined(t)
  <2>1. PICK at \in {"native", "join"} :
          /\ SetTop(t, [f EXCEPT !.at = at]) /\ UNCHANGED <<holds, current, failed>>
          /\ f.at \in {"args", "native", "join"}
    BY <1>2, <1>9 DEF CallNative, Join, Joined, TopIs, TopAt
  <2>2. at \in Ats \ Outside /\ f.at \notin Outside BY <2>1 DEF Ats, Outside
  <2>3. SetTop(t, [Top(t) EXCEPT !.at = at, !.lost = f.lost]) BY <1>2, <1>7, <2>1, <2>2
  <2>4. failed' \in [Runtimes -> BOOLEAN] /\ \A r \in Runtimes : failed[r] => failed'[r]
    BY <1>4, <2>1
  <2>5. at \notin {"vm", "host"} BY <2>1
  <2> QED BY <1>3, <1>6, <2>1, <2>2, <2>3, <2>4, <2>5
<1>10. CASE OpFails(t)
  <2>1. /\ SetTop(t, [f EXCEPT !.lost = TRUE]) /\ UNCHANGED <<holds, current>>
        /\ failed' = [r \in Runtimes |-> failed[r] \/ r = current[t]]
        /\ f.at = "vm" /\ f.kind = "run"
    BY <1>2, <1>10 DEF OpFails, FailCurrent, Running, TopIs
  <2>2. /\ failed' \in [Runtimes -> BOOLEAN]
        /\ \A r \in Runtimes : failed[r] => failed'[r]
        /\ current[t] = f.rt => failed'[f.rt]
    BY <1>3, <1>4, <2>1
  <2>3. SetTop(t, [Top(t) EXCEPT !.at = f.at, !.lost = TRUE]) BY <1>2, <1>8, <2>1
  <2>4. ~f.nest => Watched(f) /\ failed'[f.rt] BY <1>5, <2>1, <2>2 DEF Watched
  <2>5. f.at \in Ats \ Outside BY <1>3, <2>1 DEF Outside
  <2> QED BY <1>6, <2>1, <2>2, <2>3, <2>4, <2>5
<1>11. CASE CoreOpCrashes(t)
  <2>1. /\ SetTop(t, [f EXCEPT !.at = "crash"]) /\ UNCHANGED <<holds, current, failed>> /\ f.at = "vm"
    BY <1>2, <1>11 DEF CoreOpCrashes, Running, TopIs
  <2>2. "crash" \in Ats \ Outside /\ f.at \notin Outside BY <2>1 DEF Ats, Outside
  <2>3. SetTop(t, [Top(t) EXCEPT !.at = "crash", !.lost = f.lost]) BY <1>2, <1>7, <2>1, <2>2
  <2>4. failed' \in [Runtimes -> BOOLEAN] /\ \A r \in Runtimes : failed[r] => failed'[r]
    BY <1>4, <2>1
  <2> QED BY <1>3, <1>6, <2>1, <2>2, <2>3, <2>4
(* An op that finds no current runtime is one of a run that is not watched. *)
<1>12. ASSUME current[t] = NoRuntime, f.at = "vm", f.kind = "run", SetTop(t, [f EXCEPT !.lost = TRUE]),
              UNCHANGED <<holds, current, failed>>
       PROVE  WaitsInv'
  <2>1. SetTop(t, [Top(t) EXCEPT !.at = f.at, !.lost = TRUE]) BY <1>2, <1>8, <1>12
  <2>2. f.nest BY <1>3, <1>5, <1>12, RuntimesAssumption DEF Watched
  <2>3. f.at \in Ats \ Outside BY <1>3, <1>12 DEF Outside
  <2> QED BY <1>4, <1>6, <1>12, <2>1, <2>2, <2>3
<1>13. CASE OpFfiCall(t)
  <2>1. /\ f.at = "vm" /\ f.kind = "run" /\ ~failed[f.rt] /\ UNCHANGED <<holds, current, failed>>
        /\ current[t] = NoRuntime => SetTop(t, [f EXCEPT !.lost = TRUE])
        /\ current[t] # NoRuntime => Push(t, Frame("call", current[t], t))
    BY <1>2, <1>13 DEF OpFfiCall, Running, TopIs
  <2>2. CASE current[t] = NoRuntime BY <1>12, <2>1, <2>2
  <2>3. CASE current[t] # NoRuntime
    <3>1. PICK g : g = Frame("call", current[t], t) OBVIOUS
    <3>2. current[t] \in Runtimes /\ "call" \in Kinds BY <1>4, <2>3 DEF Kinds
    <3>3. g \in Frames /\ g.rt = current[t] /\ g.at = "wait" /\ ~g.lost /\ g.kind = "call"
      BY <3>1, <3>2, NewFrame DEF Frame
    <3>4. Pushed(t, g) BY <1>1, <2>1, <2>3, <3>1, <3>3, PushFacts
    <3>5. holds[g.rt][t] > 0
      <4>1. Entered(t, current[t]) # {} BY <1>1, <2>3 DEF FramesInv, SoundStack, CurrentEntered
      <4>2. PICK k \in Entered(t, current[t]) : TRUE BY <4>1
      <4>3. k \in 1 .. Len(stack[t]) /\ stack[t][k].at \notin Outside /\ stack[t][k].rt = current[t]
        BY <1>1, <4>2, StackType DEF Entered, Outside
      <4> QED BY <1>1, <3>3, <4>3, HeldInside
    <3> QED BY <1>2, <2>1, <3>3, <3>4, <3>5, PushWaits DEF Outside
  <2> QED BY <2>2, <2>3
<1>14. CASE OpHostCall(t)
  <2>1. /\ f.at = "vm" /\ f.kind = "run" /\ ~failed[f.rt] /\ UNCHANGED <<holds, current, failed>>
        /\ current[t] = NoRuntime => SetTop(t, [f EXCEPT !.lost = TRUE])
        /\ current[t] # NoRuntime => SetTop(t, [f EXCEPT !.at = "host"])
    BY <1>2, <1>14 DEF OpHostCall, Running, TopIs
  <2>2. CASE current[t] = NoRuntime BY <1>12, <2>1, <2>2
  <2>3. CASE current[t] # NoRuntime
    <3>1. SetTop(t, [Top(t) EXCEPT !.at = "host", !.lost = f.lost]) /\ "host" \in Ats \ Outside
      BY <1>2, <1>7, <2>1, <2>3 DEF Ats, Outside
    <3>2. ~f.nest => Watched(f) /\ ~f.lost BY <1>5, <2>1 DEF Watched
    <3>3. f.at \notin Outside BY <2>1 DEF Outside
    <3> QED BY <1>3, <1>4, <1>6, <2>1, <3>1, <3>2, <3>3
  <2> QED BY <2>2, <2>3
<1>15. CASE ReturnOpHost(t)
  <2>1. f.at = "host" /\ f.kind = "run" /\ UNCHANGED <<holds, current>>
    BY <1>2, <1>15 DEF ReturnOpHost, TopIs
  <2>2. PICK ok \in BOOLEAN :
          /\ failed' = [failed EXCEPT ![f.rt] = failed[f.rt] \/ ~ok]
          /\ SetTop(t, [Top(t) EXCEPT !.at = "vm", !.lost = f.lost \/ ~ok])
    BY <1>2, <1>15 DEF ReturnOpHost
  <2>3. /\ failed' \in [Runtimes -> BOOLEAN]
        /\ \A r \in Runtimes : failed[r] => failed'[r]
        /\ ~ok => failed'[f.rt]
    BY <1>3, <1>4, <2>2
  <2>4. PICK lost \in BOOLEAN : lost = (f.lost \/ ~ok) BY <1>3
  <2>5. ~f.nest => Watched(f) /\ (lost => failed'[f.rt]) BY <1>5, <2>1, <2>3, <2>4 DEF Watched
  <2>6. SetTop(t, [Top(t) EXCEPT !.at = "vm", !.lost = lost]) BY <2>2, <2>4
  <2>7. f.at \notin Outside /\ "vm" \in Ats \ Outside BY <2>1 DEF Outside, Ats
  <2> QED BY <1>6, <2>1, <2>3, <2>5, <2>6, <2>7
<1> QED BY <1>9, <1>10, <1>11, <1>13, <1>14, <1>15

LEMMA CheckWaits ==
  ASSUME WaitsInv, NEW t \in Threads, CheckThread(t), scope' = scope, FramesInv'
  PROVE  WaitsInv'
<1>1. TypeOK /\ FramesInv /\ ~Empty(t) /\ UNCHANGED <<holds, current, failed>>
  BY DEF WaitsInv, FramesInv, CheckThread, TopAt
<1>2. PICK f \in Frames : f = Top(t) /\ f.at = "check" BY <1>1, TopFacts DEF CheckThread, TopAt
<1>3. CASE OnOwnerThread(t, Top(t))
  <2>1. PICK g : g = [f EXCEPT !.at = "wait"] OBVIOUS
  <2>2. /\ g \in Frames /\ g.kind = f.kind /\ g.rt = f.rt /\ g.prev = f.prev /\ g.nest = f.nest
        /\ g.at = "wait" /\ g.lost = f.lost
    BY <1>2, <2>1 DEF Frames, Ats
  <2>3. Replaced(t, g) BY <1>1, <1>2, <1>3, <2>1, <2>2, SetTopFacts DEF CheckThread
  <2>4. failed' \in [Runtimes -> BOOLEAN] BY <1>1 DEF TypeOK
  <2> QED BY <1>1, <1>2, <2>2, <2>3, <2>4, ReplaceWaits DEF Outside, Watched
<1>4. CASE ~OnOwnerThread(t, Top(t))
  <2>1. PoppedTo(t, Caller(t)) BY <1>1, <1>4, PlainReturn DEF CheckThread
  <2>2. OnlyBy(t) /\ \A r \in Runtimes : holds'[r][t] <= holds[r][t] BY <1>1 DEF OnlyBy, TypeOK
  <2>3. ASSUME Len(stack[t]) > 1, Watched(Caller(t))
        PROVE  ~Caller(t).lost
    <3>1. Len(stack[t]) \in Nat \ {0} BY <1>1, TopFacts
    <3>2. Len(stack[t]) - 1 \in 1 .. Len(stack[t]) BY <2>3, <3>1
    <3>3. RunStays(t, Len(stack[t]) - 1) BY <3>2 DEF WaitsInv, RunsStay
    <3>4. Caller(t) = stack[t][Len(stack[t]) - 1] /\ Len(stack[t]) - 1 < Len(stack[t])
      BY <3>1 DEF Caller
    <3> QED BY <2>3, <3>3, <3>4 DEF RunStays
  <2>4. f.kind = "trampoline"
    <3>1. Len(stack[t]) \in 1 .. Len(stack[t]) /\ f = stack[t][Len(stack[t])] BY <1>1, <1>2, TopFacts
    <3> QED BY <1>2, <3>1 DEF WaitsInv, RunsStay, RunStays
  <2> QED BY <1>1, <1>2, <2>1, <2>2, <2>3, <2>4, PopWaits DEF Outside
<1> QED BY <1>3, <1>4

LEMMA WaitsStay ==
  ASSUME WaitsInv, [Next]_vars
  PROVE  WaitsInv'
<1>1. FramesInv /\ FramesInv' BY FramesStay DEF WaitsInv
<1>2. scope.threads \subseteq Threads /\ scope.runtimes \subseteq Runtimes
  BY <1>1, ScopesAssumption DEF FramesInv, TypeOK
<1>3. ASSUME NEW t \in Threads, NEW r \in Runtimes, LeafApi(t, r), scope' = scope PROVE WaitsInv'
  <2>1. TypeOK /\ UNCHANGED <<scope, holds, current, stack>> /\ Lockable(r, t)
        /\ (\E ok \in BOOLEAN : failed' = [failed EXCEPT ![r] = ~ok])
    BY <1>1, <1>3 DEF LeafApi, FramesInv
  <2>2. /\ failed' \in [Runtimes -> BOOLEAN]
        /\ \A q \in Runtimes : failed[q] /\ ~failed'[q] => Lockable(q, t)
    BY <2>1 DEF TypeOK
  <2>3. OnlyBy(t) /\ Elsewhere(t) BY <2>1, <2>2 DEF OnlyBy, Elsewhere, TypeOK
  <2>4. MutualExclusion' /\ EntersInOrder(t)'
    BY <2>1 DEF WaitsInv, MutualExclusion, EntersInOrder, Empty, Top
  <2>5. ASSUME NEW k \in 1 .. Len(stack[t]) PROVE RunStays(t, k)'
    <3>1. RunStays(t, k) BY DEF WaitsInv, RunsStay
    <3>2. stack[t][k].at = "vm" => k < Len(stack[t])
      <4>1. ~Empty(t) => Top(t).at = "host" /\ Top(t) = stack[t][Len(stack[t])]
        BY <1>3 DEF LeafApi, InHostCode, TopAt, Top
      <4>2. ~Empty(t) /\ Len(stack[t]) \in Nat BY <2>1, StackType, EmptySeq DEF Empty
      <4> QED BY <4>1, <4>2
    <3>3. Len(stack[t]) \in Nat BY <2>1, StackType
    <3> QED BY <2>1, <3>1, <3>2, <3>3 DEF RunStays, Watched
  <2>6. RunsStay(t)' BY <2>1, <2>5 DEF RunsStay
  <2> QED BY <1>1, <2>2, <2>3, <2>4, <2>6, OthersKeep
<1>4. CASE UNCHANGED vars
  BY <1>1, <1>4 DEF vars, WaitsInv, MutualExclusion, EntersInOrder, RunsStay, RunStays, Watched, Empty, Top
<1>5. CASE Next
  <2>1. scope' = scope BY <1>5 DEF Next
  <2>2. CASE \E t \in scope.threads, r \in scope.runtimes :
               \/ LeafApi(t, r)
               \/ \E kind \in Kinds \ {"trampoline"} : CallApi(t, kind, r)
               \/ \E o \in HostThreads \cap scope.threads : InvokeClosure(t, r, o)
    BY <1>1, <1>2, <1>3, <2>1, <2>2, CallsWait
  <2>3. CASE \E t \in scope.threads :
               \/ Enter(t) \/ HostCallUnknown(t) \/ RefuseCall(t) \/ CallNative(t) \/ ReturnCall(t)
               \/ CheckThread(t) \/ Join(t) \/ Joined(t)
               \/ ReturnTrampoline(t) \/ ReturnHostCall(t)
               \/ OpFails(t) \/ CoreOpCrashes(t) \/ OpFfiCall(t) \/ OpHostCall(t)
               \/ ReturnOpHost(t) \/ ReturnRun(t)
    BY <1>1, <1>2, <2>1, <2>3, EnterWaits, CheckWaits, ReturnsWait, InsideWaits
  <2> QED BY <1>5, <2>2, <2>3 DEF Next, Step
<1> QED BY <1>4, <1>5

LEMMA WaitsAtFirst == Init => WaitsInv
<1> SUFFICES ASSUME Init PROVE WaitsInv OBVIOUS
<1>1. \A t \in Threads : stack[t] = <<>> /\ Len(stack[t]) = 0 BY EmptySeq DEF Init
<1>2. \A t \in Threads : EntersInOrder(t) /\ RunsStay(t) BY <1>1 DEF EntersInOrder, RunsStay, Empty
<1>3. MutualExclusion BY DEF Init, MutualExclusion
<1> QED BY <1>2, <1>3, NoFramesAtFirst DEF WaitsInv

LEMMA WaitsAlways == Spec => []WaitsInv
  BY WaitsAtFirst, WaitsStay, PTL DEF Spec

(* The last of a finite set of numbers. *)
LEMMA GreatestOf ==
  ASSUME NEW S \in SUBSET Nat, IsFiniteSet(S), S # {}
  PROVE  \E m \in S : \A k \in S : k <= m
<1> DEFINE NoGreatest(T) == T # {} /\ \A m \in T : \E k \in T : ~(k <= m)
<1> DEFINE Sizes == {n \in Nat : \E T \in SUBSET S : Cardinality(T) = n /\ NoGreatest(T)}
<1> SUFFICES ASSUME NoGreatest(S) PROVE FALSE OBVIOUS
<1>1. \A T \in SUBSET S : IsFiniteSet(T) /\ Cardinality(T) \in Nat BY FS_Subset, FS_CardinalityType
<1>2. Cardinality(S) \in Sizes BY <1>1
<1>3. PICK n \in Sizes : \A m \in Sizes : ~(<<m, n>> \in OpToRel(<, Nat))
  <2>1. Sizes \subseteq Nat /\ Sizes # {} BY <1>2
  <2> HIDE DEF Sizes
  <2> QED BY <2>1, NatLessThanWellFounded, WFMin
<1>4. \A m \in Sizes : ~(m < n) BY <1>3 DEF OpToRel
<1>5. PICK T \in SUBSET S : Cardinality(T) = n /\ NoGreatest(T) OBVIOUS
<1>6. PICK x \in T : TRUE BY <1>5
<1>7. Cardinality(T \ {x}) = n - 1 /\ n \in Nat /\ n # 0
  BY <1>1, <1>5, <1>6, FS_RemoveElement, FS_EmptySet
<1>8. ~NoGreatest(T \ {x})
  <2> SUFFICES ASSUME NoGreatest(T \ {x}) PROVE FALSE OBVIOUS
  <2>1. T \ {x} \in SUBSET S /\ n - 1 \in Nat BY <1>7
  <2> HIDE DEF NoGreatest
  <2>2. n - 1 \in Sizes BY <1>7, <2>1
  <2>3. n - 1 < n BY <1>7
  <2> QED BY <1>4, <2>2, <2>3
<1>9. CASE T \ {x} = {}
  <2>1. T = {x} /\ x \in Nat BY <1>6, <1>9
  <2>2. x <= x BY <2>1
  <2> QED BY <1>5, <2>1, <2>2
<1>10. CASE T \ {x} # {}
  <2>1. PICK m \in T \ {x} : \A k \in T \ {x} : k <= m BY <1>8, <1>10
  <2>2. x \in Nat /\ m \in Nat /\ T \subseteq Nat BY <1>6
  <2>3. CASE x <= m
    <3>1. \A k \in T : k <= m BY <2>1, <2>3
    <3> QED BY <1>5, <3>1
  <2>4. CASE ~(x <= m)
    <3>1. \A k \in T : k <= x BY <2>1, <2>2, <2>4
    <3> QED BY <1>5, <1>6, <3>1
  <2> QED BY <2>3, <2>4
<1> QED BY <1>9, <1>10

(* No threads wait for each other around a circle: of those that wait for a  *)
(* lock, one that wants the runtime of the greatest number waits for a      *)
(* thread that wants none, and the native threads a call waits for go on.   *)
THEOREM ThreadsNeverCross == Spec => []NoWaitCycle
<1>1. ASSUME WaitsInv PROVE NoWaitCycle
  <2> SUFFICES ASSUME NEW S \in (SUBSET Threads) \ {{}}, \A t \in S : BlockedBy(t) \cap S # {}
               PROVE  FALSE
    BY DEF NoWaitCycle
  <2>1. FramesInv /\ TypeOK BY <1>1 DEF WaitsInv, FramesInv
  <2>2. ASSUME NEW w \in S \cap NativeThreads PROVE FALSE
    <3>1. NativeRefused(w) BY <2>1 DEF FramesInv, SoundStack
    <3>2. ~Empty(w) => Top(w).at = "check"
      <4>1. ~Empty(w) => Len(stack[w]) \in 1 .. Len(stack[w]) /\ Top(w) = stack[w][Len(stack[w])]
        BY <2>1, TopFacts
      <4> QED BY <3>1, <4>1 DEF NativeRefused
    <3>3. BlockedBy(w) = {} BY <3>2 DEF BlockedBy, TopAt
    <3> QED BY <3>3
  <2>3. ASSUME NEW t \in S
        PROVE  /\ TopAt(t, "wait") /\ Top(t).rt \in Runtimes
               /\ \E u \in S : u # t /\ holds[Top(t).rt][u] > 0
    <3>1. BlockedBy(t) # {} /\ BlockedBy(t) \cap NativeThreads \cap S = {} BY <2>2
    <3>2. TopAt(t, "wait") \/ TopAt(t, "join") BY <3>1 DEF BlockedBy
    <3>3. ~TopAt(t, "join")
      <4>1. TopAt(t, "join") => ~TopAt(t, "wait") BY DEF TopAt
      <4>2. TopAt(t, "join") => BlockedBy(t) \subseteq NativeThreads BY <4>1 DEF BlockedBy
      <4> QED BY <2>2, <4>2
    <3>4. BlockedBy(t) = {u \in Threads \ {t} : holds[Top(t).rt][u] > 0} BY <3>2, <3>3 DEF BlockedBy
    <3>5. Top(t).rt \in Runtimes BY <2>1, <3>2, <3>3, TopFacts DEF TopAt, Frames
    <3> QED BY <3>2, <3>3, <3>4, <3>5
  <2> DEFINE wanted == {Top(t).rt : t \in S}
  <2>4. wanted \in SUBSET Nat /\ wanted # {} /\ IsFiniteSet(wanted)
    <3>1. wanted \in SUBSET Runtimes BY <2>3
    <3>2. IsFiniteSet(wanted) BY <3>1, RuntimesAssumption, FS_Subset
    <3>3. wanted \in SUBSET Nat
      <4> HIDE DEF wanted
      <4> QED BY <3>1, RuntimesAssumption
    <3>4. PICK t \in S : TRUE
      <4>1. S # {} OBVIOUS
      <4> QED BY <4>1
    <3>5. Top(t).rt \in wanted BY <3>4
    <3> QED BY <3>2, <3>3, <3>5
  <2>5. PICK r \in wanted : \A q \in wanted : q <= r BY <2>4, GreatestOf
  <2>6. PICK t \in S : r = Top(t).rt BY <2>5
  <2>7. PICK u \in S : u # t /\ holds[r][u] > 0 BY <2>3, <2>6
  <2>8. PICK v \in S : v # u /\ holds[Top(u).rt][v] > 0 BY <2>3, <2>7
  <2>9. Top(u).rt \in wanted /\ r \in Runtimes /\ Top(u).rt \in Runtimes BY <2>3, <2>5, <2>6, <2>7
  <2>10. ~(holds[Top(u).rt][u] > 0) BY <1>1, <2>7, <2>8, <2>9 DEF WaitsInv, MutualExclusion
  <2>11. ~Empty(u) /\ Top(u).at \in Outside BY <2>3, <2>7 DEF TopAt, Outside
  <2>12. r < Top(u).rt
    <3>1. EntersInOrder(u) BY <1>1, <2>7 DEF WaitsInv
    <3> QED BY <2>7, <2>9, <2>10, <2>11, <3>1 DEF EntersInOrder
  <2>13. Top(u).rt <= r BY <2>5, <2>9
  <2>14. r \in Nat /\ Top(u).rt \in Nat BY <2>9, RuntimesAssumption
  <2> QED BY <2>12, <2>13, <2>14
<1> QED BY <1>1, WaitsAlways, PTL

(* A run that no other run was nested in has every failure of its ops on     *)
(* record when the loop of urbc_runtime_run looks: it stops and says so.    *)
THEOREM FailuresAreReported == Spec => []RunReportsFailure
<1>1. ASSUME WaitsInv PROVE RunReportsFailure
  <2>1. ASSUME NEW t \in Threads, TopIs(t, "run", "vm"), Top(t).lost, ~Top(t).nest
        PROVE  failed[Top(t).rt]
    <3>1. ~Empty(t) /\ TypeOK BY <1>1, <2>1 DEF TopIs, WaitsInv, FramesInv
    <3>2. Len(stack[t]) \in 1 .. Len(stack[t]) /\ Top(t) = stack[t][Len(stack[t])] BY <3>1, TopFacts
    <3>3. RunStays(t, Len(stack[t])) BY <1>1, <3>2 DEF WaitsInv, RunsStay
    <3> QED BY <2>1, <3>2, <3>3 DEF RunStays, Watched, TopIs
  <2> QED BY <2>1 DEF RunReportsFailure
<1> QED BY <1>1, WaitsAlways, PTL
=============================================================================
