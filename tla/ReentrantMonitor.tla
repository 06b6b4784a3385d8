-------------------------- MODULE ReentrantMonitor --------------------------
(***************************************************************************)
(* What a runtime's lock promises its callers, with nothing said of how: a  *)
(* thread is inside some number of nested sections, only one thread is     *)
(* inside at a time, and the thread that is inside may enter again.        *)
(***************************************************************************)
EXTENDS Naturals

CONSTANT Threads    \* the threads that call into one runtime

VARIABLE holds      \* holds[t]: how many sections thread t is inside

Init == holds = [t \in Threads |-> 0]

Alone(t) == \A u \in Threads \ {t} : holds[u] = 0

Enter(t) == Alone(t) /\ holds' = [holds EXCEPT ![t] = @ + 1]

Leave(t) == holds[t] > 0 /\ holds' = [holds EXCEPT ![t] = @ - 1]

Next == \E t \in Threads : Enter(t) \/ Leave(t)

Spec == Init /\ [][Next]_holds

-----------------------------------------------------------------------------

TypeOK == holds \in [Threads -> Nat]
=============================================================================
