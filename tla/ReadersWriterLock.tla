-------------------------- MODULE ReadersWriterLock --------------------------
(***************************************************************************)
(* What Kernel::Lock promises the threads that use it (Kernel/Lock.h): a   *)
(* recursive lock with an exclusive and a shared mode.  `depth' counts the *)
(* lock() calls of a thread that are still to be undone, `grant' is the    *)
(* mode in which the outermost of them was granted.                        *)
(***************************************************************************)
EXTENDS Naturals
CONSTANT Threads
VARIABLES depth, grant

vars == <<depth, grant>>

Init == /\ depth = [t \in Threads |-> 0]
        /\ grant = [t \in Threads |-> "Unlocked"]

\* May t be given the lock in mode m?  Only what the others hold matters.
Compatible(t, m) ==
    \A u \in Threads \ {t} :
        depth[u] > 0 => (m = "Shared" /\ grant[u] = "Shared")

\* t, which holds nothing, gets the lock in mode m, any number of times over
\* (more than once when a hold that was given up is taken back).
Acquire(t, m) ==
    /\ depth[t] = 0
    /\ Compatible(t, m)
    /\ depth'[t] \in Nat \ {0}
    /\ grant' = [grant EXCEPT ![t] = m]

\* t locks again what it holds already; its mode stays.
Nest(t) ==
    /\ depth[t] > 0
    /\ Compatible(t, grant[t])
    /\ depth'[t] = depth[t] + 1
    /\ UNCHANGED grant

\* t undoes one of its lock() calls, or several at once.
Release(t) ==
    /\ depth'[t] \in 0..(depth[t] - 1)
    /\ grant' = [grant EXCEPT ![t] = IF depth'[t] = 0 THEN "Unlocked" ELSE @]

Next == \E t \in Threads :
          /\ depth' = [depth EXCEPT ![t] = depth'[t]]
          /\ \/ \E m \in {"Exclusive", "Shared"} : Acquire(t, m)
             \/ Nest(t)
             \/ Release(t)

Spec == Init /\ [][Next]_vars
=============================================================================
