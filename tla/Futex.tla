-------------------------------- MODULE Futex --------------------------------
(***************************************************************************)
(* Kernel/Syscalls/futex.cpp and Kernel/FutexQueue.{h,cpp}: sys$futex, the *)
(* map from a user address (or an offset into a shared VMObject) to its    *)
(* FutexQueue, and the waiters registered there.                           *)
(*                                                                         *)
(* Each command runs under the queue lock, m_futex_lock or                 *)
(* g_global_futex_lock, and is one step, except for a wait, which lets go  *)
(* of it before it registers its blocker and takes it again when it is     *)
(* back from block().  A system call is also under the big lock of its     *)
(* process, from which block() alone lets go: SameProcess says whether the *)
(* threads share it (a private futex) or not (a futex in shared memory).   *)
(*                                                                         *)
(* A wait whose value does not match, and a command that is refused, have  *)
(* no effect and no action.  FUTEX_WAKE_OP is two wakes.                   *)
(***************************************************************************)
EXTENDS Naturals, FiniteSets, Sequences, SequencesExt

CONSTANTS Threads,        \* the threads that call futex()
          Addresses,      \* user addresses
          QueueIds,       \* FutexQueue objects
          NoQueue,        \* no entry in the map
          WaitBitsets,    \* the bitsets of FUTEX_WAIT_BITSET; {} is a FUTEX_WAIT
          WakeBitsets,    \* the bitsets of FUTEX_WAKE_BITSET; {} is a FUTEX_WAKE
          WakeCounts,     \* the counts of FUTEX_WAKE and FUTEX_REQUEUE
          RequeueCounts,  \* the val2 of FUTEX_REQUEUE
          Targets,        \* the addresses FUTEX_REQUEUE moves waiters to
          SameProcess     \* see above

ASSUME FutexAssumptions ==
    /\ NoQueue \notin QueueIds
    /\ WakeCounts \subseteq Nat /\ RequeueCounts \subseteq Nat
    /\ Targets \subseteq Addresses
    /\ SameProcess \in BOOLEAN
    /\ IsFiniteSet(QueueIds) /\ IsFiniteSet(Threads) /\ IsFiniteSet(Addresses)
    /\ Cardinality(QueueIds) > 2 * Cardinality(Threads) + Cardinality(Addresses)

VARIABLES
    m_futex_queues,  \* the map from addresses to queues
    m_blockers,      \* the blockers registered in each queue
    m_bitset,        \* the bitset of each thread's blocker
    m_block_condition,  \* the queue a thread's blocker is, or was, registered in
    address,         \* the address a thread waits at
    futex_queue,     \* the reference of that name in do_wait
    pc,              \* where each thread is
    verify_failed    \* whether a VERIFY failed or a destroyed queue was used

vars == <<m_futex_queues, m_blockers, m_bitset, m_block_condition, address, futex_queue, pc,
          verify_failed>>

(* pc[t]:  "out"        outside sys$futex
           "found"      in do_wait, queue lock released, about to register
           "blocked"    asleep
           "unblocked"  woken, timed out or interrupted, before ~Blocker
           "cleanup"    back from block(), about to take the queue lock      *)
PCs == {"out", "found", "blocked", "unblocked", "cleanup"}

\* The value of a local that is not in scope.
AnyAddress == CHOOSE a \in Addresses : TRUE

Init ==
    /\ m_futex_queues = [a \in Addresses |-> NoQueue]
    /\ m_blockers = [q \in QueueIds |-> <<>>]
    /\ m_bitset = [t \in Threads |-> {}]
    /\ m_block_condition = [t \in Threads |-> NoQueue]
    /\ address = [t \in Threads |-> AnyAddress]
    /\ futex_queue = [t \in Threads |-> NoQueue]
    /\ pc = [t \in Threads |-> "out"]
    /\ verify_failed = FALSE

Goto(t, l) == pc' = [pc EXCEPT ![t] = l]

\* t has, or can get, its process's big lock.
BigLock(t) == SameProcess => \A u \in Threads \ {t} : pc[u] \notin {"found", "cleanup"}

\* The map and the waits hold the references to a queue; a blocker's
\* m_block_condition is a plain pointer.
IsAlive(q) ==
    \/ \E a \in Addresses : m_futex_queues[a] = q
    \/ \E t \in Threads : futex_queue[t] = q

\* A new queue object.
FreshQueue ==
    CHOOSE q \in QueueIds : ~IsAlive(q) /\ \A t \in Threads : m_block_condition[t] # q

\* find_futex_queue(address, true)
FindOrCreate(a) == IF m_futex_queues[a] = NoQueue THEN FreshQueue ELSE m_futex_queues[a]

----------------------------------------------------------------------------
(* do_wait *)

Wait(t, a, bitset) ==
    /\ pc[t] = "out"
    /\ BigLock(t)
    /\ m_futex_queues' = [m_futex_queues EXCEPT ![a] = FindOrCreate(a)]
    /\ futex_queue' = [futex_queue EXCEPT ![t] = FindOrCreate(a)]
    /\ address' = [address EXCEPT ![t] = a]
    /\ m_bitset' = [m_bitset EXCEPT ![t] = bitset]
    /\ Goto(t, "found")
    /\ UNCHANGED <<m_blockers, m_block_condition, verify_failed>>

\* FutexQueue::wait_on, that is Thread::block<FutexBlocker>().
WaitOn(t) ==
    /\ pc[t] = "found"
    /\ m_blockers' = [m_blockers EXCEPT ![futex_queue[t]] = Append(@, t)]
    /\ m_block_condition' = [m_block_condition EXCEPT ![t] = futex_queue[t]]
    /\ Goto(t, "blocked")
    /\ UNCHANGED <<m_futex_queues, m_bitset, address, futex_queue, verify_failed>>

\* A timeout, a signal or death.
Interrupt(t) ==
    /\ pc[t] = "blocked"
    /\ Goto(t, "unblocked")
    /\ UNCHANGED <<m_futex_queues, m_blockers, m_bitset, m_block_condition, address, futex_queue,
                   verify_failed>>

\* block() has the big lock again, destroys its blocker, which asks the queue
\* it is registered in to remove it, and returns.
EndBlock(t) ==
    /\ pc[t] = "unblocked"
    /\ BigLock(t)
    /\ IF IsAlive(m_block_condition[t])
         THEN /\ m_blockers' = [m_blockers EXCEPT ![m_block_condition[t]] =
                                  SelectSeq(@, LAMBDA u : u # t)]
              /\ UNCHANGED verify_failed
         ELSE verify_failed' = TRUE /\ UNCHANGED m_blockers
    /\ m_block_condition' = [m_block_condition EXCEPT ![t] = NoQueue]
    /\ Goto(t, "cleanup")
    /\ UNCHANGED <<m_futex_queues, m_bitset, address, futex_queue>>

\* The end of do_wait: get rid of the futex if there are no more waiters.  A
\* queue that is destroyed VERIFYs that it has none.
EndWait(t) ==
    /\ pc[t] = "cleanup"
    /\ m_futex_queues' = IF m_blockers[futex_queue[t]] = <<>>
                           THEN [m_futex_queues EXCEPT ![address[t]] = NoQueue]
                           ELSE m_futex_queues
    /\ futex_queue' = [futex_queue EXCEPT ![t] = NoQueue]
    /\ m_bitset' = [m_bitset EXCEPT ![t] = {}]
    /\ address' = [address EXCEPT ![t] = AnyAddress]
    /\ verify_failed' = \E q \in QueueIds : m_blockers[q] # <<>> /\ ~IsAlive(q)'
    /\ Goto(t, "out")
    /\ UNCHANGED <<m_blockers, m_block_condition>>

----------------------------------------------------------------------------
(* Waking and requeueing *)

\* Mutant: the blocker of a waiter whose bitset does not match goes too.
TakeWoken_All(s, woken) == <<>>

\* do_unblock: the queue after those woken have left it.
TakeWoken(s, woken) == SelectSeq(s, LAMBDA t : t \notin woken)

\* The waiters wake_n(n, bitset) unblocks: the first n that the bitset, if
\* there is one, matches.
Woken(s, n, bitset) ==
    LET matching == SelectSeq(s, LAMBDA t : bitset = {} \/ m_bitset[t] \cap bitset # {})
    IN  ToSet(SubSeq(matching, 1, IF n < Len(matching) THEN n ELSE Len(matching)))

Unblock(woken) ==
    pc' = [t \in Threads |-> IF t \in woken /\ pc[t] = "blocked" THEN "unblocked" ELSE pc[t]]

\* do_wake; bitset {} is a FUTEX_WAKE.
Wake(t, a, n, bitset) ==
    LET q     == m_futex_queues[a]
        woken == Woken(m_blockers[q], n, bitset)
        left  == TakeWoken(m_blockers[q], woken)
    IN  /\ pc[t] = "out" /\ BigLock(t)
        /\ n > 0 /\ q # NoQueue
        /\ Unblock(woken)
        /\ m_blockers' = [m_blockers EXCEPT ![q] = left]
        /\ m_futex_queues' = [m_futex_queues EXCEPT ![a] = IF left = <<>> THEN NoQueue ELSE @]
        /\ UNCHANGED <<m_bitset, m_block_condition, address, futex_queue, verify_failed>>

\* take(i) for i = 0, 1, ..., n - 1 out of a vector that gets shorter each time.
EveryOther(s, n) == [i \in 1..n |-> s[2 * i - 1]]

\* What do_take_blockers(n) takes out of the queue, and what it leaves there.
TakeBlockers(s, n) == IF Len(s) <= n THEN s ELSE EveryOther(s, n)
LeftBlockers(s, n) == IF Len(s) <= n THEN <<>> ELSE SubSeq(s, 2 * n + 1, Len(s))
\* remove(0, n) VERIFYs that there are n elements left to remove.
TakeVerifies(s, n) == Len(s) <= n \/ 2 * n <= Len(s)

\* do_append_blockers
AppendBlockers(s, taken) ==
    IF s = <<>> THEN taken ELSE s \o EveryOther(taken, (Len(taken) + 1) \div 2)

\* Mutant: the blockers are not told that they moved.
FinishRequeue_Forgotten(taken, target) == UNCHANGED m_block_condition

\* Each blocker that is moved learns its new queue, also if it is lost there.
FinishRequeue(taken, target) ==
    m_block_condition' = [t \in Threads |->
                            IF t \in ToSet(taken) THEN target ELSE m_block_condition[t]]

\* do_requeue to the address b: FutexQueue::wake_n_requeue VERIFYs, for every
\* blocker it looks at, that it has not woken n yet.
Requeue(t, a, b, n, requeue_count) ==
    LET q      == m_futex_queues[a]
        woken  == Woken(m_blockers[q], n, {})
        rest   == TakeWoken(m_blockers[q], woken)
        taken  == IF requeue_count = 0 THEN <<>> ELSE TakeBlockers(rest, requeue_count)
        left   == IF requeue_count = 0 THEN rest ELSE LeftBlockers(rest, requeue_count)
        target == FindOrCreate(b)
        source == [m_blockers EXCEPT ![q] = left]
    IN  /\ pc[t] = "out" /\ BigLock(t)
        /\ q # NoQueue
        /\ IF \/ n = 0 /\ m_blockers[q] # <<>>
              \/ requeue_count > 0 /\ ~TakeVerifies(rest, requeue_count)
             THEN /\ verify_failed' = TRUE
                  /\ UNCHANGED <<m_futex_queues, m_blockers, m_block_condition, pc>>
             ELSE /\ Unblock(woken)
                  /\ FinishRequeue(taken, target)
                  /\ m_blockers' = IF taken = <<>> THEN source
                                   ELSE [source EXCEPT ![target] = AppendBlockers(@, taken)]
                  /\ m_futex_queues' =
                        IF rest = <<>> THEN [m_futex_queues EXCEPT ![a] = NoQueue]
                        ELSE IF taken # <<>> THEN [m_futex_queues EXCEPT ![b] = target]
                        ELSE m_futex_queues
                  /\ UNCHANGED verify_failed
        /\ UNCHANGED <<m_bitset, address, futex_queue>>

\* clear_futex_queues_on_exec: all waiters at private futexes are woken.  (The
\* other threads have been killed, and leave sys$futex; from then on they stand
\* for threads of the new program.)
ClearOnExec(t) ==
    LET mapped == {m_futex_queues[a] : a \in Addresses} \ {NoQueue}
    IN  /\ SameProcess
        /\ pc[t] = "out" /\ BigLock(t)
        /\ Unblock(UNION {ToSet(m_blockers[q]) : q \in mapped})
        /\ m_blockers' = [q \in QueueIds |-> IF q \in mapped THEN <<>> ELSE m_blockers[q]]
        /\ m_futex_queues' = [a \in Addresses |-> NoQueue]
        /\ UNCHANGED <<m_bitset, m_block_condition, address, futex_queue, verify_failed>>

----------------------------------------------------------------------------
Next ==
    /\ ~verify_failed
    /\ \E t \in Threads :
        \/ \E a \in Addresses, bitset \in WaitBitsets : Wait(t, a, bitset)
        \/ WaitOn(t) \/ Interrupt(t) \/ EndBlock(t) \/ EndWait(t) \/ ClearOnExec(t)
        \/ \E a \in Addresses, n \in WakeCounts, bitset \in WakeBitsets : Wake(t, a, n, bitset)
        \/ \E a \in Addresses, b \in Targets, n \in WakeCounts, requeue_count \in RequeueCounts :
              Requeue(t, a, b, n, requeue_count)

Spec == Init /\ [][Next]_vars

----------------------------------------------------------------------------
\* Types: in particular a wait always has a queue to wait on.
TypeOK ==
    /\ m_futex_queues \in [Addresses -> QueueIds \cup {NoQueue}]
    /\ m_blockers \in [QueueIds -> Seq(Threads)]
    /\ m_bitset \in [Threads -> WaitBitsets \cup {{}}]
    /\ m_block_condition \in [Threads -> QueueIds \cup {NoQueue}]
    /\ address \in [Threads -> Addresses]
    /\ futex_queue \in [Threads -> QueueIds \cup {NoQueue}]
    /\ \A t \in Threads : pc[t] # "out" => futex_queue[t] # NoQueue
    /\ pc \in [Threads -> PCs]
    /\ verify_failed \in BOOLEAN

\* The threads that sleep outside every queue.
Dropped == {t \in Threads : pc[t] = "blocked" /\ \A q \in QueueIds : t \notin ToSet(m_blockers[q])}

\* Nobody falls out of every queue: a waiter stays in a queue until it is woken.
NobodyDropped == Dropped = {}

\* Waits, wakes, interruptions and execs drop nobody.
OnlyRequeueDrops ==
    [][Dropped' \subseteq Dropped \/
         \E t \in Threads, a \in Addresses, b \in Targets, n \in WakeCounts,
            requeue_count \in RequeueCounts : Requeue(t, a, b, n, requeue_count)]_vars

\* A queue is got rid of only if there are no more waiters: whoever sleeps, sleeps
\* in a queue that a wake at some address finds.
NoWaiterOrphaned ==
    \A t \in Threads : pc[t] = "blocked" =>
        \E a \in Addresses : m_futex_queues[a] # NoQueue /\ t \in ToSet(m_blockers[m_futex_queues[a]])

\* A queue points only at blockers that exist, in the kernel stacks of threads
\* that are in block(), which point back at it; and at each only once.  When the
\* last waiter has left, no queue is left in the map, unless waiters were moved
\* to it (a waiter cleans up at the address it began to wait at).
BlockersExist ==
    /\ TypeOK
    /\ \A q \in QueueIds : \A i, j \in DOMAIN m_blockers[q] :
          LET t == m_blockers[q][i]
          IN  /\ pc[t] \in {"blocked", "unblocked"} /\ m_block_condition[t] = q
              /\ m_blockers[q][j] = t => i = j
    /\ (\A t \in Threads : pc[t] = "out") =>
          \A a \in Addresses \ Targets : m_futex_queues[a] = NoQueue

\* A queue is kept alive as long as a blocker points at it: ~Blocker has a queue
\* to ask, and ~BlockCondition finds no blockers.
QueueOutlivesBlockers ==
    \A t \in Threads : pc[t] \in {"blocked", "unblocked"} => IsAlive(m_block_condition[t])

\* No VERIFY of wake_n_requeue, do_take_blockers or ~BlockCondition fails, and
\* no destroyed queue is used.
NoVerifyFails == ~verify_failed
=============================================================================
