----------------------------- MODULE KernelLock -----------------------------
(***************************************************************************)
(* Kernel/Lock.{h,cpp}: the recursive shared/exclusive lock under every    *)
(* LOCKER in the kernel, with the WaitQueue its losers sleep on.           *)
(*                                                                         *)
(* Everything Lock does between taking and releasing its spin flag m_lock  *)
(* is one step (should_block() included: it is called with m_lock held).   *)
(* What happens outside m_lock is a step of its own: joining the wait      *)
(* queue, waking it, and going to sleep.                                   *)
(*                                                                         *)
(* Between the registration of the blocker in the queue and begin_blocking *)
(* another processor may run.  SplitRegistration says whether it does: it  *)
(* is FALSE for the default build, which schedules threads on one          *)
(* processor with interrupts off there (SCHEDULE_ON_ALL_PROCESSORS is 0),  *)
(* and for which the comment in Thread::block() is right.                  *)
(***************************************************************************)
EXTENDS Naturals, FiniteSets, WaitQueue

CONSTANTS Threads,            \* the threads that use this lock
          NoThread,           \* m_holder when it is null
          Modes,              \* the modes the callers ask for
          MaxDepth,           \* bound on the nesting of lock() calls of a thread
          SplitRegistration   \* see above

ASSUME LockAssumptions ==
    /\ NoThread \notin Threads
    /\ Modes \subseteq {"Exclusive", "Shared"}
    /\ MaxDepth \in Nat \ {0}
    /\ SplitRegistration \in BOOLEAN

VARIABLES
    m_mode,            \* Lock::m_mode
    m_times_locked,    \* Lock::m_times_locked
    m_holder,          \* Lock::m_holder
    m_shared_holders,  \* Lock::m_shared_holders; 0 stands for "no entry"
    m_queue,           \* Lock::m_queue
    pc,                \* where each thread is
    want,              \* the mode a thread in lock() asks for
    saved,             \* what force_unlock_if_locked returned to the thread
    depth,             \* lock() calls the thread has still to undo
    grant              \* the mode its outermost lock() call was granted in

lockVars == <<m_mode, m_times_locked, m_holder, m_shared_holders>>
vars == <<m_mode, m_times_locked, m_holder, m_shared_holders, m_queue,
          pc, want, saved, depth, grant>>

(* pc[t]:  "out"         outside Lock, holding it or not
           "trying"      in lock()'s loop, about to look at m_mode
           "refused"     released m_lock, about to register a blocker
           "registered"  in the queue but not yet blocking
           "blocked"     asleep, state Thread::Blocked
           "interrupted" made runnable by a signal or by set_should_die; the
                         blocker is still in the queue
           "waking"      in unlock(), about to call wake_one
           "yielding"    in force_unlock_if_locked, about to call wake_one
           "exiting"     the same, in die_if_needed: never takes it back
           "away"        gave the lock up, and is to restore_lock it
           "dead"        left die_if_needed                                  *)
PCs == {"out", "trying", "refused", "registered", "blocked", "interrupted",
        "waking", "yielding", "exiting", "away", "dead"}

NothingSaved == [mode |-> "Unlocked", count |-> 0]

Init ==
    /\ m_mode = "Unlocked"
    /\ m_times_locked = 0
    /\ m_holder = NoThread
    /\ m_shared_holders = [t \in Threads |-> 0]
    /\ m_queue = NewQueue
    /\ pc = [t \in Threads |-> "out"]
    /\ want = [t \in Threads |-> "Unlocked"]
    /\ saved = [t \in Threads |-> NothingSaved]
    /\ depth = [t \in Threads |-> 0]
    /\ grant = [t \in Threads |-> "Unlocked"]

Goto(t, l) == pc' = [pc EXCEPT ![t] = l]

----------------------------------------------------------------------------
(* Lock::lock(mode) *)

CallLock(t, mode) ==
    /\ pc[t] = "out"
    /\ depth[t] < MaxDepth
    /\ want' = [want EXCEPT ![t] = mode]
    /\ Goto(t, "trying")
    /\ UNCHANGED <<lockVars, m_queue, saved, depth, grant>>

\* lock() returns to its caller.
Granted(t) ==
    /\ depth' = [depth EXCEPT ![t] = @ + 1]
    /\ grant' = [grant EXCEPT ![t] = IF depth[t] = 0 THEN want[t] ELSE @]
    /\ Goto(t, "out")
    /\ want' = [want EXCEPT ![t] = "Unlocked"]
    /\ UNCHANGED saved

LockUnlocked(t) ==
    /\ pc[t] = "trying"
    /\ m_mode = "Unlocked"
    /\ m_mode' = want[t]
    /\ IF want[t] = "Exclusive"
         THEN /\ m_holder' = t
              /\ UNCHANGED m_shared_holders
         ELSE /\ m_shared_holders' = [m_shared_holders EXCEPT ![t] = 1]
              /\ UNCHANGED m_holder
    /\ m_times_locked' = m_times_locked + 1
    /\ m_queue' = SetShouldBlock(m_queue, TRUE)
    /\ Granted(t)

\* The exclusive holder locks again, whichever mode it asks for.
LockHeldExclusively(t) ==
    /\ pc[t] = "trying"
    /\ m_mode = "Exclusive"
    /\ m_holder = t
    /\ m_times_locked' = m_times_locked + 1
    /\ Granted(t)
    /\ UNCHANGED <<m_mode, m_holder, m_shared_holders, m_queue>>

\* Mutant: shared mode lets every request in.
LockShared_AnyRequest(t) ==
    /\ pc[t] = "trying"
    /\ m_mode = "Shared"
    /\ m_times_locked' = m_times_locked + 1
    /\ m_shared_holders' = [m_shared_holders EXCEPT ![t] = @ + 1]
    /\ Granted(t)
    /\ UNCHANGED <<m_mode, m_holder, m_queue>>

\* Mutant: set() instead of value++ for a thread that has an entry.
LockShared_SetsEntry(t) ==
    /\ pc[t] = "trying"
    /\ m_mode = "Shared"
    /\ want[t] = "Shared"
    /\ m_times_locked' = m_times_locked + 1
    /\ m_shared_holders' = [m_shared_holders EXCEPT ![t] = 1]
    /\ Granted(t)
    /\ UNCHANGED <<m_mode, m_holder, m_queue>>

LockShared(t) ==
    /\ pc[t] = "trying"
    /\ m_mode = "Shared"
    /\ want[t] = "Shared"
    /\ m_times_locked' = m_times_locked + 1
    /\ m_shared_holders' = [m_shared_holders EXCEPT ![t] = @ + 1]
    /\ Granted(t)
    /\ UNCHANGED <<m_mode, m_holder, m_queue>>

LockRefused(t) ==
    /\ pc[t] = "trying"
    /\ \/ m_mode = "Exclusive" /\ m_holder # t
       \/ m_mode = "Shared" /\ want[t] = "Exclusive"
    /\ Goto(t, "refused")
    /\ UNCHANGED <<lockVars, m_queue, want, saved, depth, grant>>

----------------------------------------------------------------------------
(* m_queue.wait_forever(), that is Thread::block<QueueBlocker>() *)

\* The QueueBlocker's constructor.  A refused blocker makes block() return at
\* once and lock() try again.
RegisterBlocker(t) ==
    /\ pc[t] = "refused"
    /\ m_queue' = AddBlocker(m_queue, t)
    /\ Goto(t, IF ShouldAddBlocker(m_queue) THEN "registered" ELSE "trying")
    /\ UNCHANGED <<lockVars, want, saved, depth, grant>>

\* begin_blocking and set_state(Blocked).  QueueBlocker::should_block() looks
\* only at whether the registration was accepted.
BeginBlocking(t) ==
    /\ pc[t] = "registered"
    /\ Goto(t, "blocked")
    /\ UNCHANGED <<lockVars, m_queue, want, saved, depth, grant>>

\* Thread::unblock(signal), or set_should_die.
Interrupt(t) ==
    /\ pc[t] = "blocked"
    /\ Goto(t, "interrupted")
    /\ UNCHANGED <<lockVars, m_queue, want, saved, depth, grant>>

\* block() returns and destroys the blocker; lock() ignores the result and
\* goes round its loop.
Resume(t) ==
    /\ pc[t] = "interrupted"
    /\ m_queue' = RemoveBlocker(m_queue, t)
    /\ Goto(t, "trying")
    /\ UNCHANGED <<lockVars, want, saved, depth, grant>>

----------------------------------------------------------------------------
(* Lock::unlock() *)

\* Mutant: the last unlock leaves m_holder set.
DropHold_KeepsHolder(t, n) ==
    /\ m_times_locked' = m_times_locked - n
    /\ IF m_mode = "Exclusive"
         THEN UNCHANGED <<m_holder, m_shared_holders>>
         ELSE /\ m_shared_holders' = [m_shared_holders EXCEPT ![t] = @ - n]
              /\ UNCHANGED m_holder
    /\ IF m_times_locked = n
         THEN /\ m_mode' = "Unlocked"
              /\ m_queue' = SetShouldBlock(m_queue, FALSE)
         ELSE UNCHANGED <<m_mode, m_queue>>
    /\ depth' = [depth EXCEPT ![t] = @ - n]
    /\ grant' = [grant EXCEPT ![t] = IF depth[t] = n THEN "Unlocked" ELSE @]

\* m_times_locked-- and what it does to the holder; the last one opens the lock.
DropHold(t, n) ==
    /\ m_times_locked' = m_times_locked - n
    /\ IF m_mode = "Exclusive"
         THEN /\ m_holder' = IF m_times_locked = n THEN NoThread ELSE m_holder
              /\ UNCHANGED m_shared_holders
         ELSE /\ m_shared_holders' = [m_shared_holders EXCEPT ![t] = @ - n]
              /\ UNCHANGED m_holder
    /\ IF m_times_locked = n
         THEN /\ m_mode' = "Unlocked"
              /\ m_queue' = SetShouldBlock(m_queue, FALSE)
         ELSE UNCHANGED <<m_mode, m_queue>>
    /\ depth' = [depth EXCEPT ![t] = @ - n]
    /\ grant' = [grant EXCEPT ![t] = IF depth[t] = n THEN "Unlocked" ELSE @]

\* Mutant: the last unlock does not wake the queue.
Unlock_NoWake(t) ==
    /\ pc[t] = "out"
    /\ depth[t] > 0
    /\ DropHold(t, 1)
    /\ UNCHANGED <<pc, want, saved>>

Unlock(t) ==
    /\ pc[t] = "out"
    /\ depth[t] > 0
    /\ DropHold(t, 1)
    /\ Goto(t, IF m_times_locked = 1 THEN "waking" ELSE "out")
    /\ UNCHANGED <<want, saved>>

AfterWake(l) == IF l = "waking" THEN "out" ELSE IF l = "yielding" THEN "away" ELSE "dead"

\* Where the threads whose blocker a wake unblocks find themselves.
Unblocked(woken, l, u) == IF u \in woken /\ l = "blocked" THEN "trying" ELSE l

WakeWaiter(t) ==
    /\ pc[t] \in {"waking", "yielding", "exiting"}
    /\ m_queue' = WakeOne(m_queue)
    /\ pc' = [u \in Threads |->
                IF u = t THEN AfterWake(pc[t])
                         ELSE Unblocked(WokenByOne(m_queue), pc[u], u)]
    /\ UNCHANGED <<lockVars, want, saved, depth, grant>>

----------------------------------------------------------------------------
(* Lock::force_unlock_if_locked and Lock::restore_lock, which block(), yield
   and die_if_needed use on the process's big lock.  A caller that does not
   hold a lock somebody holds returns at once: no step.                      *)

Holds(t) == \/ m_mode = "Exclusive" /\ m_holder = t
            \/ m_mode = "Shared" /\ m_shared_holders[t] > 0

HeldCount(t) == IF m_mode = "Exclusive" THEN m_times_locked ELSE m_shared_holders[t]

ForceUnlockHeld(t, next) ==
    /\ pc[t] = "out"
    /\ Holds(t)
    /\ DropHold(t, HeldCount(t))
    /\ saved' = [saved EXCEPT ![t] = IF next = "yielding"
                    THEN [mode |-> m_mode, count |-> HeldCount(t)] ELSE @]
    /\ Goto(t, next)
    /\ UNCHANGED want

\* Nothing to give up, but the queue is woken all the same.
ForceUnlockUnlocked(t, next) ==
    /\ pc[t] = "out"
    /\ m_mode = "Unlocked"
    /\ Goto(t, IF next = "yielding" THEN "waking" ELSE next)
    /\ UNCHANGED <<lockVars, m_queue, want, saved, depth, grant>>

\* Mutant: restore_lock's exclusive case accepts a lock held in shared mode.
RestoreLock_IgnoresReaders(t) ==
    /\ pc[t] = "away"
    /\ m_mode \in {"Unlocked", "Shared"}
    /\ m_mode' = saved[t].mode
    /\ m_times_locked' = m_times_locked + saved[t].count
    /\ IF saved[t].mode = "Exclusive"
         THEN /\ m_holder' = t
              /\ UNCHANGED m_shared_holders
         ELSE /\ m_shared_holders' = [m_shared_holders EXCEPT ![t] = saved[t].count]
              /\ UNCHANGED m_holder
    /\ m_queue' = SetShouldBlock(m_queue, TRUE)
    /\ depth' = [depth EXCEPT ![t] = saved[t].count]
    /\ grant' = [grant EXCEPT ![t] = saved[t].mode]
    /\ saved' = [saved EXCEPT ![t] = NothingSaved]
    /\ Goto(t, "out")
    /\ UNCHANGED want

\* restore_lock spins until it can take the lock back in the saved mode.
RestoreLock(t) ==
    /\ pc[t] = "away"
    /\ \/ m_mode = "Unlocked"
       \/ m_mode = "Shared" /\ saved[t].mode = "Shared"
    /\ m_mode' = saved[t].mode
    /\ m_times_locked' = m_times_locked + saved[t].count
    /\ IF saved[t].mode = "Exclusive"
         THEN /\ m_holder' = t
              /\ UNCHANGED m_shared_holders
         ELSE /\ m_shared_holders' = [m_shared_holders EXCEPT ![t] = saved[t].count]
              /\ UNCHANGED m_holder
    /\ m_queue' = SetShouldBlock(m_queue, TRUE)
    /\ depth' = [depth EXCEPT ![t] = saved[t].count]
    /\ grant' = [grant EXCEPT ![t] = saved[t].mode]
    /\ saved' = [saved EXCEPT ![t] = NothingSaved]
    /\ Goto(t, "out")
    /\ UNCHANGED want

\* Lock::clear_waiters, from Process::kill_threads_except_self, which calls it for
\* the big lock: that is never taken in shared mode, as its VERIFY demands.
ClearWaiters(t) ==
    /\ pc[t] = "out"
    /\ m_mode # "Shared"
    /\ m_queue' = WakeAll(m_queue)
    /\ pc' = [u \in Threads |-> Unblocked(Members(m_queue), pc[u], u)]
    /\ UNCHANGED <<lockVars, want, saved, depth, grant>>

----------------------------------------------------------------------------
\* The steps of the kernel; the rest is up to the lock's users.
KernelStep(t) ==
    \/ LockUnlocked(t) \/ LockHeldExclusively(t) \/ LockShared(t) \/ LockRefused(t)
    \/ RegisterBlocker(t) \/ BeginBlocking(t) \/ Resume(t)
    \/ WakeWaiter(t) \/ RestoreLock(t)

UserStep(t) ==
    \/ \E mode \in Modes : CallLock(t, mode)
    \/ Unlock(t)
    \/ Interrupt(t)
    \/ \E next \in {"yielding", "exiting"} :
          ForceUnlockHeld(t, next) \/ ForceUnlockUnlocked(t, next)
    \/ ClearWaiters(t)

\* On one processor nobody else runs while a thread is on its way to sleep.
MayRun(t) == SplitRegistration \/ \A u \in Threads \ {t} : pc[u] # "registered"

Next == \E t \in Threads : MayRun(t) /\ (KernelStep(t) \/ UserStep(t))

Spec == Init /\ [][Next]_vars

\* Every thread that is runnable inside the kernel, now and again, is run.
FairSpec == Spec /\ \A t \in Threads : SF_vars(MayRun(t) /\ KernelStep(t))

----------------------------------------------------------------------------
\* Types: the fields of Lock, its queue, and its users' books.  The counts never
\* wrap below zero, as an unsigned m_times_locked would.
TypeOK ==
    /\ m_mode \in {"Unlocked", "Exclusive", "Shared"}
    /\ m_times_locked \in Nat
    /\ m_holder \in Threads \cup {NoThread}
    /\ m_shared_holders \in [Threads -> Nat]
    /\ m_queue \in Queues(Threads)
    /\ pc \in [Threads -> PCs]
    /\ want \in [Threads -> {"Unlocked", "Exclusive", "Shared"}]
    /\ saved \in [Threads -> [mode : {"Unlocked", "Exclusive", "Shared"}, count : Nat]]
    /\ depth \in [Threads -> Nat]
    /\ grant \in [Threads -> {"Unlocked", "Exclusive", "Shared"}]

\* A lock() call that asked for exclusive access and returned is alone: no
\* other thread is between a lock() and the unlock() that undoes it.
MutualExclusion ==
    \A t, u \in Threads :
        t # u /\ depth[t] > 0 /\ grant[t] = "Exclusive" => depth[u] = 0

\* m_shared_holders.is_empty()
NoSharedHolders == \A t \in Threads : m_shared_holders[t] = 0

\* The VERIFYs of Lock.cpp: what lock(), unlock(), force_unlock_if_locked() and
\* restore_lock() assert of the fields they find, whichever thread comes next.
VerifiedState ==
    /\ m_mode = "Unlocked" =>
          m_holder = NoThread /\ m_times_locked = 0 /\ NoSharedHolders
    /\ m_mode = "Exclusive" =>
          m_holder # NoThread /\ m_times_locked > 0 /\ NoSharedHolders
    /\ m_mode = "Shared" =>
          m_holder = NoThread /\ m_times_locked > 0 /\ ~NoSharedHolders
    /\ \A t \in Threads : pc[t] = "away" /\ m_mode = "Shared" => m_shared_holders[t] = 0

\* The lock's own books agree with what its users think they hold.
HoldersAgree ==
    \A t \in Threads :
        IF depth[t] = 0 THEN ~Holds(t)
        ELSE /\ Holds(t)
             /\ HeldCount(t) = depth[t]
             /\ m_mode = grant[t]

\* A sleeper is never forgotten: if the lock is free and somebody sleeps on
\* it, some thread is on its way to wake a sleeper or to take the lock.
NoSleeperForgotten ==
    m_mode = "Unlocked" /\ (\E t \in Threads : pc[t] = "blocked") =>
        \E u \in Threads :
            pc[u] \in {"waking", "yielding", "exiting", "trying", "refused",
                      "interrupted"}

\* A free lock that is wanted is taken.
FreeLockIsTaken ==
    (m_mode = "Unlocked" /\ \E t \in Threads : pc[t] = "blocked")
        ~> (m_mode # "Unlocked" \/ \A t \in Threads : pc[t] # "blocked")

\* Kernel::Lock is a readers-writer lock.
RW == INSTANCE ReadersWriterLock
ImplementsRW == RW!Spec
=============================================================================
