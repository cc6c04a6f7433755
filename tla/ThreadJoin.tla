----------------------------- MODULE ThreadJoin -----------------------------
(***************************************************************************)
(* The end of a thread: create_thread, exit_thread, join_thread and        *)
(* detach_thread (Kernel/Syscalls/thread.cpp) with the JoinBlockCondition  *)
(* of Kernel/Thread.h, the killing of threads by exit, by a fatal signal   *)
(* and by exec, and the FinalizerTask that buries them.  One user process  *)
(* and the finalizer, preemptively scheduled on one processor: a step is   *)
(* what runs under g_scheduler_lock, under the tid map's lock or in        *)
(* block()'s critical section.  The process's big lock keeps system calls  *)
(* apart; only create_thread is preempted while it holds it.               *)
(*                                                                         *)
(* Stopping, priorities and references that come and go inside one step    *)
(* are left out.  A failed VERIFY ends the behaviour: panic says which.    *)
(***************************************************************************)
EXTENDS Naturals, FiniteSets, WaitQueue

CONSTANTS Threads,    \* the threads there can ever be in the process
          Main,       \* its first one
          NoThread,
          Finalizer   \* g_finalizer

ASSUME JoinAssumptions ==
    /\ Main \in Threads
    /\ NoThread \notin Threads
    /\ Finalizer \notin Threads

VARIABLES
    m_state,        \* Thread::m_state; "None" before the thread is created
    m_is_joinable,  \* Thread::m_is_joinable
    m_should_die,   \* Thread::m_should_die
    did_exit,       \* JoinBlockCondition::m_thread_did_exit; the value is the thread's own
    m_blockers,     \* the threads whose JoinBlocker is in the condition of their target
    target,         \* the thread a system call holds a reference to
    joined,         \* how many joins have handed the thread's value to user mode
    late,           \* threads joined or detached when already Dying
    pc              \* where each thread is

VARIABLES
    m_thread_list,           \* Process::m_thread_list; its size is m_thread_count
    m_threads_for_coredump,  \* Process::m_threads_for_coredump
    exited,                  \* whether Process::die() has run
    finalized,               \* whether Process::finalize() has
    running,                 \* threads whose running reference is not dropped yet
    tid_map                  \* g_tid_map

VARIABLES
    has_work,   \* g_finalizer_has_work
    m_queue,    \* g_finalizer_wait_queue
    fpc,        \* where the finalizer is
    dying,      \* dying_threads of finalize_dying_threads
    burying,    \* the one it is finalizing
    panic       \* the VERIFY that failed

joinVars   == <<did_exit, m_blockers, target, joined, late>>
objectVars == <<m_thread_list, m_threads_for_coredump, exited, finalized, running, tid_map>>
workVars   == <<has_work, m_queue, fpc, dying, burying>>
vars == <<m_state, m_is_joinable, m_should_die, joinVars, pc, objectVars, workVars, panic>>

(* pc[t]:  "user"      in user mode
           "syscall"   in a system call, before it has done anything
           "creating"  in create_thread, the new thread still Invalid
           "join"      in block(), Blocked
           "leaving"   in block(), unblocked; its blocker is still registered
                       unless the joinee has exited
           "exit"      in die_if_needed
   fpc:    "wait"      about to call wait_forever
           "asleep"    in it
           "check"     about to look at g_finalizer_has_work
           "collect"   about to gather dying_threads
           "finalize"  going through them
           "drop"      in finalize(), about to call drop_thread_count
           "unref"     about to drop the running reference                    *)
PCs == {"user", "syscall", "creating", "join", "leaving", "exit"}
FPCs == {"wait", "asleep", "check", "collect", "finalize", "drop", "unref"}
States == {"None", "Invalid", "Runnable", "Blocked", "Dying", "Dead"}

Init ==
    /\ m_state = [t \in Threads |-> IF t = Main THEN "Runnable" ELSE "None"]
    /\ m_is_joinable = [t \in Threads |-> TRUE]
    /\ m_should_die = [t \in Threads |-> FALSE]
    /\ did_exit = [t \in Threads |-> FALSE]
    /\ m_blockers = {}
    /\ target = [t \in Threads |-> NoThread]
    /\ joined = [t \in Threads |-> 0]
    /\ late = {}
    /\ pc = [t \in Threads |-> "user"]
    /\ m_thread_list = {Main}
    /\ m_threads_for_coredump = {}
    /\ exited = FALSE
    /\ finalized = FALSE
    /\ running = {Main}
    /\ tid_map = {Main}
    /\ has_work = FALSE
    /\ m_queue = NewQueue
    /\ fpc = "wait"
    /\ dying = {}
    /\ burying = NoThread
    /\ panic = "no"

Goto(t, l) == pc' = [pc EXCEPT ![t] = l]
At(t, l) == m_state[t] = "Runnable" /\ pc[t] = l

\* The end of a system call: die_if_needed().
ReturnTo(t) == IF m_should_die[t] THEN "exit" ELSE "user"

\* The other threads' system calls wait while one is preempted with the big lock.
BigLockFree == \A t \in Threads : pc[t] # "creating"
Calls(t) == At(t, "syscall") /\ BigLockFree

Referenced(t) ==
    \/ t \in running \cup m_threads_for_coredump
    \/ \E u \in Threads : target[u] = t

\* Thread::from_tid finds a thread until its destructor has left the map ...
Finds(t) == t \in tid_map /\ Referenced(t)
\* ... and VERIFYs that it still has a reference.
FindsDying(t) == t \in tid_map /\ ~Referenced(t)

Panic(why) ==
    /\ panic' = why
    /\ UNCHANGED <<m_state, m_is_joinable, m_should_die, joinVars, pc, objectVars, workVars>>

----------------------------------------------------------------------------
(* create_thread *)

Enter(t) ==
    /\ At(t, "user")
    /\ Goto(t, "syscall")
    /\ UNCHANGED <<m_state, m_is_joinable, m_should_die, joinVars, objectVars, workVars, panic>>

\* try_create, and detach() when the caller asks for it.
CreateBegin(c, t, joinable) ==
    /\ Calls(c)
    /\ m_state[t] = "None"
    /\ m_state' = [m_state EXCEPT ![t] = "Invalid"]
    /\ m_is_joinable' = [m_is_joinable EXCEPT ![t] = joinable]
    /\ m_thread_list' = m_thread_list \cup {t}
    /\ running' = running \cup {t}
    /\ tid_map' = tid_map \cup {t}
    /\ target' = [target EXCEPT ![c] = t]
    /\ Goto(c, "creating")
    /\ UNCHANGED <<m_should_die, did_exit, m_blockers, joined, late,
                   m_threads_for_coredump, exited, finalized, workVars, panic>>

\* set_state(Runnable); or make_thread_specific_region has failed, and the new
\* thread is left as it is.
CreateEnd(c, ok) ==
    /\ At(c, "creating")
    /\ m_state' = [m_state EXCEPT ![target[c]] = IF ok THEN "Runnable" ELSE @]
    /\ target' = [target EXCEPT ![c] = NoThread]
    /\ Goto(c, ReturnTo(c))
    /\ UNCHANGED <<m_is_joinable, m_should_die, did_exit, m_blockers, joined,
                   late, objectVars, workVars, panic>>

----------------------------------------------------------------------------
(* join_thread and detach_thread *)

\* Mutant: the thread stays joinable by others.
StartJoin_Joinable(t) == UNCHANGED m_is_joinable

\* try_join: from here on the thread is no longer joinable by anyone else.
StartJoin(t) == m_is_joinable' = [m_is_joinable EXCEPT ![t] = FALSE]

\* A second join or detach, or one that is too late, gets EINVAL; join_thread
\* of oneself EDEADLK.
CannotJoin(j, t) == t = j \/ ~m_is_joinable[t] \/ m_state[t] = "Dead"

JoinFails(j, t) ==
    /\ Calls(j) /\ Finds(t)
    /\ CannotJoin(j, t)
    /\ Goto(j, ReturnTo(j))
    /\ UNCHANGED <<m_state, m_is_joinable, m_should_die, joinVars, objectVars, workVars, panic>>

\* should_add_blocker hands the value over, and block() does not block.
JoinAtOnce(j, t) ==
    /\ Calls(j) /\ Finds(t)
    /\ ~CannotJoin(j, t)
    /\ did_exit[t]
    /\ StartJoin(t)
    /\ joined' = [joined EXCEPT ![t] = @ + 1]
    /\ late' = IF m_state[t] = "Dying" THEN late \cup {t} ELSE late
    /\ Goto(j, ReturnTo(j))
    /\ UNCHANGED <<m_state, m_should_die, did_exit, m_blockers, target,
                   objectVars, workVars, panic>>

JoinBlocks(j, t) ==
    /\ Calls(j) /\ Finds(t)
    /\ ~CannotJoin(j, t)
    /\ ~did_exit[t]
    /\ StartJoin(t)
    /\ m_blockers' = m_blockers \cup {j}
    /\ target' = [target EXCEPT ![j] = t]
    /\ m_state' = [m_state EXCEPT ![j] = "Blocked"]
    /\ Goto(j, "join")
    /\ UNCHANGED <<m_should_die, did_exit, joined, late, objectVars, workVars, panic>>

\* block() returns InterruptedByDeath, whichever way it ended, and destroys the
\* blocker; join_thread hands out what the blocker has got.
LeaveJoin(j) ==
    /\ At(j, "leaving")
    /\ BigLockFree
    /\ m_blockers' = m_blockers \ {j}
    /\ target' = [target EXCEPT ![j] = NoThread]
    /\ joined' = IF m_should_die[j] THEN joined ELSE [joined EXCEPT ![target[j]] = @ + 1]
    /\ Goto(j, ReturnTo(j))
    /\ UNCHANGED <<m_state, m_is_joinable, m_should_die, did_exit, late,
                   objectVars, workVars, panic>>

Detach(c, t) ==
    /\ Calls(c) /\ Finds(t)
    /\ m_is_joinable[t]
    /\ m_is_joinable' = [m_is_joinable EXCEPT ![t] = FALSE]
    /\ late' = IF m_state[t] = "Dying" THEN late \cup {t} ELSE late
    /\ Goto(c, ReturnTo(c))
    /\ UNCHANGED <<m_state, m_should_die, did_exit, m_blockers, target, joined,
                   objectVars, workVars, panic>>

\* join_thread, detach_thread, kill: the lookup meets a thread in ~Thread().
LookupFails(c, t) ==
    /\ Calls(c) /\ FindsDying(t)
    /\ Panic("ref")

----------------------------------------------------------------------------
(* Exit, death by a signal, exec *)

\* detach() and set_should_die() of each victim, but for the ones already marked:
\* a sleeper is interrupted by death, and its blocker stays registered.  The
\* caller t goes on to l.
Kill(victims, t, l) ==
    LET hit   == {u \in victims : ~m_should_die[u]}
        woken == {u \in hit : m_state[u] = "Blocked"}
    IN  /\ m_should_die' = [u \in Threads |-> m_should_die[u] \/ u \in hit]
        /\ m_state' = [u \in Threads |-> IF u \in woken THEN "Runnable" ELSE m_state[u]]
        /\ pc' = [u \in Threads |-> IF u = t THEN l
                                      ELSE IF u \in woken THEN "leaving" ELSE pc[u]]
        /\ m_is_joinable' = [u \in Threads |-> m_is_joinable[u] /\ u \notin victims]

\* Process::die() with kill_all_threads: sys$exit, exit_thread of the only
\* thread, or terminate_due_to_signal.
Exit(t) ==
    /\ At(t, "user") \/ Calls(t)
    /\ m_threads_for_coredump' = m_threads_for_coredump \cup m_thread_list
    /\ exited' = TRUE
    /\ Kill(m_thread_list, t, "exit")
    /\ UNCHANGED <<joinVars, m_thread_list, finalized, running, tid_map, workVars, panic>>

\* kill_threads_except_self, which passes over the Dying.
Exec(t) ==
    /\ Calls(t)
    /\ Cardinality(m_thread_list) > 1
    /\ Kill({u \in m_thread_list \ {t} : m_state[u] \notin {"Dying", "Dead"}}, t, ReturnTo(t))
    /\ UNCHANGED <<joinVars, objectVars, workVars, panic>>

Joiners(t) == {j \in m_blockers : target[j] = t}

\* Mutant: the condition is not told.
ThreadDidExit_Untold(t) ==
    /\ Goto(t, "exit")
    /\ UNCHANGED <<did_exit, m_blockers, m_state>>

\* JoinBlockCondition::thread_did_exit, with JoinBlocker::unblock; a joiner that
\* death has woken already is only given the value.
ThreadDidExit(t) ==
    /\ did_exit' = [did_exit EXCEPT ![t] = TRUE]
    /\ m_blockers' = m_blockers \ Joiners(t)
    /\ m_state' = [u \in Threads |->
                     IF u \in Joiners(t) /\ m_state[u] = "Blocked" THEN "Runnable" ELSE m_state[u]]
    /\ pc' = [u \in Threads |->
                IF u = t THEN "exit"
                ELSE IF u \in Joiners(t) /\ m_state[u] = "Blocked" THEN "leaving" ELSE pc[u]]

\* exit_thread, when the process counts other threads.
ExitThread(t) ==
    /\ Calls(t)
    /\ Cardinality(m_thread_list) > 1
    /\ Joiners(t) \subseteq tid_map
    /\ ThreadDidExit(t)
    /\ m_should_die' = [m_should_die EXCEPT ![t] = TRUE]
    /\ UNCHANGED <<m_is_joinable, target, joined, late, objectVars, workVars, panic>>

\* The blocker was on the kernel stack of a thread that is gone.
ExitThreadFreed(t) ==
    /\ Calls(t)
    /\ Cardinality(m_thread_list) > 1
    /\ ~(Joiners(t) \subseteq tid_map)
    /\ Panic("freed")

----------------------------------------------------------------------------
(* The scheduler and the finalizer *)

\* Scheduler::notify_finalizer.
NotifyFinalizer ==
    /\ has_work' = TRUE
    /\ IF has_work
         THEN UNCHANGED <<m_queue, fpc>>
         ELSE /\ m_queue' = WakeAll(m_queue)
              /\ fpc' = IF Finalizer \in Members(m_queue) THEN "check" ELSE fpc

\* pick_next makes a running thread that should die Dying, wherever the context
\* switch finds it, and enter_current of the next one tells the finalizer.
Die(t) ==
    /\ m_state[t] = "Runnable"
    /\ m_should_die[t]
    /\ m_state' = [m_state EXCEPT ![t] = "Dying"]
    /\ pc' = [pc EXCEPT ![t] = IF @ = "creating" THEN @ ELSE "exit"]
    /\ NotifyFinalizer
    /\ UNCHANGED <<m_is_joinable, m_should_die, joinVars, objectVars, dying, burying, panic>>

\* FinalizerTask's wait_forever().
Wait ==
    /\ fpc = "wait"
    /\ m_queue' = AddBlocker(m_queue, Finalizer)
    /\ fpc' = IF ShouldAddBlocker(m_queue) THEN "asleep" ELSE "check"
    /\ UNCHANGED <<has_work, dying, burying>>

\* g_finalizer_has_work.exchange(false).
Check ==
    /\ fpc = "check"
    /\ has_work' = FALSE
    /\ fpc' = IF has_work THEN "collect" ELSE "wait"
    /\ UNCHANGED <<m_queue, dying, burying>>

\* is_finalizable: a Dying thread was switched out in the step that made it so.
Finalizable(t) == m_state[t] = "Dying" /\ ~m_is_joinable[t]

\* finalize_dying_threads gathers them under g_scheduler_lock.
Collect ==
    /\ fpc = "collect"
    /\ dying' = {t \in Threads : Finalizable(t)}
    /\ fpc' = "finalize"
    /\ UNCHANGED <<has_work, m_queue, burying>>

\* Mutant: the flag is cleared when the work is done.
NoneLeft_ClearsFlag ==
    /\ fpc = "finalize"
    /\ dying = {}
    /\ fpc' = "wait"
    /\ has_work' = FALSE
    /\ UNCHANGED <<m_queue, dying, burying>>

\* Back to the head of the finalizer's loop.
NoneLeft ==
    /\ fpc = "finalize"
    /\ dying = {}
    /\ fpc' = "wait"
    /\ UNCHANGED <<has_work, m_queue, dying, burying>>

FinalizerTask ==
    /\ Wait \/ Check \/ Collect \/ NoneLeft
    /\ UNCHANGED <<m_state, m_is_joinable, m_should_die, joinVars, pc, objectVars, panic>>

\* Thread::finalize: thread_finalizing has nobody to unblock.
Finalize(t) ==
    /\ fpc = "finalize"
    /\ t \in dying
    /\ Joiners(t) = {}
    /\ m_state' = [m_state EXCEPT ![t] = "Dead"]
    /\ dying' = dying \ {t}
    /\ burying' = t
    /\ fpc' = "drop"
    /\ UNCHANGED <<m_is_joinable, m_should_die, joinVars, pc, objectVars, has_work, m_queue, panic>>

\* It has, and asks for the exit value: a thread that exited has no blockers
\* left, so this one was killed, and VERIFY(m_thread_did_exit) fails.
FinalizeJoined(t) ==
    /\ fpc = "finalize"
    /\ t \in dying
    /\ Joiners(t) # {}
    /\ Panic("exit_value")

\* drop_thread_count; the last thread takes the process along.
DropThreadCount ==
    /\ fpc = "drop"
    /\ m_thread_list' = m_thread_list \ {burying}
    /\ finalized' = (m_thread_list = {burying})
    /\ m_threads_for_coredump' = IF m_thread_list = {burying} THEN {} ELSE m_threads_for_coredump
    /\ fpc' = "unref"
    /\ UNCHANGED <<m_state, m_is_joinable, m_should_die, joinVars, pc, exited, running, tid_map,
                   has_work, m_queue, dying, burying, panic>>

Unref ==
    /\ fpc = "unref"
    /\ running' = running \ {burying}
    /\ burying' = NoThread
    /\ fpc' = "finalize"
    /\ UNCHANGED <<m_state, m_is_joinable, m_should_die, joinVars, pc, m_thread_list, exited,
                   m_threads_for_coredump, finalized, tid_map, has_work, m_queue, dying, panic>>

\* ~Thread(), run by whoever drops the last reference, has left the tid map.
Destroy(t) ==
    /\ FindsDying(t)
    /\ tid_map' = tid_map \ {t}
    /\ UNCHANGED <<m_state, m_is_joinable, m_should_die, joinVars, pc, m_thread_list, exited,
                   m_threads_for_coredump, finalized, running, workVars, panic>>

FinalizerStep ==
    \/ FinalizerTask
    \/ \E t \in Threads : Finalize(t) \/ FinalizeJoined(t)
    \/ DropThreadCount
    \/ Unref

SystemCall(t) ==
    \/ Enter(t)
    \/ \E u \in Threads : \/ \E joinable \in BOOLEAN : CreateBegin(t, u, joinable)
                          \/ JoinFails(t, u) \/ JoinAtOnce(t, u) \/ JoinBlocks(t, u)
                          \/ Detach(t, u) \/ LookupFails(t, u)
    \/ \E ok \in BOOLEAN : CreateEnd(t, ok)
    \/ LeaveJoin(t)
    \/ Exit(t) \/ Exec(t) \/ ExitThread(t) \/ ExitThreadFreed(t)

Next ==
    /\ panic = "no"
    /\ \/ \E t \in Threads : SystemCall(t) \/ Die(t) \/ Destroy(t)
       \/ FinalizerStep

Spec == Init /\ [][Next]_vars

\* The finalizer runs when it can, and a running thread meets a timer tick.
FairSpec ==
    /\ Spec
    /\ WF_vars(panic = "no" /\ FinalizerStep)
    /\ \A t \in Threads : WF_vars(panic = "no" /\ Die(t))

----------------------------------------------------------------------------
TypeOK ==
    /\ m_state \in [Threads -> States]
    /\ m_is_joinable \in [Threads -> BOOLEAN]
    /\ m_should_die \in [Threads -> BOOLEAN]
    /\ did_exit \in [Threads -> BOOLEAN]
    /\ m_blockers \subseteq Threads
    /\ target \in [Threads -> Threads \cup {NoThread}]
    /\ joined \in [Threads -> 0..2]
    /\ late \subseteq Threads
    /\ pc \in [Threads -> PCs]
    /\ m_thread_list \subseteq tid_map /\ tid_map \subseteq Threads
    /\ m_threads_for_coredump \subseteq Threads
    /\ running \subseteq Threads
    /\ {exited, finalized, has_work} \subseteq BOOLEAN
    /\ m_queue \in Queues({Finalizer})
    /\ fpc \in FPCs
    /\ dying \subseteq Threads
    /\ burying \in Threads \cup {NoThread}
    /\ panic \in {"no", "exit_value", "freed", "ref"}

\* Joining: a thread's exit value reaches user mode at most once, and only if
\* the thread called exit_thread; and nobody who is to live on sleeps in a join
\* of a thread that has exited, is Dying or is Dead.
JoinHandsOver ==
    /\ TypeOK
    /\ \A t \in Threads : joined[t] <= 1 /\ (joined[t] = 1 => did_exit[t])
    /\ \A j \in Threads : m_state[j] = "Blocked" /\ ~m_should_die[j] =>
          ~did_exit[target[j]] /\ m_state[target[j]] \notin {"Dying", "Dead"}

\* VERIFY(m_thread_did_exit) and the touch of a freed blocker need a joiner that
\* was killed and did not get to destroy its blocker.
PanicsAreKnown ==
    panic \in {"exit_value", "freed"} => \E j \in m_blockers : m_should_die[j]

\* A thread that was created half, by a create_thread that failed or was killed.
HalfCreated(t) == m_state[t] = "Invalid" /\ ~\E c \in Threads : At(c, "creating") /\ target[c] = t

\* Threads that a thread marked to die has created after die() had gone round.
Escaped == IF exited THEN m_thread_list \ m_threads_for_coredump ELSE {}

\* The finalizer: a Dying thread that nobody may join any more is finalized,
\* unless it was joined or detached only when it was Dying; and a process that
\* has exited is finalized, unless create_thread has left half a thread, or a
\* thread that was to die has created another one.
DyingAreBuried ==
    /\ \A t \in Threads : Finalizable(t) /\ t \notin late ~> m_state[t] = "Dead" \/ panic # "no"
    /\ exited ~> \/ finalized
                 \/ panic # "no"
                 \/ Escaped # {}
                 \/ \E t \in Threads : HalfCreated(t)

----------------------------------------------------------------------------
(* What does not hold *)

\* Killing a joiner and its joinee, or exec in a joinee.
NoJoinerAtFinalize == panic # "exit_value"

\* exit_thread after exec in a joinee: the killed joiner's blocker is used.
NoFreedBlocker == panic # "freed"

\* from_tid while the thread is in its destructor.
FoundThreadsLive == panic # "ref"

\* A late join or detach does not tell the finalizer.
LateAreBuried == \A t \in Threads : Finalizable(t) ~> m_state[t] = "Dead" \/ panic # "no"

\* create_thread fails half way, or is killed there.
NoHalfThread == exited ~> \/ finalized
                          \/ panic # "no"
                          \/ Escaped # {}

\* A thread that is to die gets as far as create_thread.
ExitReachesAll == Escaped = {}

\* The last thread exits while an unjoined one is still counted.
LastThreadEndsProcess ==
    (\A t \in m_thread_list : m_state[t] = "Dying") ~> finalized \/ panic # "no"
=============================================================================
