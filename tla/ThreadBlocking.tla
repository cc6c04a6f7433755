--------------------------- MODULE ThreadBlocking ---------------------------
(***************************************************************************)
(* Thread::block() and everything that ends it (Kernel/Thread.{h,cpp},     *)
(* ThreadBlockers.cpp, the context switch of Scheduler.cpp): the threads   *)
(* of one user process on one processor, sleeping on a WaitQueue with or   *)
(* without a timeout, woken, timed out, signalled, stopped, continued and  *)
(* killed.                                                                 *)
(*                                                                         *)
(* The processor runs with interrupts off in a critical section, so what   *)
(* block() does between two points where it leaves its critical section is *)
(* one step; at those points, and anywhere outside, the timer may tick.    *)
(* cur is NoThread while something else than this process runs.  A failed  *)
(* VERIFY stops the kernel: verify_failed.                                 *)
(*                                                                         *)
(* Signal masks, page faults and tracing are left out: every signal sent   *)
(* is unmasked.  SIGUSR1 stands for any signal with a handler.  The only   *)
(* blocker that signals cannot interrupt is JoinBlocker, which is used     *)
(* without a timeout; it is registered in the same queue here.             *)
(***************************************************************************)
EXTENDS Naturals, FiniteSets, WaitQueue

CONSTANTS Threads,   \* the threads of the process
          NoThread,  \* another process, or the idle thread
          Signals    \* the signals that are sent

ASSUME BlockingAssumptions ==
    /\ NoThread \notin Threads
    /\ Signals \subseteq {"SIGKILL", "SIGUSR1", "SIGCONT", "SIGSTOP"}

VARIABLES
    cur,                \* Thread::current()
    m_state,            \* Thread::m_state
    m_stop_state,       \* Thread::m_stop_state
    m_is_stopped,       \* Process::m_is_stopped
    m_should_die,       \* Thread::m_should_die
    m_pending_signals,  \* Thread::m_pending_signals
    m_blocker,          \* whether Thread::m_blocker is set
    interruptible,      \* the blocker's can_be_interrupted()
    by,                 \* what interrupted the blocker: a subset of {"signal", "death"}
    result,             \* what block() is going to return
    timer,              \* whether block()'s timer is queued
    timeout_unblocked,  \* the local of that name in block()
    m_queue,            \* the WaitQueue the threads block on
    pc,                 \* where each thread is
    verify_failed       \* whether some VERIFY failed

signalVars == <<m_should_die, m_pending_signals, by>>
stopVars   == <<m_stop_state, m_is_stopped>>
localVars  == <<interruptible, result, timer, timeout_unblocked, m_queue>>
vars == <<cur, m_state, m_blocker, pc, verify_failed, signalVars, stopVars, localVars>>

(* pc[t]:  "user"     in user mode
           "syscall"  in a system call, outside block()
           "yield"    in block(), Blocked, about to call Scheduler::yield()
           "block"    in block(), in Scheduler::yield()
           "relock"   in block(), unblocked, taking the big lock back; the
                      blocker is still registered
           "return"   in yield_if_stopped at the end of the system call
           "exit"     about to call die_if_needed                            *)
PCs == {"user", "syscall", "yield", "block", "relock", "return", "exit"}
InBlock == {"yield", "block", "relock"}
States == {"Runnable", "Running", "Blocked", "Stopped", "Dying", "Dead"}

Init ==
    /\ cur = NoThread
    /\ m_state = [t \in Threads |-> "Runnable"]
    /\ m_stop_state = [t \in Threads |-> "Invalid"]
    /\ m_is_stopped = FALSE
    /\ m_should_die = [t \in Threads |-> FALSE]
    /\ m_pending_signals = [t \in Threads |-> {}]
    /\ m_blocker = [t \in Threads |-> FALSE]
    /\ interruptible = [t \in Threads |-> TRUE]
    /\ by = [t \in Threads |-> {}]
    /\ result = [t \in Threads |-> "NotBlocked"]
    /\ timer = [t \in Threads |-> FALSE]
    /\ timeout_unblocked = [t \in Threads |-> FALSE]
    /\ m_queue = NewQueue
    /\ pc = [t \in Threads |-> "user"]
    /\ verify_failed = FALSE

Goto(t, l) == pc' = [pc EXCEPT ![t] = l]
At(t, l) == cur = t /\ pc[t] = l

----------------------------------------------------------------------------
(* Thread::set_state: the process stops and continues as a whole. *)

\* A running thread is to be restored as runnable.
StopState(s) == IF s = "Running" THEN "Runnable" ELSE s

\* Mutant: the peers are not stopped.
StopProcess_Alone(t, st) ==
    /\ m_is_stopped' = TRUE
    /\ m_state' = [st EXCEPT ![t] = "Stopped"]
    /\ m_stop_state' = [m_stop_state EXCEPT ![t] = StopState(st[t])]

\* set_state(Stopped) by t, and for its peers, Dying ones included.
StopProcess(t, st) ==
    LET stopped == {u \in Threads : u = t \/ (~m_is_stopped /\ st[u] \notin {"Stopped", "Dead"})}
    IN  /\ m_is_stopped' = TRUE
        /\ m_state' = [u \in Threads |-> IF u \in stopped THEN "Stopped" ELSE st[u]]
        /\ m_stop_state' = [u \in Threads |->
                              IF u \in stopped THEN StopState(st[u]) ELSE m_stop_state[u]]

\* Mutant: whoever was stopped becomes runnable.
ResumedState_Runnable(u) == "Runnable"

\* What resume_from_stopped puts a thread in.
ResumedState(u) ==
    IF m_stop_state[u] = "Blocked" /\ ~m_blocker[u] THEN "Runnable" ELSE m_stop_state[u]

\* t leaves Stopped for the state s, and takes its peers along.
ContinueProcess(t, s) ==
    LET resumed == {u \in Threads : u = t \/ (m_is_stopped /\ m_state[u] = "Stopped")}
    IN  /\ m_is_stopped' = FALSE
        /\ m_state' = [u \in Threads |-> IF u = t THEN s
                                         ELSE IF u \in resumed THEN ResumedState(u)
                                         ELSE m_state[u]]
        /\ m_stop_state' = [u \in Threads |->
                              IF u \in resumed THEN "Invalid" ELSE m_stop_state[u]]

\* The state Thread::unblock() gives a thread.
UnblockedState(u) == IF u = cur THEN "Running" ELSE "Runnable"

----------------------------------------------------------------------------
(* Signals and death *)

\* set_should_die for each of the victims.  Its VERIFY(!process().is_stopped())
\* meets a stopped victim; st and bl are m_state and m_blocker by then.
KillThreads(victims, st, bl) ==
    LET hit   == {u \in victims : ~m_should_die[u]}
        woken == {u \in hit : st[u] = "Blocked" /\ bl[u]}
    IN  IF \E u \in hit : st[u] = "Stopped" /\ m_is_stopped
          THEN /\ verify_failed' = TRUE
               /\ m_state' = st /\ m_blocker' = bl
               /\ UNCHANGED <<m_should_die, by>>
          ELSE /\ m_should_die' = [u \in Threads |-> m_should_die[u] \/ u \in hit]
               /\ by' = [u \in Threads |-> by[u] \cup (IF u \in woken THEN {"death"} ELSE {})]
               /\ m_state' = [u \in Threads |->
                                IF u \in woken THEN UnblockedState(u) ELSE st[u]]
               /\ m_blocker' = [u \in Threads |-> bl[u] /\ u \notin woken]
               /\ UNCHANGED verify_failed

\* pending_signals_for_state
SignalsForState(pending, s) == IF s = "Stopped" THEN pending \cap {"SIGCONT", "SIGKILL"} ELSE pending

\* The lowest-numbered signal goes first.
SignalNumber == [SIGKILL |-> 9, SIGUSR1 |-> 10, SIGCONT |-> 18, SIGSTOP |-> 19]
FirstSignal(set) == CHOOSE s \in set : \A r \in set : SignalNumber[s] <= SignalNumber[r]

\* dispatch_one_pending_signal by t; st and bl as above.
DispatchOne(t, st, bl) ==
    LET candidates == SignalsForState(m_pending_signals[t], st[t])
        signal     == FirstSignal(candidates)
    IN  IF candidates = {}
          THEN /\ m_state' = st /\ m_blocker' = bl
               /\ UNCHANGED <<stopVars, signalVars, verify_failed>>
          ELSE /\ m_pending_signals' = [m_pending_signals EXCEPT ![t] = @ \ {signal}]
               /\ \/ /\ signal = "SIGSTOP"
                     /\ StopProcess(t, st)
                     /\ m_blocker' = bl
                     /\ UNCHANGED <<m_should_die, by, verify_failed>>
                  \/ /\ signal = "SIGKILL"
                     /\ KillThreads({u \in Threads : st[u] # "Dead"}, st, bl)
                     /\ UNCHANGED stopVars
                  \/ /\ signal \in {"SIGCONT", "SIGUSR1"}
                     /\ m_state' = st /\ m_blocker' = bl
                     /\ UNCHANGED <<stopVars, m_should_die, by, verify_failed>>

\* Thread::send_signal
SendSignal(t, signal) ==
    LET pending == m_pending_signals[t] \cup {signal}
        unblock == /\ m_state[t] = "Blocked"
                   /\ interruptible[t] \/ m_should_die[t]
    IN  /\ m_state[t] \notin {"Dying", "Dead"}
        /\ m_pending_signals' = [m_pending_signals EXCEPT ![t] = pending]
        /\ IF m_state[t] = "Stopped"
             THEN /\ IF SignalsForState(pending, "Stopped") # {}
                       THEN ContinueProcess(t, ResumedState(t))
                       ELSE UNCHANGED <<m_state, stopVars>>
                  /\ UNCHANGED <<m_blocker, by>>
             ELSE /\ m_state' = [m_state EXCEPT ![t] = IF unblock THEN UnblockedState(t) ELSE @]
                  /\ m_blocker' = [m_blocker EXCEPT ![t] = @ /\ ~unblock]
                  /\ by' = [by EXCEPT ![t] = IF unblock THEN @ \cup {"signal"} ELSE @]
                  /\ UNCHANGED stopVars
        /\ UNCHANGED <<cur, pc, m_should_die, localVars, verify_failed>>

----------------------------------------------------------------------------
(* The scheduler *)

\* Scheduler::pick_next switches away from t.
PickNext(t) ==
    /\ m_state' = [m_state EXCEPT ![t] =
                     IF @ # "Running" THEN @ ELSE IF m_should_die[t] THEN "Dying" ELSE "Runnable"]
    /\ cur' = NoThread
    /\ UNCHANGED <<m_blocker, signalVars, stopVars, localVars, verify_failed>>

\* The timer tick preempts t, or t gives the processor up while it waits to be
\* continued or for the big lock.
Preempt(t) ==
    /\ cur = t
    /\ PickNext(t)
    /\ UNCHANGED pc

\* The Scheduler::yield() of block().
Yield(t) ==
    /\ At(t, "yield")
    /\ PickNext(t)
    /\ Goto(t, "block")

\* A context switch to t.  enter_current dispatches a signal if t was in user
\* mode or gave the processor up itself, but not inside block()'s loop.
Schedule(t) ==
    LET st == [m_state EXCEPT ![t] = "Running"]
    IN  /\ cur = NoThread
        /\ m_state[t] = "Runnable"
        /\ cur' = t
        /\ \/ /\ pc[t] \in {"user", "relock", "return", "exit"}
              /\ DispatchOne(t, st, m_blocker)
           \/ /\ pc[t] # "user"
              /\ m_state' = st
              /\ UNCHANGED <<m_blocker, stopVars, signalVars, verify_failed>>
        /\ UNCHANGED <<pc, localVars>>

\* Thread::finalize_dying_threads: they are collected, then finalized one by one.  One
\* that was collected stays Dying until then.
Finalize(t) ==
    /\ m_state[t] = "Dying"
    /\ m_state' = [m_state EXCEPT ![t] = "Dead"]
    /\ m_pending_signals' = [m_pending_signals EXCEPT ![t] = {}]
    /\ by' = [by EXCEPT ![t] = {}]
    /\ Goto(t, "exit")
    /\ UNCHANGED <<cur, m_blocker, m_should_die, stopVars, localVars, verify_failed>>

----------------------------------------------------------------------------
(* Thread::block() *)

\* From its beginning to the yield, when the queue refuses the blocker: the
\* result is NotBlocked.
BlockRefused(t) ==
    /\ At(t, "syscall")
    /\ ~ShouldAddBlocker(m_queue)
    /\ m_queue' = AddBlocker(m_queue, t)
    /\ UNCHANGED <<cur, pc, m_state, m_blocker, signalVars, stopVars, interruptible, result,
                   timer, timeout_unblocked, verify_failed>>

\* The same, when the thread is to sleep.  (One whose timeout is already past takes
\* its blocker back and returns: nothing has changed.)
Block(t, timeout, can_be_interrupted) ==
    /\ At(t, "syscall")
    /\ ShouldAddBlocker(m_queue)
    /\ m_queue' = AddBlocker(m_queue, t)
    /\ m_blocker' = [m_blocker EXCEPT ![t] = TRUE]
    /\ interruptible' = [interruptible EXCEPT ![t] = can_be_interrupted]
    /\ timer' = [timer EXCEPT ![t] = timeout]
    /\ IF m_state[t] = "Stopped"
         THEN ContinueProcess(t, "Blocked")
         ELSE /\ m_state' = [m_state EXCEPT ![t] = "Blocked"]
              /\ UNCHANGED stopVars
    /\ Goto(t, "yield")
    /\ UNCHANGED <<cur, result, timeout_unblocked, signalVars, verify_failed>>

BlockResult(t) ==
    IF "death" \in by[t] THEN "InterruptedByDeath"
    ELSE IF "signal" \in by[t] THEN "InterruptedBySignal"
    ELSE IF timeout_unblocked[t] THEN "InterruptedByTimeout"
    ELSE "WokeNormally"

\* After the yield.  The two `continue's of the loop call set_state without
\* g_scheduler_lock, which set_state VERIFYs.
Unblocked(t) ==
    /\ At(t, "block")
    /\ IF \/ m_is_stopped \/ m_state[t] = "Stopped"
          \/ m_blocker[t] /\ ~interruptible[t] /\ ~m_should_die[t]
         THEN /\ verify_failed' = TRUE
              /\ UNCHANGED <<m_state, m_blocker, pc, signalVars, stopVars, result, timer,
                             timeout_unblocked, interruptible>>
         ELSE /\ IF "signal" \in by[t]
                   THEN DispatchOne(t, m_state, [m_blocker EXCEPT ![t] = FALSE])
                   ELSE /\ m_blocker' = [m_blocker EXCEPT ![t] = FALSE]
                        /\ UNCHANGED <<m_state, stopVars, signalVars, verify_failed>>
              /\ result' = [result EXCEPT ![t] = BlockResult(t)]
              /\ timer' = [timer EXCEPT ![t] = FALSE]
              /\ timeout_unblocked' = [timeout_unblocked EXCEPT ![t] = FALSE]
              /\ interruptible' = [interruptible EXCEPT ![t] = TRUE]
              /\ Goto(t, "relock")
    /\ UNCHANGED <<cur, m_queue>>

\* The big lock is ours again: block() returns, and destroys the blocker.
EndBlock(t) ==
    /\ At(t, "relock")
    /\ m_queue' = RemoveBlocker(m_queue, t)
    /\ by' = [by EXCEPT ![t] = {}]
    /\ result' = [result EXCEPT ![t] = "NotBlocked"]
    /\ Goto(t, "syscall")
    /\ UNCHANGED <<cur, m_state, m_blocker, m_should_die, m_pending_signals, stopVars,
                   interruptible, timer, timeout_unblocked, verify_failed>>

\* Mutant: a thread that has not yielded yet is not woken.
WakeThreads_Yielded(woken) ==
    LET awake == {t \in woken : t # cur /\ m_blocker[t] /\ ~m_is_stopped /\ m_state[t] = "Blocked"}
    IN  /\ m_state' = [t \in Threads |-> IF t \in awake THEN UnblockedState(t) ELSE m_state[t]]
        /\ m_blocker' = [t \in Threads |-> m_blocker[t] /\ t \notin awake]
        /\ UNCHANGED <<cur, pc, signalVars, stopVars, interruptible, result, timer,
                       timeout_unblocked, verify_failed>>

\* unblock_from_blocker, for each blocker a wake takes out of the queue.
WakeThreads(woken) ==
    LET awake == {t \in woken : m_blocker[t] /\ ~m_is_stopped /\ m_state[t] = "Blocked"}
    IN  /\ m_state' = [t \in Threads |-> IF t \in awake THEN UnblockedState(t) ELSE m_state[t]]
        /\ m_blocker' = [t \in Threads |-> m_blocker[t] /\ t \notin awake]
        /\ UNCHANGED <<cur, pc, signalVars, stopVars, interruptible, result, timer,
                       timeout_unblocked, verify_failed>>

WakeOneThread == m_queue' = WakeOne(m_queue) /\ WakeThreads(WokenByOne(m_queue))
WakeAllThreads == m_queue' = WakeAll(m_queue) /\ WakeThreads(Members(m_queue))

\* The callback of block()'s timer.
TimerFires(t) ==
    LET awake == m_blocker[t] /\ m_state[t] = "Blocked"
    IN  /\ timer[t]
        /\ timer' = [timer EXCEPT ![t] = FALSE]
        /\ timeout_unblocked' = [timeout_unblocked EXCEPT ![t] = @ \/ m_blocker[t]]
        /\ m_state' = [m_state EXCEPT ![t] = IF awake THEN UnblockedState(t) ELSE @]
        /\ m_blocker' = [m_blocker EXCEPT ![t] = @ /\ ~awake]
        /\ UNCHANGED <<cur, pc, signalVars, stopVars, interruptible, result, m_queue,
                       verify_failed>>

----------------------------------------------------------------------------
(* The system call around it (syscall_handler) *)

EnterSyscall(t) ==
    /\ At(t, "user")
    /\ m_state[t] = "Running"
    /\ Goto(t, "syscall")
    /\ UNCHANGED <<cur, m_state, m_blocker, signalVars, stopVars, localVars, verify_failed>>

LeaveSyscall(t) ==
    /\ At(t, "syscall")
    /\ Goto(t, "return")
    /\ UNCHANGED <<cur, m_state, m_blocker, signalVars, stopVars, localVars, verify_failed>>

\* sys$exit and sys$exit_thread: all threads of the process, or only t, are to
\* die; and kill_threads_except_self, on exec: all but t.
Kill(t, victims) ==
    /\ At(t, "syscall")
    /\ KillThreads(victims, m_state, m_blocker)
    /\ Goto(t, IF t \in victims THEN "exit" ELSE "syscall")
    /\ UNCHANGED <<cur, m_pending_signals, stopVars, localVars>>

\* check_dispatch_pending_signal
CheckPendingSignal(t) ==
    /\ At(t, "return")
    /\ m_state[t] = "Running"
    /\ DispatchOne(t, m_state, m_blocker)
    /\ Goto(t, "exit")
    /\ UNCHANGED <<cur, localVars>>

DieIfNeeded(t) ==
    /\ At(t, "exit")
    /\ m_state[t] = "Running"
    /\ IF m_should_die[t]
         THEN PickNext(t) /\ UNCHANGED pc
         ELSE /\ Goto(t, "user")
              /\ UNCHANGED <<cur, m_state, m_blocker, signalVars, stopVars, localVars,
                             verify_failed>>

----------------------------------------------------------------------------
\* The kernel's own steps; the rest is the environment's.
KernelStep(t) == Yield(t) \/ Unblocked(t) \/ EndBlock(t) \/ CheckPendingSignal(t) \/ DieIfNeeded(t)

UserStep(t) ==
    \/ EnterSyscall(t) \/ LeaveSyscall(t)
    \/ BlockRefused(t)
    \/ \E timeout \in BOOLEAN : Block(t, timeout, TRUE)
    \/ Block(t, FALSE, FALSE)
    \/ \E victims \in {Threads, {t}, Threads \ {t}} : Kill(t, victims \ {u \in Threads : m_state[u] = "Dead"})
    \/ \E signal \in Signals : SendSignal(t, signal)

Next ==
    /\ ~verify_failed
    /\ \/ \E t \in Threads : \/ KernelStep(t) \/ UserStep(t) \/ Preempt(t) \/ Schedule(t)
                             \/ Finalize(t) \/ TimerFires(t)
       \/ WakeOneThread \/ WakeAllThreads

Spec == Init /\ [][Next]_vars

\* The timer ticks, queued timers expire, a runnable thread is scheduled again
\* and again (the ready queue is first in, first out), and gets somewhere in its
\* time slices.
FairSpec ==
    /\ Spec
    /\ \A t \in Threads : /\ WF_vars(Preempt(t)) /\ WF_vars(TimerFires(t))
                          /\ SF_vars(Schedule(t)) /\ SF_vars(KernelStep(t))

----------------------------------------------------------------------------
\* Types: in particular set_state never remembers a state it must not restore
\* (m_stop_state is never Running, Stopped or Dead).
TypeOK ==
    /\ cur \in Threads \cup {NoThread}
    /\ m_state \in [Threads -> States]
    /\ m_stop_state \in [Threads -> {"Invalid", "Runnable", "Blocked", "Dying"}]
    /\ m_is_stopped \in BOOLEAN
    /\ m_should_die \in [Threads -> BOOLEAN]
    /\ m_pending_signals \in [Threads -> SUBSET Signals]
    /\ m_blocker \in [Threads -> BOOLEAN]
    /\ interruptible \in [Threads -> BOOLEAN]
    /\ by \in [Threads -> SUBSET {"signal", "death"}]
    /\ result \in [Threads -> {"NotBlocked", "WokeNormally", "InterruptedBySignal",
                              "InterruptedByDeath", "InterruptedByTimeout"}]
    /\ timer \in [Threads -> BOOLEAN]
    /\ timeout_unblocked \in [Threads -> BOOLEAN]
    /\ m_queue \in Queues(Threads)
    /\ pc \in [Threads -> PCs]
    /\ verify_failed \in BOOLEAN

\* The threads of a process stop together and continue together, and
\* Process::m_is_stopped says which: no thread runs in a stopped process,
\* which is what the stop check in block()'s loop relies on.
StoppedTogether ==
    \A t \in Threads : m_state[t] # "Dead" => (m_state[t] = "Stopped" <=> m_is_stopped)

\* A thread is Blocked only with its m_blocker set (the VERIFY(m_blocker) of
\* Thread::unblock), and a thread with m_blocker set is asleep, or was when the
\* process was stopped; and block() says WokeNormally only if a wake took the
\* blocker out of the queue.
BlockerMeansAsleep ==
    /\ TypeOK
    /\ \A t \in Threads :
          /\ m_state[t] = "Blocked" => m_blocker[t]
          /\ m_blocker[t] => \/ m_state[t] = "Blocked"
                             \/ m_state[t] = "Stopped" /\ m_stop_state[t] = "Blocked"
          /\ pc[t] = "relock" /\ result[t] = "WokeNormally" => t \notin Members(m_queue)

\* No VERIFY of set_should_die, set_state or block() fails at all.
NoVerifyFails == ~verify_failed

\* A sleeping thread can still be woken: its blocker is in the queue.
NoLostWakeup ==
    \A t \in Threads : m_state[t] = "Blocked" => t \in Members(m_queue)

\* Nobody is still asleep, or stopped in its sleep, whom a wake has taken out of
\* the queue or whose timeout has expired.
Forgotten == {t \in Threads : m_blocker[t] /\ (t \notin Members(m_queue) \/ timeout_unblocked[t])}

\* While the process is not stopped no wake and no timeout is lost, whatever else
\* signals, kills or interrupts the sleeper, and no VERIFY of set_should_die,
\* set_state or block() fails.
WakesReachSleepers == [][~m_is_stopped => Forgotten' \subseteq Forgotten /\ ~verify_failed']_vars

\* A killed thread's block() returns before the thread dies (so that its blocker
\* is destroyed before its stack is).
BlockReturnsBeforeDeath ==
    \A t \in Threads : m_state[t] = "Dying" => pc[t] \notin InBlock

\* A stopped process stays stopped until SIGCONT or SIGKILL arrives.
StopHolds ==
    [][m_is_stopped /\ ~m_is_stopped' =>
          \E t \in Threads : m_pending_signals'[t] \cap {"SIGCONT", "SIGKILL"} # {}]_vars

\* A thread that is to die dies, unless it is stopped.
KilledThreadsDie ==
    \A t \in Threads :
        m_should_die[t] ~> m_state[t] \in {"Dying", "Dead", "Stopped"}
=============================================================================
