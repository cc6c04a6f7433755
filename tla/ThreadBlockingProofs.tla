------------------------ MODULE ThreadBlockingProofs ------------------------
(***************************************************************************)
(* Proofs about ThreadBlocking, for every set of threads and every set of  *)
(* signals: the threads of a process stop and continue together, m_blocker *)
(* is set exactly while its thread sleeps, and while the process is not    *)
(* stopped no wake, no timeout and no VERIFY goes wrong.                   *)
(***************************************************************************)
EXTENDS ThreadBlocking, WaitQueueProofs, TLAPS

(* The inductive invariant.                                                  *)

\* The processor: only the current thread is Running, the current thread has
\* not died, and it is asleep only between add_blocker and its yield.
Current ==
    /\ \A t \in Threads : m_state[t] = "Running" => t = cur
    /\ cur \in Threads => /\ m_state[cur] \notin {"Dying", "Dead"}
                          /\ m_state[cur] = "Stopped" => m_stop_state[cur] # "Dying"
    /\ \A t \in Threads : t = cur /\ m_blocker[t] => pc[t] = "yield"

\* set_state: a stopped thread remembers what to go back to.
Stops ==
    /\ StoppedTogether
    /\ \A t \in Threads : m_state[t] = "Stopped" => m_stop_state[t] # "Invalid"

\* block(): m_blocker is set exactly while the thread sleeps, or slept when the
\* process was stopped.
Blocking ==
    \A t \in Threads :
        /\ m_state[t] = "Blocked" => m_blocker[t]
        /\ m_blocker[t] => \/ m_state[t] = "Blocked"
                           \/ m_state[t] = "Stopped" /\ m_stop_state[t] = "Blocked"
        /\ m_blocker[t] => pc[t] \in {"yield", "block"}
        /\ timeout_unblocked[t] => pc[t] \in {"yield", "block"} \/ m_state[t] = "Dead"

\* The queue: a thread registers once, and leaves the queue before it leaves
\* block(), unless it dies there; whoever woke up without a signal, a death or a
\* timeout has been taken out by a wake.
Registered ==
    /\ Distinct(m_queue)
    /\ \A t \in Threads :
          /\ t \in Members(m_queue) => pc[t] \in InBlock \/ m_state[t] = "Dead"
          /\ /\ pc[t] \in {"yield", "block"}
             /\ ~m_blocker[t] /\ by[t] = {} /\ ~timeout_unblocked[t]
             => t \notin Members(m_queue)
          /\ pc[t] = "relock" /\ result[t] = "WokeNormally" => t \notin Members(m_queue)

IInv == TypeOK /\ Current /\ Stops /\ Blocking /\ Registered

\* At first one thread runs, and nobody sleeps.
LEMMA InitIInv == Init => IInv
<1> SUFFICES ASSUME Init PROVE IInv
  OBVIOUS
<1>0. m_queue \in Queues(Threads) /\ Members(m_queue) = {} /\ Distinct(m_queue)
  BY DEF Init, NewQueue, Queue, Queues, Members, ToSet, Distinct
<1>1. TypeOK
  BY <1>0, BlockingAssumptions DEF Init, TypeOK, States, PCs
<1>2. Current /\ Stops /\ Blocking
  BY BlockingAssumptions DEF Init, Current, Stops, StoppedTogether, Blocking
<1>3. Registered
  BY <1>0 DEF Init, Registered
<1> QED  BY <1>1, <1>2, <1>3 DEF IInv

\* The queue's threads are threads of the process.
LEMMA WakeTyping ==
    ASSUME NEW T, NEW q \in Queues(T)
    PROVE  /\ Members(q) \subseteq T
           /\ WakeOne(q) \in Queues(T) /\ WakeAll(q) \in Queues(T)
<1>1. Members(q) \subseteq T
  BY DEF Members, ToSet, Queues
<1>2. WakeOne(q) \in Queues(T) /\ WakeAll(q) \in Queues(T)
  BY DEF WakeOne, WakeAll, Queue, Queues
<1> QED  BY <1>1, <1>2

\* set_should_die.
LEMMA KillTyping ==
    ASSUME TypeOK, NEW victims \in SUBSET Threads, NEW st \in [Threads -> States],
           NEW bl \in [Threads -> BOOLEAN], KillThreads(victims, st, bl)
    PROVE  /\ m_state' \in [Threads -> States] /\ m_should_die' \in [Threads -> BOOLEAN]
           /\ by' \in [Threads -> SUBSET {"signal", "death"}]
           /\ m_blocker' \in [Threads -> BOOLEAN] /\ verify_failed' \in BOOLEAN
<1> DEFINE hit   == {u \in victims : ~m_should_die[u]}
           woken == {u \in hit : st[u] = "Blocked" /\ bl[u]}
<1>1. CASE \E u \in hit : st[u] = "Stopped" /\ m_is_stopped
  BY <1>1 DEF KillThreads, TypeOK
<1>2. CASE ~\E u \in hit : st[u] = "Stopped" /\ m_is_stopped
  <2>1. /\ m_should_die' = [u \in Threads |-> m_should_die[u] \/ u \in hit]
        /\ by' = [u \in Threads |-> by[u] \cup (IF u \in woken THEN {"death"} ELSE {})]
        /\ m_state' = [u \in Threads |-> IF u \in woken THEN UnblockedState(u) ELSE st[u]]
        /\ m_blocker' = [u \in Threads |-> bl[u] /\ u \notin woken]
        /\ verify_failed' = verify_failed
    BY <1>2 DEF KillThreads
  <2> HIDE DEF hit, woken
  <2>2. m_state' \in [Threads -> States]
    BY <2>1 DEF UnblockedState, States
  <2>3. by' \in [Threads -> SUBSET {"signal", "death"}]
    BY <2>1 DEF TypeOK
  <2> QED  BY <2>1, <2>2, <2>3 DEF TypeOK
<1> QED  BY <1>1, <1>2

\* What dispatch_one_pending_signal changes keeps its type.
DispatchTyped ==
    /\ m_state' \in [Threads -> States]
    /\ m_stop_state' \in [Threads -> {"Invalid", "Runnable", "Blocked", "Dying"}]
    /\ m_is_stopped' \in BOOLEAN
    /\ m_should_die' \in [Threads -> BOOLEAN]
    /\ m_pending_signals' \in [Threads -> SUBSET Signals]
    /\ m_blocker' \in [Threads -> BOOLEAN]
    /\ by' \in [Threads -> SUBSET {"signal", "death"}]
    /\ verify_failed' \in BOOLEAN

\* dispatch_one_pending_signal, whatever the signal does.
LEMMA DispatchTyping ==
    ASSUME TypeOK, NEW t \in Threads, NEW st \in [Threads -> States],
           NEW bl \in [Threads -> BOOLEAN], st[t] \notin {"Stopped", "Dead"},
           DispatchOne(t, st, bl)
    PROVE  DispatchTyped
<1>1. m_pending_signals' \in [Threads -> SUBSET Signals]
  BY DEF DispatchOne, TypeOK, signalVars
<1>2. CASE KillThreads({u \in Threads : st[u] # "Dead"}, st, bl) /\ UNCHANGED stopVars
  <2>1. {u \in Threads : st[u] # "Dead"} \in SUBSET Threads
    OBVIOUS
  <2> QED  BY <1>1, <1>2, <2>1, KillTyping DEF DispatchTyped, TypeOK, stopVars
<1>3. CASE /\ StopProcess(t, st)
           /\ m_blocker' = bl
           /\ UNCHANGED <<m_should_die, by, verify_failed>>
  <2>1. /\ m_state' \in [Threads -> States] /\ m_is_stopped' \in BOOLEAN
        /\ m_stop_state' \in [Threads -> {"Invalid", "Runnable", "Blocked", "Dying"}]
    BY <1>3 DEF StopProcess, StopState, States, TypeOK
  <2> QED  BY <1>1, <1>3, <2>1 DEF DispatchTyped, TypeOK
<1>4. CASE /\ m_state' = st /\ m_blocker' = bl
           /\ UNCHANGED <<stopVars, m_should_die, by, verify_failed>>
  BY <1>1, <1>4 DEF DispatchTyped, TypeOK, stopVars
<1> QED  BY <1>2, <1>3, <1>4 DEF DispatchOne, signalVars

\* set_state out of Stopped.
LEMMA ContinueTyping ==
    ASSUME TypeOK, Stops, NEW t \in Threads, NEW s \in States, ContinueProcess(t, s)
    PROVE  /\ m_state' \in [Threads -> States] /\ m_is_stopped' \in BOOLEAN
           /\ m_stop_state' \in [Threads -> {"Invalid", "Runnable", "Blocked", "Dying"}]
<1>1. \A u \in Threads : m_state[u] = "Stopped" => ResumedState(u) \in States
  BY DEF ResumedState, TypeOK, Stops, States
<1> QED  BY <1>1 DEF ContinueProcess, TypeOK

\* add_blocker in block(): t is not registered yet.
LEMMA RefusedQueue ==
    ASSUME IInv, NEW t \in Threads, BlockRefused(t)
    PROVE  /\ m_queue' \in Queues(Threads) /\ Distinct(m_queue')
           /\ Members(m_queue') = Members(m_queue)
<1> USE DEF IInv
<1>1. m_queue \in Queues(Threads) /\ Distinct(m_queue) /\ t \notin Members(m_queue)
  BY DEF TypeOK, BlockRefused, At, Current, Registered, InBlock
<1>2. ~ShouldAddBlocker(m_queue) /\ m_queue' = AddBlocker(m_queue, t)
  BY DEF BlockRefused
<1> QED  BY <1>1, <1>2, QueueTyping, AddedMembers

\* add_blocker in block(): t is registered once.
LEMMA BlockQueue ==
    ASSUME IInv, NEW t \in Threads, NEW timeout \in BOOLEAN, NEW intr \in BOOLEAN,
           Block(t, timeout, intr)
    PROVE  /\ m_queue' \in Queues(Threads) /\ Distinct(m_queue')
           /\ Members(m_queue') = Members(m_queue) \cup {t}
<1> USE DEF IInv
<1>1. m_queue \in Queues(Threads) /\ Distinct(m_queue) /\ t \notin Members(m_queue)
  BY DEF TypeOK, Block, At, Current, Registered, InBlock
<1>2. ShouldAddBlocker(m_queue) /\ m_queue' = AddBlocker(m_queue, t)
  BY DEF Block
<1> QED  BY <1>1, <1>2, QueueTyping, AddedMembers

\* ~Blocker at the end of block().
LEMMA EndBlockQueue ==
    ASSUME IInv, NEW t \in Threads, EndBlock(t)
    PROVE  /\ m_queue' \in Queues(Threads) /\ Distinct(m_queue')
           /\ Members(m_queue') = Members(m_queue) \ {t}
<1> USE DEF IInv
<1>1. m_queue \in Queues(Threads) /\ Distinct(m_queue) /\ m_queue' = RemoveBlocker(m_queue, t)
  BY DEF TypeOK, EndBlock, Registered
<1>2. RemoveBlocker(m_queue, t) \in Queues(Threads)
  BY <1>1, QueueTyping
<1>3. /\ Distinct(RemoveBlocker(m_queue, t))
      /\ Members(RemoveBlocker(m_queue, t)) = Members(m_queue) \ {t}
  BY <1>1, RemovedMembers
<1> QED  BY <1>1, <1>2, <1>3

\* A wake takes out of the queue whom it unblocks.
LEMMA WakeQueue ==
    ASSUME IInv, WakeOneThread \/ WakeAllThreads
    PROVE  \E woken \in SUBSET Threads :
             /\ m_queue' \in Queues(Threads) /\ Distinct(m_queue')
             /\ Members(m_queue') = Members(m_queue) \ woken
             /\ WakeThreads(woken)
<1> USE DEF IInv
<1>0. m_queue \in Queues(Threads) /\ Distinct(m_queue)
  BY DEF TypeOK, Registered
<1>00. /\ Members(m_queue) \subseteq Threads
       /\ WakeOne(m_queue) \in Queues(Threads) /\ WakeAll(m_queue) \in Queues(Threads)
  BY <1>0, WakeTyping
<1>1. CASE WakeOneThread
  <2>1. /\ m_queue' \in Queues(Threads) /\ Distinct(m_queue')
        /\ Members(m_queue') = Members(m_queue) \ WokenByOne(m_queue)
        /\ WokenByOne(m_queue) \subseteq Members(m_queue)
    BY <1>0, <1>00, <1>1, WokenMembers DEF WakeOneThread
  <2> QED  BY <1>1, <1>00, <2>1 DEF WakeOneThread
<1>2. CASE WakeAllThreads
  <2>1. /\ m_queue' \in Queues(Threads) /\ Distinct(m_queue')
        /\ Members(m_queue') = {}
    BY <1>0, <1>00, <1>2, WokenMembers DEF WakeAllThreads
  <2> QED  BY <1>2, <1>00, <2>1 DEF WakeAllThreads
<1> QED  BY <1>1, <1>2

\* The context switch away from a thread.
LEMMA SwitchAwayStep ==
    ASSUME IInv, NEW t \in Threads, Preempt(t) \/ Yield(t)
    PROVE  IInv'
<1> USE BlockingAssumptions DEF IInv, Preempt, Yield, At, Goto, PickNext,
            signalVars, stopVars, localVars
<1>1. TypeOK'
  BY DEF TypeOK, States, PCs
<1>2. Current'
  BY DEF TypeOK, Current
<1>3. Stops'
  BY DEF TypeOK, Stops, StoppedTogether
<1>4. Blocking'
  BY DEF TypeOK, Blocking
<1>5. Registered'
  BY DEF TypeOK, Registered, InBlock
<1> QED  BY <1>1, <1>2, <1>3, <1>4, <1>5

\* die_if_needed.
LEMMA DieStep ==
    ASSUME IInv, NEW t \in Threads, DieIfNeeded(t)
    PROVE  IInv'
<1> USE BlockingAssumptions DEF IInv, DieIfNeeded, At, Goto, PickNext, signalVars,
            stopVars, localVars
<1>1. TypeOK'
  BY DEF TypeOK, States, PCs
<1>2. Current'
  BY DEF TypeOK, Current
<1>3. Stops'
  BY DEF TypeOK, Stops, StoppedTogether
<1>4. Blocking'
  BY DEF TypeOK, Blocking
<1>5. Registered'
  BY DEF TypeOK, Registered, InBlock
<1> QED  BY <1>1, <1>2, <1>3, <1>4, <1>5

\* A context switch to a thread.
LEMMA ScheduleStep ==
    ASSUME IInv, NEW t \in Threads, Schedule(t)
    PROVE  IInv'
<1> USE BlockingAssumptions DEF IInv
<1>1. TypeOK'
  <2> DEFINE st == [m_state EXCEPT ![t] = "Running"]
  <2>1. st \in [Threads -> States] /\ st[t] = "Running" /\ m_blocker \in [Threads -> BOOLEAN]
    BY DEF TypeOK, States
  <2>2. CASE DispatchOne(t, st, m_blocker)
    BY <2>1, <2>2, DispatchTyping DEF DispatchTyped, TypeOK, Schedule, localVars
  <2>3. CASE m_state' = st /\ UNCHANGED <<m_blocker, stopVars, signalVars, verify_failed>>
    BY <2>1, <2>3 DEF TypeOK, Schedule, stopVars, signalVars, localVars
  <2> QED  BY <2>2, <2>3 DEF Schedule
<1> USE DEF Schedule, DispatchOne, StopProcess, StopState, KillThreads,
            UnblockedState, signalVars, stopVars, localVars
<1>2. Current'
  BY DEF TypeOK, Current, Blocking
<1>3. Stops'
  BY DEF TypeOK, States, Stops, StoppedTogether
<1>4. Blocking'
  BY DEF TypeOK, Blocking
<1>5. Registered'
  BY DEF TypeOK, States, Blocking, Registered
<1> QED  BY <1>1, <1>2, <1>3, <1>4, <1>5

\* finalize_dying_threads takes a thread that died where it was.
LEMMA FinalizeStep ==
    ASSUME IInv, NEW t \in Threads, Finalize(t)
    PROVE  IInv'
<1> USE BlockingAssumptions DEF IInv, Finalize, Goto, stopVars, localVars
<1>1. TypeOK'
  BY DEF TypeOK, States, PCs
<1>2. Current'
  BY DEF Current
<1>3. Stops'
  BY DEF Stops, StoppedTogether
<1>4. Blocking'
  BY DEF TypeOK, Blocking
<1>5. Registered'
  BY DEF TypeOK, Registered
<1> QED  BY <1>1, <1>2, <1>3, <1>4, <1>5

\* block(), when a wake was pending.
LEMMA BlockRefusedStep ==
    ASSUME IInv, NEW t \in Threads, BlockRefused(t)
    PROVE  IInv'
<1> USE BlockingAssumptions DEF IInv
<1>0. /\ m_queue' \in Queues(Threads) /\ Distinct(m_queue')
      /\ Members(m_queue') = Members(m_queue)
  BY RefusedQueue
<1> USE DEF BlockRefused, At, signalVars, stopVars
<1>1. TypeOK'
  BY <1>0 DEF TypeOK
<1>2. Current'
  BY <1>0 DEF Current
<1>3. Stops'
  BY <1>0 DEF Stops, StoppedTogether
<1>4. Blocking'
  BY <1>0 DEF Blocking
<1>5. Registered'
  BY <1>0 DEF Registered
<1> QED  BY <1>1, <1>2, <1>3, <1>4, <1>5

\* block() up to its yield; a stopped process is continued by it.
LEMMA BlockStep ==
    ASSUME IInv, NEW t \in Threads, NEW timeout \in BOOLEAN, NEW intr \in BOOLEAN,
           Block(t, timeout, intr)
    PROVE  IInv'
<1> USE BlockingAssumptions DEF IInv
<1>0. /\ m_queue' \in Queues(Threads) /\ Distinct(m_queue')
      /\ Members(m_queue') = Members(m_queue) \cup {t}
  BY BlockQueue
<1>1. TypeOK'
  <2>1. /\ m_state' \in [Threads -> States] /\ m_is_stopped' \in BOOLEAN
        /\ m_stop_state' \in [Threads -> {"Invalid", "Runnable", "Blocked", "Dying"}]
    <3>1. CASE m_state[t] = "Stopped"
      BY <3>1, ContinueTyping DEF Block, States
    <3>2. CASE m_state[t] # "Stopped"
      BY <3>2 DEF Block, TypeOK, States, stopVars
    <3> QED  BY <3>1, <3>2
  <2>2. /\ pc' \in [Threads -> PCs] /\ m_blocker' \in [Threads -> BOOLEAN]
        /\ interruptible' \in [Threads -> BOOLEAN] /\ timer' \in [Threads -> BOOLEAN]
    BY DEF TypeOK, PCs, Block, Goto
  <2> QED  BY <1>0, <2>1, <2>2 DEF Block, TypeOK, signalVars
<1> USE DEF Block, At, Goto, ContinueProcess, ResumedState, signalVars, stopVars
<1>2. Current'
  BY <1>0 DEF TypeOK, Current
<1>3. Stops'
  BY <1>0 DEF TypeOK, Current, Stops, StoppedTogether
<1>4. Blocking'
  BY <1>0 DEF TypeOK, Blocking
<1>5. Registered'
  BY <1>0 DEF TypeOK, Registered, InBlock
<1> QED  BY <1>1, <1>2, <1>3, <1>4, <1>5

\* block() after its yield: the thread runs, so somebody has cleared m_blocker.
LEMMA UnblockedStep ==
    ASSUME IInv, NEW t \in Threads, Unblocked(t)
    PROVE  IInv'
<1> USE BlockingAssumptions DEF IInv
<1>1. TypeOK'
  <2> DEFINE bl == [m_blocker EXCEPT ![t] = FALSE]
  <2>1. /\ pc' \in [Threads -> PCs]
        /\ result' \in [Threads -> {"NotBlocked", "WokeNormally", "InterruptedBySignal",
                                   "InterruptedByDeath", "InterruptedByTimeout"}]
        /\ timer' \in [Threads -> BOOLEAN] /\ timeout_unblocked' \in [Threads -> BOOLEAN]
        /\ interruptible' \in [Threads -> BOOLEAN]
        /\ cur' = cur /\ m_queue' = m_queue
    BY DEF TypeOK, PCs, Unblocked, BlockResult, Goto
  <2>2. bl \in [Threads -> BOOLEAN] /\ m_state[t] # "Dead"
    BY DEF TypeOK, Unblocked, At, Current
  <2>3. CASE DispatchOne(t, m_state, bl) /\ m_state[t] # "Stopped"
    <3>1. DispatchTyped
      BY <2>2, <2>3, DispatchTyping DEF TypeOK
    <3> QED  BY <2>1, <3>1 DEF DispatchTyped, TypeOK
  <2>4. CASE m_blocker' = bl /\ UNCHANGED <<m_state, stopVars, signalVars, verify_failed>>
    BY <2>1, <2>2, <2>4 DEF TypeOK, stopVars, signalVars
  <2>5. CASE verify_failed' = TRUE /\ UNCHANGED <<m_state, m_blocker, signalVars, stopVars>>
    BY <2>1, <2>5 DEF TypeOK, stopVars, signalVars
  <2> QED  BY <2>3, <2>4, <2>5 DEF Unblocked
<1> USE DEF Unblocked, BlockResult, At, Goto, DispatchOne, StopProcess, StopState,
            KillThreads, UnblockedState, signalVars, stopVars
<1>2. Current'
  BY DEF TypeOK, Current
<1>3. Stops'
  BY DEF TypeOK, States, Stops, StoppedTogether
<1>4. Blocking'
  BY DEF TypeOK, Current, Blocking
<1>5. Registered'
  BY DEF TypeOK, States, Current, Stops, StoppedTogether, Registered, InBlock
<1> QED  BY <1>1, <1>2, <1>3, <1>4, <1>5

\* block() returns.
LEMMA EndBlockStep ==
    ASSUME IInv, NEW t \in Threads, EndBlock(t)
    PROVE  IInv'
<1> USE BlockingAssumptions DEF IInv
<1>0. /\ m_queue' \in Queues(Threads) /\ Distinct(m_queue')
      /\ Members(m_queue') = Members(m_queue) \ {t}
  BY EndBlockQueue
<1> USE DEF EndBlock, At, Goto, stopVars
<1>1. TypeOK'
  BY <1>0 DEF TypeOK, PCs
<1>2. Current'
  BY <1>0 DEF Current
<1>3. Stops'
  BY <1>0 DEF Stops, StoppedTogether
<1>4. Blocking'
  BY <1>0 DEF Blocking
<1>5. Registered'
  BY <1>0 DEF Registered
<1> QED  BY <1>1, <1>2, <1>3, <1>4, <1>5

\* wake_one and wake_all.
LEMMA WakeStep ==
    ASSUME IInv, WakeOneThread \/ WakeAllThreads
    PROVE  IInv'
<1> USE BlockingAssumptions DEF IInv
<1>0. PICK woken \in SUBSET Threads :
        /\ m_queue' \in Queues(Threads) /\ Distinct(m_queue')
        /\ Members(m_queue') = Members(m_queue) \ woken
        /\ WakeThreads(woken)
  BY WakeQueue
<1> USE DEF WakeThreads, UnblockedState, signalVars, stopVars
<1>1. TypeOK'
  BY <1>0 DEF TypeOK, States
<1>2. Current'
  BY <1>0 DEF Current
<1>3. Stops'
  BY <1>0 DEF Stops, StoppedTogether
<1>4. Blocking'
  BY <1>0 DEF Blocking
<1>5. Registered'
  BY <1>0 DEF Registered
<1> QED  BY <1>1, <1>2, <1>3, <1>4, <1>5

\* The callback of a timeout.
LEMMA TimerFiresStep ==
    ASSUME IInv, NEW t \in Threads, TimerFires(t)
    PROVE  IInv'
<1> USE BlockingAssumptions DEF IInv, TimerFires, UnblockedState, signalVars,
            stopVars
<1>1. TypeOK'
  BY DEF TypeOK, States
<1>2. Current'
  BY DEF TypeOK, Current
<1>3. Stops'
  BY DEF Stops, StoppedTogether
<1>4. Blocking'
  BY DEF TypeOK, Blocking
<1>5. Registered'
  BY DEF TypeOK, Registered
<1> QED  BY <1>1, <1>2, <1>3, <1>4, <1>5

\* Into a system call and out of it.
LEMMA SyscallStep ==
    ASSUME IInv, NEW t \in Threads, EnterSyscall(t) \/ LeaveSyscall(t)
    PROVE  IInv'
<1> USE BlockingAssumptions DEF IInv, EnterSyscall, LeaveSyscall, At, Goto,
            signalVars, stopVars, localVars
<1>1. TypeOK'
  BY DEF TypeOK, PCs
<1>2. Current'
  BY DEF Current
<1>3. Stops'
  BY DEF Stops, StoppedTogether
<1>4. Blocking'
  BY DEF TypeOK, Blocking
<1>5. Registered'
  BY DEF TypeOK, Registered, InBlock
<1> QED  BY <1>1, <1>2, <1>3, <1>4, <1>5

\* exit, exit_thread and exec.
LEMMA KillStep ==
    ASSUME IInv, NEW t \in Threads, NEW victims \in SUBSET Threads, Kill(t, victims)
    PROVE  IInv'
<1> USE BlockingAssumptions DEF IInv
<1>1. TypeOK'
  <2>1. /\ m_state' \in [Threads -> States] /\ m_should_die' \in [Threads -> BOOLEAN]
        /\ by' \in [Threads -> SUBSET {"signal", "death"}] /\ m_blocker' \in [Threads -> BOOLEAN]
        /\ verify_failed' \in BOOLEAN
    BY KillTyping DEF Kill, TypeOK
  <2>2. pc' \in [Threads -> PCs]
    BY DEF TypeOK, PCs, Kill, Goto
  <2> QED  BY <2>1, <2>2 DEF TypeOK, Kill, stopVars, localVars
<1> USE DEF Kill, KillThreads, UnblockedState, At, Goto, stopVars, localVars
<1>2. Current'
  BY DEF TypeOK, Current
<1>3. Stops'
  BY DEF Stops, StoppedTogether
<1>4. Blocking'
  BY DEF TypeOK, Blocking
<1>5. Registered'
  BY DEF TypeOK, PCs, Current, Blocking, Registered, InBlock
<1> QED  BY <1>1, <1>2, <1>3, <1>4, <1>5

\* A signal is dispatched at the end of a system call.
LEMMA CheckPendingSignalStep ==
    ASSUME IInv, NEW t \in Threads, CheckPendingSignal(t)
    PROVE  IInv'
<1> USE BlockingAssumptions DEF IInv
<1>1. TypeOK'
  <2>1. DispatchTyped
    BY DispatchTyping DEF TypeOK, CheckPendingSignal
  <2>2. pc' \in [Threads -> PCs]
    BY DEF TypeOK, PCs, CheckPendingSignal, Goto
  <2> QED  BY <2>1, <2>2 DEF DispatchTyped, TypeOK, CheckPendingSignal, localVars
<1> USE DEF CheckPendingSignal, At, Goto, DispatchOne, StopProcess, StopState,
            KillThreads, UnblockedState, signalVars, stopVars, localVars
<1>2. Current'
  BY DEF TypeOK, Current
<1>3. Stops'
  BY DEF TypeOK, States, Stops, StoppedTogether
<1>4. Blocking'
  BY DEF TypeOK, Blocking
<1>5. Registered'
  BY DEF TypeOK, Blocking, Registered, InBlock
<1> QED  BY <1>1, <1>2, <1>3, <1>4, <1>5

\* send_signal to a running, sleeping or stopped thread.
LEMMA SendSignalStep ==
    ASSUME IInv, NEW t \in Threads, NEW signal \in Signals, SendSignal(t, signal)
    PROVE  IInv'
<1> USE BlockingAssumptions DEF IInv
<1>1. TypeOK'
  <2>1. m_pending_signals' \in [Threads -> SUBSET Signals]
    BY DEF SendSignal, TypeOK
  <2>2. /\ m_state' \in [Threads -> States] /\ m_is_stopped' \in BOOLEAN
        /\ m_stop_state' \in [Threads -> {"Invalid", "Runnable", "Blocked", "Dying"}]
    <3>1. CASE m_state[t] = "Stopped"
      <4>1. ResumedState(t) \in States
        BY <3>1 DEF ResumedState, TypeOK, Stops, States
      <4> QED  BY <3>1, <4>1, ContinueTyping DEF SendSignal, TypeOK, stopVars
    <3>2. CASE m_state[t] # "Stopped"
      BY <3>2 DEF SendSignal, UnblockedState, TypeOK, States, stopVars
    <3> QED  BY <3>1, <3>2
  <2>3. m_blocker' \in [Threads -> BOOLEAN]
    BY DEF SendSignal, TypeOK
  <2>4. by' \in [Threads -> SUBSET {"signal", "death"}]
    <3>1. CASE by' = by
      BY <3>1 DEF TypeOK
    <3>2. CASE \E b \in BOOLEAN : by' = [by EXCEPT ![t] = IF b THEN @ \cup {"signal"} ELSE @]
      BY <3>2 DEF TypeOK
    <3> QED  BY <3>1, <3>2 DEF SendSignal, TypeOK
  <2> QED  BY <2>1, <2>2, <2>3, <2>4 DEF SendSignal, TypeOK, localVars
<1> USE DEF SendSignal, SignalsForState, ContinueProcess, ResumedState,
            UnblockedState, stopVars, localVars
<1>2. Current'
  BY DEF TypeOK, Current
<1>3. Stops'
  BY DEF TypeOK, Stops, StoppedTogether
<1>4. Blocking'
  BY DEF TypeOK, Stops, StoppedTogether, Blocking
<1>5. Registered'
  BY DEF TypeOK, Stops, Registered
<1> QED  BY <1>1, <1>2, <1>3, <1>4, <1>5

\* Every step keeps the invariant.
LEMMA NextIInv == IInv /\ [Next]_vars => IInv'
<1> SUFFICES ASSUME IInv, [Next]_vars PROVE IInv'
  OBVIOUS
<1>1. CASE UNCHANGED vars
  BY <1>1
     DEF IInv, TypeOK, Current, Stops, StoppedTogether, Blocking, Registered,
         vars, signalVars, stopVars, localVars
<1>2. ASSUME NEW t \in Threads, KernelStep(t) PROVE IInv'
  BY <1>2, SwitchAwayStep, DieStep, UnblockedStep, EndBlockStep,
     CheckPendingSignalStep
     DEF KernelStep
<1>3. ASSUME NEW t \in Threads, UserStep(t) PROVE IInv'
  <2>1. ASSUME NEW victims \in {Threads, {t}, Threads \ {t}},
               Kill(t, victims \ {u \in Threads : m_state[u] = "Dead"})
        PROVE  IInv'
    <3>1. victims \ {u \in Threads : m_state[u] = "Dead"} \in SUBSET Threads
      BY <2>1
    <3> QED  BY <2>1, <3>1, KillStep
  <2>2. CASE EnterSyscall(t) \/ LeaveSyscall(t) \/ BlockRefused(t)
    BY <2>2, SyscallStep, BlockRefusedStep
  <2>3. ASSUME NEW timeout \in BOOLEAN, NEW intr \in BOOLEAN, Block(t, timeout, intr) PROVE IInv'
    BY <2>3, BlockStep
  <2>4. ASSUME NEW signal \in Signals, SendSignal(t, signal) PROVE IInv'
    BY <2>4, SendSignalStep
  <2> QED  BY <1>3, <2>1, <2>2, <2>3, <2>4 DEF UserStep
<1>4. ASSUME NEW t \in Threads, Preempt(t) \/ Schedule(t) \/ Finalize(t) \/ TimerFires(t) PROVE IInv'
  BY <1>4, SwitchAwayStep, ScheduleStep, FinalizeStep, TimerFiresStep
<1>5. CASE WakeOneThread \/ WakeAllThreads
  BY <1>5, WakeStep
<1> QED  BY <1>1, <1>2, <1>3, <1>4, <1>5 DEF Next

\* The invariant holds in every reachable state, whatever the threads and the signals.
THEOREM Invariance == Spec => []IInv
<1>1. Init => IInv
  BY InitIInv
<1>2. IInv /\ [Next]_vars => IInv'
  BY NextIInv
<1> QED  BY <1>1, <1>2, PTL DEF Spec

\* Thread::set_state: the threads of a process stop together and continue
\* together, and Process::m_is_stopped says which.
THEOREM StopsTogether == Spec => []StoppedTogether
<1>1. IInv => StoppedTogether
  BY DEF IInv, Stops
<1> QED  BY <1>1, Invariance, PTL

\* Thread::block and Thread::unblock: a thread is Blocked exactly while its
\* m_blocker is set, but for a stop in between, and block() says WokeNormally
\* only if a wake took the blocker out of the queue.
THEOREM BlockersMeanAsleep == Spec => []BlockerMeansAsleep
<1>1. IInv => BlockerMeansAsleep
  BY DEF IInv, Blocking, Registered, BlockerMeansAsleep
<1> QED  BY <1>1, Invariance, PTL

----------------------------------------------------------------------------
(* No wake is lost while the process is not stopped *)

\* What a step that starts in a process that is not stopped does.
Reaches == Forgotten' \subseteq Forgotten /\ ~verify_failed'

\* The steps that neither touch the queue nor a timer.
LEMMA OtherStepsReach ==
    ASSUME IInv, ~verify_failed, ~m_is_stopped, NEW t \in Threads,
           \/ Preempt(t) \/ Yield(t) \/ DieIfNeeded(t) \/ Finalize(t)
           \/ EnterSyscall(t) \/ LeaveSyscall(t)
           \/ \E signal \in Signals : SendSignal(t, signal)
    PROVE  Reaches
<1> USE DEF Preempt, Yield, DieIfNeeded, Finalize, EnterSyscall, LeaveSyscall,
            SendSignal, PickNext
<1>1. UNCHANGED <<m_queue, timeout_unblocked, verify_failed>>
  BY DEF localVars
<1>2. ASSUME NEW u \in Threads, m_blocker'[u] PROVE m_blocker[u]
  BY <1>2 DEF IInv, TypeOK
<1> QED  BY <1>1, <1>2 DEF Reaches, Forgotten

\* set_should_die clears blockers and fails no VERIFY.
LEMMA KillReaches ==
    ASSUME ~verify_failed, ~m_is_stopped, NEW victims, NEW st, NEW bl, KillThreads(victims, st, bl)
    PROVE  ~verify_failed' /\ \A u \in Threads : m_blocker'[u] => bl[u]
BY DEF KillThreads

\* dispatch_one_pending_signal neither.
LEMMA DispatchReaches ==
    ASSUME ~verify_failed, ~m_is_stopped, NEW t \in Threads, NEW st, NEW bl, DispatchOne(t, st, bl)
    PROVE  ~verify_failed' /\ \A u \in Threads : m_blocker'[u] => bl[u]
BY KillReaches DEF DispatchOne

\* Signals that are dispatched and threads that are killed.
LEMMA DispatchStepsReach ==
    ASSUME IInv, ~verify_failed, ~m_is_stopped, NEW t \in Threads,
           \/ Schedule(t) \/ CheckPendingSignal(t)
           \/ \E victims \in SUBSET Threads : Kill(t, victims)
    PROVE  Reaches
<1>1. UNCHANGED <<m_queue, timeout_unblocked>>
  BY DEF Schedule, CheckPendingSignal, Kill, localVars
<1>2. ~verify_failed' /\ \A u \in Threads : m_blocker'[u] => m_blocker[u]
  BY DispatchReaches, KillReaches DEF Schedule, CheckPendingSignal, Kill
<1> QED  BY <1>1, <1>2 DEF Reaches, Forgotten

\* The loop of block() is left: the thread runs, so its blocker is not set, and
\* the process is not stopped.
LEMMA UnblockedReaches ==
    ASSUME IInv, ~verify_failed, ~m_is_stopped, NEW t \in Threads, Unblocked(t)
    PROVE  Reaches
<1>1. ~m_blocker[t] /\ m_state[t] # "Stopped"
  BY DEF IInv, Current, Stops, StoppedTogether, Unblocked, At
<1>2. ~verify_failed' /\ \A u \in Threads : m_blocker'[u] => m_blocker[u]
  <2> DEFINE bl == [m_blocker EXCEPT ![t] = FALSE]
  <2>1. \A u \in Threads : bl[u] => m_blocker[u]
    BY DEF IInv, TypeOK
  <2>2. CASE DispatchOne(t, m_state, bl)
    BY <2>1, <2>2, DispatchReaches
  <2>3. CASE m_blocker' = bl /\ UNCHANGED verify_failed
    BY <2>1, <2>3
  <2> QED  BY <1>1, <2>2, <2>3 DEF Unblocked
<1>3. /\ m_queue' = m_queue
      /\ \A u \in Threads : timeout_unblocked'[u] => timeout_unblocked[u]
  BY DEF IInv, TypeOK, Unblocked
<1> QED  BY <1>2, <1>3 DEF Reaches, Forgotten

\* Registering, waking, timing out and leaving.
LEMMA QueueStepsReach ==
    ASSUME IInv, ~verify_failed, ~m_is_stopped,
           \/ \E t \in Threads : \/ BlockRefused(t) \/ EndBlock(t) \/ TimerFires(t)
                                 \/ \E timeout, intr \in BOOLEAN : Block(t, timeout, intr)
           \/ WakeOneThread \/ WakeAllThreads
    PROVE  Reaches
<1> USE DEF IInv
<1>1. ASSUME NEW t \in Threads, BlockRefused(t) PROVE Reaches
  <2>1. Members(m_queue') = Members(m_queue)
    BY <1>1, RefusedQueue
  <2> QED  BY <1>1, <2>1 DEF BlockRefused, Reaches, Forgotten
<1>2. ASSUME NEW t \in Threads, EndBlock(t) PROVE Reaches
  <2>1. Members(m_queue') = Members(m_queue) \ {t}
    BY <1>2, EndBlockQueue
  <2>2. ~m_blocker[t]
    BY <1>2 DEF EndBlock, At, Current
  <2> QED  BY <1>2, <2>1, <2>2 DEF EndBlock, Reaches, Forgotten
<1>3. ASSUME NEW t \in Threads, TimerFires(t) PROVE Reaches
  <2>1. m_blocker[t] => m_state[t] = "Blocked"
    BY DEF Blocking, Stops, StoppedTogether
  <2> QED  BY <1>3, <2>1 DEF TimerFires, TypeOK, Reaches, Forgotten
<1>4. ASSUME NEW t \in Threads, NEW timeout \in BOOLEAN, NEW intr \in BOOLEAN, Block(t, timeout, intr)
      PROVE  Reaches
  <2>1. Members(m_queue') = Members(m_queue) \cup {t}
    BY <1>4, BlockQueue
  <2>2. ~timeout_unblocked[t]
    BY <1>4 DEF Block, At, Current, Blocking
  <2> QED  BY <1>4, <2>1, <2>2 DEF Block, TypeOK, Reaches, Forgotten
<1>5. CASE WakeOneThread \/ WakeAllThreads
  <2>1. PICK woken \in SUBSET Threads : /\ Members(m_queue') = Members(m_queue) \ woken
                                        /\ WakeThreads(woken)
    BY <1>5, WakeQueue
  <2>2. \A u \in woken : m_blocker[u] => m_state[u] = "Blocked"
    BY DEF Blocking, Stops, StoppedTogether
  <2>3. \A u \in Threads : m_blocker'[u] => m_blocker[u] /\ u \notin woken
    BY <2>1, <2>2 DEF WakeThreads
  <2> QED  BY <2>1, <2>3 DEF WakeThreads, Reaches, Forgotten
<1> QED  BY <1>1, <1>2, <1>3, <1>4, <1>5

\* Every step.
LEMMA NextReaches ==
    ASSUME IInv, Next, ~m_is_stopped
    PROVE  Reaches
<1>1. ~verify_failed
  BY DEF Next
<1>2. ASSUME NEW t \in Threads, KernelStep(t) PROVE Reaches
  BY <1>1, <1>2, OtherStepsReach, UnblockedReaches, QueueStepsReach,
     DispatchStepsReach
     DEF KernelStep
<1>3. ASSUME NEW t \in Threads, UserStep(t) PROVE Reaches
  <2>1. ASSUME NEW victims \in {Threads, {t}, Threads \ {t}},
               Kill(t, victims \ {u \in Threads : m_state[u] = "Dead"})
        PROVE  Reaches
    <3>1. victims \ {u \in Threads : m_state[u] = "Dead"} \in SUBSET Threads
      BY <2>1
    <3> QED  BY <1>1, <2>1, <3>1, DispatchStepsReach
  <2>2. CASE EnterSyscall(t) \/ LeaveSyscall(t) \/ \E signal \in Signals : SendSignal(t, signal)
    BY <1>1, <2>2, OtherStepsReach
  <2>3. CASE BlockRefused(t) \/ \E timeout, intr \in BOOLEAN : Block(t, timeout, intr)
    BY <1>1, <2>3, QueueStepsReach
  <2> QED  BY <1>3, <2>1, <2>2, <2>3 DEF UserStep
<1>4. ASSUME NEW t \in Threads, Preempt(t) \/ Schedule(t) \/ Finalize(t) \/ TimerFires(t)
      PROVE  Reaches
  BY <1>1, <1>4, OtherStepsReach, DispatchStepsReach, QueueStepsReach
<1>5. CASE WakeOneThread \/ WakeAllThreads
  BY <1>1, <1>5, QueueStepsReach
<1> QED  BY <1>2, <1>3, <1>4, <1>5 DEF Next

\* A wake or a timeout that comes while the process is not stopped reaches its
\* thread, and no VERIFY of set_should_die, set_state or block() fails then.
THEOREM WakesReach == Spec => WakesReachSleepers
<1>1. IInv /\ [Next]_vars => [~m_is_stopped => Reaches]_vars
  BY NextReaches
<1> QED  BY <1>1, Invariance, PTL DEF Spec, WakesReachSleepers, Reaches
=============================================================================
