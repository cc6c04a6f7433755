-------------------------- MODULE ThreadJoinProofs --------------------------
(***************************************************************************)
(* Proofs about ThreadJoin, for every set of threads: what a join hands    *)
(* over, whom it may leave asleep, and when the VERIFYs of the end of a    *)
(* thread can fail.                                                        *)
(***************************************************************************)
EXTENDS ThreadJoin, WaitQueueProofs, TLAPS

(* The inductive invariant.                                                  *)

\* Where a thread is in its life, and what the process's books say of it: a
\* thread is counted until the finalizer has taken it off the list, and the
\* Dying were marked to die first.
Lives ==
    /\ m_thread_list \subseteq running
    /\ \A t \in Threads :
          /\ m_state[t] = "None" => /\ t \notin tid_map
                                    /\ ~m_should_die[t] /\ ~did_exit[t]
                                    /\ joined[t] = 0
          /\ m_state[t] \in {"Invalid", "Runnable", "Blocked", "Dying"} => t \in m_thread_list
          /\ m_state[t] \in {"Dying", "Dead"} => m_should_die[t]

\* create_thread: one at a time, and nobody else touches the new thread.
Creation ==
    /\ \A c \in Threads : pc[c] = "creating" =>
          target[c] \in Threads /\ m_state[target[c]] = "Invalid"
    /\ \A c, d \in Threads : pc[c] = "creating" /\ pc[d] = "creating" => c = d

InJoin(j) == pc[j] \in {"join", "leaving"}

\* join_thread: a joiner is the only one its joinee will ever have, the value it
\* leaves with is there, and it sleeps only while it is registered.
Joins ==
    /\ \A j \in Threads : InJoin(j) =>
          /\ target[j] \in Threads
          /\ m_state[target[j]] # "None"
          /\ ~m_is_joinable[target[j]]
          /\ joined[target[j]] = 0
    /\ \A i, j \in Threads : InJoin(i) /\ InJoin(j) /\ target[i] = target[j] => i = j
    /\ \A j \in Threads : pc[j] = "leaving" /\ ~m_should_die[j] => did_exit[target[j]]
    /\ \A j \in Threads : m_state[j] = "Blocked" => pc[j] = "join" /\ j \in m_blockers
    /\ \A t \in Threads : m_is_joinable[t] => joined[t] = 0
    /\ \A t \in Threads : joined[t] <= 1 /\ (joined[t] = 1 => did_exit[t])

\* Death: whoever kills a joinee kills its joiner too, and a blocker left behind
\* is a killed thread's.
Deaths ==
    /\ \A t \in Threads : m_is_joinable[t] /\ m_should_die[t] => did_exit[t]
    /\ \A j \in Threads : m_state[j] = "Blocked" /\ ~m_should_die[j] =>
          ~did_exit[target[j]] /\ ~m_should_die[target[j]]
    /\ \A j \in m_blockers : ~m_should_die[j] => m_state[j] = "Blocked"

\* The finalizer works on Dying threads and drops what it has taken off the list.
Burial ==
    /\ \A t \in dying : m_state[t] = "Dying"
    /\ fpc \in {"drop", "unref"} => burying \in Threads /\ m_state[burying] = "Dead"
    /\ fpc = "unref" => burying \notin m_thread_list

IInv == TypeOK /\ Lives /\ Creation /\ Joins /\ Deaths /\ Burial /\ PanicsAreKnown

\* Nobody has exited, joined or died when the process starts.
LEMMA InitIInv == Init => IInv
<1> USE JoinAssumptions
<1> SUFFICES ASSUME Init PROVE IInv
  OBVIOUS
<1>0. m_queue \in Queues({Finalizer})
  BY DEF Init, NewQueue, Queue, Queues
<1>0a. {exited, finalized, has_work} \subseteq BOOLEAN
  BY DEF Init
<1>0b. /\ m_state \in [Threads -> States] /\ pc \in [Threads -> PCs] /\ fpc \in FPCs
  BY DEF Init, States, PCs, FPCs
<1>1. TypeOK
  BY <1>0, <1>0a, <1>0b DEF Init, TypeOK
<1>2. Lives /\ Creation
  BY DEF Init, Lives, Creation
<1>3. Joins /\ Deaths
  BY DEF Init, Joins, Deaths, InJoin
<1>4. Burial /\ PanicsAreKnown
  BY DEF Init, Burial, PanicsAreKnown
<1> QED  BY <1>1, <1>2, <1>3, <1>4 DEF IInv

\* Entering a system call changes nothing but the place.
LEMMA EnterStep ==
    ASSUME IInv, panic = "no", NEW t \in Threads, Enter(t)
    PROVE  IInv'
<1> USE JoinAssumptions DEF IInv, Enter, At, Goto, joinVars, objectVars, workVars
<1>1. TypeOK'
  BY DEF TypeOK, PCs
<1>2. Lives'
  BY DEF Lives
<1>3. Creation'
  BY DEF Creation
<1>4. Joins'
  BY DEF Joins, TypeOK, InJoin, Lives
<1>5. Deaths'
  BY DEF Deaths
<1>6. Burial'
  BY DEF Burial, TypeOK, Lives, Creation
<1>7. PanicsAreKnown'
  BY DEF PanicsAreKnown, TypeOK
<1> QED  BY <1>1, <1>2, <1>3, <1>4, <1>5, <1>6, <1>7

\* create_thread makes the thread.
LEMMA CreateBeginStep ==
    ASSUME IInv, panic = "no", NEW c \in Threads, NEW t \in Threads,
           NEW joinable \in BOOLEAN, CreateBegin(c, t, joinable)
    PROVE  IInv'
<1> USE JoinAssumptions DEF IInv, CreateBegin, Calls, At, BigLockFree, Goto,
            workVars
<1>1. TypeOK'
  BY DEF TypeOK, States, PCs
<1>2. Lives'
  BY DEF Lives, TypeOK
<1>3. Creation'
  BY DEF Creation, TypeOK
<1>4. Joins'
  BY DEF Joins, TypeOK, InJoin, Lives
<1>5. Deaths'
  BY DEF Deaths, Lives
<1>6. Burial'
  BY DEF Burial, TypeOK, Lives, Creation
<1>7. PanicsAreKnown'
  BY DEF PanicsAreKnown, TypeOK
<1> QED  BY <1>1, <1>2, <1>3, <1>4, <1>5, <1>6, <1>7

\* create_thread starts it, or fails.
LEMMA CreateEndStep ==
    ASSUME IInv, panic = "no", NEW c \in Threads, NEW ok \in BOOLEAN, CreateEnd(c, ok)
    PROVE  IInv'
<1> USE JoinAssumptions DEF IInv, CreateEnd, At, Goto, ReturnTo, objectVars,
            workVars
<1>1. TypeOK'
  BY DEF TypeOK, PCs
<1>2. Lives'
  BY DEF Lives, Creation
<1>3. Creation'
  BY DEF Creation, TypeOK
<1>4. Joins'
  BY DEF Joins, TypeOK, InJoin, Lives
<1>5. Deaths'
  BY DEF Deaths, Creation
<1>6. Burial'
  BY DEF Burial, TypeOK, Lives, Creation
<1>7. PanicsAreKnown'
  BY DEF PanicsAreKnown, TypeOK
<1> QED  BY <1>1, <1>2, <1>3, <1>4, <1>5, <1>6, <1>7

\* A join or a detach that is refused.
LEMMA JoinFailsStep ==
    ASSUME IInv, panic = "no", NEW j \in Threads, NEW t \in Threads, JoinFails(j, t)
    PROVE  IInv'
<1> USE JoinAssumptions DEF IInv, JoinFails, Finds, CannotJoin, Calls, At,
            BigLockFree, Goto, ReturnTo, joinVars, objectVars, workVars
<1>1. TypeOK'
  BY DEF TypeOK, PCs
<1>2. Lives'
  BY DEF Lives
<1>3. Creation'
  BY DEF Creation
<1>4. Joins'
  BY DEF Joins, TypeOK, InJoin, Lives
<1>5. Deaths'
  BY DEF Deaths
<1>6. Burial'
  BY DEF Burial, TypeOK, Lives, Creation
<1>7. PanicsAreKnown'
  BY DEF PanicsAreKnown, TypeOK
<1> QED  BY <1>1, <1>2, <1>3, <1>4, <1>5, <1>6, <1>7

\* A join of a thread that has exited.
LEMMA JoinAtOnceStep ==
    ASSUME IInv, panic = "no", NEW j \in Threads, NEW t \in Threads, JoinAtOnce(j, t)
    PROVE  IInv'
<1> USE JoinAssumptions DEF IInv, JoinAtOnce, Finds, CannotJoin, StartJoin, Calls,
            At, BigLockFree, Goto, ReturnTo, objectVars, workVars
<1>1. TypeOK'
  BY DEF TypeOK, PCs, Joins
<1>2. Lives'
  BY DEF Lives
<1>3. Creation'
  BY DEF Creation
<1>4. Joins'
  BY DEF Joins, TypeOK, InJoin, Lives
<1>5. Deaths'
  BY DEF Deaths
<1>6. Burial'
  BY DEF Burial, TypeOK, Lives, Creation
<1>7. PanicsAreKnown'
  BY DEF PanicsAreKnown, TypeOK
<1> QED  BY <1>1, <1>2, <1>3, <1>4, <1>5, <1>6, <1>7

\* A join that sleeps.
LEMMA JoinBlocksStep ==
    ASSUME IInv, panic = "no", NEW j \in Threads, NEW t \in Threads, JoinBlocks(j, t)
    PROVE  IInv'
<1> USE JoinAssumptions DEF IInv, JoinBlocks, Finds, CannotJoin, StartJoin, Calls,
            At, BigLockFree, Goto, objectVars, workVars
<1>1. TypeOK'
  BY DEF TypeOK, States, PCs
<1>2. Lives'
  BY DEF Lives
<1>3. Creation'
  BY DEF Creation
<1>4. Joins'
  BY DEF Joins, TypeOK, InJoin, Lives
<1>5. Deaths'
  BY DEF Deaths, TypeOK
<1>6. Burial'
  BY DEF Burial, TypeOK, Lives, Creation
<1>7. PanicsAreKnown'
  BY DEF PanicsAreKnown, TypeOK
<1> QED  BY <1>1, <1>2, <1>3, <1>4, <1>5, <1>6, <1>7

\* A join that ends.
LEMMA LeaveJoinStep ==
    ASSUME IInv, panic = "no", NEW j \in Threads, LeaveJoin(j)
    PROVE  IInv'
<1> USE JoinAssumptions DEF IInv, LeaveJoin, At, BigLockFree, Goto, ReturnTo,
            objectVars, workVars
<1>1. TypeOK'
  BY DEF TypeOK, PCs, Joins, InJoin
<1>2. Lives'
  BY DEF Lives, Joins
<1>3. Creation'
  BY DEF Creation
<1>4. Joins'
  BY DEF Joins, TypeOK, InJoin, Lives
<1>5. Deaths'
  BY DEF Deaths
<1>6. Burial'
  BY DEF Burial, TypeOK, Lives, Creation
<1>7. PanicsAreKnown'
  BY DEF PanicsAreKnown, TypeOK
<1> QED  BY <1>1, <1>2, <1>3, <1>4, <1>5, <1>6, <1>7

\* detach_thread.
LEMMA DetachStep ==
    ASSUME IInv, panic = "no", NEW c \in Threads, NEW t \in Threads, Detach(c, t)
    PROVE  IInv'
<1> USE JoinAssumptions DEF IInv, Detach, Finds, Calls, At, BigLockFree, Goto,
            ReturnTo, objectVars, workVars
<1>1. TypeOK'
  BY DEF TypeOK, PCs
<1>2. Lives'
  BY DEF Lives
<1>3. Creation'
  BY DEF Creation
<1>4. Joins'
  BY DEF Joins, TypeOK, InJoin, Lives
<1>5. Deaths'
  BY DEF Deaths
<1>6. Burial'
  BY DEF Burial, TypeOK, Lives, Creation
<1>7. PanicsAreKnown'
  BY DEF PanicsAreKnown, TypeOK
<1> QED  BY <1>1, <1>2, <1>3, <1>4, <1>5, <1>6, <1>7

\* Process::die() marks joiners together with their joinees.
LEMMA ExitStep ==
    ASSUME IInv, panic = "no", NEW t \in Threads, Exit(t)
    PROVE  IInv'
<1> USE JoinAssumptions DEF IInv, Exit, Kill, Calls, At, BigLockFree, joinVars,
            workVars
<1>1. TypeOK'
  BY DEF TypeOK, PCs
<1>2. Lives'
  BY DEF Lives, TypeOK
<1>3. Creation'
  BY DEF Creation
<1>4. Joins'
  BY DEF Joins, TypeOK, InJoin, Lives
<1>5. Deaths'
  BY DEF Deaths, TypeOK, Lives
<1>6. Burial'
  BY DEF Burial, TypeOK, Lives, Creation
<1>7. PanicsAreKnown'
  BY DEF PanicsAreKnown, TypeOK
<1> QED  BY <1>1, <1>2, <1>3, <1>4, <1>5, <1>6, <1>7

\* exec marks every other thread: a sleeping joiner with its joinee.
LEMMA ExecStep ==
    ASSUME IInv, panic = "no", NEW t \in Threads, Exec(t)
    PROVE  IInv'
<1> USE JoinAssumptions DEF IInv, Exec, Kill, Calls, At, BigLockFree, ReturnTo,
            joinVars, objectVars, workVars
<1>1. TypeOK'
  BY DEF TypeOK, PCs
<1>2. Lives'
  BY DEF Lives, TypeOK
<1>3. Creation'
  BY DEF Creation
<1>4. Joins'
  BY DEF Joins, TypeOK, InJoin, Lives
<1>5. Deaths'
  BY DEF Deaths, TypeOK, Lives
<1>6. Burial'
  BY DEF Burial, TypeOK, Lives, Creation
<1>7. PanicsAreKnown'
  BY DEF PanicsAreKnown, TypeOK
<1> QED  BY <1>1, <1>2, <1>3, <1>4, <1>5, <1>6, <1>7

\* exit_thread wakes the joiner in the step that makes the value known.
LEMMA ExitThreadStep ==
    ASSUME IInv, panic = "no", NEW t \in Threads, ExitThread(t)
    PROVE  IInv'
<1> USE JoinAssumptions DEF IInv, ExitThread, ThreadDidExit, Joiners, Calls, At,
            BigLockFree, objectVars, workVars
<1>1. TypeOK'
  BY DEF TypeOK, PCs
<1>2. Lives'
  BY DEF Lives
<1>3. Creation'
  BY DEF Creation
<1>4. Joins'
  BY DEF Joins, TypeOK, InJoin, Lives
<1>5. Deaths'
  BY DEF Deaths, TypeOK, Joins
<1>6. Burial'
  BY DEF Burial, TypeOK, Lives, Creation
<1>7. PanicsAreKnown'
  BY DEF PanicsAreKnown, TypeOK
<1> QED  BY <1>1, <1>2, <1>3, <1>4, <1>5, <1>6, <1>7

\* The scheduler lets a thread die.
LEMMA DieStep ==
    ASSUME IInv, panic = "no", NEW t \in Threads, Die(t)
    PROVE  IInv'
<1> USE JoinAssumptions DEF IInv
<1>0. m_queue' \in Queues({Finalizer})
  <2>1. m_queue \in Queues({Finalizer}) /\ Finalizer \in {Finalizer}
    BY DEF TypeOK
  <2>2. WakeAll(m_queue) \in Queues({Finalizer})
    BY <2>1, QueueTyping
  <2> QED  BY <2>1, <2>2 DEF Die, NotifyFinalizer
<1> USE DEF Die, NotifyFinalizer, joinVars, objectVars
<1>1. TypeOK'
  BY <1>0 DEF TypeOK, States, PCs, FPCs
<1>2. Lives'
  BY DEF Lives
<1>3. Creation'
  BY DEF Creation
<1>4. Joins'
  BY DEF Joins, TypeOK, InJoin, Lives
<1>5. Deaths'
  BY DEF Deaths
<1>6. Burial'
  BY DEF Burial, TypeOK, Lives, Creation
<1>7. PanicsAreKnown'
  BY DEF PanicsAreKnown, TypeOK
<1> QED  BY <1>1, <1>2, <1>3, <1>4, <1>5, <1>6, <1>7

\* ~Thread(): a counted thread still has its running reference.
LEMMA DestroyStep ==
    ASSUME IInv, panic = "no", NEW t \in Threads, Destroy(t)
    PROVE  IInv'
<1> USE JoinAssumptions DEF IInv, Destroy, FindsDying, Referenced, joinVars,
            workVars
<1>1. TypeOK'
  BY DEF TypeOK, Lives
<1>2. Lives'
  BY DEF Lives
<1>3. Creation'
  BY DEF Creation
<1>4. Joins'
  BY DEF Joins, TypeOK, InJoin, Lives
<1>5. Deaths'
  BY DEF Deaths
<1>6. Burial'
  BY DEF Burial, TypeOK, Lives, Creation
<1>7. PanicsAreKnown'
  BY DEF PanicsAreKnown, TypeOK
<1> QED  BY <1>1, <1>2, <1>3, <1>4, <1>5, <1>6, <1>7

\* FinalizerTask: wait_forever.
LEMMA WaitStep ==
    ASSUME IInv, panic = "no", FinalizerTask, Wait
    PROVE  IInv'
<1> USE JoinAssumptions DEF IInv
<1>0. m_queue' \in Queues({Finalizer})
  BY QueueTyping DEF TypeOK, Wait
<1> USE DEF FinalizerTask, Wait, joinVars, objectVars
<1>1. TypeOK'
  BY <1>0 DEF TypeOK, FPCs
<1>2. Lives'
  BY DEF Lives
<1>3. Creation'
  BY DEF Creation
<1>4. Joins'
  BY DEF Joins, TypeOK, InJoin, Lives
<1>5. Deaths'
  BY DEF Deaths
<1>6. Burial'
  BY DEF Burial, TypeOK, Lives, Creation
<1>7. PanicsAreKnown'
  BY DEF PanicsAreKnown, TypeOK
<1> QED  BY <1>1, <1>2, <1>3, <1>4, <1>5, <1>6, <1>7

\* FinalizerTask: the look at the flag.
LEMMA CheckStep ==
    ASSUME IInv, panic = "no", FinalizerTask, Check
    PROVE  IInv'
<1> USE JoinAssumptions DEF IInv, FinalizerTask, Check, joinVars, objectVars
<1>1. TypeOK'
  BY DEF TypeOK, FPCs
<1>2. Lives'
  BY DEF Lives
<1>3. Creation'
  BY DEF Creation
<1>4. Joins'
  BY DEF Joins, TypeOK, InJoin, Lives
<1>5. Deaths'
  BY DEF Deaths
<1>6. Burial'
  BY DEF Burial, TypeOK, Lives, Creation
<1>7. PanicsAreKnown'
  BY DEF PanicsAreKnown, TypeOK
<1> QED  BY <1>1, <1>2, <1>3, <1>4, <1>5, <1>6, <1>7

\* FinalizerTask: dying_threads.
LEMMA CollectStep ==
    ASSUME IInv, panic = "no", FinalizerTask, Collect
    PROVE  IInv'
<1> USE JoinAssumptions DEF IInv, FinalizerTask, Collect, Finalizable, joinVars,
            objectVars
<1>1. TypeOK'
  BY DEF TypeOK, FPCs
<1>2. Lives'
  BY DEF Lives
<1>3. Creation'
  BY DEF Creation
<1>4. Joins'
  BY DEF Joins, TypeOK, InJoin, Lives
<1>5. Deaths'
  BY DEF Deaths
<1>6. Burial'
  BY DEF Burial, TypeOK, Lives, Creation
<1>7. PanicsAreKnown'
  BY DEF PanicsAreKnown, TypeOK
<1> QED  BY <1>1, <1>2, <1>3, <1>4, <1>5, <1>6, <1>7

\* FinalizerTask: back to the head of the loop.
LEMMA NoneLeftStep ==
    ASSUME IInv, panic = "no", FinalizerTask, NoneLeft
    PROVE  IInv'
<1> USE JoinAssumptions DEF IInv, FinalizerTask, NoneLeft, joinVars, objectVars
<1>1. TypeOK'
  BY DEF TypeOK, FPCs
<1>2. Lives'
  BY DEF Lives
<1>3. Creation'
  BY DEF Creation
<1>4. Joins'
  BY DEF Joins, TypeOK, InJoin, Lives
<1>5. Deaths'
  BY DEF Deaths
<1>6. Burial'
  BY DEF Burial, TypeOK, Lives, Creation
<1>7. PanicsAreKnown'
  BY DEF PanicsAreKnown, TypeOK
<1> QED  BY <1>1, <1>2, <1>3, <1>4, <1>5, <1>6, <1>7

\* Thread::finalize.
LEMMA FinalizeStep ==
    ASSUME IInv, panic = "no", NEW t \in Threads, Finalize(t)
    PROVE  IInv'
<1> USE JoinAssumptions DEF IInv
<1>1. TypeOK'
  BY DEF TypeOK, States, FPCs, Finalize, joinVars, objectVars
<1>2. Lives'
  BY DEF Lives, Burial, Finalize, joinVars, objectVars
<1>3. Creation'
  BY DEF Creation, Burial, Finalize, joinVars
<1>4. Joins'
  BY DEF Joins, InJoin, Finalize, joinVars
<1>5. Deaths'
  BY DEF Deaths, Burial, Finalize, joinVars
<1>6. Burial'
  BY DEF Burial, TypeOK, Finalize
<1>7. PanicsAreKnown'
  BY DEF PanicsAreKnown, Finalize
<1> QED  BY <1>1, <1>2, <1>3, <1>4, <1>5, <1>6, <1>7

\* drop_thread_count.
LEMMA DropThreadCountStep ==
    ASSUME IInv, panic = "no", DropThreadCount
    PROVE  IInv'
<1> USE JoinAssumptions DEF IInv
<1>1. TypeOK'
  BY DEF TypeOK, FPCs, DropThreadCount, joinVars
<1>2. Lives'
  BY DEF Lives, Burial, DropThreadCount, joinVars
<1>3. Creation'
  BY DEF Creation, DropThreadCount, joinVars
<1>4. Joins'
  BY DEF Joins, InJoin, DropThreadCount, joinVars
<1>5. Deaths'
  BY DEF Deaths, DropThreadCount, joinVars
<1>6. Burial'
  BY DEF Burial, DropThreadCount
<1>7. PanicsAreKnown'
  BY DEF PanicsAreKnown, TypeOK, DropThreadCount, joinVars
<1> QED  BY <1>1, <1>2, <1>3, <1>4, <1>5, <1>6, <1>7

\* The running reference goes after the count.
LEMMA UnrefStep ==
    ASSUME IInv, panic = "no", Unref
    PROVE  IInv'
<1> USE JoinAssumptions DEF IInv
<1>1. TypeOK'
  BY DEF TypeOK, FPCs, Unref, joinVars
<1>2. Lives'
  BY DEF Lives, Burial, Unref, joinVars
<1>3. Creation'
  BY DEF Creation, Unref, joinVars
<1>4. Joins'
  BY DEF Joins, InJoin, Unref, joinVars
<1>5. Deaths'
  BY DEF Deaths, Unref, joinVars
<1>6. Burial'
  BY DEF Burial, Unref
<1>7. PanicsAreKnown'
  BY DEF PanicsAreKnown, TypeOK, Unref, joinVars
<1> QED  BY <1>1, <1>2, <1>3, <1>4, <1>5, <1>6, <1>7

\* A VERIFY that fails: whoever met the joiner's blocker met a killed thread's.
LEMMA PanicStep ==
    ASSUME IInv, panic = "no", NEW c \in Threads, NEW t \in Threads,
           LookupFails(c, t) \/ ExitThreadFreed(t) \/ FinalizeJoined(t)
    PROVE  IInv'
<1>1. UNCHANGED <<m_state, m_is_joinable, m_should_die, joinVars, pc, objectVars, workVars>>
  BY DEF LookupFails, ExitThreadFreed, FinalizeJoined, Panic
<1>2. panic' \in {"ref", "freed", "exit_value"}
  BY DEF LookupFails, ExitThreadFreed, FinalizeJoined, Panic
<1>3. /\ Lives' /\ Creation' /\ Joins' /\ Deaths' /\ Burial'
  BY <1>1
     DEF IInv, Lives, Creation, Joins, InJoin, Deaths, Burial, joinVars,
         objectVars, workVars
<1>4. TypeOK'
  BY <1>1, <1>2 DEF IInv, TypeOK, joinVars, objectVars, workVars
<1>5. CASE LookupFails(c, t)
  <2>1. PanicsAreKnown'
    BY <1>5 DEF PanicsAreKnown, LookupFails, Panic
  <2> QED  BY <1>3, <1>4, <2>1 DEF IInv
<1>6. CASE ExitThreadFreed(t)
  <2>1. PICK j \in m_blockers : j \notin tid_map
    BY <1>6 DEF ExitThreadFreed, Joiners
  <2>2. m_should_die[j]
    BY <2>1 DEF IInv, TypeOK, Lives, Deaths
  <2>3. PanicsAreKnown'
    BY <1>1, <2>1, <2>2 DEF PanicsAreKnown, joinVars
  <2> QED  BY <1>3, <1>4, <2>3 DEF IInv
<1>7. CASE FinalizeJoined(t)
  <2>1. PICK j \in m_blockers : target[j] = t
    BY <1>7 DEF FinalizeJoined, Joiners
  <2>2. m_should_die[t]
    BY <1>7 DEF FinalizeJoined, IInv, Burial, Lives
  <2>3. m_should_die[j]
    BY <2>1, <2>2 DEF IInv, TypeOK, Deaths
  <2>4. PanicsAreKnown'
    BY <1>1, <2>1, <2>3 DEF PanicsAreKnown, joinVars
  <2> QED  BY <1>3, <1>4, <2>4 DEF IInv
<1> QED  BY <1>5, <1>6, <1>7

\* A system call of one thread.
LEMMA SystemCallSteps ==
    ASSUME IInv, panic = "no", NEW t \in Threads, SystemCall(t)
    PROVE  IInv'
<1>1. CASE Enter(t)
  BY <1>1, EnterStep
<1>2. ASSUME NEW u \in Threads,
             \/ \E joinable \in BOOLEAN : CreateBegin(t, u, joinable)
             \/ JoinFails(t, u) \/ JoinAtOnce(t, u) \/ JoinBlocks(t, u)
             \/ Detach(t, u) \/ LookupFails(t, u)
      PROVE  IInv'
  BY <1>2, CreateBeginStep, JoinFailsStep, JoinAtOnceStep, JoinBlocksStep,
         DetachStep, PanicStep
<1>3. CASE \E ok \in BOOLEAN : CreateEnd(t, ok)
  BY <1>3, CreateEndStep
<1>4. CASE LeaveJoin(t)
  BY <1>4, LeaveJoinStep
<1>5. CASE Exit(t) \/ Exec(t) \/ ExitThread(t) \/ ExitThreadFreed(t)
  BY <1>5, ExitStep, ExecStep, ExitThreadStep, PanicStep
<1> QED  BY <1>1, <1>2, <1>3, <1>4, <1>5 DEF SystemCall

\* A step of the finalizer.
LEMMA FinalizerSteps ==
    ASSUME IInv, panic = "no", FinalizerStep
    PROVE  IInv'
<1>1. CASE FinalizerTask
  BY <1>1, WaitStep, CheckStep, CollectStep, NoneLeftStep DEF FinalizerTask
<1>2. ASSUME NEW t \in Threads, Finalize(t) \/ FinalizeJoined(t)
      PROVE  IInv'
  BY <1>2, FinalizeStep, PanicStep
<1>3. CASE DropThreadCount \/ Unref
  BY <1>3, DropThreadCountStep, UnrefStep
<1> QED  BY <1>1, <1>2, <1>3 DEF FinalizerStep

\* Every step keeps the invariant.
LEMMA NextIInv == IInv /\ [Next]_vars => IInv'
<1> SUFFICES ASSUME IInv, [Next]_vars PROVE IInv'
  OBVIOUS
<1>1. CASE UNCHANGED vars
  <2>1. UNCHANGED <<m_state, m_is_joinable, m_should_die, joinVars, pc, objectVars, workVars, panic>>
    BY <1>1 DEF vars
  <2>2. TypeOK' /\ PanicsAreKnown'
    BY <2>1 DEF IInv, TypeOK, PanicsAreKnown, joinVars, objectVars, workVars
  <2>3. Lives' /\ Creation' /\ Joins' /\ Deaths' /\ Burial'
    BY <2>1
       DEF IInv, Lives, Creation, Joins, InJoin, Deaths, Burial, joinVars,
           objectVars, workVars
  <2> QED  BY <2>2, <2>3 DEF IInv
<1>2. CASE Next
  <2>1. panic = "no"
    BY <1>2 DEF Next
  <2>2. ASSUME NEW t \in Threads, SystemCall(t) \/ Die(t) \/ Destroy(t) PROVE IInv'
    BY <2>1, <2>2, SystemCallSteps, DieStep, DestroyStep
  <2>3. CASE FinalizerStep
    BY <2>1, <2>3, FinalizerSteps
  <2> QED  BY <1>2, <2>2, <2>3 DEF Next
<1> QED  BY <1>1, <1>2

\* The invariant holds in every reachable state, whatever the threads.
THEOREM Invariance == Spec => []IInv
<1>1. Init => IInv
  BY InitIInv
<1>2. IInv /\ [Next]_vars => IInv'
  BY NextIInv
<1> QED  BY <1>1, <1>2, PTL DEF Spec

\* join_thread: a value is handed over once, by a thread that called
\* exit_thread, and nobody who is to live on sleeps in a join of a thread that
\* has ended (JoinBlocker and JoinBlockCondition, Thread.h).
THEOREM JoinsHandOver == Spec => []JoinHandsOver
<1>1. IInv => JoinHandsOver
  <2> SUFFICES ASSUME IInv PROVE JoinHandsOver
    OBVIOUS
  <2>1. ASSUME NEW j \in Threads, m_state[j] = "Blocked", ~m_should_die[j]
        PROVE  ~did_exit[target[j]] /\ m_state[target[j]] \notin {"Dying", "Dead"}
    <3>1. target[j] \in Threads
      BY <2>1 DEF IInv, Joins, InJoin
    <3>2. ~did_exit[target[j]] /\ ~m_should_die[target[j]]
      BY <2>1 DEF IInv, Deaths
    <3> QED  BY <3>1, <3>2 DEF IInv, Lives
  <2> QED  BY <2>1 DEF IInv, JoinHandsOver, Joins
<1> QED  BY <1>1, Invariance, PTL

\* VERIFY(m_thread_did_exit) and the touch of a freed JoinBlocker need a joiner
\* that was killed before it could destroy its blocker.
THEOREM JoinPanics == Spec => []PanicsAreKnown
<1>1. IInv => PanicsAreKnown
  BY DEF IInv
<1> QED  BY <1>1, Invariance, PTL
=============================================================================
