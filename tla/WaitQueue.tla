------------------------------ MODULE WaitQueue ------------------------------
(***************************************************************************)
(* Kernel/WaitQueue.{h,cpp} and the part of Thread::BlockCondition         *)
(* (Kernel/Thread.h) it is built on: the queue of registered blockers, the *)
(* pending wake request, and the should-block switch.  Every operation     *)
(* runs under the queue's m_lock, so each is one operator from the queue   *)
(* before to the queue after.  A blocker is named by the thread it belongs *)
(* to: a thread has at most one, the `blocker' on the stack of             *)
(* Thread::block().                                                        *)
(***************************************************************************)
EXTENDS Naturals, Sequences, SequencesExt

Queues(T) == [m_blockers : Seq(T), m_wake_requested : BOOLEAN, m_should_block : BOOLEAN]

\* A queue with these blockers, pending wake and should-block switch.
Queue(blockers, wake, block) ==
    [m_blockers |-> blockers, m_wake_requested |-> wake, m_should_block |-> block]

NewQueue == Queue(<<>>, FALSE, TRUE)

\* The threads whose blocker is registered.
Members(q) == ToSet(q.m_blockers)

\* Mutant: a blocker is always added.
ShouldAddBlocker_Always(q) == TRUE

\* WaitQueue::should_add_blocker's answer.
ShouldAddBlocker(q) == ~q.m_wake_requested /\ q.m_should_block

\* BlockCondition::add_blocker: a refused blocker uses up the pending wake.
AddBlocker(q, t) ==
    IF ShouldAddBlocker(q)
      THEN Queue(Append(q.m_blockers, t), q.m_wake_requested, q.m_should_block)
      ELSE Queue(q.m_blockers, FALSE, q.m_should_block)

\* BlockCondition::remove_blocker, from ~Blocker; the blocker may be gone.
RemoveBlocker(q, t) ==
    IF t \in Members(q)
      THEN Queue(RemoveAt(q.m_blockers,
                          CHOOSE i \in DOMAIN q.m_blockers : q.m_blockers[i] = t),
                 q.m_wake_requested, q.m_should_block)
      ELSE q

\* WaitQueue::should_block(bool).
SetShouldBlock(q, b) == Queue(q.m_blockers, q.m_wake_requested, b)

\* Mutant: the blocker that is unblocked stays in the queue.
WakeOne_KeepsBlocker(q) ==
    IF q.m_blockers = <<>> THEN Queue(<<>>, TRUE, q.m_should_block)
                           ELSE Queue(q.m_blockers, FALSE, q.m_should_block)

\* WaitQueue::wake_one: the first blocker is unblocked and leaves the queue;
\* with nobody registered the wake is remembered for the next one to come.
WakeOne(q) ==
    IF q.m_blockers = <<>> THEN Queue(<<>>, TRUE, q.m_should_block)
                           ELSE Queue(Tail(q.m_blockers), FALSE, q.m_should_block)

WokenByOne(q) == IF q.m_blockers = <<>> THEN {} ELSE {Head(q.m_blockers)}

\* WaitQueue::wake_all.
WakeAll(q) ==
    Queue(<<>>, q.m_blockers = <<>>, q.m_should_block)
=============================================================================
