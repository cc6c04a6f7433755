------------------------------ MODULE WorkQueue ------------------------------
(***************************************************************************)
(* Kernel/WorkQueue.{h,cpp}: the queue through which interrupt handlers    *)
(* and threads hand work to a kernel thread, and the WaitQueue that thread *)
(* sleeps on.  An item is appended under m_lock and the wake comes after   *)
(* it, so that other items, and the worker, may come in between.  A wake   *)
(* from an interrupt handler reaches the worker in a deferred call.        *)
(***************************************************************************)
EXTENDS Naturals, Sequences, WaitQueue

CONSTANTS Items,   \* the work items that are queued
          Worker,  \* the kernel thread
          NoItem   \* take_first() of an empty list

VARIABLES
    m_items,       \* WorkQueue::m_items
    m_wait_queue,  \* WorkQueue::m_wait_queue
    waking,        \* the items whose do_queue has still to call wake_one
    item,          \* the worker's local of that name
    have_more,     \* and this one
    pc,            \* where the worker is
    queued,        \* history: the items in the order they were appended
    done           \* history: the items in the order they were run

vars == <<m_items, m_wait_queue, waking, item, have_more, pc, queued, done>>

(* pc:  "take"        about to take an item
        "run"         about to run it
        "wait"        about to call wait_on
        "blocked"     asleep
        "unblocking"  a deferred call is to unblock it                        *)
PCs == {"take", "run", "wait", "blocked", "unblocking"}

Init ==
    /\ m_items = <<>>
    /\ m_wait_queue = NewQueue
    /\ waking = {}
    /\ item = NoItem
    /\ have_more = FALSE
    /\ pc = "take"
    /\ queued = <<>>
    /\ done = <<>>

----------------------------------------------------------------------------
(* do_queue *)

Enqueue(i) ==
    /\ i \notin ToSet(queued)
    /\ m_items' = Append(m_items, i)
    /\ queued' = Append(queued, i)
    /\ waking' = waking \cup {i}
    /\ UNCHANGED <<m_wait_queue, item, have_more, pc, done>>

Wake(i, in_irq) ==
    /\ i \in waking
    /\ waking' = waking \ {i}
    /\ m_wait_queue' = WakeOne(m_wait_queue)
    /\ pc' = IF WokenByOne(m_wait_queue) = {} THEN pc
             ELSE IF in_irq THEN "unblocking" ELSE "take"
    /\ UNCHANGED <<m_items, item, have_more, queued, done>>

RunDeferred ==
    /\ pc = "unblocking"
    /\ pc' = "take"
    /\ UNCHANGED <<m_items, m_wait_queue, waking, item, have_more, queued, done>>

----------------------------------------------------------------------------
(* The worker *)

TakeItem ==
    /\ pc = "take"
    /\ item' = IF m_items = <<>> THEN NoItem ELSE Head(m_items)
    /\ m_items' = IF m_items = <<>> THEN <<>> ELSE Tail(m_items)
    /\ have_more' = (m_items' # <<>>)
    /\ pc' = IF item' = NoItem THEN "wait" ELSE "run"
    /\ UNCHANGED <<m_wait_queue, waking, queued, done>>

\* Mutant: the worker always goes back to wait.
RunItem_Waits ==
    /\ pc = "run"
    /\ done' = Append(done, item)
    /\ item' = NoItem
    /\ pc' = "wait"
    /\ UNCHANGED <<m_items, m_wait_queue, waking, have_more, queued>>

RunItem ==
    /\ pc = "run"
    /\ done' = Append(done, item)
    /\ item' = NoItem
    /\ pc' = IF have_more THEN "take" ELSE "wait"
    /\ UNCHANGED <<m_items, m_wait_queue, waking, have_more, queued>>

\* Mutant: a wake that came while the worker was busy is not remembered.
WaitOn_Sleeps ==
    /\ pc = "wait"
    /\ m_wait_queue' = Queue(<<Worker>>, FALSE, TRUE)
    /\ pc' = "blocked"
    /\ UNCHANGED <<m_items, waking, item, have_more, queued, done>>

WaitOn ==
    /\ pc = "wait"
    /\ m_wait_queue' = AddBlocker(m_wait_queue, Worker)
    /\ pc' = IF ShouldAddBlocker(m_wait_queue) THEN "blocked" ELSE "take"
    /\ UNCHANGED <<m_items, waking, item, have_more, queued, done>>

----------------------------------------------------------------------------
KernelStep ==
    \/ TakeItem \/ RunItem \/ WaitOn \/ RunDeferred
    \/ \E i \in Items, in_irq \in BOOLEAN : Wake(i, in_irq)

Next == KernelStep \/ \E i \in Items : Enqueue(i)

Spec == Init /\ [][Next]_vars

\* The worker is a runnable thread like any other, interrupt handlers end, and
\* so do the items' functions.
FairSpec == Spec /\ WF_vars(KernelStep)

----------------------------------------------------------------------------
\* Types: in particular the worker registers at most one blocker.
TypeOK ==
    /\ m_items \in Seq(Items)
    /\ m_wait_queue \in Queues({Worker}) /\ Len(m_wait_queue.m_blockers) <= 1
    /\ waking \subseteq Items
    /\ item \in Items \cup {NoItem}
    /\ have_more \in BOOLEAN
    /\ pc \in PCs
    /\ queued \in Seq(Items) /\ done \in Seq(Items)

\* The worker does not sleep beside an item, unless its wake is still to come.
NoItemStranded ==
    pc = "blocked" /\ m_items # <<>> => \E i \in waking : TRUE

\* Items are run in the order they were queued, each once.
RunInOrder == IsPrefix(done, queued)

\* Every item that is queued is run, however the wakes fall together.
EveryItemRuns == \A i \in Items : i \in ToSet(queued) ~> i \in ToSet(done)
=============================================================================
