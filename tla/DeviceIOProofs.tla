--------------------------- MODULE DeviceIOProofs ---------------------------
(***************************************************************************)
(* Proofs about DeviceIO, for every set of threads, of drivers and of      *)
(* calls and for all bounds: the promises of the WorkQueue it composes,    *)
(* and the life of a request, from make_request to its completion and the  *)
(* return of its caller, under each of the three drivers.                  *)
(***************************************************************************)
EXTENDS DeviceIO, WaitQueueProofs

\* The items: QueueWork numbers them from 1.
AnyItem == Nat \ {0}

\* The item the worker is at, if any.
AtHand == IF pc = "run" THEN <<item>> ELSE <<>>

\* The worker is on its way to wait_on: it will not look at m_items again before
\* it has called it.
GoesToWait == pc \in {"wait", "blocked"} \/ (pc = "run" /\ ~have_more)

(* The inductive invariant of the WorkQueue.                                 *)

\* What the worker, and those who queue items, keep in their variables.
QueueTypes ==
    /\ m_items \in Seq(AnyItem) /\ queued \in Seq(AnyItem) /\ done \in Seq(AnyItem)
    /\ pc \in WQ!PCs
    /\ pc = "run" => item \in AnyItem
    /\ item \in AnyItem \cup {0} /\ waking \subseteq AnyItem
    /\ have_more \in BOOLEAN

\* The worker's blocker is registered exactly while it sleeps, and
\* then no wake is pending.
OneSleeper ==
    /\ m_wait_queue \in Queues({"worker"})
    /\ m_wait_queue.m_should_block
    /\ m_wait_queue.m_blockers = IF pc = "blocked" THEN <<"worker">> ELSE <<>>
    /\ pc = "blocked" => ~m_wait_queue.m_wake_requested

\* Items that the worker will not see before it waits have a wake under way, or
\* one that is remembered.
Awaited == GoesToWait /\ m_items # <<>> => waking # {} \/ m_wait_queue.m_wake_requested

\* What was queued is what was run, is run and will be, in this order.
Order == queued = (done \o AtHand) \o m_items

\* The whole of it.
QInv == QueueTypes /\ OneSleeper /\ Awaited /\ Order

\* Nothing is queued at the start.
LEMMA InitQInv == Init => QInv
<1> SUFFICES ASSUME WQ!Init PROVE QInv
  BY DEF Init
<1>3. /\ m_items = <<>> /\ queued = <<>> /\ done = <<>> /\ pc = "take" /\ have_more = FALSE
      /\ item = 0 /\ waking = {}
  BY DEF WQ!Init
<1>4. QueueTypes
  <2>1. <<>> \in Seq(AnyItem) /\ "take" \in WQ!PCs
    BY DEF WQ!PCs
  <2>2. have_more \in BOOLEAN
    BY <1>3
  <2> QED  BY <1>3, <2>1, <2>2 DEF QueueTypes
<1>5. Awaited
  BY <1>3 DEF Awaited
<1>1. OneSleeper
  BY DEF WQ!Init, WQ!NewQueue, WQ!Queue, OneSleeper, Queues
<1>2. Order
  BY DEF WQ!Init, Order, AtHand
<1> QED  BY <1>1, <1>2, <1>4, <1>5 DEF QInv

\* do_queue's first half.
LEMMA EnqueueStep ==
    ASSUME QInv, NEW i \in AnyItem, WQ!Enqueue(i)
    PROVE  QInv'
<1> USE DEF QInv
<1>1. QueueTypes'
  BY DEF QueueTypes, WQ!Enqueue
<1>2. OneSleeper' /\ Awaited'
  BY DEF OneSleeper, Awaited, GoesToWait, WQ!Enqueue
<1>3. Order'
  <2> DEFINE a == done \o AtHand
  <2>1. a \in Seq(AnyItem) /\ m_items \in Seq(AnyItem) /\ queued = a \o m_items
    BY DEF QueueTypes, AtHand, Order
  <2>2. /\ m_items' = Append(m_items, i) /\ queued' = Append(queued, i)
        /\ (done \o AtHand)' = a
    BY DEF WQ!Enqueue, AtHand
  <2> HIDE DEF a
  <2>3. Append(a \o m_items, i) = a \o Append(m_items, i)
    <3>1. <<i>> \in Seq(AnyItem) /\ a \o m_items \in Seq(AnyItem)
      BY <2>1
    <3>2. Append(a \o m_items, i) = (a \o m_items) \o <<i>>
      BY <3>1, AppendIsConcat
    <3>3. Append(m_items, i) = m_items \o <<i>>
      BY <2>1, AppendIsConcat
    <3>4. (a \o m_items) \o <<i>> = a \o (m_items \o <<i>>)
      BY <2>1, <3>1, ConcatAssociative
    <3> QED  BY <3>2, <3>3, <3>4
  <2> QED  BY <2>1, <2>2, <2>3 DEF Order
<1> QED  BY <1>1, <1>2, <1>3

\* do_queue's second half: a sleeping worker is woken, for another the wake is
\* remembered.
LEMMA WakeStep ==
    ASSUME QInv, NEW i, NEW in_irq \in BOOLEAN, WQ!Wake(i, in_irq)
    PROVE  QInv'
<1> USE DEF QInv
<1>1. CASE pc = "blocked"
  <2>1. m_wait_queue.m_blockers = <<"worker">>
    BY <1>1 DEF OneSleeper
  <2>2. WQ!WokenByOne(m_wait_queue) # {} /\ WQ!WakeOne(m_wait_queue).m_blockers = <<>>
    BY <2>1 DEF WQ!WokenByOne, WQ!WakeOne, WQ!Queue
  <2>3. pc' \in {"unblocking", "take"}
    BY <2>2 DEF WQ!Wake
  <2>4. /\ m_wait_queue' \in Queues({"worker"}) /\ m_wait_queue'.m_should_block
        /\ m_wait_queue'.m_blockers = <<>>
    BY <2>1, <2>2 DEF OneSleeper, Queues, WQ!Queue, WQ!WakeOne, WQ!Wake
  <2>5. QueueTypes'
    BY <2>3 DEF QueueTypes, WQ!PCs, WQ!Wake
  <2>6. OneSleeper' /\ Awaited'
    BY <2>3, <2>4 DEF OneSleeper, Awaited, GoesToWait
  <2>7. Order'
    BY <1>1, <2>3 DEF Order, AtHand, WQ!Wake
  <2> QED  BY <2>5, <2>6, <2>7
<1>2. CASE pc # "blocked"
  <2>1. m_wait_queue.m_blockers = <<>>
    BY <1>2 DEF OneSleeper
  <2>2. WQ!WokenByOne(m_wait_queue) = {} /\ m_wait_queue' = WQ!Queue(<<>>, TRUE, TRUE)
    BY <2>1 DEF WQ!WokenByOne, WQ!WakeOne, OneSleeper, Queues, WQ!Queue, WQ!Wake
  <2>3. pc' = pc
    BY <2>2 DEF WQ!Wake
  <2>4. QueueTypes'
    BY <2>3 DEF QueueTypes, WQ!Wake
  <2>5. OneSleeper' /\ Awaited'
    BY <1>2, <2>2, <2>3 DEF OneSleeper, Awaited, WQ!Queue, Queues
  <2>6. Order'
    BY <2>3 DEF Order, AtHand, WQ!Wake
  <2> QED  BY <2>4, <2>5, <2>6
<1> QED  BY <1>1, <1>2

\* The deferred call.
LEMMA DeferredStep ==
    ASSUME QInv, WQ!RunDeferred
    PROVE  QInv'
<1>1. QueueTypes' /\ OneSleeper' /\ Awaited'
  BY DEF QInv, QueueTypes, OneSleeper, Awaited, GoesToWait, WQ!RunDeferred, WQ!PCs
<1>2. Order'
  BY DEF QInv, Order, AtHand, WQ!RunDeferred
<1> QED  BY <1>1, <1>2 DEF QInv

\* The worker takes the first item, or finds none and goes to wait.
LEMMA TakeItemStep ==
    ASSUME QInv, WQ!TakeItem
    PROVE  QInv'
<1> USE DEF QInv
<1>1. CASE m_items = <<>>
  <2>1. m_items' = <<>> /\ pc' = "wait" /\ have_more' = FALSE
    BY <1>1 DEF WQ!TakeItem
  <2>2. QueueTypes' /\ OneSleeper' /\ Awaited'
    BY <2>1 DEF QueueTypes, OneSleeper, Awaited, WQ!TakeItem, WQ!PCs
  <2>3. Order'
    BY <1>1, <2>1 DEF Order, AtHand, WQ!TakeItem
  <2> QED  BY <2>2, <2>3
<1>2. CASE m_items # <<>>
  <2>1. /\ item' = Head(m_items) /\ m_items' = Tail(m_items)
        /\ have_more' = (Tail(m_items) # <<>>)
        /\ pc = "take"
        /\ UNCHANGED <<m_wait_queue, waking, queued, done>>
    BY <1>2 DEF WQ!TakeItem
  <2>2. Head(m_items) \in AnyItem /\ Tail(m_items) \in Seq(AnyItem)
    BY <1>2 DEF QueueTypes
  <2>3. pc' = "run"
    BY <2>1, <2>2 DEF WQ!TakeItem, AnyItem
  <2>4. QueueTypes' /\ OneSleeper' /\ Awaited'
    BY <2>1, <2>2, <2>3 DEF QueueTypes, OneSleeper, Awaited, GoesToWait, WQ!PCs
  <2>5. Order'
    <3>1. queued = done \o m_items
      BY <2>1 DEF Order, AtHand, QueueTypes
    <3>2. <<Head(m_items)>> \in Seq(AnyItem) /\ done \in Seq(AnyItem) /\ m_items \in Seq(AnyItem)
      BY <2>2 DEF QueueTypes
    <3>3. m_items = <<Head(m_items)>> \o Tail(m_items)
      BY <1>2, <3>2
    <3>4. done \o (<<Head(m_items)>> \o Tail(m_items)) = (done \o <<Head(m_items)>>) \o Tail(m_items)
      BY <2>2, <3>2, ConcatAssociative
    <3>5. AtHand' = <<Head(m_items)>>
      BY <2>1, <2>3 DEF AtHand
    <3> QED  BY <2>1, <3>1, <3>3, <3>4, <3>5 DEF Order
  <2> QED  BY <2>4, <2>5
<1> QED  BY <1>1, <1>2

\* The worker has run its item.
LEMMA RunItemStep ==
    ASSUME QInv, WQ!RunItem
    PROVE  QInv'
<1> USE DEF QInv
<1>1. item \in AnyItem /\ done \in Seq(AnyItem) /\ m_items \in Seq(AnyItem)
  BY DEF QueueTypes, WQ!RunItem
<1>2. QueueTypes' /\ OneSleeper' /\ Awaited'
  BY <1>1 DEF QueueTypes, OneSleeper, Awaited, GoesToWait, WQ!RunItem, WQ!PCs
<1>3. Order'
  <2>1. done' = done \o <<item>> /\ AtHand = <<item>> /\ AtHand' = <<>>
    BY <1>1 DEF AtHand, WQ!RunItem
  <2>2. done' \o <<>> = done'
    BY <1>2 DEF QueueTypes
  <2> QED  BY <2>1, <2>2 DEF Order, WQ!RunItem
<1> QED  BY <1>2, <1>3

\* The worker sleeps unless a wake is remembered; then it looks at m_items again.
LEMMA WaitOnStep ==
    ASSUME QInv, WQ!WaitOn
    PROVE  QInv'
<1> USE DEF QInv
<1>1. QueueTypes' /\ Order'
  BY DEF QueueTypes, Order, AtHand, WQ!WaitOn, WQ!PCs
<1>2. m_wait_queue.m_blockers = <<>> /\ m_wait_queue.m_wake_requested \in BOOLEAN
  BY DEF OneSleeper, Queues, WQ!WaitOn
<1>3. CASE m_wait_queue.m_wake_requested
  <2>1. pc' = "take" /\ m_wait_queue' = WQ!Queue(<<>>, FALSE, m_wait_queue.m_should_block)
    BY <1>2, <1>3 DEF WQ!WaitOn, WQ!AddBlocker, WQ!ShouldAddBlocker
  <2>2. OneSleeper' /\ Awaited'
    BY <2>1 DEF OneSleeper, Awaited, GoesToWait, WQ!Queue, Queues
  <2> QED  BY <1>1, <2>2
<1>4. CASE ~m_wait_queue.m_wake_requested
  <2>1. pc' = "blocked" /\ pc = "wait" /\ UNCHANGED <<m_items, waking>>
    BY <1>4 DEF WQ!WaitOn, WQ!ShouldAddBlocker, OneSleeper
  <2>2. /\ m_wait_queue'.m_blockers = <<"worker">> /\ m_wait_queue' \in Queues({"worker"})
        /\ m_wait_queue'.m_should_block /\ ~m_wait_queue'.m_wake_requested
    BY <1>2, <1>4 DEF WQ!WaitOn, OneSleeper, WQ!AddBlocker, WQ!ShouldAddBlocker, WQ!Queue, Queues
  <2>3. OneSleeper' /\ Awaited'
    BY <1>4, <2>1, <2>2 DEF OneSleeper, Awaited, GoesToWait
  <2> QED  BY <1>1, <2>3
<1> QED  BY <1>2, <1>3, <1>4

----------------------------------------------------------------------------
(* The drivers only queue items, with numbers of their own *)

\* g_io_work->queue.
LEMMA QueueWorkStep ==
    ASSUME QInv, NEW todo, NEW r, QueueWork(todo, r)
    PROVE  QInv'
<1>1. CASE UNCHANGED workVars
  BY <1>1 DEF workVars, QInv, QueueTypes, OneSleeper, Awaited, GoesToWait, Order, AtHand
<1>2. CASE WQ!Enqueue(Len(queued) + 1)
  <2>1. Len(queued) + 1 \in AnyItem
    BY DEF QInv, QueueTypes, AnyItem
  <2> QED  BY <1>2, <2>1, EnqueueStep
<1> QED  BY <1>1, <1>2 DEF QueueWork

\* Every step of a thread, a drive, a handler or an item.
LEMMA NextQInv == QInv /\ [Next]_vars => QInv'
<1> SUFFICES ASSUME QInv, [Next]_vars PROVE QInv'
  OBVIOUS
<1>1. CASE UNCHANGED workVars
  BY <1>1 DEF workVars, QInv, QueueTypes, OneSleeper, Awaited, GoesToWait, Order, AtHand
<1>2. ASSUME NEW t \in Threads, CallStep(t) PROVE QInv'
  <2>1. ASSUME NEW o \in Ways, MakeRequest(t, o) PROVE QInv'
    BY <2>1, QueueWorkStep DEF MakeRequest
  <2> QED  BY <1>1, <1>2, <2>1 DEF CallStep, ThreadStep, HandleResult, CheckResult, WaitOnRequest
<1>3. CASE Wake \/ Loop \/ FinishItem
  BY <1>3, WakeStep, DeferredStep, TakeItemStep, WaitOnStep, RunItemStep DEF Wake, Loop, FinishItem
<1>4. CASE ItemStep
  <2>1. CASE RunStale \/ Recover
    BY <1>1, <2>1 DEF RunStale, Recover
  <2>3. ASSUME NEW o \in Ways, ReadSector(o) \/ WriteSector(o) \/ Reset(o) PROVE QInv'
    BY <2>3, QueueWorkStep DEF ReadSector, WriteSector, Reset
  <2>4. ASSUME NEW f \in Ways, NEW o \in Ways, FinishRequest(f, o) PROVE QInv'
    BY <2>4, QueueWorkStep DEF FinishRequest, CompleteCurrent
  <2> QED  BY <1>4, <2>1, <2>3, <2>4 DEF ItemStep
<1>5. ASSUME NEW locked \in BOOLEAN, HandleIrq(locked) PROVE QInv'
  BY <1>1, <1>5, QueueWorkStep DEF HandleIrq
<1>6. CASE DriveStep \/ Environment
  BY <1>1, <1>6 DEF DriveStep, Answer, Environment, Fail, Interrupt, Begin
<1>7. CASE UNCHANGED vars
  BY <1>1, <1>7 DEF vars
<1> QED  BY <1>2, <1>3, <1>4, <1>5, <1>6, <1>7 DEF Next, KernelStep

\* The work queue's invariant holds whatever the drivers do.
THEOREM QueueInvariance == Spec => []QInv
<1>1. Init => QInv
  BY InitQInv
<1>2. QInv /\ [Next]_vars => QInv'
  BY NextQInv
<1> QED  BY <1>1, <1>2, PTL DEF Spec

\* WorkQueue: its thread does not sleep beside an item whose wake is spent, and
\* the items are run in the order they were queued, each once.
THEOREM ItemsRunInOrder == Spec => []WorkRunsInOrder
<1>1. QInv => WorkRunsInOrder
  <2> SUFFICES ASSUME QInv PROVE WorkRunsInOrder
    OBVIOUS
  <2>1. WQ!NoItemStranded
    <3> SUFFICES ASSUME pc = "blocked", m_items # <<>> PROVE waking # {}
      BY DEF WQ!NoItemStranded
    <3> QED  BY DEF QInv, Awaited, GoesToWait, OneSleeper
  <2>2. WQ!RunInOrder
    <3> DEFINE r == AtHand \o m_items
    <3>1. done \in Seq(AnyItem) /\ r \in Seq(AnyItem)
      BY DEF QInv, QueueTypes, AtHand
    <3>2. queued = done \o r
      <4>1. AtHand \in Seq(AnyItem) /\ m_items \in Seq(AnyItem)
        BY DEF QInv, QueueTypes, AtHand
      <4>2. (done \o AtHand) \o m_items = done \o (AtHand \o m_items)
        BY <3>1, <4>1, ConcatAssociative
      <4> QED  BY <4>2 DEF QInv, Order
    <3> HIDE DEF r
    <3>3. Len(done) <= Len(queued) /\ SubSeq(done, 1, Len(done)) = SubSeq(queued, 1, Len(done))
      BY <3>1, <3>2
    <3> QED  BY <3>3 DEF WQ!RunInOrder, WQ!IsPrefix
  <2> QED  BY <2>1, <2>2 DEF WorkRunsInOrder
<1> QED  BY <1>1, QueueInvariance, PTL

(* The life of a request *)
(* Its inductive invariant is RInv, at the end of this section: what holds  *)
(* of the variables at all times, and what holds until a VERIFY fails.       *)

\* The types of the records.
Commands == [cmd : {"idle", "read", "write", "flush", "stopped"}, req : Nat, left : 0..PerPage,
             phase : {"busy", "drq", "stopped"}]
Channels == [current : Nat, block_index : Nat, flushing : BOOLEAN, scatter_list : BOOLEAN,
             dma : Nat, hw : Commands]
Transfers == [type : {"Read", "Write"}, count : 1..PerPage, kernel : BOOLEAN]
Requests == [drive : {"none", "master", "slave"}, type : {"none", "Read", "Write"},
             count : 0..PerPage, kernel : BOOLEAN,
             result : {"Pending", "Started", "gone"} \cup Completed, queue : Queues(Threads),
             data : Seq(Nat), left : {"no", "returned", "interrupted"}, reset : BOOLEAN]
CallRecords == [at : {"user", "make", "check", "wait", "blocked", "back"},
                drive : {"none", "master", "slave"}, plan : Seq(Transfers), block : BOOLEAN,
                req : Nat, interrupted : BOOLEAN]
Items == [what : {"sector", "fatal", "reset", "gone"} \cup Completed, req : Nat]

\* The requests that a call waits for, or will.
InCall(t) == call[t].at \in {"check", "wait", "blocked", "back"}

\* The fields of the channel and of the requests, and what the items do.
Types ==
    /\ kind \in Kinds /\ kind \in {"pio", "dma", "ahci"}
    /\ m_requests \in [Drives -> Seq(Nat)]
    /\ request \in Seq(Requests)
    /\ channel \in Channels
    /\ irq \in [what : {"none", "done", "error", "fatal", "reset"}, req : Nat]
    /\ call \in [Threads -> CallRecords]
    /\ budget \in 0..MaxTroubles
    /\ late \in BOOLEAN
    /\ ran \in BOOLEAN
    /\ work \in Seq(Items)

\* The items are numbered in the order they are queued; an item that was run is
\* what the worker is at.
Numbering ==
    /\ Len(work) = Len(queued)
    /\ \A i \in 1..Len(queued) : queued[i] = i
    /\ ran => pc = "run"

\* The items whose work is still to be done.
Todo == {i \in 1..Len(work) : Len(done) + (IF ran THEN 1 ELSE 0) < i}

\* What holds of every request.
Records ==
    \A r \in DOMAIN request :
       /\ Len(request[r].data) <= request[r].count
       /\ request[r].result # "gone" => /\ request[r].drive \in Drives
                                        /\ request[r].type \in {"Read", "Write"}
                                        /\ request[r].count > 0
       /\ request[r].result = "gone" => request[r].drive = "none"
       /\ request[r].result = "MemoryFault" => ~request[r].kernel

\* What is queued, and what the channel is at, was made.
Listed ==
    /\ channel.current \in {0} \cup DOMAIN request
    /\ \A d \in Drives : \A i \in DOMAIN m_requests[d] : m_requests[d][i] \in DOMAIN request

\* The queue of a device and the states of the requests agree: only the first one is
\* started, and it is what the channel is at; what is pending or started is queued, once.
Queued ==
    /\ channel.current \in {0} \cup DOMAIN request
    /\ \A d \in Drives : \A i \in DOMAIN m_requests[d] :
          /\ m_requests[d][i] \in DOMAIN request
          /\ request[m_requests[d][i]].drive = d
          /\ request[m_requests[d][i]].result = IF i = 1 THEN "Started" ELSE "Pending"
          /\ i = 1 => channel.current = m_requests[d][i]
          /\ \A j \in DOMAIN m_requests[d] : m_requests[d][j] = m_requests[d][i] => i = j
    /\ \A r \in DOMAIN request : request[r].result \in {"Pending", "Started"} =>
          \E i \in DOMAIN m_requests[request[r].drive] : m_requests[request[r].drive][i] = r
    /\ channel.current # 0 => request[channel.current].result = "Started"

\* Between make_request and the end of wait() a request is its caller's alone.
WaitOK(t) ==
    LET q == request[call[t].req]
    IN /\ call[t].req \in DOMAIN request
       /\ q.left = "no" /\ q.result # "gone"
       /\ \A u \in Threads : InCall(u) /\ call[u].req = call[t].req => u = t
       /\ q.queue.m_should_block
       /\ q.queue.m_blockers = IF call[t].at = "blocked" THEN <<t>> ELSE <<>>
       /\ q.queue.m_wake_requested => q.result \in Completed
       /\ call[t].at \in {"check", "wait"} /\ q.result \in Completed => q.queue.m_wake_requested
       /\ call[t].at = "blocked" => q.result \notin Completed
       /\ call[t].at = "back" /\ ~call[t].interrupted => q.result \in Completed

\* A call in progress knows its drive, and has a request exactly while it waits for it.
CallerOK(t) ==
    /\ call[t].at # "user" => call[t].drive \in Drives
    /\ call[t].at = "make" => call[t].plan # <<>>
    /\ call[t].interrupted => call[t].at = "back" /\ ~call[t].block
    /\ InCall(t) => WaitOK(t)

\* Every thread is such a caller.
Callers == \A t \in Threads : CallerOK(t)

\* Who sleeps on a request is the caller that blocks on it.
Sleepers ==
    \A r \in DOMAIN request : \A t \in Members(request[r].queue) :
       call[t].at = "blocked" /\ call[t].req = r

\* PIO, and something has gone wrong.
Spent == kind = "pio" /\ budget < MaxTroubles

\* The drive is at a command and will answer.
Active == channel.hw.cmd \in {"read", "write", "flush"} /\ channel.hw.phase = "busy"

\* What was started once.
Begun(r) == r \in DOMAIN request /\ request[r].result # "Pending"

\* What is under way in the items, the interrupt and the drive is of a request that was
\* started, and of the current one unless PIO has gone on after a trouble: after a fault
\* or an error the drive is not stopped, and may answer the command that was given up.
Strays ==
    /\ \A i \in Todo : /\ Begun(work[i].req) /\ work[i].what # "gone"
                       /\ work[i].what \in {"fatal", "reset"} => kind = "ahci"
                       /\ work[i].req # channel.current => Spent
    /\ irq # NoIrq => /\ Begun(irq.req) /\ irq.what # "none"
                      /\ irq.what \in {"fatal", "reset"} => kind = "ahci"
                      /\ irq.req # channel.current => Spent
    /\ Active => /\ Begun(channel.hw.req) /\ channel.hw.left > 0
                 /\ channel.hw.req # channel.current => Spent
    /\ channel.scatter_list => channel.current # 0

\* n sectors of the request r.
Own(n, r) == [i \in 1..n |-> r]

\* The drive is at the command of the request r.  PIO: as many sectors are to go as the
\* driver has not counted, and those that were moved are the request's; a write is one
\* sector ahead.  DMA and AHCI: a write has left its sectors in the channel's page.
DriveOK(r) ==
    LET q == request[r]
        i == channel.block_index
        hw == channel.hw
    IN IF kind = "pio"
         THEN \/ /\ q.type = "Read" /\ hw.cmd = "read"
                 /\ hw.left + i = q.count /\ i < q.count /\ q.data = Own(i, r)
              \/ /\ q.type = "Write" /\ hw.cmd = "write" /\ ~channel.flushing
                 /\ hw.left + i = q.count /\ i < q.count /\ q.data = Own(i + 1, r)
              \/ /\ q.type = "Write" /\ hw.cmd = "flush" /\ channel.flushing
                 /\ hw.left = 1 /\ q.data = Own(q.count, r)
         ELSE \/ q.type = "Read" /\ hw.cmd = "read"
              \/ q.type = "Write" /\ hw.cmd = "write" /\ channel.dma = r

\* The drive has answered: a sector is to be moved, or all are.
SectorOK(r) ==
    LET q == request[r]
        i == channel.block_index
        hw == channel.hw
    IN \/ /\ q.type = "Read" /\ hw.cmd = "read" /\ hw.req = r
          /\ hw.left + i = q.count /\ i < q.count /\ q.data = Own(i, r)
       \/ /\ q.type = "Write" /\ channel.flushing /\ q.data = Own(q.count, r)
       \/ /\ q.type = "Write" /\ ~channel.flushing /\ i < q.count /\ q.data = Own(i + 1, r)
          /\ i + 1 < q.count => hw.cmd = "write" /\ hw.req = r /\ hw.left + i + 1 = q.count

\* All sectors of r are where the driver completes the request from.
MovedOK(r) ==
    IF kind # "pio" /\ request[r].type = "Read" THEN channel.dma = r
    ELSE request[r].data = Own(request[r].count, r)

\* What an interrupt for r stands for.
AnsweredOK(r) == IF kind = "pio" THEN SectorOK(r) ELSE MovedOK(r)

\* What an item of r stands for: a sector to move, or how the request is to be completed.
ItemOK(what, r) ==
    /\ what = "sector" => kind = "pio" /\ SectorOK(r)
    /\ what = "Success" => MovedOK(r) \/ request[r].reset
    /\ what = "MemoryFault" => ~request[r].kernel

\* The items of the current request.
Mine == {i \in Todo : work[i].req = channel.current}

\* The places where the current request can be: in the drive, in an interrupt, in an item
\* of the worker, nowhere as the AHCI port was stopped, or, with PIO after a bad pointer,
\* in an item that will fail it, whatever else is still under way for it.
InDrive == Active /\ channel.hw.req = channel.current /\ irq.req # channel.current
           /\ Mine = {} /\ DriveOK(channel.current)
InIrq == ~Active /\ irq.req = channel.current /\ Mine = {}
         /\ (irq.what = "done" => AnsweredOK(channel.current))
InItem == ~Active /\ irq.req # channel.current
          /\ \E i \in Todo : Mine = {i} /\ ItemOK(work[i].what, channel.current)
Stopped == kind = "ahci" /\ channel.hw.cmd = "stopped" /\ irq.req # channel.current /\ Mine = {}
Broken == /\ Spent /\ ~request[channel.current].kernel
          /\ \E i \in Mine : work[i].what = "MemoryFault" /\ \A j \in Mine : i <= j

\* It is in one of them: somebody will complete it, and nobody completes it twice.
Token == channel.current # 0 => InDrive \/ InIrq \/ InItem \/ Stopped \/ Broken

\* An error that is reported is a trouble that has happened, to an IDE drive.
Reported == irq.what = "error" => kind # "ahci" /\ budget < MaxTroubles

\* The whole of it.
RInv ==
    /\ Types /\ Numbering /\ Records /\ DataIsOwn /\ PanicsAreKnown
    /\ Alive => Queued /\ Callers /\ Sleepers /\ Strays /\ Token

----------------------------------------------------------------------------
(* The work of the items *)

\* What a step makes of the items: it queues some work or none, and leaves the item
\* at hand behind or not.
LEMMA ItemNumbers ==
    ASSUME QInv, Types, Numbering
    PROVE  /\ Len(done) \in Nat /\ Len(work) \in Nat /\ Len(done) <= Len(work)
           /\ pc = "run" => item = Len(done) + 1 /\ item \in 1..Len(work)
<1> DEFINE a == done \o AtHand
<1>1. done \in Seq(AnyItem) /\ AtHand \in Seq(AnyItem) /\ m_items \in Seq(AnyItem)
  BY DEF QInv, QueueTypes, AtHand
<1>2. /\ a \in Seq(AnyItem) /\ Len(a) = Len(done) + Len(AtHand)
      /\ \A i \in 1..Len(a) : a[i] = IF i <= Len(done) THEN done[i] ELSE AtHand[i - Len(done)]
  BY <1>1, ConcatProperties
<1> HIDE DEF a
<1>3. /\ Len(a \o m_items) = Len(a) + Len(m_items)
      /\ \A i \in 1..(Len(a) + Len(m_items)) :
            (a \o m_items)[i] = IF i <= Len(a) THEN a[i] ELSE m_items[i - Len(a)]
  <2>1. a \in Seq(AnyItem) /\ m_items \in Seq(AnyItem)
    BY <1>1, <1>2
  <2> QED  BY ONLY <2>1, ConcatProperties
<1>4. queued = a \o m_items
  BY DEF QInv, Order, a
<1>5. Len(done) \in Nat /\ Len(AtHand) \in Nat /\ Len(m_items) \in Nat /\ Len(work) \in Nat
  BY <1>1 DEF Types
<1>6. Len(work) = Len(done) + Len(AtHand) + Len(m_items)
  BY <1>2, <1>3, <1>4, <1>5 DEF Numbering
<1>7. ASSUME pc = "run" PROVE item = Len(done) + 1 /\ item \in 1..Len(work)
  <2>1. AtHand = <<item>> /\ Len(AtHand) = 1
    BY <1>7 DEF AtHand
  <2>2. Len(done) + 1 \in 1..Len(a) /\ Len(done) + 1 \in 1..(Len(a) + Len(m_items))
    BY <1>2, <1>5, <2>1
  <2>3. queued[Len(done) + 1] = a[Len(done) + 1]
    BY <1>2, <1>3, <1>4, <1>5, <2>2
  <2>4. a[Len(done) + 1] = AtHand[1]
    BY <1>2, <1>5, <2>2
  <2>5. Len(done) + 1 \in 1..Len(queued)
    BY <1>2, <1>3, <1>4, <1>5, <2>2
  <2>6. item = Len(done) + 1
    BY <2>1, <2>3, <2>4, <2>5 DEF Numbering
  <2> QED  BY <2>5, <2>6 DEF Numbering
<1> QED  BY <1>5, <1>6, <1>7

\* The item at hand is the first of those to do.
LEMMA ItemIsFirst ==
    ASSUME QInv, Types, Numbering, pc = "run", ~ran
    PROVE  item \in Todo /\ \A j \in Todo : item <= j
BY ItemNumbers DEF Todo

\* The number of the item that is queued next.
NewItem == Len(work) + 1

\* g_io_work->queue in a step that is not, or is, the work of an item.
LEMMA QueueWorkTodo ==
    ASSUME QInv, Types, Numbering,
           NEW todo \in {"none", "sector", "fatal", "reset"} \cup Completed, NEW r \in Nat,
           QueueWork(todo, r),
           ran' = ran \/ (ran' = TRUE /\ ran = FALSE /\ pc = "run")
    PROVE  LET new == IF todo = "none" THEN {} ELSE {NewItem}
           IN /\ work' \in Seq(Items) /\ Numbering' /\ NewItem \notin Todo /\ NewItem \in Nat
              /\ Todo' = (IF ran' = ran THEN Todo ELSE Todo \ {item}) \cup new
              /\ \A i \in Todo : i \in Nat /\ i < NewItem /\ work'[i] = work[i]
              /\ todo # "none" => work'[NewItem] = [what |-> todo, req |-> r]
              /\ todo = "none" => work' = work
<1> USE DEF NewItem
<1>1. /\ Len(done) \in Nat /\ Len(work) \in Nat /\ Len(done) <= Len(work)
      /\ pc = "run" => item = Len(done) + 1 /\ item \in 1..Len(work)
  BY ItemNumbers
<1>2. work \in Seq(Items) /\ ran \in BOOLEAN
  BY DEF Types
<1>3. CASE todo = "none"
  <2>1. UNCHANGED <<work, queued, done, pc>>
    BY <1>3 DEF QueueWork, workVars
  <2>2. Numbering'
    BY <2>1 DEF Numbering
  <2>3. Todo' = IF ran' = ran THEN Todo ELSE Todo \ {item}
    BY <1>1, <1>2, <2>1 DEF Todo
  <2>4. \A i \in Todo : i \in Nat /\ i < NewItem
    BY <1>1 DEF Todo
  <2> QED  BY <1>1, <1>2, <1>3, <2>1, <2>2, <2>3, <2>4
<1>4. CASE todo # "none"
  <2> DEFINE x == [what |-> todo, req |-> r]
  <2>1. /\ work' = Append(work, x) /\ queued' = Append(queued, Len(queued) + 1)
        /\ UNCHANGED <<done, pc>>
    BY <1>4 DEF QueueWork, WQ!Enqueue
  <2>2. x \in Items /\ queued \in Seq(AnyItem)
    BY <1>4 DEF Items, QInv, QueueTypes
  <2>3. /\ work' \in Seq(Items) /\ Len(work') = Len(work) + 1 /\ work'[Len(work) + 1] = x
        /\ \A i \in 1..Len(work) : work'[i] = work[i]
    BY <1>2, <2>1, <2>2
  <2>4. /\ Len(queued') = Len(queued) + 1 /\ queued'[Len(queued) + 1] = Len(queued) + 1
        /\ \A i \in 1..Len(queued) : queued'[i] = queued[i]
    BY <2>1, <2>2 DEF AnyItem
  <2>5. Numbering'
    <3>1. Len(work') = Len(queued')
      BY <2>3, <2>4 DEF Numbering
    <3>2. \A i \in 1..Len(queued') : queued'[i] = i
      <4>1. \A i \in 1..Len(queued') : i \in 1..Len(queued) \/ i = Len(queued) + 1
        BY <1>1, <2>4 DEF Numbering
      <4> QED  BY <2>4, <4>1 DEF Numbering
    <3> QED  BY <2>1, <3>1, <3>2 DEF Numbering
  <2>6. Todo' = (IF ran' = ran THEN Todo ELSE Todo \ {item}) \cup {NewItem}
    <3> DEFINE n == Len(done) + (IF ran THEN 1 ELSE 0)
    <3>1. n < Len(work) + 1 /\ n \in Nat
      BY <1>1, <1>2 DEF Numbering
    <3>2. Todo' = {i \in 1..(Len(work) + 1) : Len(done) + (IF ran' THEN 1 ELSE 0) < i}
      BY <2>1, <2>3 DEF Todo
    <3>3. CASE ran' = ran
      BY <1>1, <1>2, <3>1, <3>2, <3>3 DEF Todo
    <3>4. CASE ran' # ran
      BY <1>1, <1>2, <3>2, <3>4 DEF Todo
    <3> QED  BY <3>3, <3>4
  <2>7. \A i \in Todo : i \in Nat /\ i < NewItem /\ i \in 1..Len(work)
    BY <1>1 DEF Todo
  <2> QED  BY <1>1, <1>4, <2>3, <2>5, <2>6, <2>7
<1> QED  BY <1>3, <1>4

----------------------------------------------------------------------------
(* What each side can rely on *)

\* What a drive does with a request is not the callers' business: the parts of a
\* request that the device works with are the same, or it was completed and is gone.
SameTransfer(r) ==
    /\ request'[r].drive = request[r].drive /\ request'[r].type = request[r].type
    /\ request'[r].count = request[r].count /\ request'[r].kernel = request[r].kernel
    /\ request'[r].result = request[r].result /\ request'[r].data = request[r].data
    /\ request'[r].reset = request[r].reset

\* The device's half of the invariant is kept by a step that leaves the queues, the channel
\* and the interrupt alone, and of the requests what the drivers look at.
LEMMA DeviceSide ==
    ASSUME Types, Alive, Queued, Strays, Token,
           UNCHANGED <<kind, m_requests, channel, irq, work, ran, done>>,
           budget' \in Nat, budget' <= budget,
           DOMAIN request' = DOMAIN request,
           \A r \in DOMAIN request :
              \/ SameTransfer(r)
              \/ request[r].result \in Completed /\ request'[r].result = "gone"
    PROVE  Queued' /\ Strays' /\ Token'
<1>1. Todo' = Todo /\ Mine' = Mine /\ (Active' <=> Active) /\ Drives' = Drives
  BY DEF Todo, Mine, Active, Drives
<1>2. Spent => Spent'
  <2>1. budget \in Nat /\ MaxTroubles \in Nat
    BY IOAssumptions DEF Types
  <2> QED  BY <2>1 DEF Spent
<1>3. \A r : Begun(r) => Begun(r)'
  BY DEF Begun, SameTransfer, Completed
<1>4. Queued'
  <2>1. \A r \in DOMAIN request : request[r].result \in {"Pending", "Started"} => SameTransfer(r)
    BY DEF Completed
  <2>2. \A r \in DOMAIN request : request'[r].result \in {"Pending", "Started"} => SameTransfer(r)
    OBVIOUS
  <2>3. ASSUME NEW d \in Drives, NEW i \in DOMAIN m_requests[d]
        PROVE  /\ m_requests'[d][i] \in DOMAIN request'
               /\ request'[m_requests'[d][i]].drive = d
               /\ request'[m_requests'[d][i]].result = IF i = 1 THEN "Started" ELSE "Pending"
               /\ i = 1 => channel'.current = m_requests'[d][i]
               /\ \A j \in DOMAIN m_requests'[d] : m_requests'[d][j] = m_requests'[d][i] => i = j
    BY <2>1 DEF Queued, SameTransfer
  <2>4. ASSUME NEW r \in DOMAIN request, request'[r].result \in {"Pending", "Started"}
        PROVE  \E i \in DOMAIN m_requests'[request'[r].drive] : m_requests'[request'[r].drive][i] = r
    BY <2>2, <2>4 DEF Queued, SameTransfer
  <2>5. channel'.current # 0 => request'[channel'.current].result = "Started"
    BY <2>1 DEF Queued, SameTransfer
  <2>6. channel'.current \in {0} \cup DOMAIN request'
    BY DEF Queued
  <2> QED  BY <1>1, <2>3, <2>4, <2>5, <2>6 DEF Queued
<1>5. Strays'
  BY <1>1, <1>2, <1>3 DEF Strays
<1>6. Token'
  <2> SUFFICES ASSUME channel.current # 0
               PROVE  (InDrive \/ InIrq \/ InItem \/ Stopped \/ Broken)'
    BY DEF Token
  <2> DEFINE r == channel.current
  <2>1. SameTransfer(r)
    BY DEF Queued, Completed
  <2>2. /\ DriveOK(r)' <=> DriveOK(r)
        /\ SectorOK(r)' <=> SectorOK(r)
        /\ MovedOK(r)' <=> MovedOK(r)
    BY <2>1 DEF DriveOK, SectorOK, MovedOK, SameTransfer
  <2>3. /\ AnsweredOK(r)' <=> AnsweredOK(r)
        /\ \A w : ItemOK(w, r)' <=> ItemOK(w, r)
    BY <2>1, <2>2 DEF AnsweredOK, ItemOK, SameTransfer
  <2>4. InDrive => InDrive'
    BY <1>1, <2>2 DEF InDrive
  <2>5. InIrq => InIrq'
    BY <1>1, <2>3 DEF InIrq
  <2>6. InItem => InItem'
    BY <1>1, <2>3 DEF InItem
  <2>7. Stopped => Stopped'
    BY <1>1 DEF Stopped
  <2>8. Broken => Broken'
    BY <1>1, <1>2, <2>1 DEF Broken, SameTransfer
  <2> QED  BY <2>4, <2>5, <2>6, <2>7, <2>8 DEF Token
<1> QED  BY <1>4, <1>5, <1>6

\* What a caller does is not the drive's business: it knows whether a request is
\* completed, and its queue.
LEMMA CallerSide ==
    ASSUME Callers, Sleepers, UNCHANGED <<call, kind>>, DOMAIN request' = DOMAIN request,
           \A r \in DOMAIN request :
              /\ request'[r].queue = request[r].queue /\ request'[r].left = request[r].left
              /\ request'[r].result = request[r].result
    PROVE  Callers' /\ Sleepers'
<1>1. Drives' = Drives /\ \A t : InCall(t)' <=> InCall(t)
  BY DEF Drives, InCall
<1>2. Sleepers'
  BY DEF Sleepers
<1>3. Callers'
  BY <1>1 DEF Callers, CallerOK, WaitOK
<1> QED  BY <1>2, <1>3

\* A caller that a step leaves alone.
LEMMA OtherCaller ==
    ASSUME NEW u \in Threads, CallerOK(u), kind' = kind, call'[u] = call[u],
           InCall(u) =>
              LET r == call[u].req
              IN /\ r \in DOMAIN request' /\ request'[r].queue = request[r].queue
                 /\ request'[r].left = request[r].left /\ request'[r].result = request[r].result
                 /\ \A v \in Threads : InCall(v)' /\ call'[v].req = r => v = u
    PROVE  CallerOK(u)'
<1>1. Drives' = Drives /\ (InCall(u)' <=> InCall(u))
  BY DEF Drives, InCall
<1>2. InCall(u) => WaitOK(u)'
  BY DEF CallerOK, WaitOK
<1> QED  BY <1>1, <1>2 DEF CallerOK

\* One request of several is changed.
LEMMA UpdatedRequest ==
    ASSUME request \in Seq(Requests), NEW r \in DOMAIN request, NEW x \in Requests,
           request' = [request EXCEPT ![r] = x]
    PROVE  /\ request' \in Seq(Requests) /\ DOMAIN request' = DOMAIN request
           /\ Len(request') = Len(request)
           /\ request'[r] = x /\ \A i \in DOMAIN request : i # r => request'[i] = request[i]
<1>1. DOMAIN request = 1..Len(request)
  OBVIOUS
<1> QED  BY <1>1, ExceptSeq

\* A step that starts and completes no request.
LEMMA SameQueues ==
    ASSUME Queued, UNCHANGED <<kind, m_requests>>, channel'.current = channel.current,
           DOMAIN request' = DOMAIN request,
           \A r \in DOMAIN request :
              request'[r].drive = request[r].drive /\ request'[r].result = request[r].result
    PROVE  Queued'
<1>1. Drives' = Drives
  BY DEF Drives
<1>2. ASSUME NEW d \in Drives, NEW i \in DOMAIN m_requests[d]
      PROVE  /\ m_requests'[d][i] \in DOMAIN request'
             /\ request'[m_requests'[d][i]].drive = d
             /\ request'[m_requests'[d][i]].result = IF i = 1 THEN "Started" ELSE "Pending"
             /\ i = 1 => channel'.current = m_requests'[d][i]
             /\ \A j \in DOMAIN m_requests'[d] : m_requests'[d][j] = m_requests'[d][i] => i = j
  BY DEF Queued
<1>3. ASSUME NEW r \in DOMAIN request, request'[r].result \in {"Pending", "Started"}
      PROVE  \E i \in DOMAIN m_requests'[request'[r].drive] : m_requests'[request'[r].drive][i] = r
  BY <1>3 DEF Queued
<1>4. channel'.current # 0 => request'[channel'.current].result = "Started"
  BY DEF Queued
<1>5. channel'.current \in {0} \cup DOMAIN request'
  BY DEF Queued
<1> QED  BY <1>1, <1>2, <1>3, <1>4, <1>5 DEF Queued

\* A step that leaves the worker and its items alone.
LEMMA SameWork ==
    ASSUME Numbering, UNCHANGED <<workVars, work, ran>>
    PROVE  Numbering' /\ Todo' = Todo
BY DEF Numbering, workVars, Todo

\* A fact used of every request.
LEMMA RequestFields ==
    ASSUME Types, NEW r \in DOMAIN request
    PROVE  request[r] \in Requests
BY DEF Types

\* Whoever is registered in the queue of a request is a thread.
LEMMA SleepersAreThreads ==
    ASSUME Types
    PROVE  \A r \in DOMAIN request : Members(request[r].queue) \subseteq Threads
<1> SUFFICES ASSUME NEW r \in DOMAIN request PROVE Members(request[r].queue) \subseteq Threads
  OBVIOUS
<1>1. request[r].queue \in Queues(Threads)
  BY RequestFields DEF Requests
<1>2. request[r].queue.m_blockers \in Seq(Threads)
  BY <1>1 DEF Queues
<1> QED  BY <1>2 DEF Members, ToSet

\* At the start there are no requests.
LEMMA InitRInv == Init => RInv
<1> SUFFICES ASSUME Init PROVE RInv
  OBVIOUS
<1>1. request = <<>> /\ work = <<>> /\ queued = <<>> /\ panicked = {} /\ ran = FALSE
  BY DEF Init, WQ!Init
<1>2. Types
  <2>1. kind \in Kinds /\ kind \in {"pio", "dma", "ahci"} /\ ran \in BOOLEAN /\ late \in BOOLEAN
    BY IOAssumptions DEF Init
  <2>6. request \in Seq(Requests) /\ work \in Seq(Items)
    BY <1>1
  <2>7. m_requests \in [Drives -> Seq(Nat)]
    <3>1. <<>> \in Seq(Nat) /\ m_requests = [d \in Drives |-> <<>>]
      BY DEF Init
    <3> QED  BY <3>1
  <2>2. channel \in Channels
    BY IOAssumptions DEF Init, Channels, Commands, Idle, Command
  <2>3. irq \in [what : {"none", "done", "error", "fatal", "reset"}, req : Nat]
    BY DEF Init, NoIrq, Irq
  <2>4. call \in [Threads -> CallRecords]
    BY DEF Init, NoCall, CallRecords
  <2>5. budget \in 0..MaxTroubles
    BY IOAssumptions DEF Init
  <2> QED  BY <2>1, <2>2, <2>3, <2>4, <2>5, <2>6, <2>7 DEF Types
<1>3. Numbering
  BY <1>1 DEF Numbering
<1>4. Records /\ DataIsOwn /\ PanicsAreKnown
  BY <1>1 DEF Records, DataIsOwn, PanicsAreKnown
<1>5. Queued
  BY <1>1 DEF Queued, Init
<1>6. Callers /\ Sleepers
  BY <1>1 DEF Callers, CallerOK, InCall, Sleepers, Init, NoCall
<1>7. Todo = {}
  BY <1>1 DEF Todo
<1>8. Strays
  BY <1>7 DEF Strays, Init, Active, Idle, Command
<1>9. Token
  BY DEF Token, Init
<1> QED  BY <1>2, <1>3, <1>4, <1>5, <1>6, <1>8, <1>9 DEF RInv

----------------------------------------------------------------------------
(* The steps of the callers *)

\* The requests of a call move at least one sector each and at most a page.
LEMMA PlanTypes ==
    ASSUME NEW c \in Calls
    PROVE  Plan(c) \in Seq(Transfers)
<1>1. /\ c.op \in Operations /\ c.whole \in Nat /\ c.rest \in BOOLEAN
      /\ PerPage \in Nat /\ PerPage > 0
  BY IOAssumptions
<1>2. \A n \in 1..PerPage, k \in BOOLEAN :
         Transfer("Read", n, k) \in Transfers /\ Transfer("Write", n, k) \in Transfers
  BY DEF Transfer, Transfers
<1>3. 1 \in 1..PerPage /\ PerPage \in 1..PerPage
  BY <1>1
<1>4. \A n \in 1..PerPage, k \in BOOLEAN :
         <<Transfer("Read", n, k)>> \in Seq(Transfers) /\ <<Transfer("Write", n, k)>> \in Seq(Transfers)
  BY <1>2
<1>5. <<Transfer("Read", 1, TRUE), Transfer("Write", 1, TRUE)>> \in Seq(Transfers)
  <2>1. \A x, y \in Transfers : <<x, y>> \in Seq(Transfers)
    OBVIOUS
  <2> QED  BY <1>2, <1>3, <2>1
<1>6. <<>> \in Seq(Transfers) /\ \A a, b \in Seq(Transfers) : a \o b \in Seq(Transfers)
  OBVIOUS
<1> DEFINE n == U16(c.whole)
<1>0. n \in Nat
  BY <1>1 DEF U16
<1> HIDE DEF n
<1>7. n < PerPage /\ n > 0 => n \in 1..PerPage
  BY <1>0, <1>1
<1>8. ReadPlan(c.whole, c.rest) \in Seq(Transfers)
  <2> DEFINE a == IF n > 0 THEN <<Transfer("Read", n, FALSE)>> ELSE <<>>
             b == IF c.rest THEN <<Transfer("Read", 1, TRUE)>> ELSE <<>>
  <2>1. n < PerPage => a \in Seq(Transfers)
    BY <1>4, <1>6, <1>7
  <2>2. b \in Seq(Transfers)
    BY <1>3, <1>4, <1>6
  <2>3. ReadPlan(c.whole, c.rest) =
           IF n >= PerPage THEN <<Transfer("Read", PerPage, FALSE)>> ELSE a \o b
    BY DEF ReadPlan, n
  <2> HIDE DEF a, b
  <2>4. CASE n >= PerPage
    BY <1>3, <1>4, <2>3, <2>4
  <2>5. CASE ~(n >= PerPage)
    <3>1. a \in Seq(Transfers) /\ b \in Seq(Transfers)
      BY <1>0, <1>1, <2>1, <2>2, <2>5
    <3>2. a \o b \in Seq(Transfers)
      BY <3>1
    <3> QED  BY <2>3, <2>5, <3>2
  <2> QED  BY <2>4, <2>5
<1>9. WritePlan(c.whole, c.rest) \in Seq(Transfers)
  <2> DEFINE a == IF n > 0 THEN <<Transfer("Write", n, FALSE)>> ELSE <<>>
             b == IF c.rest THEN <<Transfer("Read", 1, TRUE), Transfer("Write", 1, TRUE)>> ELSE <<>>
  <2>1. n < PerPage => a \in Seq(Transfers)
    BY <1>4, <1>6, <1>7
  <2>2. b \in Seq(Transfers)
    BY <1>5, <1>6
  <2>3. WritePlan(c.whole, c.rest) =
           IF n >= PerPage THEN <<Transfer("Write", PerPage, FALSE)>> ELSE a \o b
    BY DEF WritePlan, n
  <2> HIDE DEF a, b
  <2>4. CASE n >= PerPage
    BY <1>3, <1>4, <2>3, <2>4
  <2>5. CASE ~(n >= PerPage)
    <3>1. a \in Seq(Transfers) /\ b \in Seq(Transfers)
      BY <1>0, <1>1, <2>1, <2>2, <2>5
    <3>2. a \o b \in Seq(Transfers)
      BY <3>1
    <3> QED  BY <2>3, <2>5, <3>2
  <2> QED  BY <2>4, <2>5
<1>10. <<Transfer("Read", 1, TRUE)>> \in Seq(Transfers) /\ <<Transfer("Write", 1, TRUE)>> \in Seq(Transfers)
  BY <1>3, <1>4
<1> QED  BY <1>1, <1>8, <1>9, <1>10 DEF Plan, Operations

\* A thread calls read, write, read_block or write_block.
LEMMA BeginStep ==
    ASSUME RInv, Alive, NEW t \in Threads, NEW c \in Calls, Begin(t, c)
    PROVE  RInv'
<1>1. /\ call[t].at = "user" /\ c.drive \in Drives /\ Plan(c) # <<>>
      /\ call' = [call EXCEPT ![t] = [NoCall EXCEPT !.at = "make", !.drive = c.drive,
                     !.plan = Plan(c), !.block = c.op \in {"read_block", "write_block"}]]
      /\ UNCHANGED <<workVars, work, ran, kind, m_requests, request, channel, irq, budget, late,
                     panicked>>
  BY DEF Begin
<1>2. Types /\ Numbering /\ Queued /\ Callers /\ Sleepers /\ Strays /\ Token
  BY DEF RInv
<1>3. /\ call' \in [Threads -> CallRecords] /\ call'[t].at = "make" /\ call'[t].drive = c.drive
      /\ call'[t].plan # <<>> /\ ~call'[t].interrupted
      /\ \A u \in Threads : u # t => call'[u] = call[u]
  <2>1. [NoCall EXCEPT !.at = "make", !.drive = c.drive, !.plan = Plan(c),
            !.block = c.op \in {"read_block", "write_block"}] \in CallRecords
    <3>1. Plan(c) \in Seq(Transfers) /\ c.drive \in {"none", "master", "slave"}
      BY <1>1, PlanTypes DEF Drives
    <3>2. (c.op \in {"read_block", "write_block"}) \in BOOLEAN
      OBVIOUS
    <3> QED  BY <3>1, <3>2 DEF NoCall, CallRecords
  <2>2. call \in [Threads -> CallRecords]
    BY <1>2 DEF Types
  <2> QED  BY <1>1, <2>1, <2>2 DEF NoCall
<1>4. Types'
  BY <1>1, <1>2, <1>3 DEF Types, Drives
<1>5. Numbering'
  BY <1>1, <1>2, SameWork
<1>6. Records' /\ DataIsOwn' /\ PanicsAreKnown'
  BY <1>1 DEF RInv, Records, DataIsOwn, PanicsAreKnown, Drives
<1>7. Queued' /\ Strays' /\ Token'
  BY <1>1, <1>2, DeviceSide DEF SameTransfer, Types, workVars
<1>8. Callers'
  <2>1. \A v \in Threads : InCall(v)' => v # t
    BY <1>3 DEF InCall
  <2>2. ASSUME NEW u \in Threads, u # t PROVE CallerOK(u)'
    <3>1. \A v \in Threads : InCall(v)' => InCall(v) /\ call'[v].req = call[v].req
      BY <1>3, <2>1 DEF InCall
    <3>2. CallerOK(u)
      BY <1>2 DEF Callers
    <3> QED  BY <1>1, <1>3, <2>2, <3>1, <3>2, OtherCaller DEF CallerOK, WaitOK
  <2>3. CallerOK(t)'
    BY <1>1, <1>3 DEF CallerOK, InCall, Drives
  <2> QED  BY <2>2, <2>3 DEF Callers
<1>9. Sleepers'
  BY <1>1, <1>2, <1>3, SleepersAreThreads DEF Sleepers
<1> QED  BY <1>4, <1>5, <1>6, <1>7, <1>8, <1>9 DEF RInv

\* wait() of AsyncDeviceRequest looks whether the request is completed.
LEMMA CheckStep ==
    ASSUME RInv, Alive, NEW t \in Threads, CheckResult(t)
    PROVE  RInv'
<1>1. /\ call[t].at = "check"
      /\ call' = [call EXCEPT ![t].at = IF IsCompleted(call[t].req) THEN "back" ELSE "wait"]
      /\ UNCHANGED <<workVars, work, ran, kind, m_requests, request, channel, irq, budget, late,
                     panicked>>
  BY DEF CheckResult
<1>2. Types /\ Numbering /\ Queued /\ Callers /\ Sleepers /\ Strays /\ Token
  BY DEF RInv
<1>3. /\ call' \in [Threads -> CallRecords]
      /\ call'[t].at = IF IsCompleted(call[t].req) THEN "back" ELSE "wait"
      /\ call'[t].drive = call[t].drive /\ call'[t].plan = call[t].plan
      /\ call'[t].block = call[t].block /\ call'[t].req = call[t].req
      /\ call'[t].interrupted = call[t].interrupted
      /\ \A u \in Threads : u # t => call'[u] = call[u]
  BY <1>1, <1>2 DEF Types, CallRecords
<1>4. Types'
  BY <1>1, <1>2, <1>3 DEF Types, Drives
<1>5. Numbering'
  BY <1>1, <1>2, SameWork
<1>6. Records' /\ DataIsOwn' /\ PanicsAreKnown'
  BY <1>1 DEF RInv, Records, DataIsOwn, PanicsAreKnown, Drives
<1>7. Queued' /\ Strays' /\ Token'
  BY <1>1, <1>2, DeviceSide DEF SameTransfer, Types, workVars
<1>8. Callers'
  <2>1. \A v \in Threads : (InCall(v)' <=> InCall(v)) /\ call'[v].req = call[v].req
    BY <1>1, <1>3 DEF InCall
  <2>2. ASSUME NEW u \in Threads, u # t PROVE CallerOK(u)'
    <3>1. CallerOK(u)
      BY <1>2 DEF Callers
    <3> QED  BY <1>1, <1>3, <2>1, <2>2, <3>1, OtherCaller DEF CallerOK, WaitOK
  <2>3. CallerOK(t)'
    <3>1. CallerOK(t) /\ InCall(t)
      BY <1>1, <1>2 DEF Callers, InCall
    <3>2. WaitOK(t)'
      BY <1>1, <1>3, <2>1, <3>1 DEF CallerOK, WaitOK, IsCompleted
    <3> QED  BY <1>1, <1>3, <3>1, <3>2 DEF CallerOK, Drives
  <2> QED  BY <2>2, <2>3 DEF Callers
<1>9. Sleepers'
  BY <1>1, <1>2, <1>3, SleepersAreThreads DEF Sleepers
<1> QED  BY <1>4, <1>5, <1>6, <1>7, <1>8, <1>9 DEF RInv

\* wait_on: a request that is not completed has no wake pending, and its caller sleeps.
LEMMA WaitStep ==
    ASSUME RInv, Alive, NEW t \in Threads, WaitOnRequest(t)
    PROVE  RInv'
<1> DEFINE r == call[t].req
           q == request[r].queue
<1>1. /\ call[t].at = "wait"
      /\ request' = [request EXCEPT ![r].queue = AddBlocker(@, t)]
      /\ call' = [call EXCEPT ![t].at = IF ShouldAddBlocker(q) THEN "blocked" ELSE "back"]
      /\ UNCHANGED <<workVars, work, ran, kind, m_requests, channel, irq, budget, late, panicked>>
  BY DEF WaitOnRequest
<1>2. Types /\ Numbering /\ Queued /\ Callers /\ Sleepers /\ Strays /\ Token /\ Records /\ DataIsOwn
  BY DEF RInv
<1>3. CallerOK(t) /\ InCall(t) /\ WaitOK(t)
  BY <1>1, <1>2 DEF Callers, CallerOK, InCall
<1>4. r \in DOMAIN request /\ request[r] \in Requests /\ q \in Queues(Threads) /\ q.m_blockers = <<>>
  BY <1>1, <1>2, <1>3, RequestFields DEF WaitOK, Requests
<1> DEFINE x == [request[r] EXCEPT !.queue = AddBlocker(q, t)]
<1>5. /\ request' \in Seq(Requests) /\ DOMAIN request' = DOMAIN request
      /\ request'[r] = x /\ \A i \in DOMAIN request : i # r => request'[i] = request[i]
  <2>1. x \in Requests /\ request' = [request EXCEPT ![r] = x]
    BY <1>1, <1>4, QueueTyping DEF Requests
  <2> QED  BY <1>2, <1>4, <2>1, UpdatedRequest DEF Types
<1>6. /\ x.drive = request[r].drive /\ x.type = request[r].type /\ x.count = request[r].count
      /\ x.kernel = request[r].kernel /\ x.result = request[r].result /\ x.data = request[r].data
      /\ x.left = request[r].left /\ x.reset = request[r].reset /\ x.queue = AddBlocker(q, t)
  BY <1>4 DEF Requests
<1> HIDE DEF x
<1>7. /\ call' \in [Threads -> CallRecords]
      /\ call'[t].at = IF ShouldAddBlocker(q) THEN "blocked" ELSE "back"
      /\ call'[t].drive = call[t].drive /\ call'[t].plan = call[t].plan
      /\ call'[t].block = call[t].block /\ call'[t].req = call[t].req
      /\ call'[t].interrupted = call[t].interrupted
      /\ \A u \in Threads : u # t => call'[u] = call[u]
  BY <1>1, <1>2 DEF Types, CallRecords
<1>8. Types'
  BY <1>1, <1>2, <1>5, <1>7 DEF Types, Drives
<1>9. Numbering'
  BY <1>1, <1>2, SameWork
<1>10. Records' /\ DataIsOwn' /\ PanicsAreKnown'
  <2>1. Records'
    BY <1>1, <1>2, <1>5, <1>6 DEF Records, Drives
  <2>2. DataIsOwn'
    BY <1>2, <1>5, <1>6 DEF DataIsOwn
  <2>3. PanicsAreKnown'
    BY <1>1 DEF PanicsAreKnown, Alive
  <2> QED  BY <2>1, <2>2, <2>3
<1>11. Queued' /\ Strays' /\ Token'
  <2>1. \A i \in DOMAIN request : SameTransfer(i)
    BY <1>5, <1>6 DEF SameTransfer
  <2> QED  BY <1>1, <1>2, <1>5, <2>1, DeviceSide DEF Types, workVars
<1>12. Callers'
  <2>1. \A v \in Threads : (InCall(v)' <=> InCall(v)) /\ call'[v].req = call[v].req
    BY <1>1, <1>7 DEF InCall
  <2>2. ASSUME NEW u \in Threads, u # t PROVE CallerOK(u)'
    <3>1. CallerOK(u)
      BY <1>2 DEF Callers
    <3>2. InCall(u) => call[u].req # r
      BY <1>3, <2>2 DEF WaitOK
    <3> QED  BY <1>1, <1>5, <1>7, <2>1, <2>2, <3>1, <3>2, OtherCaller DEF CallerOK, WaitOK
  <2>4. \A u \in Threads : InCall(u)' /\ call'[u].req = call'[t].req => u = t
    BY <1>3, <1>7, <2>1 DEF WaitOK
  <2>3. CallerOK(t)'
    <3>1. CASE ShouldAddBlocker(q)
      <4>1. x.queue = Queue(<<t>>, q.m_wake_requested, q.m_should_block)
        BY <1>4, <1>6, <3>1 DEF AddBlocker
      <4>2. ~q.m_wake_requested /\ q.m_should_block /\ call'[t].at = "blocked"
        BY <1>7, <3>1 DEF ShouldAddBlocker
      <4>3. WaitOK(t)'
        <5>1. /\ request'[call'[t].req] = x /\ call'[t].req \in DOMAIN request'
              /\ x.left = "no" /\ x.result # "gone" /\ x.queue.m_should_block
          BY <1>3, <1>4, <1>5, <1>6, <1>7, <4>1, <4>2 DEF WaitOK, Queue
        <5>2. /\ x.queue.m_blockers = IF call'[t].at = "blocked" THEN <<t>> ELSE <<>>
              /\ ~x.queue.m_wake_requested
          BY <4>1, <4>2 DEF Queue
        <5>3. x.result \in Completed <=> call'[t].at = "back"
          BY <1>1, <1>3, <1>6, <4>2 DEF WaitOK
        <5> QED  BY <2>4, <4>2, <5>1, <5>2, <5>3 DEF WaitOK
      <4> QED  BY <1>1, <1>3, <1>7, <4>2, <4>3 DEF CallerOK, Drives
    <3>2. CASE ~ShouldAddBlocker(q)
      <4>1. x.queue = Queue(<<>>, FALSE, q.m_should_block)
        BY <1>4, <1>6, <3>2 DEF AddBlocker
      <4>2. q.m_wake_requested /\ call'[t].at = "back"
        BY <1>3, <1>7, <3>2 DEF ShouldAddBlocker, WaitOK
      <4>3. WaitOK(t)'
        <5>1. /\ request'[call'[t].req] = x /\ call'[t].req \in DOMAIN request'
              /\ x.left = "no" /\ x.result # "gone" /\ x.queue.m_should_block
          BY <1>3, <1>4, <1>5, <1>6, <1>7, <4>1, <4>2 DEF WaitOK, Queue
        <5>2. /\ x.queue.m_blockers = IF call'[t].at = "blocked" THEN <<t>> ELSE <<>>
              /\ ~x.queue.m_wake_requested
          BY <4>1, <4>2 DEF Queue
        <5>3. x.result \in Completed <=> call'[t].at = "back"
          BY <1>1, <1>3, <1>6, <4>2 DEF WaitOK
        <5> QED  BY <2>4, <4>2, <5>1, <5>2, <5>3 DEF WaitOK
      <4> QED  BY <1>1, <1>3, <1>7, <4>2, <4>3 DEF CallerOK, Drives
    <3> QED  BY <3>1, <3>2
  <2> QED  BY <2>2, <2>3 DEF Callers
<1>13. Sleepers'
  <2>1. ASSUME NEW u \in Members(x.queue) PROVE call'[u].at = "blocked" /\ call'[u].req = r
    <3>1. u = t /\ ShouldAddBlocker(q)
      BY <1>4, <1>6, <2>1 DEF AddBlocker, Queue, Members, ToSet
    <3> QED  BY <1>7, <3>1
  <2>2. ASSUME NEW i \in DOMAIN request, i # r, NEW u \in Members(request[i].queue)
        PROVE  call'[u].at = "blocked" /\ call'[u].req = i
    <3>1. u \in Threads /\ call[u].at = "blocked" /\ call[u].req = i
      BY <1>2, <2>2, SleepersAreThreads DEF Sleepers
    <3> QED  BY <1>1, <1>7, <3>1
  <2> QED  BY <1>5, <2>1, <2>2 DEF Sleepers
<1> QED  BY <1>8, <1>9, <1>10, <1>11, <1>12, <1>13 DEF RInv

\* The queue of a request whose caller is the only one registered, once it has left.
LEMMA LastBlocker ==
    ASSUME NEW T, NEW t \in T, NEW q \in Queues(T), q.m_blockers = <<t>>
    PROVE  /\ RemoveBlocker(q, t) \in Queues(T)
           /\ RemoveBlocker(q, t).m_blockers = <<>>
           /\ RemoveBlocker(q, t).m_wake_requested = q.m_wake_requested
           /\ RemoveBlocker(q, t).m_should_block = q.m_should_block
<1>1. RemoveBlocker(q, t) \in Queues(T)
  BY QueueTyping
<1>2. Distinct(q) /\ t \in Members(q) /\ Members(q) = {t}
  BY DEF Distinct, Members, ToSet
<1>3. Members(RemoveBlocker(q, t)) = {}
  BY <1>2, RemovedMembers
<1>4. RemoveBlocker(q, t).m_blockers = <<>>
  <2> DEFINE s == RemoveBlocker(q, t).m_blockers
  <2>1. s \in Seq(T) /\ DOMAIN s = {}
    BY <1>1, <1>3 DEF Queues, Members, ToSet
  <2> HIDE DEF s
  <2>2. s = <<>>
    BY <2>1
  <2> QED  BY <2>2 DEF s
<1> QED  BY <1>1, <1>2, <1>4 DEF RemoveBlocker, Queue

\* A signal ends the wait; the request stays where it is.
LEMMA InterruptStep ==
    ASSUME RInv, Alive, NEW t \in Threads, Interrupt(t)
    PROVE  RInv'
<1> DEFINE r == call[t].req
           q == request[r].queue
<1>1. /\ call[t].at = "blocked" /\ ~call[t].block /\ 1 <= budget /\ budget' = budget - 1
      /\ request' = [request EXCEPT ![r].queue = RemoveBlocker(@, t)]
      /\ call' = [call EXCEPT ![t].at = "back", ![t].interrupted = TRUE]
      /\ UNCHANGED <<workVars, work, ran, kind, m_requests, channel, irq, late, panicked>>
  BY DEF Interrupt, Spend
<1>2. Types /\ Numbering /\ Queued /\ Callers /\ Sleepers /\ Strays /\ Token /\ Records /\ DataIsOwn
  BY DEF RInv
<1>3. CallerOK(t) /\ InCall(t) /\ WaitOK(t)
  BY <1>1, <1>2 DEF Callers, CallerOK, InCall
<1>4. r \in DOMAIN request /\ request[r] \in Requests /\ q \in Queues(Threads) /\ q.m_blockers = <<t>>
  BY <1>1, <1>2, <1>3, RequestFields DEF WaitOK, Requests
<1> DEFINE x == [request[r] EXCEPT !.queue = RemoveBlocker(q, t)]
<1>14. /\ RemoveBlocker(q, t) \in Queues(Threads) /\ RemoveBlocker(q, t).m_blockers = <<>>
       /\ RemoveBlocker(q, t).m_wake_requested = q.m_wake_requested
       /\ RemoveBlocker(q, t).m_should_block = q.m_should_block
  BY <1>4, LastBlocker
<1>5. /\ request' \in Seq(Requests) /\ DOMAIN request' = DOMAIN request
      /\ request'[r] = x /\ \A i \in DOMAIN request : i # r => request'[i] = request[i]
  <2>1. x \in Requests /\ request' = [request EXCEPT ![r] = x]
    BY <1>1, <1>4, <1>14 DEF Requests
  <2> QED  BY <1>2, <1>4, <2>1, UpdatedRequest DEF Types
<1>6. /\ x.drive = request[r].drive /\ x.type = request[r].type /\ x.count = request[r].count
      /\ x.kernel = request[r].kernel /\ x.result = request[r].result /\ x.data = request[r].data
      /\ x.left = request[r].left /\ x.reset = request[r].reset /\ x.queue = RemoveBlocker(q, t)
  BY <1>4 DEF Requests
<1> HIDE DEF x
<1>7. /\ call' \in [Threads -> CallRecords]
      /\ call'[t].at = "back" /\ call'[t].interrupted
      /\ call'[t].drive = call[t].drive /\ call'[t].plan = call[t].plan
      /\ call'[t].block = call[t].block /\ call'[t].req = call[t].req
      /\ \A u \in Threads : u # t => call'[u] = call[u]
  BY <1>1, <1>2 DEF Types, CallRecords
<1>8. Types' /\ budget' \in Nat /\ budget' <= budget
  <2>1. budget' \in 0..MaxTroubles /\ budget' \in Nat /\ budget' <= budget
    BY <1>1, <1>2, IOAssumptions DEF Types
  <2> QED  BY <1>1, <1>2, <1>5, <1>7, <2>1 DEF Types, Drives
<1>9. Numbering'
  BY <1>1, <1>2, SameWork
<1>10. Records' /\ DataIsOwn' /\ PanicsAreKnown'
  <2>1. Records'
    BY <1>1, <1>2, <1>5, <1>6 DEF Records, Drives
  <2>2. DataIsOwn'
    BY <1>2, <1>5, <1>6 DEF DataIsOwn
  <2>3. PanicsAreKnown'
    BY <1>1 DEF PanicsAreKnown, Alive
  <2> QED  BY <2>1, <2>2, <2>3
<1>11. Queued' /\ Strays' /\ Token'
  <2>1. \A i \in DOMAIN request : SameTransfer(i)
    BY <1>5, <1>6 DEF SameTransfer
  <2> QED  BY <1>1, <1>2, <1>5, <1>8, <2>1, DeviceSide DEF workVars
<1>12. Callers'
  <2>1. \A v \in Threads : (InCall(v)' <=> InCall(v)) /\ call'[v].req = call[v].req
    BY <1>1, <1>7 DEF InCall
  <2>2. ASSUME NEW u \in Threads, u # t PROVE CallerOK(u)'
    <3>1. CallerOK(u)
      BY <1>2 DEF Callers
    <3>2. InCall(u) => call[u].req # r
      BY <1>3, <2>2 DEF WaitOK
    <3> QED  BY <1>1, <1>5, <1>7, <2>1, <2>2, <3>1, <3>2, OtherCaller DEF CallerOK, WaitOK
  <2>3. WaitOK(t)'
    <3>1. \A u \in Threads : InCall(u)' /\ call'[u].req = call'[t].req => u = t
      BY <1>3, <1>7, <2>1 DEF WaitOK
    <3>2. /\ request'[call'[t].req] = x /\ call'[t].req \in DOMAIN request'
          /\ x.left = "no" /\ x.result # "gone" /\ x.queue.m_should_block
      BY <1>3, <1>4, <1>5, <1>6, <1>7, <1>14 DEF WaitOK
    <3>3. /\ x.queue.m_blockers = <<>>
          /\ x.queue.m_wake_requested => x.result \in Completed
      BY <1>3, <1>6, <1>14 DEF WaitOK
    <3> QED  BY <1>7, <3>1, <3>2, <3>3 DEF WaitOK
  <2>4. CallerOK(t)'
    BY <1>1, <1>3, <1>7, <2>3 DEF CallerOK, Drives
  <2> QED  BY <2>2, <2>4 DEF Callers
<1>13. Sleepers'
  <2>1. Members(x.queue) = {}
    BY <1>6, <1>14 DEF Members, ToSet
  <2>2. ASSUME NEW i \in DOMAIN request, i # r, NEW u \in Members(request[i].queue)
        PROVE  call'[u].at = "blocked" /\ call'[u].req = i
    <3>1. u \in Threads /\ call[u].at = "blocked" /\ call[u].req = i
      BY <1>2, <2>2, SleepersAreThreads DEF Sleepers
    <3> QED  BY <1>1, <1>7, <2>2, <3>1
  <2> QED  BY <1>5, <2>1, <2>2 DEF Sleepers
<1> QED  BY <1>8, <1>9, <1>10, <1>11, <1>12, <1>13 DEF RInv

\* The caller makes something of the result and gives its request up: one that is
\* completed is gone, one whose wait was interrupted stays with the device.
LEMMA HandleResultStep ==
    ASSUME RInv, Alive, NEW t \in Threads, NEW o \in Ways, HandleResult(t, o)
    PROVE  RInv'
<1> DEFINE r == call[t].req
           q == request[r]
           listed == r \in ToSet(m_requests[q.drive])
           x == IF ~listed THEN Gone
                ELSE [q EXCEPT !.left = IF call[t].interrupted THEN "interrupted" ELSE "returned"]
           ends == call[t].interrupted \/ q.result \in {"Failure", "MemoryFault"} \/ o = "faults"
                   \/ call[t].plan = <<>>
<1>1. /\ call[t].at = "back" /\ Spend(Trouble(o))
      /\ panicked' = panicked \cup
             (IF ~listed /\ q.result \notin Completed THEN {"destroyed"}
              ELSE IF call[t].block /\ q.result \notin Completed THEN {"read_block"}
              ELSE IF q.kernel /\ ~call[t].interrupted /\ q.result = "MemoryFault"
                THEN {"kernel_buffer"}
              ELSE {})
      /\ request' = [request EXCEPT ![r] = x]
      /\ call' = [call EXCEPT ![t] = IF ends THEN NoCall ELSE [call[t] EXCEPT !.at = "make"]]
      /\ UNCHANGED <<workVars, work, ran, kind, m_requests, channel, irq, late>>
  BY DEF HandleResult
<1>2. Types /\ Numbering /\ Queued /\ Callers /\ Sleepers /\ Strays /\ Token /\ Records /\ DataIsOwn
  BY DEF RInv
<1>3. CallerOK(t) /\ InCall(t) /\ WaitOK(t)
  BY <1>1, <1>2 DEF Callers, CallerOK, InCall
<1>4. /\ r \in DOMAIN request /\ q \in Requests /\ q.queue.m_blockers = <<>>
      /\ q.left = "no" /\ q.result # "gone" /\ q.drive \in Drives
  BY <1>1, <1>2, <1>3, RequestFields DEF WaitOK, Records
<1>5. listed <=> q.result \in {"Pending", "Started"}
  <2>1. ASSUME listed PROVE q.result \in {"Pending", "Started"}
    <3>1. PICK i \in DOMAIN m_requests[q.drive] : m_requests[q.drive][i] = r
      BY <2>1 DEF ToSet
    <3>2. q.result = IF i = 1 THEN "Started" ELSE "Pending"
      BY <1>2, <1>4, <3>1 DEF Queued
    <3> QED  BY <3>2
  <2>2. ASSUME q.result \in {"Pending", "Started"} PROVE listed
    <3>1. PICK i \in DOMAIN m_requests[q.drive] : m_requests[q.drive][i] = r
      BY <1>2, <1>4, <2>2 DEF Queued
    <3> QED  BY <3>1 DEF ToSet
  <2> QED  BY <2>1, <2>2
<1>6. q.result \in Completed <=> ~listed
  BY <1>4, <1>5 DEF Requests, Completed
<1>7. ~call[t].interrupted => ~listed
  BY <1>1, <1>3, <1>6 DEF WaitOK
<1>8. panicked' = {}
  <2>1. call[t].block => ~call[t].interrupted
    BY <1>3 DEF CallerOK
  <2>2. q.result = "MemoryFault" => ~q.kernel
    BY <1>2, <1>4 DEF Records
  <2> QED  BY <1>1, <1>6, <1>7, <2>1, <2>2 DEF Alive
<1>9. /\ x \in Requests
      /\ listed => /\ x.drive = q.drive /\ x.type = q.type /\ x.count = q.count
                   /\ x.kernel = q.kernel /\ x.result = q.result /\ x.data = q.data
                   /\ x.reset = q.reset /\ x.queue = q.queue /\ x.left = "interrupted"
      /\ ~listed => x = Gone
  <2>1. Gone \in Requests
    BY IOAssumptions DEF Gone, Requests, NewQueue, Queue, Queues
  <2> QED  BY <1>4, <1>7, <2>1 DEF Requests
<1>10. Gone.drive = "none" /\ Gone.result = "gone" /\ Gone.data = <<>> /\ Gone.count = 0 /\ Gone.queue.m_blockers = <<>>
  BY DEF Gone, NewQueue, Queue
<1> HIDE DEF x
<1>11. /\ request' \in Seq(Requests) /\ DOMAIN request' = DOMAIN request
       /\ request'[r] = x /\ \A i \in DOMAIN request : i # r => request'[i] = request[i]
  BY <1>1, <1>2, <1>4, <1>9, UpdatedRequest DEF Types
<1>12. /\ call' \in [Threads -> CallRecords]
       /\ call'[t].at \in {"user", "make"} /\ ~call'[t].interrupted
       /\ call'[t].at = "make" => call'[t].plan # <<>> /\ call'[t].drive = call[t].drive
       /\ \A u \in Threads : u # t => call'[u] = call[u]
  <2>1. call \in [Threads -> CallRecords] /\ NoCall \in CallRecords
    BY <1>2 DEF Types, NoCall, CallRecords
  <2>2. CASE ends
    BY <1>1, <2>1, <2>2 DEF NoCall
  <2>3. CASE ~ends
    BY <1>1, <2>1, <2>3 DEF CallRecords
  <2> QED  BY <2>2, <2>3
<1>13. budget' \in Nat /\ budget' <= budget /\ budget' \in 0..MaxTroubles
  BY <1>1, <1>2, IOAssumptions DEF Types, Spend, Trouble
<1>14. Types'
  BY <1>1, <1>2, <1>11, <1>12, <1>13 DEF Types, Drives
<1>15. Numbering'
  BY <1>1, <1>2, SameWork
<1>16. Records' /\ DataIsOwn' /\ PanicsAreKnown'
  <2>1. Records'
    <3>1. Drives' = Drives
      BY <1>1 DEF Drives
    <3>2. CASE listed
      BY <1>2, <1>4, <1>9, <1>11, <3>1, <3>2 DEF Records
    <3>3. CASE ~listed
      BY <1>2, <1>9, <1>10, <1>11, <3>1, <3>3 DEF Records
    <3> QED  BY <3>2, <3>3
  <2>2. DataIsOwn'
    <3>1. CASE listed
      BY <1>2, <1>4, <1>5, <1>9, <1>11, <3>1 DEF DataIsOwn
    <3>2. CASE ~listed
      BY <1>2, <1>9, <1>10, <1>11, <3>2 DEF DataIsOwn
    <3> QED  BY <3>1, <3>2
  <2>3. PanicsAreKnown'
    BY <1>8 DEF PanicsAreKnown
  <2> QED  BY <2>1, <2>2, <2>3
<1>17. Queued' /\ Strays' /\ Token'
  <2>1. \A i \in DOMAIN request :
           SameTransfer(i) \/ (request[i].result \in Completed /\ request'[i].result = "gone")
    BY <1>6, <1>9, <1>10, <1>11 DEF SameTransfer
  <2> QED  BY <1>1, <1>2, <1>11, <1>13, <2>1, DeviceSide DEF workVars
<1>18. Callers'
  <2>1. \A v \in Threads : InCall(v)' => v # t /\ InCall(v) /\ call'[v].req = call[v].req
    BY <1>12 DEF InCall
  <2>2. ASSUME NEW u \in Threads, u # t PROVE CallerOK(u)'
    <3>1. CallerOK(u)
      BY <1>2 DEF Callers
    <3>2. InCall(u) => call[u].req # r
      BY <1>3, <2>2 DEF WaitOK
    <3> QED  BY <1>1, <1>11, <1>12, <2>1, <2>2, <3>1, <3>2, OtherCaller DEF CallerOK, WaitOK
  <2>3. CallerOK(t)'
    BY <1>1, <1>3, <1>12, <2>1 DEF CallerOK, Drives
  <2> QED  BY <2>2, <2>3 DEF Callers
<1>19. Sleepers'
  <2>1. Members(x.queue) = {}
    BY <1>4, <1>9, <1>10 DEF Members, ToSet
  <2>2. ASSUME NEW i \in DOMAIN request, i # r, NEW u \in Members(request[i].queue)
        PROVE  call'[u].at = "blocked" /\ call'[u].req = i
    <3>1. u \in Threads /\ call[u].at = "blocked" /\ call[u].req = i
      BY <1>2, <2>2, SleepersAreThreads DEF Sleepers
    <3> QED  BY <1>1, <1>12, <2>2, <3>1
  <2> QED  BY <1>11, <2>1, <2>2 DEF Sleepers
<1> QED  BY <1>14, <1>15, <1>16, <1>17, <1>18, <1>19 DEF RInv

----------------------------------------------------------------------------
(* The steps of the worker that are not the work of an item *)

\* What depends on the work only through what is still to be done.
LEMMA SameIO ==
    ASSUME RInv, Alive, ran' \in BOOLEAN, UNCHANGED <<kind, m_requests, request, channel, irq, call, budget,
                                    late, panicked>>,
           work' \in Seq(Items), Numbering', Todo' = Todo, \A i \in Todo : work'[i] = work[i]
    PROVE  RInv'
<1>1. Types /\ Queued /\ Callers /\ Sleepers /\ Strays /\ Token /\ Records /\ DataIsOwn
  BY DEF RInv
<1>2. /\ Drives' = Drives /\ Mine' = Mine /\ (Active' <=> Active) /\ (Spent' <=> Spent)
      /\ \A r : Begun(r)' <=> Begun(r)
  BY DEF Drives, Mine, Active, Spent, Begun
<1>3. Types' /\ Records' /\ DataIsOwn' /\ PanicsAreKnown'
  <2>1. PanicsAreKnown'
    BY DEF PanicsAreKnown, Alive
  <2>2. Types'
    BY <1>1, <1>2 DEF Types
  <2>3. Records' /\ DataIsOwn'
    BY <1>1, <1>2 DEF Records, DataIsOwn
  <2> QED  BY <2>1, <2>2, <2>3
<1>4. Queued' /\ Strays'
  BY <1>1, <1>2 DEF Queued, Strays
<1>5. Callers' /\ Sleepers'
  BY <1>1, CallerSide
<1>6. Token'
  <2>1. \A r, w : /\ DriveOK(r)' <=> DriveOK(r)
                  /\ AnsweredOK(r)' <=> AnsweredOK(r)
                  /\ ItemOK(w, r)' <=> ItemOK(w, r)
    BY DEF DriveOK, AnsweredOK, ItemOK, SectorOK, MovedOK
  <2>2. (InDrive => InDrive') /\ (InIrq => InIrq') /\ (Stopped => Stopped')
    BY <1>2, <2>1 DEF InDrive, InIrq, Stopped
  <2>3. InItem => InItem'
    BY <1>2, <2>1 DEF InItem
  <2>4. Broken => Broken'
    BY <1>2 DEF Broken, Mine
  <2> QED  BY <1>1, <2>2, <2>3, <2>4 DEF Token
<1> QED  BY <1>3, <1>4, <1>5, <1>6 DEF RInv

\* The worker takes an item or waits for one, or whoever queued one wakes it.
LEMMA LoopStep ==
    ASSUME RInv, QInv, Alive, Loop \/ Wake
    PROVE  RInv'
<1>1. UNCHANGED ioVars /\ UNCHANGED <<queued, done>> /\ Types /\ Numbering
  BY DEF Loop, Wake, WQ!TakeItem, WQ!WaitOn, WQ!RunDeferred, WQ!Wake, RInv
<1>2. ran => pc' = "run"
  <2> SUFFICES ASSUME ran PROVE pc' = "run"
    OBVIOUS
  <2>1. pc = "run"
    BY <1>1 DEF Numbering
  <2>2. m_wait_queue.m_blockers = <<>>
    BY <2>1 DEF QInv, OneSleeper
  <2>3. WQ!WokenByOne(m_wait_queue) = {}
    BY <2>2 DEF WQ!WokenByOne
  <2> QED  BY <2>1, <2>3 DEF Loop, Wake, WQ!TakeItem, WQ!WaitOn, WQ!RunDeferred, WQ!Wake
<1>3. Numbering' /\ Todo' = Todo
  BY <1>1, <1>2 DEF Numbering, Todo, ioVars
<1> QED  BY <1>1, <1>3, SameIO DEF ioVars, Types

\* The worker has run an item and counts it as done.
LEMMA FinishItemStep ==
    ASSUME RInv, QInv, Alive, FinishItem
    PROVE  RInv'
<1>1. /\ ran /\ ran' = FALSE /\ pc = "run" /\ done' = Append(done, item) /\ queued' = queued
      /\ work' = [work EXCEPT ![item] = [what |-> "gone", req |-> 0]]
      /\ UNCHANGED <<kind, m_requests, request, channel, irq, call, budget, late, panicked>>
  BY DEF FinishItem, WQ!RunItem
<1>2. Types /\ Numbering /\ work \in Seq(Items) /\ done \in Seq(AnyItem)
  BY DEF RInv, Types, QInv, QueueTypes
<1>3. item = Len(done) + 1 /\ item \in 1..Len(work) /\ Len(done) \in Nat
  BY <1>1, <1>2, ItemNumbers
<1>4. /\ work' \in Seq(Items) /\ Len(work') = Len(work)
      /\ \A i \in 1..Len(work) : i # item => work'[i] = work[i]
  <2>1. [what |-> "gone", req |-> 0] \in Items
    BY DEF Items
  <2> QED  BY <1>1, <1>2, <1>3, <2>1, ExceptSeq
<1>5. Len(done') = Len(done) + 1
  <2>1. item \in AnyItem
    BY <1>3 DEF AnyItem
  <2> QED  BY <1>1, <1>2, <2>1
<1>6. Todo' = Todo /\ item \notin Todo
  BY <1>1, <1>3, <1>4, <1>5 DEF Todo
<1>7. Numbering'
  BY <1>1, <1>2, <1>4 DEF Numbering
<1>8. \A i \in Todo : i \in 1..Len(work) /\ work'[i] = work[i]
  BY <1>4, <1>6 DEF Todo
<1> QED  BY <1>1, <1>4, <1>6, <1>7, <1>8, SameIO

----------------------------------------------------------------------------
(* Interrupts, and the work that does not touch a sector *)

\* An item that meets another request than its own: a PIO transfer went wrong before.
LEMMA StaleStep ==
    ASSUME RInv, QInv, Alive, RunStale
    PROVE  RInv' /\ Listed'
<1>1. /\ pc = "run" /\ ~ran /\ work[item].req # channel.current
      /\ panicked' = panicked \cup {"stale_item"} /\ ran' = TRUE
      /\ UNCHANGED <<workVars, work, kind, m_requests, request, channel, irq, call, budget, late>>
  BY DEF RunStale, Running, Stale
<1>2. Types /\ Numbering /\ Strays /\ Records /\ DataIsOwn
  BY DEF RInv
<1>3. item \in Todo
  BY <1>1, <1>2, ItemIsFirst
<1>4. Spent
  BY <1>1, <1>2, <1>3 DEF Strays
<1>5. Types' /\ Numbering'
  BY <1>1, <1>2 DEF Types, Numbering, workVars, Drives
<1>6. Records' /\ DataIsOwn'
  BY <1>1, <1>2 DEF Records, DataIsOwn, Drives
<1>7. PanicsAreKnown' /\ ~Alive'
  BY <1>1, <1>4 DEF PanicsAreKnown, Alive, Spent
<1>8. Listed'
  BY <1>1 DEF RInv, Queued, Listed, Drives
<1> QED  BY <1>5, <1>6, <1>7, <1>8 DEF RInv

\* An error of an IDE drive while nobody holds the channel's lock.
LEMMA UnlockedErrorStep ==
    ASSUME RInv, QInv, Reported, Alive, NEW locked \in BOOLEAN, HandleIrq(locked),
           panicked' # panicked
    PROVE  RInv' /\ Listed'
<1>1. /\ irq' = NoIrq /\ IrqWork = "Failure" /\ panicked' = panicked \cup {"error_unlocked"}
      /\ UNCHANGED <<workVars, work, ran, kind, m_requests, request, channel, call, budget, late>>
  BY DEF HandleIrq
<1>2. Types /\ Numbering /\ Records /\ DataIsOwn
  BY DEF RInv
<1>3. irq.what = "error"
  BY <1>1, <1>2 DEF IrqWork, Types
<1>4. Types' /\ Numbering'
  BY <1>1, <1>2 DEF Types, Numbering, workVars, Drives, NoIrq, Irq
<1>5. Records' /\ DataIsOwn'
  BY <1>1, <1>2 DEF Records, DataIsOwn, Drives
<1>6. PanicsAreKnown' /\ ~Alive'
  BY <1>1, <1>3 DEF PanicsAreKnown, Alive, Reported
<1>7. Listed'
  BY <1>1 DEF RInv, Queued, Listed, Drives
<1> QED  BY <1>4, <1>5, <1>6, <1>7 DEF RInv

\* The interrupt handler hands what it was told to the worker.
LEMMA HandleIrqStep ==
    ASSUME RInv, QInv, Alive, NEW locked \in BOOLEAN, HandleIrq(locked), panicked' = panicked
    PROVE  RInv'
<1> DEFINE c == channel.current
           w == IrqWork
           new == IF w = "none" THEN {} ELSE {NewItem}
<1>1. /\ irq # NoIrq /\ irq' = NoIrq /\ QueueWork(w, irq.req)
      /\ UNCHANGED <<ran, kind, m_requests, request, channel, call, budget, late, panicked>>
  BY DEF HandleIrq, Alive
<1>2. Types /\ Numbering /\ Queued /\ Callers /\ Sleepers /\ Strays /\ Token /\ Records /\ DataIsOwn
  BY DEF RInv
<1>3. /\ Begun(irq.req) /\ irq.what # "none" /\ irq.req \in Nat
      /\ irq.what \in {"fatal", "reset"} => kind = "ahci"
      /\ irq.req # c => Spent
  BY <1>1, <1>2 DEF Strays, Types
<1>4. /\ w \in {"none", "sector", "fatal", "reset", "Success", "Failure"}
      /\ w \in {"fatal", "reset"} => kind = "ahci"
      /\ c # 0 => w # "none"
      /\ c # 0 /\ w = "sector" => kind = "pio" /\ irq.what = "done"
      /\ c # 0 /\ w = "Success" => kind # "pio" /\ irq.what = "done"
  BY <1>2, <1>3 DEF IrqWork, Types
<1>5. /\ work' \in Seq(Items) /\ Numbering' /\ NewItem \notin Todo /\ NewItem \in Nat
      /\ Todo' = Todo \cup new
      /\ \A i \in Todo : i \in Nat /\ i < NewItem /\ work'[i] = work[i]
      /\ w # "none" => work'[NewItem] = [what |-> w, req |-> irq.req]
  <2>1. w \in {"none", "sector", "fatal", "reset"} \cup Completed
    BY <1>4 DEF Completed
  <2> HIDE DEF w
  <2> QED  BY <1>1, <1>2, <1>3, <2>1, QueueWorkTodo
<1> HIDE DEF w
<1>6. /\ Drives' = Drives /\ (Active' <=> Active) /\ (Spent' <=> Spent)
      /\ (\A r : Begun(r)' <=> Begun(r)) /\ channel'.current = c /\ NoIrq.req = 0
  BY <1>1 DEF Drives, Active, Spent, Begun, NoIrq, Irq
<1>7. Mine' = Mine \cup (IF irq.req = c THEN new ELSE {})
  BY <1>1, <1>5, <1>6 DEF Mine
<1>8. Types' /\ Records' /\ DataIsOwn' /\ PanicsAreKnown'
  <2>1. NoIrq \in [what : {"none", "done", "error", "fatal", "reset"}, req : Nat]
    BY DEF NoIrq, Irq
  <2>2. Types'
    BY <1>1, <1>2, <1>5, <1>6, <2>1 DEF Types
  <2>3. Records' /\ DataIsOwn'
    BY <1>1, <1>2, <1>6 DEF Records, DataIsOwn
  <2>4. PanicsAreKnown'
    BY <1>1 DEF PanicsAreKnown, Alive
  <2> QED  BY <2>2, <2>3, <2>4
<1>9. Queued'
  BY <1>1, <1>2, <1>6 DEF Queued
<1>10. Callers' /\ Sleepers'
  BY <1>1, <1>2, CallerSide
<1>11. Strays'
  <2>1. ASSUME NEW i \in Todo'
        PROVE  /\ Begun(work'[i].req) /\ work'[i].what # "gone"
               /\ work'[i].what \in {"fatal", "reset"} => kind = "ahci"
               /\ work'[i].req # c => Spent
    <3>1. CASE i \in Todo
      BY <1>2, <1>5, <3>1 DEF Strays
    <3>2. CASE i = NewItem /\ w # "none"
      BY <1>3, <1>4, <1>5, <3>2
    <3> QED  BY <1>5, <2>1, <3>1, <3>2
  <2> QED  BY <1>1, <1>2, <1>6, <2>1 DEF Strays
<1>12. Token'
  <2> SUFFICES ASSUME c # 0 PROVE (InDrive \/ InIrq \/ InItem \/ Stopped \/ Broken)'
    BY <1>6 DEF Token
  <2>1. \A v : /\ DriveOK(c)' <=> DriveOK(c)
               /\ SectorOK(c)' <=> SectorOK(c)
               /\ MovedOK(c)' <=> MovedOK(c)
               /\ ItemOK(v, c)' <=> ItemOK(v, c)
    BY <1>1 DEF DriveOK, ItemOK, SectorOK, MovedOK
  <2>2. irq'.req # c
    BY <1>1, <1>6
  <2>3. CASE Broken
    <3>1. PICK i \in Mine : work[i].what = "MemoryFault" /\ \A j \in Mine : i <= j
      BY <2>3 DEF Broken
    <3>2. i \in Mine' /\ work'[i].what = "MemoryFault"
      BY <1>5, <1>7, <3>1 DEF Mine
    <3>3. \A j \in Mine' : i <= j
      BY <1>5, <1>7, <3>1 DEF Mine
    <3>4. Spent' /\ ~request'[c].kernel
      BY <1>1, <1>6, <2>3 DEF Broken
    <3>5. Broken'
      BY <1>6, <3>2, <3>3, <3>4 DEF Broken
    <3> QED  BY <3>5
  <2>4. CASE irq.req # c /\ ~Broken
    <3>1. InDrive => InDrive'
      BY <1>1, <1>6, <1>7, <2>1, <2>2, <2>4 DEF InDrive
    <3>2. InItem => InItem'
      BY <1>5, <1>6, <1>7, <2>1, <2>2, <2>4 DEF InItem
    <3>3. Stopped => Stopped'
      BY <1>1, <1>7, <2>2, <2>4 DEF Stopped
    <3>4. ~InIrq
      BY <2>4 DEF InIrq
    <3> QED  BY <1>2, <2>4, <3>1, <3>2, <3>3, <3>4 DEF Token
  <2>5. CASE irq.req = c /\ ~Broken
    <3>1. InIrq
      BY <1>2, <2>5 DEF Token, InDrive, InItem, Stopped
    <3>2. Mine' = {NewItem} /\ work'[NewItem].what = w /\ NewItem \in Todo'
      BY <1>4, <1>5, <1>7, <2>5, <3>1 DEF InIrq
    <3>3. ItemOK(w, c)
      BY <1>4, <3>1 DEF InIrq, ItemOK, AnsweredOK
    <3>4. InItem'
      BY <1>6, <2>1, <2>2, <3>1, <3>2, <3>3 DEF InItem, InIrq
    <3> QED  BY <3>4
  <2> QED  BY <2>3, <2>4, <2>5
<1> QED  BY <1>5, <1>8, <1>9, <1>10, <1>11, <1>12 DEF RInv

\* An item of an AHCI port or a bus master is that of the current request, and the only
\* thing that is under way for it.
LEMMA OnlyItem ==
    ASSUME RInv, QInv, Alive, pc = "run", ~ran, ~Spent
    PROVE  /\ work[item].req = channel.current /\ channel.current \in DOMAIN request
           /\ Todo = {item} /\ Mine = {item} /\ ~Active /\ irq.req # channel.current
           /\ ItemOK(work[item].what, channel.current)
<1>1. Types /\ Numbering /\ Queued /\ Strays /\ Token
  BY DEF RInv
<1>2. item \in Todo
  BY <1>1, ItemIsFirst
<1>3. Todo = Mine /\ work[item].req = channel.current
  BY <1>1, <1>2 DEF Strays, Mine
<1>4. channel.current \in DOMAIN request /\ channel.current # 0
  <2>1. channel.current \in DOMAIN request
    BY <1>1, <1>2, <1>3 DEF Strays, Begun
  <2>2. 0 \notin DOMAIN request
    BY <1>1 DEF Types
  <2> QED  BY <2>1, <2>2
<1>5. ~InDrive /\ ~InIrq /\ ~Stopped /\ ~Broken
  BY <1>2, <1>3 DEF InDrive, InIrq, Stopped, Broken
<1>6. InItem
  BY <1>1, <1>4, <1>5 DEF Token
<1> QED  BY <1>2, <1>3, <1>4, <1>6 DEF InItem

\* The port is halted: the request under way is never heard of again.
LEMMA HaltStep ==
    ASSUME RInv, QInv, Alive, Running({"fatal", "reset"}), ran' = TRUE,
           channel' = [channel EXCEPT !.hw = Halted],
           UNCHANGED <<workVars, work, kind, m_requests, request, irq, call, budget, late, panicked>>
    PROVE  RInv'
<1> DEFINE c == channel.current
<1>1. /\ pc = "run" /\ ~ran /\ ran' = TRUE /\ work[item].what \in {"fatal", "reset"}
      /\ channel' = [channel EXCEPT !.hw = Command("stopped", 0, 0, "stopped")]
      /\ UNCHANGED <<workVars, work, kind, m_requests, request, irq, call, budget, late, panicked>>
  BY DEF Halted, Running
<1>2. Types /\ Numbering /\ Queued /\ Callers /\ Sleepers /\ Strays /\ Token /\ Records /\ DataIsOwn
  BY DEF RInv
<1>3. item \in Todo
  BY <1>1, <1>2, ItemIsFirst
<1>4. kind = "ahci" /\ ~Spent
  BY <1>1, <1>2, <1>3 DEF Strays, Spent
<1>5. Todo = {item} /\ Mine = {item} /\ irq.req # c
  BY <1>1, <1>4, OnlyItem
<1>6. /\ channel' \in Channels /\ channel'.hw.cmd = "stopped" /\ channel'.current = c
      /\ channel'.scatter_list = channel.scatter_list
  <2>1. Command("stopped", 0, 0, "stopped") \in Commands
    BY IOAssumptions DEF Commands, Command
  <2>2. channel \in Channels
    BY <1>2 DEF Types
  <2> QED  BY <1>1, <2>1, <2>2 DEF Channels, Command
<1>7. Numbering' /\ Todo' = {}
  <2>1. Numbering'
    BY <1>1, <1>2 DEF Numbering, workVars
  <2>2. Todo' = Todo \ {item}
    <3>1. item = Len(done) + 1 /\ Len(done) \in Nat /\ Len(work) \in Nat
      BY <1>1, <1>2, ItemNumbers
    <3> QED  BY <1>1, <3>1 DEF Todo, workVars
  <2> QED  BY <1>5, <2>1, <2>2
<1>8. /\ Drives' = Drives /\ ~Active' /\ (Spent' <=> Spent) /\ (\A r : Begun(r)' <=> Begun(r))
      /\ Mine' = {}
  BY <1>1, <1>6, <1>7 DEF Drives, Active, Spent, Begun, Mine
<1>9. Types' /\ Records' /\ DataIsOwn' /\ PanicsAreKnown'
  <2>1. Types'
    BY <1>1, <1>2, <1>6, <1>8 DEF Types
  <2>2. Records' /\ DataIsOwn'
    BY <1>1, <1>2, <1>8 DEF Records, DataIsOwn
  <2>3. PanicsAreKnown'
    BY <1>1 DEF PanicsAreKnown, Alive
  <2> QED  BY <2>1, <2>2, <2>3
<1>10. Queued'
  BY <1>1, <1>2, <1>6, <1>8 DEF Queued
<1>11. Callers' /\ Sleepers'
  BY <1>1, <1>2, CallerSide
<1>12. Strays'
  BY <1>1, <1>2, <1>6, <1>7, <1>8 DEF Strays
<1>13. Token'
  BY <1>1, <1>4, <1>5, <1>6, <1>8 DEF Token, Stopped
<1> QED  BY <1>7, <1>9, <1>10, <1>11, <1>12, <1>13 DEF RInv

\* A fatal error, or a reset that fails.
LEMMA RecoverStep ==
    ASSUME RInv, QInv, Alive, Recover \/ \E o \in Ways : o # "ok" /\ Reset(o)
    PROVE  RInv'
<1>1. CASE Recover
  BY <1>1, HaltStep DEF Recover, Running
<1>2. ASSUME NEW o \in Ways, o # "ok", Reset(o) PROVE RInv'
  <2>1. /\ Running({"fatal", "reset"}) /\ ran' = TRUE /\ channel' = [channel EXCEPT !.hw = Halted]
        /\ UNCHANGED <<workVars, work, kind, m_requests, request, irq, call, budget, late, panicked>>
    BY <1>2 DEF Reset, Running, QueueWork
  <2> QED  BY <2>1, HaltStep
<1> QED  BY <1>1, <1>2

\* A reset: the request under way will be taken for a success, and is marked.
LEMMA ResetStep ==
    ASSUME RInv, QInv, Alive, Reset("ok")
    PROVE  RInv'
<1> DEFINE c == channel.current
           x == [request[c] EXCEPT !.reset = TRUE]
<1>1. /\ pc = "run" /\ ~ran /\ ran' = TRUE /\ work[item].what = "reset"
      /\ QueueWork("Success", c)
      /\ request' = [request EXCEPT ![c].reset = TRUE]
      /\ UNCHANGED <<kind, m_requests, channel, irq, call, budget, late, panicked>>
  BY DEF Reset, Running
<1>2. Types /\ Numbering /\ Queued /\ Callers /\ Sleepers /\ Strays /\ Token /\ Records /\ DataIsOwn
  BY DEF RInv
<1>3. item \in Todo
  BY <1>1, <1>2, ItemIsFirst
<1>4. kind = "ahci" /\ ~Spent
  BY <1>1, <1>2, <1>3 DEF Strays, Spent
<1>5. /\ c \in DOMAIN request /\ c \in Nat /\ Todo = {item} /\ Mine = {item} /\ irq.req # c
      /\ ~Active /\ work[item].req = c
  BY <1>1, <1>2, <1>4, OnlyItem DEF Types, Channels
<1>6. request[c] \in Requests /\ request[c].result = "Started"
  <2>1. c # 0
    BY <1>2, <1>5 DEF Types
  <2> QED  BY <1>2, <1>5, <2>1, RequestFields DEF Queued
<1>7. /\ x \in Requests /\ x.drive = request[c].drive /\ x.type = request[c].type
      /\ x.count = request[c].count /\ x.kernel = request[c].kernel
      /\ x.result = request[c].result /\ x.data = request[c].data
      /\ x.left = request[c].left /\ x.queue = request[c].queue /\ x.reset
  BY <1>6 DEF Requests
<1>8. request' = [request EXCEPT ![c] = x]
  BY <1>1
<1> HIDE DEF x
<1>9. /\ request' \in Seq(Requests) /\ DOMAIN request' = DOMAIN request
      /\ request'[c] = x /\ \A i \in DOMAIN request : i # c => request'[i] = request[i]
  BY <1>2, <1>5, <1>7, <1>8, UpdatedRequest DEF Types
<1>10. /\ work' \in Seq(Items) /\ Numbering' /\ Todo' = {NewItem}
       /\ work'[NewItem] = [what |-> "Success", req |-> c]
  <2>1. "Success" \in {"none", "sector", "fatal", "reset"} \cup Completed
    BY DEF Completed
  <2>2. ran = FALSE /\ ran' # ran
    BY <1>1, <1>2 DEF Types
  <2> QED  BY <1>1, <1>2, <1>5, <2>1, <2>2, QueueWorkTodo
<1>11. /\ Drives' = Drives /\ (Active' <=> Active) /\ (Spent' <=> Spent)
       /\ (\A r : Begun(r)' <=> Begun(r)) /\ Mine' = {NewItem}
  BY <1>1, <1>7, <1>9, <1>10 DEF Drives, Active, Spent, Begun, Mine
<1>12. Types' /\ Records' /\ DataIsOwn' /\ PanicsAreKnown'
  <2>1. Types'
    BY <1>1, <1>2, <1>9, <1>10, <1>11 DEF Types
  <2>2. Records'
    BY <1>2, <1>7, <1>9, <1>11 DEF Records
  <2>3. DataIsOwn'
    BY <1>2, <1>7, <1>9 DEF DataIsOwn
  <2>4. PanicsAreKnown'
    BY <1>1 DEF PanicsAreKnown, Alive
  <2> QED  BY <2>1, <2>2, <2>3, <2>4
<1>13. Queued'
  <2>1. \A i \in DOMAIN request : request'[i].drive = request[i].drive /\ request'[i].result = request[i].result
    BY <1>7, <1>9
  <2> QED  BY <1>1, <1>2, <1>9, <2>1, SameQueues
<1>14. Callers' /\ Sleepers'
  BY <1>1, <1>2, <1>7, <1>9, CallerSide
<1>15. Strays'
  <2>1. Begun(c)
    BY <1>5, <1>6 DEF Begun
  <2> QED  BY <1>1, <1>2, <1>10, <1>11, <2>1 DEF Strays
<1>16. InItem'
  <2>1. ItemOK("Success", c)'
    BY <1>1, <1>7, <1>9 DEF ItemOK
  <2> QED  BY <1>1, <1>5, <1>10, <1>11, <2>1 DEF InItem
<1> QED  BY <1>10, <1>12, <1>13, <1>14, <1>15, <1>16 DEF RInv, Token

----------------------------------------------------------------------------
(* The drive and the sectors *)

\* So many sectors of one request.
LEMMA OwnSectors ==
    ASSUME NEW r \in Nat, NEW n \in Nat
    PROVE  /\ Own(n, r) \in Seq(Nat) /\ Len(Own(n, r)) = n
           /\ Append(Own(n, r), r) = Own(n + 1, r)
           /\ Own(0, r) = <<>> /\ Own(1, r) = <<r>>
<1>1. Own(n, r) \in Seq(Nat) /\ Len(Own(n, r)) = n /\ \A i \in 1..n : Own(n, r)[i] = r
  BY DEF Own
<1>2. /\ Own(n + 1, r) \in Seq(Nat) /\ Len(Own(n + 1, r)) = n + 1
      /\ \A i \in 1..(n + 1) : Own(n + 1, r)[i] = r
  BY DEF Own
<1>3. Append(Own(n, r), r) = Own(n + 1, r)
  <2> DEFINE a == Own(n, r)
             b == Own(n + 1, r)
  <2> HIDE DEF a, b
  <2>1. /\ Append(a, r) \in Seq(Nat) /\ Len(Append(a, r)) = n + 1
        /\ \A i \in 1..(n + 1) : Append(a, r)[i] = r
    BY <1>1 DEF a
  <2>2. b \in Seq(Nat) /\ Len(b) = n + 1 /\ \A i \in 1..(n + 1) : b[i] = r
    BY <1>2 DEF b
  <2>3. Append(a, r) = b
    BY <2>1, <2>2, SeqEqual
  <2> QED  BY <2>3 DEF a, b
<1>4. Own(0, r) = <<>>
  BY DEF Own
<1>5. Own(1, r) = <<r>>
  BY DEF Own
<1> QED  BY <1>1, <1>3, <1>4, <1>5

\* The drive goes on to its next sector.
LEMMA NextSectorFields ==
    ASSUME NEW hw \in Commands, hw.left > 0, NEW phase \in {"busy", "drq"}
    PROVE  LET n == NextSector(hw, phase)
           IN /\ n \in Commands
              /\ hw.left = 1 => n.cmd = "idle"
              /\ hw.left # 1 => n.cmd = hw.cmd /\ n.req = hw.req /\ n.left = hw.left - 1
                                /\ n.left > 0 /\ n.phase = phase
<1>1. PerPage \in Nat /\ hw.left \in 0..PerPage /\ hw.left \in Nat
  BY IOAssumptions DEF Commands
<1>2. Idle \in Commands /\ Idle.cmd = "idle"
  BY <1>1 DEF Idle, Command, Commands
<1>3. CASE hw.left = 1
  BY <1>2, <1>3 DEF NextSector
<1>4. CASE hw.left # 1
  <2>1. hw.left - 1 \in 0..PerPage /\ hw.left - 1 > 0
    BY <1>1, <1>4
  <2> QED  BY <1>4, <2>1 DEF NextSector, Commands
<1> QED  BY <1>3, <1>4

\* What a drive that answers or fails is at: the current request and nothing else is
\* under way for it, or one that a PIO transfer left behind.
LEMMA DriveAtWork ==
    ASSUME RInv, Alive, Active, irq = NoIrq
    PROVE  /\ Begun(channel.hw.req) /\ channel.hw.left > 0
           /\ channel.hw \in Commands /\ channel \in Channels
           /\ channel.hw.req # channel.current => Spent
           /\ channel.current # 0 /\ ~Broken => InDrive
BY DEF RInv, Strays, Token, InIrq, InItem, Stopped, Active, Types, Channels

\* The parts of the invariant that an interrupt leaves alone.
LEMMA StillBroken ==
    ASSUME Types, Broken, Todo' = Todo, work' = work, kind' = kind,
           channel'.current = channel.current, budget' \in Nat, budget' <= budget,
           request'[channel.current].kernel = request[channel.current].kernel
    PROVE  Broken'
<1>1. Mine' = Mine
  BY DEF Mine
<1>2. Spent'
  <2>1. budget \in Nat /\ MaxTroubles \in Nat
    BY IOAssumptions DEF Types
  <2> QED  BY <2>1 DEF Broken, Spent
<1> QED  BY <1>1, <1>2 DEF Broken

\* The drive fails at the command it is at.
LEMMA FailStep ==
    ASSUME RInv, Alive, NEW what \in {"error", "fatal", "reset"}, Fail(what)
    PROVE  RInv'
<1> DEFINE c == channel.current
           hw == channel.hw
<1>1. /\ irq = NoIrq /\ Active /\ what \in (IF kind = "ahci" THEN {"fatal", "reset"} ELSE {"error"})
      /\ 1 <= budget /\ budget' = budget - 1 /\ irq' = Irq(what, hw.req)
      /\ channel' = [channel EXCEPT !.hw = Idle]
      /\ UNCHANGED <<workVars, work, ran, kind, m_requests, request, call, late, panicked>>
  BY DEF Fail, Active, Spend
<1>2. Types /\ Numbering /\ Queued /\ Callers /\ Sleepers /\ Strays /\ Token /\ Records /\ DataIsOwn
  BY DEF RInv
<1>3. /\ Begun(hw.req) /\ hw \in Commands /\ hw.req \in Nat /\ (hw.req # c => Spent)
      /\ c # 0 /\ ~Broken => InDrive
  BY <1>1, DriveAtWork DEF Commands
<1>4. /\ channel' \in Channels /\ channel'.current = c /\ channel'.hw = Idle
      /\ channel'.scatter_list = channel.scatter_list
  <2>1. Idle \in Commands
    BY IOAssumptions DEF Idle, Command, Commands
  <2> QED  BY <1>1, <1>2, <2>1 DEF Types, Channels
<1>5. budget' \in 0..MaxTroubles /\ budget' \in Nat /\ budget' <= budget /\ (Spent => Spent')
  BY <1>1, <1>2, IOAssumptions DEF Types, Spent
<1>6. Numbering' /\ Todo' = Todo
  BY <1>1, <1>2, SameWork
<1>7. /\ Drives' = Drives /\ ~Active' /\ (\A r : Begun(r)' <=> Begun(r)) /\ Mine' = Mine
      /\ irq'.what = what /\ irq'.req = hw.req
  BY <1>1, <1>4, <1>6 DEF Drives, Active, Begun, Mine, Irq, Idle, Command
<1>8. Types' /\ Records' /\ DataIsOwn' /\ PanicsAreKnown'
  <2>1. irq' \in [what : {"none", "done", "error", "fatal", "reset"}, req : Nat]
    BY <1>1, <1>3 DEF Irq
  <2>2. Types'
    BY <1>1, <1>2, <1>4, <1>5, <1>7, <2>1 DEF Types
  <2>3. Records' /\ DataIsOwn'
    BY <1>1, <1>2, <1>7 DEF Records, DataIsOwn
  <2>4. PanicsAreKnown'
    BY <1>1 DEF PanicsAreKnown, Alive
  <2> QED  BY <2>2, <2>3, <2>4
<1>9. Queued'
  BY <1>1, <1>2, <1>4, SameQueues
<1>10. Callers' /\ Sleepers'
  BY <1>1, <1>2, CallerSide
<1>11. Strays'
  BY <1>1, <1>2, <1>3, <1>4, <1>5, <1>6, <1>7 DEF Strays
<1>12. Token'
  <2>1. Broken => Broken'
    BY <1>1, <1>2, <1>4, <1>5, <1>6, StillBroken
  <2>2. InDrive => InIrq'
    BY <1>1, <1>4, <1>7 DEF InDrive, InIrq
  <2> QED  BY <1>3, <1>4, <2>1, <2>2 DEF Token
<1> QED  BY <1>6, <1>8, <1>9, <1>10, <1>11, <1>12 DEF RInv

\* What the drive's answer does to a sound request.
LEMMA AnswerMoves ==
    ASSUME RInv, Alive, Answer, InDrive, channel.current # 0
    PROVE  AnsweredOK(channel.current)'
<1> DEFINE c == channel.current
           hw == channel.hw
           q == request[c]
<1>1. /\ channel' = [channel EXCEPT
             !.hw = IF kind # "pio" THEN Idle
                    ELSE IF hw.cmd = "read" THEN [hw EXCEPT !.phase = "drq"]
                    ELSE NextSector(hw, "drq"),
             !.dma = IF kind # "pio" /\ hw.cmd = "read" THEN hw.req ELSE channel.dma]
      /\ request' = IF kind # "pio" /\ hw.cmd = "write"
                       THEN [request EXCEPT ![hw.req].data =
                                [i \in 1..request[hw.req].count |-> channel.dma]]
                       ELSE request
      /\ kind' = kind /\ irq = NoIrq /\ Active
  BY DEF Answer, Active
<1>2. hw \in Commands /\ channel \in Channels /\ hw.left > 0 /\ hw.req = c
  BY <1>1, DriveAtWork DEF InDrive
<1>3. /\ channel'.current = c /\ channel'.block_index = channel.block_index
      /\ channel'.flushing = channel.flushing
      /\ channel'.hw = (IF kind # "pio" THEN Idle
                        ELSE IF hw.cmd = "read" THEN [hw EXCEPT !.phase = "drq"]
                        ELSE NextSector(hw, "drq"))
      /\ channel'.dma = IF kind # "pio" /\ hw.cmd = "read" THEN hw.req ELSE channel.dma
  BY <1>1, <1>2 DEF Channels
<1>4. c \in DOMAIN request /\ q \in Requests /\ request \in Seq(Requests)
  BY RequestFields DEF RInv, Queued, Types
<1>5. DriveOK(c)
  BY DEF InDrive
<1>6. CASE kind # "pio"
  <2>1. CASE hw.cmd = "read"
    <3>1. q.type = "Read" /\ request' = request /\ channel'.dma = c
      BY <1>1, <1>2, <1>3, <1>5, <1>6, <2>1 DEF DriveOK
    <3> QED  BY <1>1, <1>3, <1>6, <3>1 DEF AnsweredOK, MovedOK
  <2>2. CASE hw.cmd # "read"
    <3>1. q.type = "Write" /\ hw.cmd = "write" /\ channel.dma = c
      BY <1>5, <1>6, <2>2 DEF DriveOK
    <3>2. request'[c].data = Own(q.count, c) /\ request'[c].type = q.type /\ request'[c].count = q.count
      BY <1>1, <1>2, <1>4, <1>6, <3>1 DEF Own, Requests
    <3> QED  BY <1>1, <1>3, <1>6, <3>1, <3>2 DEF AnsweredOK, MovedOK
  <2> QED  BY <2>1, <2>2
<1>7. CASE kind = "pio"
  <2>1. request' = request
    BY <1>1, <1>7
  <2>2. CASE hw.cmd = "read"
    <3>1. q.type = "Read" /\ hw.left + channel.block_index = q.count
          /\ channel.block_index < q.count /\ q.data = Own(channel.block_index, c)
      BY <1>5, <1>7, <2>2 DEF DriveOK
    <3>2. channel'.hw.cmd = "read" /\ channel'.hw.req = c /\ channel'.hw.left = hw.left
      BY <1>2, <1>3, <1>7, <2>2 DEF Commands
    <3> QED  BY <1>1, <1>3, <1>7, <2>1, <3>1, <3>2 DEF AnsweredOK, SectorOK
  <2>3. CASE hw.cmd = "write"
    <3>1. q.type = "Write" /\ ~channel.flushing /\ hw.left + channel.block_index = q.count
          /\ channel.block_index < q.count /\ q.data = Own(channel.block_index + 1, c)
      BY <1>5, <1>7, <2>3 DEF DriveOK
    <3>2. channel'.hw = NextSector(hw, "drq")
      BY <1>3, <1>7, <2>3
    <3>3. hw.left # 1 => channel'.hw.cmd = "write" /\ channel'.hw.req = c /\ channel'.hw.left = hw.left - 1
      BY <1>2, <2>3, <3>2, NextSectorFields
    <3>4. hw.left \in Nat /\ channel.block_index \in Nat /\ q.count \in Nat
      BY <1>2, <1>4, IOAssumptions DEF Commands, Channels, Requests
    <3>5. channel.block_index + 1 < q.count =>
             channel'.hw.cmd = "write" /\ channel'.hw.req = c
             /\ channel'.hw.left + channel.block_index + 1 = q.count
      BY <3>1, <3>3, <3>4
    <3> QED  BY <1>1, <1>3, <1>7, <2>1, <3>1, <3>5 DEF AnsweredOK, SectorOK
  <2>4. CASE hw.cmd = "flush"
    <3>1. q.type = "Write" /\ channel.flushing /\ q.data = Own(q.count, c)
      BY <1>5, <1>7, <2>4 DEF DriveOK
    <3> QED  BY <1>1, <1>3, <1>7, <2>1, <3>1 DEF AnsweredOK, SectorOK
  <2> QED  BY <1>1, <2>2, <2>3, <2>4 DEF Active
<1> QED  BY <1>6, <1>7

\* The drive answers the command it is at and raises its interrupt.
LEMMA AnswerStep ==
    ASSUME RInv, Alive, Answer
    PROVE  RInv'
<1> DEFINE c == channel.current
           hw == channel.hw
           r == channel.hw.req
<1>1. /\ irq = NoIrq /\ Active /\ irq' = Irq("done", r)
      /\ channel' = [channel EXCEPT
             !.hw = IF kind # "pio" THEN Idle
                    ELSE IF hw.cmd = "read" THEN [hw EXCEPT !.phase = "drq"]
                    ELSE NextSector(hw, "drq"),
             !.dma = IF kind # "pio" /\ hw.cmd = "read" THEN hw.req ELSE channel.dma]
      /\ request' = IF kind # "pio" /\ hw.cmd = "write"
                       THEN [request EXCEPT ![r].data = [i \in 1..request[r].count |-> channel.dma]]
                       ELSE request
      /\ UNCHANGED <<workVars, work, ran, kind, m_requests, call, budget, late, panicked>>
  BY DEF Answer, Active
<1>2. Types /\ Numbering /\ Queued /\ Callers /\ Sleepers /\ Strays /\ Token /\ Records /\ DataIsOwn
  BY DEF RInv
<1>3. /\ Begun(r) /\ hw \in Commands /\ r \in Nat /\ (r # c => Spent) /\ hw.left > 0
      /\ channel \in Channels /\ (c # 0 /\ ~Broken => InDrive)
  BY <1>1, DriveAtWork DEF Commands
<1> DEFINE h == IF kind # "pio" THEN Idle
                ELSE IF hw.cmd = "read" THEN [hw EXCEPT !.phase = "drq"]
                ELSE NextSector(hw, "drq")
<1>4. h \in Commands /\ (h.cmd = "idle" \/ h.phase = "drq")
  <2>1. Idle \in Commands /\ Idle.cmd = "idle"
    BY IOAssumptions DEF Idle, Command, Commands
  <2>2. [hw EXCEPT !.phase = "drq"] \in Commands /\ [hw EXCEPT !.phase = "drq"].phase = "drq"
    BY <1>3 DEF Commands
  <2>3. /\ NextSector(hw, "drq") \in Commands
        /\ NextSector(hw, "drq").cmd = "idle" \/ NextSector(hw, "drq").phase = "drq"
    BY <1>3, NextSectorFields
  <2> QED  BY <2>1, <2>2, <2>3
<1>5. /\ channel' \in Channels /\ channel'.current = c /\ channel'.hw = h
      /\ channel'.scatter_list = channel.scatter_list
  <2> HIDE DEF h
  <2>1. channel' = [channel EXCEPT !.hw = h,
             !.dma = IF kind # "pio" /\ hw.cmd = "read" THEN hw.req ELSE channel.dma]
    BY <1>1 DEF h
  <2> QED  BY <1>3, <1>4, <2>1 DEF Channels
<1> HIDE DEF h
<1>6. /\ request' \in Seq(Requests) /\ DOMAIN request' = DOMAIN request
      /\ \A i \in DOMAIN request :
            /\ request'[i].drive = request[i].drive /\ request'[i].type = request[i].type
            /\ request'[i].count = request[i].count /\ request'[i].kernel = request[i].kernel
            /\ request'[i].result = request[i].result /\ request'[i].left = request[i].left
            /\ request'[i].queue = request[i].queue /\ request'[i].reset = request[i].reset
            /\ request'[i].data = request[i].data \/ (i = c /\ Len(request'[i].data) = request[i].count)
  <2>1. CASE request' = request
    BY <1>2, <2>1 DEF Types
  <2>2. CASE kind # "pio" /\ hw.cmd = "write"
    <3>1. r = c /\ r \in DOMAIN request /\ request[r] \in Requests /\ channel.dma \in Nat
      BY <1>2, <1>3, <2>2, RequestFields DEF Spent, Begun, Channels
    <3> DEFINE d == [i \in 1..request[r].count |-> channel.dma]
               x == [request[r] EXCEPT !.data = d]
    <3>2. d \in Seq(Nat) /\ Len(d) = request[r].count
      BY <3>1, OwnSectors, IOAssumptions DEF Own, Requests
    <3>3. request' = [request EXCEPT ![r] = x]
      BY <1>1, <2>2
    <3> HIDE DEF d
    <3>4. /\ x \in Requests /\ x.drive = request[r].drive /\ x.type = request[r].type
          /\ x.count = request[r].count /\ x.kernel = request[r].kernel
          /\ x.result = request[r].result /\ x.left = request[r].left
          /\ x.queue = request[r].queue /\ x.reset = request[r].reset /\ x.data = d
      BY <3>1, <3>2 DEF Requests
    <3> HIDE DEF x
    <3>5. /\ request' \in Seq(Requests) /\ DOMAIN request' = DOMAIN request
          /\ request'[r] = x /\ \A i \in DOMAIN request : i # r => request'[i] = request[i]
      BY <1>2, <3>1, <3>3, <3>4, UpdatedRequest DEF Types
    <3> QED  BY <3>1, <3>2, <3>4, <3>5
  <2> QED  BY <1>1, <2>1, <2>2
<1>7. Numbering' /\ Todo' = Todo
  BY <1>1, <1>2, SameWork
<1>8. /\ Drives' = Drives /\ ~Active' /\ (\A i : Begun(i)' <=> Begun(i)) /\ Mine' = Mine
      /\ irq'.what = "done" /\ irq'.req = r /\ (Spent' <=> Spent)
  BY <1>1, <1>4, <1>5, <1>6, <1>7 DEF Drives, Active, Begun, Mine, Irq, Spent
<1>9. Types' /\ Records' /\ DataIsOwn' /\ PanicsAreKnown'
  <2>1. irq' \in [what : {"none", "done", "error", "fatal", "reset"}, req : Nat]
    BY <1>1, <1>3 DEF Irq
  <2>2. Types'
    BY <1>1, <1>2, <1>5, <1>6, <1>8, <2>1 DEF Types
  <2>3. Records'
    <3>1. \A i \in DOMAIN request : Len(request'[i].data) <= request'[i].count
      <4>1. \A i \in DOMAIN request : request[i].count \in Nat
        BY <1>2, RequestFields, IOAssumptions DEF Requests
      <4> QED  BY <1>2, <1>6, <4>1 DEF Records
    <3> QED  BY <1>2, <1>6, <1>8, <3>1 DEF Records
  <2>4. DataIsOwn'
    <3>1. c \in DOMAIN request => request[c].result # "Success"
      <4>1. 0 \notin DOMAIN request
        BY <1>2 DEF Types
      <4> QED  BY <1>2, <4>1 DEF Queued
    <3> QED  BY <1>2, <1>6, <3>1 DEF DataIsOwn
  <2>5. PanicsAreKnown'
    BY <1>1 DEF PanicsAreKnown, Alive
  <2> QED  BY <2>2, <2>3, <2>4, <2>5
<1>10. Queued'
  BY <1>1, <1>2, <1>5, <1>6, SameQueues
<1>11. Callers' /\ Sleepers'
  BY <1>1, <1>2, <1>6, CallerSide
<1>12. Strays'
  BY <1>1, <1>2, <1>3, <1>5, <1>7, <1>8 DEF Strays
<1>13. Token'
  <2> SUFFICES ASSUME c # 0 PROVE (InDrive \/ InIrq \/ InItem \/ Stopped \/ Broken)'
    BY <1>5 DEF Token
  <2>1. CASE Broken
    <3>1. request'[c].kernel = request[c].kernel /\ budget' \in Nat /\ budget' <= budget
      BY <1>1, <1>2, <1>6 DEF Queued, Types
    <3> QED  BY <1>1, <1>2, <1>5, <1>7, <2>1, <3>1, StillBroken
  <2>2. CASE InDrive
    <3>1. AnsweredOK(c)'
      BY <2>2, AnswerMoves
    <3> QED  BY <1>5, <1>8, <2>2, <3>1 DEF InDrive, InIrq
  <2> QED  BY <1>3, <2>1, <2>2
<1> QED  BY <1>7, <1>9, <1>10, <1>11, <1>12, <1>13 DEF RInv

\* A sector's item that meets its own request is all that is under way for it.
LEMMA SectorItem ==
    ASSUME RInv, QInv, Alive, Running({"sector"}), ~Stale
    PROVE  LET c == channel.current
           IN /\ c \in DOMAIN request /\ c \in Nat /\ c # 0 /\ request[c] \in Requests
              /\ request[c].result = "Started"
              /\ kind = "pio" /\ Mine = {item} /\ SectorOK(c) /\ ~Active /\ irq.req # c
              /\ pc = "run" /\ ran = FALSE /\ item \in Todo
<1> DEFINE c == channel.current
<1>1. Types /\ Numbering /\ Queued /\ Strays /\ Token
  BY DEF RInv
<1>2. pc = "run" /\ ran = FALSE /\ work[item].what = "sector" /\ work[item].req = c
  BY <1>1 DEF Running, Stale, Types
<1>3. item \in Todo /\ (\A j \in Todo : item <= j) /\ \A j \in Todo : j \in Nat
  <2>1. Len(work) \in Nat
    BY <1>1 DEF Types
  <2> QED  BY <1>1, <1>2, <2>1, ItemIsFirst DEF Todo
<1>4. item \in Mine /\ c \in DOMAIN request /\ c # 0 /\ c \in Nat
  <2>1. item \in Mine /\ c \in DOMAIN request
    BY <1>1, <1>2, <1>3 DEF Strays, Begun, Mine
  <2>2. DOMAIN request = 1..Len(request) /\ Len(request) \in Nat
    BY <1>1 DEF Types
  <2> QED  BY <2>1, <2>2
<1>5. ~InDrive /\ ~InIrq /\ ~Stopped
  BY <1>4 DEF InDrive, InIrq, Stopped
<1>6. ~Broken
  <2> SUFFICES ASSUME Broken PROVE FALSE
    OBVIOUS
  <2>1. PICK i \in Mine : work[i].what = "MemoryFault" /\ \A j \in Mine : i <= j
    BY DEF Broken
  <2>2. i \in Todo /\ i <= item /\ item <= i /\ i \in Nat /\ item \in Nat
    BY <1>3, <1>4, <2>1 DEF Mine
  <2>3. i = item
    BY <2>2
  <2> QED  BY <1>2, <2>1, <2>3
<1>7. InItem
  BY <1>1, <1>4, <1>5, <1>6 DEF Token
<1>8. Mine = {item} /\ ItemOK("sector", c) /\ ~Active /\ irq.req # c
  BY <1>2, <1>4, <1>7 DEF InItem
<1> QED  BY <1>1, <1>2, <1>3, <1>4, <1>8, RequestFields DEF ItemOK, Queued

\* Nothing but the data of one request is changed.
DataMoved(c, d) ==
    /\ request' \in Seq(Requests) /\ DOMAIN request' = DOMAIN request
    /\ \A i \in DOMAIN request : i # c => request'[i] = request[i]
    /\ request'[c].drive = request[c].drive /\ request'[c].type = request[c].type
    /\ request'[c].count = request[c].count /\ request'[c].kernel = request[c].kernel
    /\ request'[c].result = request[c].result /\ request'[c].left = request[c].left
    /\ request'[c].queue = request[c].queue /\ request'[c].reset = request[c].reset
    /\ request'[c].data = d

\* What such a step does to the record of the request, and to no other.
LEMMA MovesData ==
    ASSUME Types, NEW c \in DOMAIN request, NEW d \in Seq(Nat),
           \/ request' = [request EXCEPT ![c].data = d]
           \/ request' = request /\ d = request[c].data
    PROVE  DataMoved(c, d)
<1>1. CASE request' = request /\ d = request[c].data
  BY <1>1 DEF DataMoved, Types
<1>2. CASE request' = [request EXCEPT ![c].data = d]
  <2> DEFINE x == [request[c] EXCEPT !.data = d]
  <2>1. request' = [request EXCEPT ![c] = x]
    BY <1>2
  <2>2. /\ x \in Requests /\ x.drive = request[c].drive /\ x.type = request[c].type
        /\ x.count = request[c].count /\ x.kernel = request[c].kernel
        /\ x.result = request[c].result /\ x.left = request[c].left
        /\ x.queue = request[c].queue /\ x.reset = request[c].reset /\ x.data = d
    BY RequestFields DEF Requests
  <2> HIDE DEF x
  <2>3. /\ request' \in Seq(Requests) /\ DOMAIN request' = DOMAIN request
        /\ request'[c] = x /\ \A i \in DOMAIN request : i # c => request'[i] = request[i]
    BY <2>1, <2>2, UpdatedRequest DEF Types
  <2> QED  BY <2>2, <2>3 DEF DataMoved
<1> QED  BY <1>1, <1>2

\* What the work of a sector leaves alone, whatever it does to the drive and the data:
\* all that remains to be shown is how the request goes on.
LEMMA SectorFrame ==
    ASSUME RInv, QInv, Alive, Running({"sector"}), ~Stale,
           NEW todo \in {"none", "Success", "MemoryFault"}, QueueWork(todo, channel.current),
           ran' = TRUE, UNCHANGED <<kind, m_requests, irq, call, panicked>>, late' \in BOOLEAN,
           budget' \in Nat, budget' <= budget,
           channel' \in Channels, channel'.current = channel.current,
           channel'.scatter_list = channel.scatter_list,
           Active' => channel'.hw.req = channel.current /\ channel'.hw.left > 0,
           NEW d, Len(d) <= request[channel.current].count, DataMoved(channel.current, d)
    PROVE  /\ Mine' = IF todo = "none" THEN {} ELSE {NewItem}
           /\ todo # "none" => NewItem \in Todo' /\ work'[NewItem].what = todo
           /\ Token' => RInv'
<1> DEFINE c == channel.current
           new == IF todo = "none" THEN {} ELSE {NewItem}
<1>1. Types /\ Numbering /\ Queued /\ Callers /\ Sleepers /\ Strays /\ Token /\ Records /\ DataIsOwn
  BY DEF RInv
<1>2. /\ c \in DOMAIN request /\ c \in Nat /\ c # 0 /\ request[c].result = "Started"
      /\ kind = "pio" /\ Mine = {item} /\ pc = "run" /\ ran = FALSE /\ item \in Todo
  BY SectorItem
<1>3. /\ work' \in Seq(Items) /\ Numbering' /\ NewItem \notin Todo /\ NewItem \in Nat
      /\ Todo' = (Todo \ {item}) \cup new
      /\ \A i \in Todo : i \in Nat /\ i < NewItem /\ work'[i] = work[i]
      /\ todo # "none" => work'[NewItem] = [what |-> todo, req |-> c]
  <2>1. todo \in {"none", "sector", "fatal", "reset"} \cup Completed
    BY DEF Completed
  <2> QED  BY <1>1, <1>2, <2>1, QueueWorkTodo
<1>4. Mine' = new
  <2>1. \A i \in Todo' : i \in Mine' <=> work'[i].req = c
    BY DEF Mine
  <2>2. \A i \in Todo \ {item} : work'[i].req # c
    BY <1>2, <1>3 DEF Mine
  <2>3. \A i \in new : work'[i].req = c
    BY <1>3
  <2> QED  BY <1>3, <2>1, <2>2, <2>3 DEF Mine
<1>5. todo # "none" => NewItem \in Todo' /\ work'[NewItem].what = todo
  BY <1>3
<1>6. /\ Drives' = Drives /\ (Spent => Spent') /\ (\A i : Begun(i)' <=> Begun(i))
  <2>1. Spent => Spent'
    BY <1>1, IOAssumptions DEF Types, Spent
  <2>2. \A i : Begun(i)' <=> Begun(i)
    BY DEF Begun, DataMoved
  <2> QED  BY <2>1, <2>2 DEF Drives
<1>7. Types'
  <2>1. budget' \in 0..MaxTroubles
    BY <1>1, IOAssumptions DEF Types
  <2> QED  BY <1>1, <1>3, <1>6, <2>1 DEF Types, DataMoved
<1>8. Records' /\ DataIsOwn' /\ PanicsAreKnown'
  <2>1. Records'
    BY <1>1, <1>2, <1>6 DEF Records, DataMoved
  <2>2. DataIsOwn'
    BY <1>1, <1>2 DEF DataIsOwn, DataMoved
  <2>3. PanicsAreKnown'
    BY DEF PanicsAreKnown, Alive
  <2> QED  BY <2>1, <2>2, <2>3
<1>9. Queued'
  <2>1. \A i \in DOMAIN request : request'[i].drive = request[i].drive /\ request'[i].result = request[i].result
    BY DEF DataMoved
  <2> QED  BY <1>1, <2>1, SameQueues DEF DataMoved
<1>10. Callers' /\ Sleepers'
  <2>1. \A i \in DOMAIN request :
           /\ request'[i].queue = request[i].queue /\ request'[i].left = request[i].left
           /\ request'[i].result = request[i].result
    BY DEF DataMoved
  <2> QED  BY <1>1, <2>1, CallerSide DEF DataMoved
<1>11. Strays'
  <2>1. Begun(c)
    BY <1>2 DEF Begun
  <2>2. ASSUME NEW i \in Todo'
        PROVE  /\ Begun(work'[i].req) /\ work'[i].what # "gone"
               /\ work'[i].what \in {"fatal", "reset"} => kind = "ahci"
               /\ work'[i].req # c => Spent
    <3>1. CASE i \in Todo
      BY <1>1, <1>3, <3>1 DEF Strays
    <3>2. CASE i = NewItem /\ todo # "none"
      BY <1>3, <2>1, <3>2
    <3> QED  BY <1>3, <2>2, <3>1, <3>2
  <2> QED  BY <1>1, <1>2, <1>6, <2>1, <2>2 DEF Strays
<1> QED  BY <1>3, <1>4, <1>5, <1>7, <1>8, <1>9, <1>10, <1>11 DEF RInv

\* A sector of a read is copied, or the copy fails and the drive goes on.
LEMMA ReadSectorStep ==
    ASSUME RInv, QInv, Alive, NEW o \in Ways, ReadSector(o)
    PROVE  RInv'
<1> DEFINE c == channel.current
           b == channel.block_index
           hw == channel.hw
           q == request[c]
           todo == IF o # "ok" THEN "MemoryFault"
                   ELSE IF LastSector(b + 1, q.count) THEN "Success" ELSE "none"
           d == IF o = "ok" THEN Append(q.data, hw.req) ELSE q.data
<1>1. /\ Running({"sector"}) /\ ~Stale /\ q.type = "Read"
      /\ o \in {"ok"} \cup (IF q.kernel THEN {} ELSE {"faults"})
      /\ Spend(Trouble(o))
      /\ channel' = [channel EXCEPT !.hw = NextSector(@, "busy"),
                                    !.block_index = IF o = "ok" THEN b + 1 ELSE @]
      /\ request' = IF o = "ok" THEN [request EXCEPT ![c].data = Append(@, hw.req)] ELSE request
      /\ late' = (late \/ (o = "ok" /\ q.left # "no"))
      /\ QueueWork(todo, c) /\ ran' = TRUE
      /\ UNCHANGED <<kind, m_requests, irq, call, panicked>>
  BY DEF ReadSector
<1>2. /\ c \in DOMAIN request /\ c \in Nat /\ c # 0 /\ q \in Requests /\ kind = "pio"
      /\ SectorOK(c) /\ ~Active /\ irq.req # c
  BY <1>1, SectorItem
<1>3. Types /\ channel \in Channels /\ hw \in Commands /\ b \in Nat /\ q.count \in Nat /\ hw.left \in Nat
  BY <1>2, IOAssumptions DEF RInv, Types, Channels, Commands, Requests
<1>4. /\ hw.cmd = "read" /\ hw.req = c /\ hw.left + b = q.count /\ b < q.count /\ q.data = Own(b, c)
  BY <1>1, <1>2 DEF SectorOK
<1>5. hw.left > 0 /\ (hw.left = 1 <=> b + 1 >= q.count) /\ b + 1 <= q.count
  BY <1>3, <1>4
<1>6. /\ NextSector(hw, "busy") \in Commands
      /\ hw.left = 1 => NextSector(hw, "busy").cmd = "idle"
      /\ hw.left # 1 => /\ NextSector(hw, "busy").cmd = "read" /\ NextSector(hw, "busy").req = c
                        /\ NextSector(hw, "busy").left = hw.left - 1
                        /\ NextSector(hw, "busy").left > 0 /\ NextSector(hw, "busy").phase = "busy"
  BY <1>3, <1>4, <1>5, NextSectorFields
<1>7. /\ channel' \in Channels /\ channel'.current = c
      /\ channel'.scatter_list = channel.scatter_list /\ channel'.flushing = channel.flushing
      /\ channel'.hw = NextSector(hw, "busy")
      /\ channel'.block_index = IF o = "ok" THEN b + 1 ELSE b
  <2> DEFINE h == NextSector(hw, "busy")
             n == IF o = "ok" THEN b + 1 ELSE b
  <2>1. h \in Commands /\ n \in Nat
    BY <1>3, <1>6
  <2>2. channel' = [channel EXCEPT !.hw = h, !.block_index = n]
    BY <1>1
  <2> HIDE DEF h, n
  <2>3. /\ channel' \in Channels /\ channel'.current = c
        /\ channel'.scatter_list = channel.scatter_list /\ channel'.flushing = channel.flushing
        /\ channel'.hw = h /\ channel'.block_index = n
    BY <1>3, <2>1, <2>2 DEF Channels
  <2> QED  BY <2>3 DEF h, n
<1>8. budget' \in Nat /\ budget' <= budget /\ (o # "ok" => budget' < MaxTroubles)
  BY <1>1, <1>3, IOAssumptions DEF Types, Spend, Trouble
<1>9. d \in Seq(Nat) /\ Len(d) <= q.count /\ (o = "ok" => d = Own(b + 1, c))
  <2>1. Own(b, c) \in Seq(Nat) /\ Len(Own(b, c)) = b /\ Append(Own(b, c), c) = Own(b + 1, c)
        /\ Own(b + 1, c) \in Seq(Nat) /\ Len(Own(b + 1, c)) = b + 1
    <3>1. b + 1 \in Nat
      BY <1>3
    <3>2. Own(b, c) \in Seq(Nat) /\ Len(Own(b, c)) = b /\ Append(Own(b, c), c) = Own(b + 1, c)
      BY <1>2, <1>3, OwnSectors
    <3>3. Own(b + 1, c) \in Seq(Nat) /\ Len(Own(b + 1, c)) = b + 1
      BY <1>2, <3>1, OwnSectors
    <3> QED  BY <3>2, <3>3
  <2>2. CASE o = "ok"
    <3>1. d = Own(b + 1, c)
      BY <1>4, <2>1, <2>2
    <3> QED  BY <1>5, <2>1, <3>1
  <2>3. CASE o # "ok"
    <3>1. d = Own(b, c) /\ b <= q.count
      BY <1>3, <1>4, <2>3
    <3> QED  BY <2>1, <2>3, <3>1
  <2> QED  BY <2>2, <2>3
<1>10. DataMoved(c, d)
  <2>1. request' = [request EXCEPT ![c].data = d] \/ (request' = request /\ d = q.data)
    BY <1>1
  <2> HIDE DEF d
  <2> QED  BY <1>2, <1>3, <1>9, <2>1, MovesData
<1>11. todo \in {"none", "Success", "MemoryFault"} /\ late' \in BOOLEAN
  BY <1>1, <1>3 DEF Types
<1>12. Active' => channel'.hw.req = c /\ channel'.hw.left > 0
  BY <1>6, <1>7 DEF Active
<1> HIDE DEF d, todo
<1>13. /\ Mine' = IF todo = "none" THEN {} ELSE {NewItem}
       /\ todo # "none" => NewItem \in Todo' /\ work'[NewItem].what = todo
       /\ Token' => RInv'
  BY <1>1, <1>7, <1>8, <1>9, <1>10, <1>11, <1>12, SectorFrame
<1>14. Token'
  <2>1. CASE o # "ok"
    <3>1. todo = "MemoryFault" /\ ~q.kernel
      BY <1>1, <2>1 DEF todo
    <3>2. Spent' /\ ~request'[c].kernel
      BY <1>1, <1>2, <1>8, <1>10, <2>1, <3>1 DEF Spent, DataMoved
    <3>3. NewItem \in Nat /\ Mine' = {NewItem} /\ work'[NewItem].what = "MemoryFault"
      BY <1>3, <1>13, <3>1 DEF Types, NewItem
    <3>4. Broken'
      BY <1>7, <3>2, <3>3 DEF Broken
    <3> QED  BY <3>4 DEF Token
  <2>2. CASE o = "ok" /\ hw.left = 1
    <3>1. todo = "Success" /\ ~Active'
      BY <1>5, <1>6, <1>7, <2>2 DEF todo, LastSector, Active
    <3>2. b + 1 = q.count
      BY <1>3, <1>4, <2>2
    <3>3. MovedOK(c)'
      BY <1>1, <1>2, <1>7, <1>9, <1>10, <2>2, <3>2 DEF MovedOK, DataMoved
    <3>4. ItemOK("Success", c)'
      BY <3>3 DEF ItemOK
    <3>5. InItem'
      BY <1>1, <1>2, <1>7, <1>13, <3>1, <3>4 DEF InItem
    <3> QED  BY <3>5 DEF Token
  <2>3. CASE o = "ok" /\ hw.left # 1
    <3>1. todo = "none" /\ Active' /\ channel'.hw.req = c /\ channel'.hw.cmd = "read"
      BY <1>5, <1>6, <1>7, <2>3 DEF todo, LastSector, Active
    <3>2. channel'.hw.left + channel'.block_index = q.count /\ channel'.block_index < q.count
      BY <1>3, <1>4, <1>5, <1>6, <1>7, <2>3
    <3>3. /\ request'[c].type = "Read" /\ request'[c].count = q.count
          /\ request'[c].data = Own(channel'.block_index, c)
      BY <1>1, <1>7, <1>9, <1>10, <2>3 DEF DataMoved
    <3>4. DriveOK(c)'
      BY <1>1, <1>2, <1>7, <3>1, <3>2, <3>3 DEF DriveOK
    <3>5. InDrive'
      BY <1>1, <1>2, <1>7, <1>13, <3>1, <3>4 DEF InDrive
    <3> QED  BY <3>5 DEF Token
  <2> QED  BY <2>1, <2>2, <2>3
<1> QED  BY <1>13, <1>14

\* A sector of a write was taken: the next one follows, or the flush, or the end.
LEMMA WriteSectorStep ==
    ASSUME RInv, QInv, Alive, NEW o \in Ways, WriteSector(o)
    PROVE  RInv'
<1> DEFINE c == channel.current
           b == channel.block_index
           hw == channel.hw
           q == request[c]
           flush == ~channel.flushing /\ LastSector(b + 1, q.count)
           next == ~channel.flushing /\ ~flush
           todo == IF channel.flushing THEN "Success" ELSE IF o # "ok" THEN "MemoryFault" ELSE "none"
           d == IF next /\ o = "ok" THEN Append(q.data, c) ELSE q.data
           h == IF flush THEN Command("flush", c, 1, "busy")
                ELSE IF next /\ o = "ok" THEN [hw EXCEPT !.phase = "busy"] ELSE hw
<1>1. /\ Running({"sector"}) /\ ~Stale /\ q.type = "Write"
      /\ o \in {"ok"} \cup (IF next /\ ~q.kernel THEN {"faults"} ELSE {})
      /\ Spend(Trouble(o))
      /\ channel' = [channel EXCEPT !.block_index = IF channel.flushing THEN @ ELSE b + 1,
                                    !.flushing = @ \/ flush, !.hw = h]
      /\ request' = IF next /\ o = "ok" THEN [request EXCEPT ![c].data = Append(@, c)] ELSE request
      /\ QueueWork(todo, c) /\ ran' = TRUE
      /\ UNCHANGED <<kind, m_requests, irq, call, late, panicked>>
  BY DEF WriteSector
<1>2. /\ c \in DOMAIN request /\ c \in Nat /\ c # 0 /\ q \in Requests /\ kind = "pio"
      /\ SectorOK(c) /\ ~Active /\ irq.req # c
  BY <1>1, SectorItem
<1>3. /\ Types /\ channel \in Channels /\ hw \in Commands /\ b \in Nat /\ q.count \in Nat
      /\ hw.left \in Nat /\ channel.flushing \in BOOLEAN /\ late \in BOOLEAN
  BY <1>2, IOAssumptions DEF RInv, Types, Channels, Commands, Requests
<1>4. /\ channel.flushing => q.data = Own(q.count, c)
      /\ ~channel.flushing => b < q.count /\ q.data = Own(b + 1, c)
      /\ next => hw.cmd = "write" /\ hw.req = c /\ hw.left + b + 1 = q.count /\ b + 1 < q.count
      /\ flush => b + 1 = q.count
  <2>1. /\ channel.flushing => q.data = Own(q.count, c)
        /\ ~channel.flushing => b < q.count /\ q.data = Own(b + 1, c)
        /\ ~channel.flushing /\ b + 1 < q.count =>
              hw.cmd = "write" /\ hw.req = c /\ hw.left + b + 1 = q.count
    BY <1>1, <1>2 DEF SectorOK
  <2> QED  BY <1>3, <2>1 DEF LastSector
<1>5. /\ h \in Commands
      /\ flush => h.cmd = "flush" /\ h.req = c /\ h.left = 1 /\ h.phase = "busy"
      /\ next /\ o = "ok" => h.cmd = "write" /\ h.req = c /\ h.left = hw.left /\ h.phase = "busy"
      /\ ~flush /\ ~(next /\ o = "ok") => h = hw
  <2>1. Command("flush", c, 1, "busy") \in Commands
    BY <1>2, IOAssumptions DEF Command, Commands
  <2>2. CASE flush
    BY <2>1, <2>2 DEF Command
  <2>3. CASE ~flush
    <3> HIDE DEF flush
    <3> QED  BY <1>3, <1>4, <2>3 DEF Commands
  <2> QED  BY <2>2, <2>3
<1> HIDE DEF h
<1>6. /\ channel' \in Channels /\ channel'.current = c /\ channel'.hw = h
      /\ channel'.scatter_list = channel.scatter_list
      /\ channel'.flushing = (channel.flushing \/ flush)
      /\ channel'.block_index = IF channel.flushing THEN b ELSE b + 1
  <2>1. (channel.flushing \/ flush) \in BOOLEAN
    OBVIOUS
  <2> DEFINE n == IF channel.flushing THEN b ELSE b + 1
             f == channel.flushing \/ flush
  <2>2. n \in Nat /\ f \in BOOLEAN
    BY <1>3
  <2>3. channel' = [channel EXCEPT !.block_index = n, !.flushing = f, !.hw = h]
    BY <1>1
  <2> HIDE DEF n, f
  <2>4. /\ channel' \in Channels /\ channel'.current = c /\ channel'.hw = h
        /\ channel'.scatter_list = channel.scatter_list /\ channel'.flushing = f
        /\ channel'.block_index = n
    BY <1>3, <1>5, <2>2, <2>3 DEF Channels
  <2> QED  BY <2>4 DEF n, f
<1>7. budget' \in Nat /\ budget' <= budget /\ (o # "ok" => budget' < MaxTroubles)
  BY <1>1, <1>3, IOAssumptions DEF Types, Spend, Trouble
<1>8. d \in Seq(Nat) /\ Len(d) <= q.count /\ (next /\ o = "ok" => d = Own(b + 2, c))
  <2>1. CASE next /\ o = "ok"
    <3>3. b + 1 \in Nat /\ (b + 1) + 1 \in Nat
      BY <1>3
    <3>4. Append(Own(b + 1, c), c) = Own((b + 1) + 1, c)
      BY <1>2, <3>3, OwnSectors
    <3>5. Own((b + 1) + 1, c) \in Seq(Nat) /\ Len(Own((b + 1) + 1, c)) = (b + 1) + 1
      BY <1>2, <3>3, OwnSectors
    <3>1. /\ Append(Own(b + 1, c), c) = Own((b + 1) + 1, c) /\ Own((b + 1) + 1, c) \in Seq(Nat)
          /\ Len(Own((b + 1) + 1, c)) = (b + 1) + 1
      BY <3>4, <3>5
    <3>2. (b + 1) + 1 = b + 2 /\ b + 2 <= q.count
      BY <1>3, <1>4, <2>1
    <3> HIDE DEF flush
    <3> QED  BY <1>4, <2>1, <3>1, <3>2
  <2>2. CASE ~(next /\ o = "ok")
    <3>1. d = q.data /\ q.data \in Seq(Nat) /\ Len(q.data) <= q.count
      BY <1>2, <2>2 DEF RInv, Records, Requests
    <3> QED  BY <2>2, <3>1
  <2> QED  BY <2>1, <2>2
<1>9. DataMoved(c, d)
  <2>1. request' = [request EXCEPT ![c].data = d] \/ (request' = request /\ d = q.data)
    BY <1>1
  <2> HIDE DEF d
  <2> QED  BY <1>2, <1>3, <1>8, <2>1, MovesData
<1>10. todo \in {"none", "Success", "MemoryFault"} /\ late' \in BOOLEAN
  BY <1>1, <1>3
<1>11. Active' => channel'.hw.req = c /\ channel'.hw.left > 0
  <2>1. Active' <=> h.cmd \in {"read", "write", "flush"} /\ h.phase = "busy"
    BY <1>6 DEF Active
  <2>2. h = hw => ~Active'
    BY <1>2, <2>1 DEF Active
  <2>3. next => hw.left > 0
    BY <1>3, <1>4
  <2> HIDE DEF flush
  <2> QED  BY <1>5, <1>6, <2>2, <2>3
<1> HIDE DEF d
<1>12. /\ Mine' = IF todo = "none" THEN {} ELSE {NewItem}
       /\ todo # "none" => NewItem \in Todo' /\ work'[NewItem].what = todo
       /\ Token' => RInv'
  <2> HIDE DEF todo
  <2> QED  BY <1>1, <1>6, <1>7, <1>8, <1>9, <1>10, <1>11, SectorFrame
<1>13. /\ request'[c].type = "Write" /\ request'[c].count = q.count /\ request'[c].data = d
       /\ request'[c].kernel = q.kernel
  BY <1>1, <1>9 DEF DataMoved
<1>14. Token'
  <2>1. CASE channel.flushing
    <3>1. o = "ok" /\ todo = "Success" /\ ~flush /\ ~next /\ d = q.data
      BY <1>1, <2>1 DEF d
    <3>2. ~Active'
      BY <1>2, <1>5, <1>6, <3>1 DEF Active
    <3>3. ItemOK("Success", c)'
      BY <1>1, <1>2, <1>4, <1>6, <1>13, <2>1, <3>1 DEF ItemOK, MovedOK
    <3>4. InItem'
      BY <1>1, <1>2, <1>6, <1>12, <3>1, <3>2, <3>3 DEF InItem
    <3> QED  BY <3>4 DEF Token
  <2>2. CASE flush
    <3>1. o = "ok" /\ todo = "none" /\ ~next /\ d = q.data
      BY <1>1, <2>2 DEF d
    <3>2. Active' /\ channel'.hw.req = c /\ channel'.hw.cmd = "flush" /\ channel'.hw.left = 1
      BY <1>5, <1>6, <2>2 DEF Active
    <3>3. channel'.flushing /\ request'[c].data = Own(q.count, c)
      BY <1>4, <1>6, <1>13, <2>2, <3>1
    <3>4. DriveOK(c)'
      BY <1>1, <1>2, <1>6, <1>13, <3>2, <3>3 DEF DriveOK
    <3>5. InDrive'
      BY <1>1, <1>2, <1>6, <1>12, <3>1, <3>2, <3>4 DEF InDrive
    <3> QED  BY <3>5 DEF Token
  <2>3. CASE next /\ o = "ok"
    <3>1. todo = "none" /\ ~flush /\ ~channel.flushing
      BY <2>3
    <3>2. Active' /\ channel'.hw.req = c /\ channel'.hw.cmd = "write" /\ channel'.hw.left = hw.left
      BY <1>5, <1>6, <2>3 DEF Active
    <3>3. /\ channel'.block_index = b + 1 /\ ~channel'.flushing /\ request'[c].data = Own(b + 2, c)
          /\ hw.left + (b + 1) = q.count /\ b + 1 < q.count /\ (b + 1) + 1 = b + 2
      <4>1. hw.left + b + 1 = q.count /\ b + 1 < q.count
        BY <1>4, <2>3
      <4>2. hw.left + (b + 1) = q.count /\ (b + 1) + 1 = b + 2
        BY <1>3, <4>1
      <4>3. channel'.block_index = b + 1 /\ ~channel'.flushing
        BY <1>6, <3>1
      <4>4. request'[c].data = Own(b + 2, c)
        BY <1>8, <1>13, <2>3
      <4> QED  BY <4>1, <4>2, <4>3, <4>4
    <3>4. DriveOK(c)'
      BY <1>1, <1>2, <1>6, <1>13, <3>2, <3>3 DEF DriveOK
    <3>5. InDrive'
      BY <1>1, <1>2, <1>6, <1>12, <3>1, <3>2, <3>4 DEF InDrive
    <3> QED  BY <3>5 DEF Token
  <2>4. CASE next /\ o # "ok"
    <3>1. todo = "MemoryFault" /\ ~q.kernel
      BY <1>1, <2>4
    <3>2. Spent' /\ ~request'[c].kernel
      BY <1>1, <1>2, <1>7, <1>13, <2>4, <3>1 DEF Spent
    <3>3. NewItem \in Nat /\ Mine' = {NewItem} /\ work'[NewItem].what = "MemoryFault"
      BY <1>3, <1>12, <3>1 DEF Types, NewItem
    <3>4. Broken'
      BY <1>6, <3>2, <3>3 DEF Broken
    <3> QED  BY <3>4 DEF Token
  <2> QED  BY <2>1, <2>2, <2>3, <2>4
<1> QED  BY <1>12, <1>14

----------------------------------------------------------------------------
(* The start of a request *)

\* What a driver can be asked for.
Sound(q) == q.type \in {"Read", "Write"} /\ q.count \in 1..PerPage /\ q.kernel \in BOOLEAN

\* The start of r on the channel c: the command is under way, or the copy of the first
\* sectors failed and the request will be completed, or an AHCI port gives up.
StartOK(c, r, q, o, channel_after, sent, todo, panic) ==
    /\ channel_after \in Channels /\ channel_after.current = r
    /\ channel_after.block_index = 0 /\ channel_after.flushing = FALSE
    /\ panic = IF kind = "ahci" /\ o # "ok" THEN {"ahci_unlock"} ELSE {}
    /\ o = "ok" =>
          /\ todo = "none" /\ channel_after.hw.req = r /\ channel_after.hw.left = q.count
          /\ channel_after.hw.phase = "busy"
          /\ channel_after.hw.cmd = IF q.type = "Read" THEN "read" ELSE "write"
          /\ sent = IF kind = "pio" /\ q.type = "Write" THEN <<r>> ELSE <<>>
          /\ kind # "pio" /\ q.type = "Write" => channel_after.dma = r
    /\ o # "ok" => sent = <<>> /\ todo \in {"none", "MemoryFault"}
    /\ o # "ok" /\ kind # "ahci" =>
          /\ todo = "MemoryFault" /\ ~q.kernel
          /\ IF kind = "pio" THEN channel_after.hw.phase = "drq" ELSE channel_after.hw = c.hw

\* The fields of what the start of a request results in.
LEMMA StartedFields ==
    ASSUME NEW n, NEW sent, NEW todo, NEW panic, NEW s, s = Started(n, sent, todo, panic)
    PROVE  s.channel = n /\ s.sent = sent /\ s.todo = todo /\ s.panic = panic
BY DEF Started

\* The three drivers, on a channel that is free.
LEMMA StartFields ==
    ASSUME kind \in {"pio", "dma", "ahci"}, NEW c \in Channels, c.current = 0, ~c.scatter_list,
           NEW r \in Nat, NEW q, Sound(q), NEW o, o \in Outcomes(q), NEW s,
           s = StartRequest(c, r, q, o)
    PROVE  StartOK(c, r, q, o, s.channel, s.sent, s.todo, s.panic)
<1> DEFINE new == [c EXCEPT !.current = r, !.block_index = 0, !.flushing = FALSE]
<1>1. /\ new \in Channels /\ new.current = r /\ new.block_index = 0 /\ new.flushing = FALSE
      /\ new.scatter_list = FALSE /\ new.hw = c.hw
  BY DEF Channels
<1> HIDE DEF new
<1>2. s = CASE kind = "pio" -> StartPio(new, r, q, o)
            [] kind = "dma" -> StartDma(new, r, q, o)
            [] kind = "ahci" -> StartAhci(new, r, q, o)
  BY DEF StartRequest, new
<1>3. ASSUME NEW cmd \in {"read", "write"}, NEW phase \in {"busy", "drq"}, NEW h,
             h = Command(cmd, r, q.count, phase)
      PROVE  h \in Commands /\ h.cmd = cmd /\ h.req = r /\ h.left = q.count /\ h.phase = phase
  <2>1. q.count \in 0..PerPage
    BY IOAssumptions DEF Sound
  <2> QED  BY <1>3, <2>1 DEF Command, Commands
<1>4. ASSUME NEW h \in Commands, NEW n, n = [new EXCEPT !.hw = h]
      PROVE  /\ n \in Channels /\ n.current = r /\ n.block_index = 0 /\ n.flushing = FALSE
             /\ n.hw = h
  BY <1>1, <1>4 DEF Channels
<1>5. q.type \in {"Read", "Write"}
  BY DEF Sound
<1>6. o # "ok" /\ kind # "ahci" => o = "faults" /\ ~q.kernel /\ q.type = "Write"
  BY DEF Outcomes
<1>7. CASE q.type = "Read" /\ kind # "ahci"
  <2> DEFINE h == Command("read", r, q.count, "busy")
             n == [new EXCEPT !.hw = h]
  <2>1. s = Started(n, <<>>, "none", {})
    BY <1>2, <1>7 DEF StartPio, StartDma
  <2>2. h \in Commands /\ h.cmd = "read" /\ h.req = r /\ h.left = q.count /\ h.phase = "busy"
    BY <1>3
  <2> HIDE DEF h
  <2>3. n \in Channels /\ n.current = r /\ n.block_index = 0 /\ n.flushing = FALSE /\ n.hw = h
    BY <1>4, <2>2
  <2> HIDE DEF n
  <2>4. s.channel = n /\ s.sent = <<>> /\ s.todo = "none" /\ s.panic = {}
    BY <2>1, StartedFields
  <2> QED  BY <1>6, <1>7, <2>2, <2>3, <2>4 DEF StartOK
<1>8. CASE q.type = "Write" /\ kind = "pio"
  <2> DEFINE phase == IF o = "faults" THEN "drq" ELSE "busy"
             h == Command("write", r, q.count, phase)
             n == [new EXCEPT !.hw = h]
  <2>1. s = IF o = "faults" THEN Started(n, <<>>, "MemoryFault", {})
                            ELSE Started(n, <<r>>, "none", {})
    BY <1>2, <1>8 DEF StartPio
  <2>2. h \in Commands /\ h.cmd = "write" /\ h.req = r /\ h.left = q.count /\ h.phase = phase
    BY <1>3
  <2> HIDE DEF h
  <2>3. n \in Channels /\ n.current = r /\ n.block_index = 0 /\ n.flushing = FALSE /\ n.hw = h
    BY <1>4, <2>2
  <2> HIDE DEF n
  <2>4. /\ s.channel = n /\ s.panic = {}
        /\ s.sent = IF o = "faults" THEN <<>> ELSE <<r>>
        /\ s.todo = IF o = "faults" THEN "MemoryFault" ELSE "none"
    BY <2>1, StartedFields
  <2> QED  BY <1>6, <1>8, <2>2, <2>3, <2>4 DEF StartOK
<1>9. CASE q.type = "Write" /\ kind = "dma" /\ o = "faults"
  <2>1. s = Started(new, <<>>, "MemoryFault", {})
    BY <1>2, <1>9 DEF StartDma
  <2>2. s.channel = new /\ s.sent = <<>> /\ s.todo = "MemoryFault" /\ s.panic = {}
    BY <2>1, StartedFields
  <2> QED  BY <1>1, <1>6, <1>9, <2>2 DEF StartOK
<1>10. CASE q.type = "Write" /\ kind = "dma" /\ o # "faults"
  <2> DEFINE h == Command("write", r, q.count, "busy")
             n == [new EXCEPT !.dma = r, !.hw = h]
  <2>1. s = Started(n, <<>>, "none", {})
    BY <1>2, <1>10 DEF StartDma
  <2>2. h \in Commands /\ h.cmd = "write" /\ h.req = r /\ h.left = q.count /\ h.phase = "busy"
    BY <1>3
  <2> HIDE DEF h
  <2>3. /\ n \in Channels /\ n.current = r /\ n.block_index = 0 /\ n.flushing = FALSE
        /\ n.hw = h /\ n.dma = r
    BY <1>1, <2>2 DEF Channels
  <2> HIDE DEF n
  <2>4. s.channel = n /\ s.sent = <<>> /\ s.todo = "none" /\ s.panic = {}
    BY <2>1, StartedFields
  <2> QED  BY <1>6, <1>10, <2>2, <2>3, <2>4 DEF StartOK
<1>11. CASE kind = "ahci" /\ o # "ok"
  <2> DEFINE n == [new EXCEPT !.scatter_list = TRUE]
  <2>1. s = Started(n, <<>>, "none", {"ahci_unlock"})
    BY <1>2, <1>11 DEF StartAhci
  <2>2. n \in Channels /\ n.current = r /\ n.block_index = 0 /\ n.flushing = FALSE
    BY <1>1 DEF Channels
  <2> HIDE DEF n
  <2>3. s.channel = n /\ s.sent = <<>> /\ s.todo = "none" /\ s.panic = {"ahci_unlock"}
    BY <2>1, StartedFields
  <2> QED  BY <1>11, <2>2, <2>3 DEF StartOK
<1>12. CASE kind = "ahci" /\ o = "ok"
  <2> DEFINE cmd == IF q.type = "Read" THEN "read" ELSE "write"
             h == Command(cmd, r, q.count, "busy")
             m == IF q.type = "Write" THEN r ELSE new.dma
             n == [new EXCEPT !.scatter_list = TRUE, !.dma = m, !.hw = h]
  <2>1. s = Started(n, <<>>, "none", {})
    BY <1>1, <1>2, <1>12 DEF StartAhci
  <2>2. h \in Commands /\ h.cmd = cmd /\ h.req = r /\ h.left = q.count /\ h.phase = "busy"
    <3>1. cmd \in {"read", "write"}
      OBVIOUS
    <3> HIDE DEF cmd
    <3> QED  BY <1>3, <3>1
  <2>3. m \in Nat /\ (q.type = "Write" => m = r)
    BY <1>1 DEF Channels
  <2> HIDE DEF h, m
  <2>4. /\ n \in Channels /\ n.current = r /\ n.block_index = 0 /\ n.flushing = FALSE
        /\ n.hw = h /\ n.dma = m
    BY <1>1, <2>2, <2>3 DEF Channels
  <2> HIDE DEF n
  <2>5. s.channel = n /\ s.sent = <<>> /\ s.todo = "none" /\ s.panic = {}
    BY <2>1, StartedFields
  <2> QED  BY <1>12, <2>2, <2>3, <2>4, <2>5 DEF StartOK
<1> QED  BY <1>5, <1>7, <1>8, <1>9, <1>10, <1>11, <1>12

\* A request that was just started, on a channel where at most a PIO transfer that went
\* wrong has left something behind.
LEMMA StartedToken ==
    ASSUME kind \in {"pio", "dma", "ahci"}, kind' = kind, irq' = irq,
           NEW c \in Channels,
           c.hw.cmd \in {"read", "write", "flush"} /\ c.hw.phase = "busy" => kind = "pio",
           NEW r \in Nat, r # 0, NEW q, Sound(q), NEW o, NEW sent, NEW todo,
           StartOK(c, r, q, o, channel', sent, todo, {}),
           irq.req # r,
           request'[r].type = q.type, request'[r].count = q.count, request'[r].kernel = q.kernel,
           request'[r].data = sent,
           NEW n, todo # "none" => n \in Todo' /\ work'[n].what = todo,
           Mine' = IF todo = "none" THEN {} ELSE {n}
    PROVE  /\ Token' /\ channel'.current = r
           /\ Active' => channel'.hw.req = r /\ channel'.hw.left > 0
<1>1. /\ channel' \in Channels /\ channel'.current = r
      /\ channel'.block_index = 0 /\ channel'.flushing = FALSE
      /\ o = "ok" =>
            /\ todo = "none" /\ channel'.hw.req = r /\ channel'.hw.left = q.count
            /\ channel'.hw.phase = "busy"
            /\ channel'.hw.cmd = IF q.type = "Read" THEN "read" ELSE "write"
            /\ sent = IF kind = "pio" /\ q.type = "Write" THEN <<r>> ELSE <<>>
            /\ kind # "pio" /\ q.type = "Write" => channel'.dma = r
      /\ o # "ok" => /\ todo = "MemoryFault" /\ ~q.kernel
                     /\ IF kind = "pio" THEN channel'.hw.phase = "drq" ELSE channel'.hw = c.hw
  <2>1. o # "ok" => kind # "ahci"
    BY DEF StartOK
  <2> QED  BY <2>1 DEF StartOK
<1>2. q.count \in Nat /\ q.count > 0 /\ q.count + 0 = q.count /\ q.type \in {"Read", "Write"}
  BY IOAssumptions DEF Sound
<1>3. CASE o = "ok"
  <2>1. Active' /\ channel'.hw.req = r /\ channel'.hw.left = q.count /\ Mine' = {}
    BY <1>1, <1>3 DEF Active
  <2>2. Own(0, r) = <<>> /\ Own(0 + 1, r) = <<r>>
    BY OwnSectors
  <2>3. DriveOK(r)'
    <3>1. CASE q.type = "Read"
      BY <1>1, <1>2, <1>3, <2>2, <3>1 DEF DriveOK
    <3>2. CASE q.type = "Write"
      BY <1>1, <1>2, <1>3, <2>2, <3>2 DEF DriveOK
    <3> QED  BY <1>2, <3>1, <3>2
  <2>4. InDrive'
    BY <1>1, <2>1, <2>3 DEF InDrive
  <2> QED  BY <1>1, <1>2, <2>1, <2>4 DEF Token
<1>4. CASE o # "ok"
  <2>1. ~Active'
    BY <1>1, <1>4 DEF Active
  <2>2. todo = "MemoryFault" /\ ~request'[r].kernel
    BY <1>1, <1>4
  <2>3. ItemOK("MemoryFault", r)'
    BY <2>2 DEF ItemOK
  <2>4. InItem'
    BY <1>1, <2>1, <2>2, <2>3 DEF InItem
  <2> QED  BY <1>1, <2>1, <2>4 DEF Token
<1> QED  BY <1>3, <1>4

\* Something is under way on a free channel only if a PIO transfer has gone wrong.
LEMMA FreeChannel ==
    ASSUME Types, Strays, channel.current = 0
    PROVE  /\ Active => Spent
           /\ irq # NoIrq => Spent
           /\ \A i \in Todo : Spent
           /\ channel.scatter_list = FALSE
<1>1. \A r : Begun(r) => r # 0
  BY DEF Begun, Types
<1>2. channel.scatter_list \in BOOLEAN
  BY DEF Types, Channels
<1> QED  BY <1>1, <1>2 DEF Strays

\* A request at the end of a device's list.
LEMMA AppendedRequest ==
    ASSUME NEW m \in Seq(Nat), NEW r \in Nat, NEW a, a = Append(m, r)
    PROVE  /\ a \in Seq(Nat) /\ a # <<>> /\ Len(m) \in Nat /\ (m = <<>> <=> Len(m) = 0)
           /\ \A j \in DOMAIN a : j \in DOMAIN m \/ j = Len(m) + 1
           /\ \A j \in DOMAIN m : j \in DOMAIN a /\ a[j] = m[j] /\ j # Len(m) + 1
           /\ Len(m) + 1 \in DOMAIN a /\ a[Len(m) + 1] = r
<1>1. a \in Seq(Nat) /\ Len(a) = Len(m) + 1 /\ a[Len(m) + 1] = r /\ \A j \in 1..Len(m) : a[j] = m[j]
  OBVIOUS
<1>2. DOMAIN a = 1..(Len(m) + 1) /\ DOMAIN m = 1..Len(m) /\ Len(m) \in Nat
  BY <1>1
<1>3. m = <<>> <=> Len(m) = 0
  OBVIOUS
<1>4. a # <<>>
  BY <1>1, <1>2
<1> QED  BY <1>1, <1>2, <1>3, <1>4

\* What StartRequest sends.
LEMMA SentSectors ==
    ASSUME NEW r \in Nat, NEW n \in Nat, n > 0, NEW a, a = <<>> \/ a = <<r>>
    PROVE  a \in Seq(Nat) /\ Len(a) <= n
<1>1. CASE a = <<>>
  BY <1>1
<1>2. CASE a = <<r>>
  BY <1>2
<1> QED  BY <1>1, <1>2

\* Device::make_request: a request that finds the queue empty is started, another one
\* waits for its turn.
LEMMA MakeRequestStep ==
    ASSUME RInv, QInv, Alive, NEW t \in Threads, NEW o \in Ways, MakeRequest(t, o)
    PROVE  RInv' /\ Listed'
<1> DEFINE d == call[t].drive
           q == Head(call[t].plan)
           r == Len(request) + 1
           start == m_requests[d] = <<>>
           s == IF start THEN StartRequest(channel, r, q, o)
                         ELSE Started(channel, <<>>, "none", {})
           x == [drive |-> d, type |-> q.type, count |-> q.count, kernel |-> q.kernel,
                 result |-> IF start THEN "Started" ELSE "Pending", queue |-> NewQueue,
                 data |-> s.sent, left |-> "no", reset |-> FALSE]
<1>1. /\ call[t].at = "make" /\ o \in Outcomes(q) /\ (start \/ o = "ok") /\ Spend(Trouble(o))
      /\ m_requests' = [m_requests EXCEPT ![d] = Append(@, r)]
      /\ request' = Append(request, x)
      /\ channel' = s.channel
      /\ panicked' = panicked \cup s.panic
      /\ QueueWork(s.todo, s.channel.current)
      /\ call' = [call EXCEPT ![t].at = "check", ![t].plan = Tail(@), ![t].req = r]
      /\ UNCHANGED <<ran, kind, irq, late>>
  BY DEF MakeRequest, WasEmpty
<1>2. Types /\ Numbering /\ Queued /\ Callers /\ Sleepers /\ Strays /\ Token /\ Records /\ DataIsOwn
  BY DEF RInv
<1>3. /\ d \in Drives /\ call[t].plan # <<>> /\ call[t].plan \in Seq(Transfers)
      /\ call[t] \in CallRecords /\ ~call[t].interrupted
  BY <1>1, <1>2 DEF Callers, CallerOK, Types, CallRecords
<1>4. q \in Transfers /\ Tail(call[t].plan) \in Seq(Transfers)
  BY <1>3
<1>5. Sound(q) /\ q.count \in Nat /\ q.count > 0
  BY <1>4, IOAssumptions DEF Sound, Transfers
<1>6. /\ DOMAIN request = 1..Len(request) /\ Len(request) \in Nat /\ r \in Nat /\ r # 0
      /\ r \notin DOMAIN request /\ channel \in Channels /\ kind \in {"pio", "dma", "ahci"}
  BY <1>2 DEF Types
<1>7. m_requests \in [Drives -> Seq(Nat)] /\ m_requests[d] \in Seq(Nat)
  BY <1>2, <1>3 DEF Types
<1>9. start /\ channel.current = 0 => StartOK(channel, r, q, o, s.channel, s.sent, s.todo, s.panic)
  <2> SUFFICES ASSUME start, channel.current = 0
               PROVE  StartOK(channel, r, q, o, s.channel, s.sent, s.todo, s.panic)
    OBVIOUS
  <2>1. s = StartRequest(channel, r, q, o) /\ ~channel.scatter_list
    BY <1>2, FreeChannel
  <2> HIDE DEF s, q, r
  <2> QED  BY <1>1, <1>5, <1>6, <2>1, StartFields
<1>10. start /\ channel.current # 0 =>
          s.channel = channel /\ s.sent = <<>> /\ s.todo = "none" /\ s.panic = {"current_request"}
  BY DEF StartRequest, Started
<1>11. ~start => s.channel = channel /\ s.sent = <<>> /\ s.todo = "none" /\ s.panic = {}
  BY DEF Started
<1> HIDE DEF s
<1>12. /\ s.channel \in Channels /\ s.channel.current \in Nat /\ s.todo \in {"none", "MemoryFault"}
       /\ s.sent \in Seq(Nat) /\ Len(s.sent) <= q.count
  <2>1. /\ s.channel \in Channels /\ s.todo \in {"none", "MemoryFault"}
        /\ s.sent = <<>> \/ s.sent = <<r>>
    <3>1. CASE start /\ channel.current = 0
      BY <1>9, <3>1 DEF StartOK
    <3>2. CASE ~(start /\ channel.current = 0)
      BY <1>6, <1>10, <1>11, <3>2
    <3> QED  BY <3>1, <3>2
  <2>2. s.sent \in Seq(Nat) /\ Len(s.sent) <= q.count
    <3> HIDE DEF q, r
    <3> QED  BY <1>5, <1>6, <2>1, SentSectors
  <2> QED  BY <2>1, <2>2 DEF Channels
<1>13. /\ x \in Requests /\ x.drive = d /\ x.type = q.type /\ x.count = q.count
       /\ x.kernel = q.kernel /\ x.result = IF start THEN "Started" ELSE "Pending"
       /\ x.queue = NewQueue /\ x.data = s.sent /\ x.left = "no" /\ x.reset = FALSE
  <2>1. NewQueue \in Queues(Threads)
    BY DEF NewQueue, Queue, Queues
  <2>2. q.count \in 0..PerPage /\ q.type \in {"Read", "Write"} /\ q.kernel \in BOOLEAN
    BY <1>5, IOAssumptions DEF Sound
  <2>3. d \in {"none", "master", "slave"}
    BY <1>3 DEF Drives
  <2> HIDE DEF d, q, start
  <2> QED  BY <1>12, <2>1, <2>2, <2>3 DEF Requests
<1> HIDE DEF x
<1>14. /\ request' \in Seq(Requests) /\ DOMAIN request' = DOMAIN request \cup {r}
       /\ request'[r] = x /\ \A i \in DOMAIN request : request'[i] = request[i]
  <2>1. request \in Seq(Requests)
    BY <1>2 DEF Types
  <2>2. /\ request' \in Seq(Requests) /\ Len(request') = r
        /\ request'[r] = x /\ \A i \in 1..Len(request) : request'[i] = request[i]
    BY <1>1, <1>13, <2>1
  <2>3. DOMAIN request' = 1..r
    BY <2>2
  <2> QED  BY <1>6, <2>2, <2>3
<1>15. /\ call' \in [Threads -> CallRecords]
       /\ call'[t].at = "check" /\ call'[t].req = r /\ call'[t].drive = d
       /\ call'[t].interrupted = call[t].interrupted
       /\ \A u \in Threads : u # t => call'[u] = call[u]
  <2> DEFINE y == [call[t] EXCEPT !.at = "check", !.plan = Tail(call[t].plan), !.req = r]
  <2>1. call' = [call EXCEPT ![t] = y] /\ call \in [Threads -> CallRecords]
    BY <1>1, <1>2 DEF Types
  <2>2. /\ y \in CallRecords /\ y.at = "check" /\ y.req = r /\ y.drive = d
        /\ y.interrupted = call[t].interrupted
    BY <1>3, <1>4, <1>6 DEF CallRecords
  <2> HIDE DEF y
  <2> QED  BY <2>1, <2>2
<1>16. /\ m_requests' \in [Drives -> Seq(Nat)] /\ m_requests'[d] = Append(m_requests[d], r)
       /\ \A e \in Drives : e # d => m_requests'[e] = m_requests[e]
  <2>1. Append(m_requests[d], r) \in Seq(Nat)
    BY <1>6, <1>7
  <2> QED  BY <1>1, <1>3, <1>7, <2>1
<1>27. LET m == m_requests[d]
           a == m_requests'[d]
       IN /\ a # <<>> /\ Len(m) \in Nat /\ (m = <<>> <=> Len(m) = 0)
          /\ \A j \in DOMAIN a : j \in DOMAIN m \/ j = Len(m) + 1
          /\ \A j \in DOMAIN m : j \in DOMAIN a /\ a[j] = m[j] /\ j # Len(m) + 1
          /\ Len(m) + 1 \in DOMAIN a /\ a[Len(m) + 1] = r
  <2> DEFINE m == m_requests[d]
             a == m_requests'[d]
  <2>1. m \in Seq(Nat) /\ r \in Nat /\ a = Append(m, r)
    BY <1>6, <1>7, <1>16
  <2> HIDE DEF m, a, r
  <2>2. /\ a # <<>> /\ Len(m) \in Nat /\ (m = <<>> <=> Len(m) = 0)
        /\ \A j \in DOMAIN a : j \in DOMAIN m \/ j = Len(m) + 1
        /\ \A j \in DOMAIN m : j \in DOMAIN a /\ a[j] = m[j] /\ j # Len(m) + 1
        /\ Len(m) + 1 \in DOMAIN a /\ a[Len(m) + 1] = r
    BY <2>1, AppendedRequest
  <2> QED  BY <2>2 DEF m, a
<1>17. LET new == IF s.todo = "none" THEN {} ELSE {NewItem}
       IN /\ work' \in Seq(Items) /\ Numbering' /\ NewItem \notin Todo
          /\ Todo' = Todo \cup new
          /\ \A i \in Todo : i \in Nat /\ work'[i] = work[i]
          /\ s.todo # "none" => work'[NewItem] = [what |-> s.todo, req |-> s.channel.current]
  <2>1. s.todo \in {"none", "sector", "fatal", "reset"} \cup Completed
    BY <1>12 DEF Completed
  <2> QED  BY <1>1, <1>2, <1>12, <2>1, QueueWorkTodo
<1>18. budget' \in 0..MaxTroubles /\ budget' <= budget /\ (o # "ok" => budget' < MaxTroubles)
  BY <1>1, <1>2, IOAssumptions DEF Types, Spend, Trouble
<1>19. /\ Drives' = Drives /\ (Spent => Spent') /\ (\A i : Begun(i) => Begun(i)')
  <2>1. Spent => Spent'
    BY <1>1, <1>2, <1>18, IOAssumptions DEF Types, Spent
  <2>2. \A i : Begun(i) => Begun(i)'
    BY <1>14 DEF Begun
  <2> QED  BY <1>1, <2>1, <2>2 DEF Drives
<1>20. Types'
  BY <1>1, <1>2, <1>12, <1>14, <1>15, <1>16, <1>17, <1>18, <1>19 DEF Types
<1>21. Records' /\ DataIsOwn'
  <2>1. /\ Len(x.data) <= x.count /\ x.result \in {"Started", "Pending"} /\ x.drive \in Drives
        /\ x.type \in {"Read", "Write"} /\ x.count > 0 /\ x.left = "no"
    BY <1>3, <1>5, <1>12, <1>13 DEF Sound
  <2>2. Records'
    BY <1>2, <1>14, <1>19, <2>1 DEF Records
  <2>3. DataIsOwn'
    BY <1>2, <1>14, <2>1 DEF DataIsOwn
  <2> QED  BY <2>2, <2>3
<1>22. PanicsAreKnown'
  <2>1. CASE start /\ channel.current = 0
    <3>1. s.panic = IF kind = "ahci" /\ o # "ok" THEN {"ahci_unlock"} ELSE {}
      BY <1>9, <2>1 DEF StartOK
    <3> QED  BY <1>1, <1>18, <3>1 DEF PanicsAreKnown, Alive
  <2>2. CASE start /\ channel.current # 0
    <3> DEFINE e == request[channel.current].drive
    <3>1. channel.current \in DOMAIN request /\ request[channel.current].result = "Started"
      BY <1>2, <2>2 DEF Queued
    <3>2. e \in Drives /\ \E i \in DOMAIN m_requests[e] : m_requests[e][i] = channel.current
      BY <1>2, <3>1 DEF Queued, Records
    <3>3. e # d /\ m_requests[e] # <<>>
      BY <2>2, <3>2
    <3>4. m_requests'[e] # <<>> /\ m_requests'[d] # <<>>
      <4>1. m_requests'[d] # <<>>
        BY <1>27
      <4> QED  BY <1>16, <3>2, <3>3, <4>1
    <3>5. kind # "ahci" /\ \A z \in Drives : z = d \/ z = e
      BY <1>3, <3>2, <3>3 DEF Drives
    <3> QED  BY <1>1, <1>10, <1>19, <2>2, <3>4, <3>5 DEF PanicsAreKnown, Alive
  <2>3. CASE ~start
    BY <1>1, <1>11, <2>3 DEF PanicsAreKnown, Alive
  <2> QED  BY <2>1, <2>2, <2>3
<1>23. Callers' /\ Sleepers'
  <2>1. \A u \in Threads : InCall(u) => call[u].req \in DOMAIN request
    BY <1>2 DEF Callers, CallerOK, WaitOK
  <2>2. \A v \in Threads : InCall(v)' <=> v = t \/ InCall(v)
    BY <1>15 DEF InCall
  <2>3. \A v \in Threads : v # t /\ InCall(v) => call'[v].req # r
    BY <1>6, <1>15, <2>1
  <2>4. ASSUME NEW u \in Threads, u # t PROVE CallerOK(u)'
    <3>1. CallerOK(u)
      BY <1>2 DEF Callers
    <3>2. InCall(u) => call[u].req # r /\ call[u].req \in DOMAIN request
      BY <1>6, <2>1
    <3>3. InCall(u) => \A v \in Threads : InCall(v)' /\ call'[v].req = call[u].req => v = u
      BY <1>15, <2>2, <3>1, <3>2 DEF CallerOK, WaitOK
    <3> QED  BY <1>1, <1>14, <1>15, <2>4, <3>1, <3>2, <3>3, OtherCaller
  <2>5. WaitOK(t)'
    <3>1. /\ x.result \in {"Started", "Pending"} /\ x.result \notin Completed /\ x.left = "no"
          /\ x.queue.m_should_block /\ x.queue.m_blockers = <<>> /\ ~x.queue.m_wake_requested
      BY <1>13 DEF NewQueue, Queue, Completed
    <3>2. \A u \in Threads : InCall(u)' /\ call'[u].req = r => u = t
      BY <2>2, <2>3
    <3> QED  BY <1>14, <1>15, <3>1, <3>2 DEF WaitOK
  <2>6. CallerOK(t)'
    BY <1>3, <1>15, <1>19, <2>5 DEF CallerOK
  <2>7. Sleepers'
    <3>1. Members(x.queue) = {}
      BY <1>13 DEF NewQueue, Queue, Members, ToSet
    <3>2. ASSUME NEW i \in DOMAIN request, NEW u \in Members(request[i].queue)
          PROVE  call'[u].at = "blocked" /\ call'[u].req = i
      <4>1. u \in Threads /\ call[u].at = "blocked" /\ call[u].req = i
        BY <1>2, SleepersAreThreads DEF Sleepers
      <4> QED  BY <1>1, <1>15, <4>1
    <3> QED  BY <1>14, <3>1, <3>2 DEF Sleepers
  <2> QED  BY <2>4, <2>6, <2>7 DEF Callers
<1>24. ~start => channel.current # 0
  <2> SUFFICES ASSUME ~start PROVE channel.current # 0
    OBVIOUS
  <2>1. 1 \in DOMAIN m_requests[d]
    BY <1>7
  <2>2. channel.current = m_requests[d][1] /\ m_requests[d][1] \in DOMAIN request
    BY <1>2, <1>3, <2>1 DEF Queued
  <2> QED  BY <1>6, <2>2
<1>25. ASSUME Alive' PROVE Queued'
  <2>1. start => channel.current = 0 /\ channel'.current = r
    <3>1. start => channel.current = 0
      BY <1>1, <1>10, <1>25 DEF Alive
    <3> QED  BY <1>1, <1>9, <3>1 DEF StartOK
  <2>2. ~start => channel'.current = channel.current
    BY <1>1, <1>11
  <2>3. channel'.current \in {0} \cup DOMAIN request'
    BY <1>2, <1>14, <2>1, <2>2 DEF Queued
  <2>4. channel'.current # 0 => request'[channel'.current].result = "Started"
    BY <1>2, <1>13, <1>14, <2>1, <2>2 DEF Queued
  <2>5. \A i \in DOMAIN request : request'[i].result = request[i].result /\ request'[i].drive = request[i].drive
    BY <1>14
  <2>6. ASSUME NEW e \in Drives, e # d, NEW i \in DOMAIN m_requests'[e]
        PROVE  /\ m_requests'[e][i] \in DOMAIN request'
               /\ request'[m_requests'[e][i]].drive = e
               /\ request'[m_requests'[e][i]].result = IF i = 1 THEN "Started" ELSE "Pending"
               /\ i = 1 => channel'.current = m_requests'[e][i]
               /\ \A j \in DOMAIN m_requests'[e] : m_requests'[e][j] = m_requests'[e][i] => i = j
    <3>1. m_requests'[e] = m_requests[e]
      BY <1>16, <2>6
    <3>2. start => m_requests[e] = <<>>
      <4> SUFFICES ASSUME start, m_requests[e] # <<>> PROVE FALSE
        OBVIOUS
      <4>1. m_requests[e] \in Seq(Nat)
        BY <1>7
      <4>2. 1 \in DOMAIN m_requests[e]
        BY <4>1
      <4>3. channel.current = m_requests[e][1] /\ m_requests[e][1] \in DOMAIN request
        BY <1>2, <4>2 DEF Queued
      <4> QED  BY <1>6, <2>1, <4>3
    <3> QED  BY <1>2, <1>14, <2>2, <2>5, <2>6, <3>1, <3>2 DEF Queued
  <2>7. ASSUME NEW i \in DOMAIN m_requests'[d]
        PROVE  /\ m_requests'[d][i] \in DOMAIN request'
               /\ request'[m_requests'[d][i]].drive = d
               /\ request'[m_requests'[d][i]].result = IF i = 1 THEN "Started" ELSE "Pending"
               /\ i = 1 => channel'.current = m_requests'[d][i]
               /\ \A j \in DOMAIN m_requests'[d] : m_requests'[d][j] = m_requests'[d][i] => i = j
    <3> DEFINE m == m_requests[d]
    <3>1. /\ \A j \in DOMAIN m_requests'[d] : j \in DOMAIN m \/ j = Len(m) + 1
          /\ m_requests'[d][Len(m) + 1] = r
          /\ \A j \in DOMAIN m : m_requests'[d][j] = m[j] /\ j # Len(m) + 1
          /\ Len(m) \in Nat /\ (start <=> Len(m) = 0)
      BY <1>27
    <3>2. /\ \A j \in DOMAIN m : m[j] \in DOMAIN request /\ m[j] # r
      BY <1>2, <1>3, <1>6 DEF Queued
    <3>3. CASE i \in DOMAIN m
      <4>1. ~start
        BY <1>7, <3>3
      <4>2. /\ m[i] \in DOMAIN request /\ request[m[i]].drive = d
            /\ request[m[i]].result = IF i = 1 THEN "Started" ELSE "Pending"
            /\ i = 1 => channel.current = m[i]
            /\ \A j \in DOMAIN m : m[j] = m[i] => i = j
        BY <1>2, <1>3, <3>3 DEF Queued
      <4> HIDE DEF m
      <4> QED  BY <1>14, <2>2, <2>5, <3>1, <3>2, <3>3, <4>1, <4>2
    <3>4. CASE i = Len(m) + 1
      <4>1. m_requests'[d][i] = r /\ (i = 1 <=> start)
        BY <3>1, <3>4
      <4>2. \A j \in DOMAIN m_requests'[d] : m_requests'[d][j] = r => i = j
        BY <3>1, <3>2, <3>4
      <4>3. x.drive = d /\ x.result = IF i = 1 THEN "Started" ELSE "Pending"
        BY <1>13, <4>1
      <4> QED  BY <1>14, <2>1, <4>1, <4>2, <4>3
    <3> QED  BY <2>7, <3>1, <3>3, <3>4
  <2>8. ASSUME NEW k \in DOMAIN request', request'[k].result \in {"Pending", "Started"}
        PROVE  \E i \in DOMAIN m_requests'[request'[k].drive] : m_requests'[request'[k].drive][i] = k
    <3> DEFINE m == m_requests[d]
    <3>1. /\ \A j \in DOMAIN m : j \in DOMAIN m_requests'[d] /\ m_requests'[d][j] = m[j]
          /\ Len(m) + 1 \in DOMAIN m_requests'[d] /\ m_requests'[d][Len(m) + 1] = r
      BY <1>27
    <3>2. CASE k = r
      BY <1>13, <1>14, <3>1, <3>2
    <3>3. CASE k \in DOMAIN request
      <4>1. /\ request'[k].drive = request[k].drive /\ request[k].drive \in Drives
            /\ \E i \in DOMAIN m_requests[request[k].drive] : m_requests[request[k].drive][i] = k
        BY <1>2, <2>5, <2>8, <3>3 DEF Queued, Records
      <4> QED  BY <1>16, <3>1, <4>1
    <3> QED  BY <1>14, <2>8, <3>2, <3>3
  <2> QED  BY <1>19, <2>3, <2>4, <2>6, <2>7, <2>8 DEF Queued
<1>26. ASSUME Alive' PROVE Strays' /\ Token'
  <2>1. CASE start
    <3>1. channel.current = 0 /\ s.panic = {}
      BY <1>1, <1>10, <1>26, <2>1 DEF Alive
    <3>2. /\ Active => Spent
          /\ irq # NoIrq => Spent
          /\ \A i \in Todo : Spent
      BY <1>2, <3>1, FreeChannel
    <3>3. StartOK(channel, r, q, o, channel', s.sent, s.todo, {})
      BY <1>1, <1>9, <2>1, <3>1
    <3>4. channel'.current = r
      BY <3>3 DEF StartOK
    <3>5. \A i : Begun(i) => i # r
      BY <1>6 DEF Begun
    <3>6. irq.req # r
      BY <1>2, <1>6, <3>5 DEF Strays, NoIrq, Irq
    <3>7. Mine' = IF s.todo = "none" THEN {} ELSE {NewItem}
      <4>1. \A i \in Todo : work'[i].req # r
        BY <1>2, <1>17, <3>5 DEF Strays
      <4>2. s.todo # "none" => work'[NewItem].req = r
        BY <1>1, <1>17, <3>4
      <4> QED  BY <1>17, <3>4, <4>1, <4>2 DEF Mine
    <3>8. s.todo # "none" => NewItem \in Todo' /\ work'[NewItem].what = s.todo
      BY <1>17
    <3>9. channel.hw.cmd \in {"read", "write", "flush"} /\ channel.hw.phase = "busy" => kind = "pio"
      BY <3>2 DEF Active, Spent
    <3>10. /\ Token' /\ (Active' => channel'.hw.req = r /\ channel'.hw.left > 0)
      <4>1. /\ request'[r].type = q.type /\ request'[r].count = q.count
            /\ request'[r].kernel = q.kernel /\ request'[r].data = s.sent
        BY <1>13, <1>14
      <4> HIDE DEF q, r
      <4> QED  BY <1>1, <1>5, <1>6, <3>3, <3>6, <3>7, <3>8, <3>9, <4>1, StartedToken
    <3>11. r \in DOMAIN request' /\ request'[r].result # "Pending"
      BY <1>13, <1>14, <2>1
    <3>12. ASSUME NEW i \in Todo'
           PROVE  /\ Begun(work[i].req)' /\ work'[i].what # "gone"
                  /\ work'[i].what \in {"fatal", "reset"} => kind = "ahci"
                  /\ work'[i].req # r => Spent'
      <4>1. CASE i \in Todo
        BY <1>2, <1>14, <1>17, <1>19, <3>2, <4>1 DEF Strays, Begun
      <4>2. CASE i = NewItem /\ s.todo # "none"
        BY <1>1, <1>12, <1>17, <3>4, <3>11, <4>2 DEF Begun
      <4> QED  BY <1>17, <3>12, <4>1, <4>2
    <3>13. Strays'
      <4>1. irq # NoIrq => /\ Begun(irq.req)' /\ irq.what # "none"
                           /\ irq.what \in {"fatal", "reset"} => kind = "ahci"
                           /\ Spent'
        BY <1>1, <1>2, <1>14, <1>19, <3>2 DEF Strays, Begun
      <4>2. Active' => /\ Begun(channel.hw.req)' /\ channel'.hw.left > 0
                       /\ channel'.hw.req = channel'.current
        BY <3>4, <3>10, <3>11 DEF Begun
      <4> QED  BY <1>1, <1>6, <3>4, <3>12, <4>1, <4>2 DEF Strays
    <3> QED  BY <3>10, <3>13
  <2>2. CASE ~start
    <3> DEFINE c == channel.current
    <3>1. channel' = channel /\ s.todo = "none" /\ c # 0 /\ c \in DOMAIN request
      BY <1>1, <1>2, <1>11, <1>24, <2>2 DEF Queued
    <3>2. request'[c] = request[c] /\ Todo' = Todo /\ \A i \in Todo : work'[i] = work[i]
      BY <1>14, <1>17, <3>1
    <3>3. Mine' = Mine /\ (Active' <=> Active)
      BY <3>1, <3>2 DEF Mine, Active
    <3>4. \A v : /\ DriveOK(c)' <=> DriveOK(c)
                 /\ AnsweredOK(c)' <=> AnsweredOK(c)
                 /\ ItemOK(v, c)' <=> ItemOK(v, c)
      BY <1>1, <3>1, <3>2 DEF DriveOK, AnsweredOK, ItemOK, SectorOK, MovedOK
    <3>5. Strays'
      BY <1>1, <1>2, <1>19, <3>1, <3>2, <3>3 DEF Strays
    <3>6. (InDrive => InDrive') /\ (InIrq => InIrq') /\ (Stopped => Stopped')
      BY <1>1, <3>1, <3>3, <3>4 DEF InDrive, InIrq, Stopped
    <3>7. InItem => InItem'
      BY <1>1, <3>1, <3>2, <3>3, <3>4 DEF InItem
    <3>8. Broken => Broken'
      BY <1>19, <3>1, <3>2, <3>3 DEF Broken, Mine
    <3> QED  BY <1>2, <3>1, <3>5, <3>6, <3>7, <3>8 DEF Token
  <2> QED  BY <2>1, <2>2
<1>28. Listed'
  <2>1. channel'.current = r \/ channel'.current = channel.current
    <3>1. CASE start /\ channel.current = 0
      BY <1>1, <1>9, <3>1 DEF StartOK
    <3>2. CASE ~(start /\ channel.current = 0)
      BY <1>1, <1>10, <1>11, <3>2
    <3> QED  BY <3>1, <3>2
  <2>2. channel'.current \in {0} \cup DOMAIN request'
    BY <1>2, <1>14, <2>1 DEF Queued
  <2>3. ASSUME NEW e \in Drives, NEW i \in DOMAIN m_requests'[e]
        PROVE  m_requests'[e][i] \in DOMAIN request'
    <3>1. CASE e = d /\ i = Len(m_requests[d]) + 1
      BY <1>14, <1>27, <3>1
    <3>2. CASE i \in DOMAIN m_requests[e] /\ m_requests'[e][i] = m_requests[e][i]
      BY <1>2, <1>14, <3>2 DEF Queued
    <3> QED  BY <1>16, <1>27, <2>3, <3>1, <3>2
  <2> QED  BY <1>19, <2>2, <2>3 DEF Listed
<1> QED  BY <1>17, <1>20, <1>21, <1>22, <1>23, <1>25, <1>26, <1>28 DEF RInv

----------------------------------------------------------------------------
(* The end of a request *)

\* An item that completes the current request: what it says is so, and only after a PIO
\* transfer went wrong something else is under way.
LEMMA FinishedItem ==
    ASSUME RInv, QInv, Alive, Running(Completed), ~Stale
    PROVE  LET c == channel.current
           IN /\ c \in DOMAIN request /\ c \in Nat /\ c # 0 /\ request[c] \in Requests
              /\ request[c].result = "Started"
              /\ pc = "run" /\ ran = FALSE /\ item \in Todo /\ work[item].what \in Completed
              /\ work[item].what = "Success" => MovedOK(c) \/ request[c].reset
              /\ work[item].what = "MemoryFault" => ~request[c].kernel
              /\ Active => Spent
              /\ irq # NoIrq => Spent
              /\ \A i \in Todo \ {item} : Spent
<1> DEFINE c == channel.current
<1>1. Types /\ Numbering /\ Queued /\ Strays /\ Token
  BY DEF RInv
<1>2. pc = "run" /\ ran = FALSE /\ work[item].what \in Completed /\ work[item].req = c
  BY <1>1 DEF Running, Stale, Types
<1>3. item \in Todo /\ (\A j \in Todo : item <= j) /\ \A j \in Todo : j \in Nat
  <2>1. Len(work) \in Nat
    BY <1>1 DEF Types
  <2> QED  BY <1>1, <1>2, <2>1, ItemIsFirst DEF Todo
<1>4. item \in Mine /\ c \in DOMAIN request /\ c # 0 /\ c \in Nat
  <2>1. item \in Mine /\ c \in DOMAIN request
    BY <1>1, <1>2, <1>3 DEF Strays, Begun, Mine
  <2>2. DOMAIN request = 1..Len(request) /\ Len(request) \in Nat
    BY <1>1 DEF Types
  <2> QED  BY <2>1, <2>2
<1>5. request[c] \in Requests /\ request[c].result = "Started"
  BY <1>1, <1>4, RequestFields DEF Queued
<1>6. InItem \/ Broken
  BY <1>1, <1>4 DEF Token, InDrive, InIrq, Stopped
<1>7. CASE InItem
  <2>1. Mine = {item} /\ ItemOK(work[item].what, c) /\ ~Active /\ irq.req # c
    BY <1>4, <1>7 DEF InItem
  <2>2. \A i \in Todo \ {item} : Spent
    BY <1>1, <2>1 DEF Strays, Mine
  <2>3. irq # NoIrq => Spent
    BY <1>1, <2>1 DEF Strays
  <2> QED  BY <1>2, <1>3, <1>4, <1>5, <2>1, <2>2, <2>3 DEF ItemOK
<1>8. CASE Broken
  <2>1. PICK i \in Mine : work[i].what = "MemoryFault" /\ \A j \in Mine : i <= j
    BY <1>8 DEF Broken
  <2>2. i \in Todo /\ i <= item /\ item <= i /\ i \in Nat /\ item \in Nat
    BY <1>3, <1>4, <2>1 DEF Mine
  <2>3. i = item
    BY <2>2
  <2>4. work[item].what = "MemoryFault" /\ ~request[c].kernel /\ Spent
    BY <1>8, <2>1, <2>3 DEF Broken
  <2> QED  BY <1>2, <1>3, <1>4, <1>5, <2>4
<1> QED  BY <1>6, <1>7, <1>8

\* The current request is the first of its device, and the only one that is first.
LEMMA FirstInQueue ==
    ASSUME Types, Queued, Records, channel.current # 0
    PROVE  LET c == channel.current
               d == request[c].drive
           IN /\ d \in Drives /\ m_requests[d] \in Seq(Nat) /\ Len(m_requests[d]) \in Nat
              /\ Len(m_requests[d]) > 0 /\ 1 \in DOMAIN m_requests[d] /\ m_requests[d][1] = c
              /\ \A e \in Drives : e # d => m_requests[e] = <<>>
<1> DEFINE c == channel.current
           d == request[c].drive
<1>1. c \in DOMAIN request /\ request[c].result = "Started"
  BY DEF Queued
<1>2. d \in Drives
  BY <1>1 DEF Records
<1>3. PICK i \in DOMAIN m_requests[d] : m_requests[d][i] = c
  BY <1>1 DEF Queued
<1>4. request[c].result = IF i = 1 THEN "Started" ELSE "Pending"
  BY <1>2, <1>3 DEF Queued
<1>5. i = 1
  BY <1>1, <1>4
<1>6. m_requests[d] \in Seq(Nat)
  BY <1>2 DEF Types
<1>7. ASSUME NEW e \in Drives, e # d, m_requests[e] # <<>> PROVE FALSE
  <2>1. m_requests[e] \in Seq(Nat)
    BY DEF Types
  <2>2. 1 \in DOMAIN m_requests[e]
    BY <1>7, <2>1
  <2>3. c = m_requests[e][1] /\ request[m_requests[e][1]].drive = e
    BY <2>2 DEF Queued
  <2> QED  BY <1>7, <2>3
<1>8. Len(m_requests[d]) \in Nat /\ Len(m_requests[d]) > 0
  BY <1>3, <1>5, <1>6
<1> QED  BY <1>2, <1>3, <1>5, <1>6, <1>7, <1>8

\* The list of a device without its first request.
LEMMA RestOfQueue ==
    ASSUME NEW m \in Seq(Nat), Len(m) > 0, NEW a, a = Tail(m)
    PROVE  /\ a \in Seq(Nat) /\ Head(m) = m[1]
           /\ \A j \in DOMAIN a : j \in Nat /\ j + 1 \in DOMAIN m /\ a[j] = m[j + 1] /\ j + 1 # 1
           /\ \A j \in DOMAIN m : j # 1 => j - 1 \in DOMAIN a /\ a[j - 1] = m[j]
           /\ a # <<>> => 2 \in DOMAIN m
<1>1. /\ a \in Seq(Nat) /\ Len(a) = Len(m) - 1 /\ Head(m) = m[1] /\ Len(m) \in Nat
      /\ \A j \in 1..(Len(m) - 1) : a[j] = m[j + 1]
  BY HeadTailProperties
<1>2. DOMAIN a = 1..(Len(m) - 1) /\ DOMAIN m = 1..Len(m)
  BY <1>1
<1>3. a # <<>> => 2 \in DOMAIN m
  BY <1>1, <1>2
<1> QED  BY <1>1, <1>2, <1>3

\* What the end of the request c makes of the requests, as CompleteCurrent says: c has its
\* result or is gone, and the next one, n, is started.
Ended(c, n, y, sent) ==
    /\ request' \in Seq(Requests) /\ DOMAIN request' = DOMAIN request
    /\ request'[c] = y
    /\ \A i \in DOMAIN request : i # c /\ i # n => request'[i] = request[i]
    /\ n # 0 =>
          /\ n \in DOMAIN request /\ n # c
          /\ request'[n].drive = request[n].drive /\ request'[n].type = request[n].type
          /\ request'[n].count = request[n].count /\ request'[n].kernel = request[n].kernel
          /\ request'[n].left = request[n].left /\ request'[n].queue = request[n].queue
          /\ request'[n].reset = request[n].reset
          /\ request'[n].result = "Started" /\ request'[n].data = sent

\* What such a step leaves of the records of the requests.
LEMMA EndsRequest ==
    ASSUME Types, NEW c \in DOMAIN request, NEW n, n # 0 => n \in DOMAIN request /\ n # c,
           NEW y \in Requests, NEW sent \in Seq(Nat),
           request' = [i \in DOMAIN request |->
              IF i = c THEN y
              ELSE IF i = n THEN [request[i] EXCEPT !.result = "Started", !.data = sent]
              ELSE request[i]]
    PROVE  Ended(c, n, y, sent)
<1>1. DOMAIN request = 1..Len(request) /\ Len(request) \in Nat
  <2>1. request \in Seq(Requests)
    BY DEF Types
  <2> QED  BY ONLY <2>1
<1>2. ASSUME NEW i \in DOMAIN request, NEW z, z = [request[i] EXCEPT !.result = "Started", !.data = sent]
      PROVE  /\ z \in Requests /\ z.drive = request[i].drive /\ z.type = request[i].type
             /\ z.count = request[i].count /\ z.kernel = request[i].kernel
             /\ z.left = request[i].left /\ z.queue = request[i].queue
             /\ z.reset = request[i].reset /\ z.result = "Started" /\ z.data = sent
  BY <1>2, RequestFields DEF Requests
<1>3. \A i \in DOMAIN request : request'[i] \in Requests
  <2> SUFFICES ASSUME NEW i \in DOMAIN request PROVE request'[i] \in Requests
    OBVIOUS
  <2>1. request[i] \in Requests /\ [request[i] EXCEPT !.result = "Started", !.data = sent] \in Requests
    BY <1>2, RequestFields
  <2> QED  BY <2>1
<1>4. request' \in Seq(Requests) /\ DOMAIN request' = DOMAIN request
  <2>1. request' \in [1..Len(request) -> Requests]
    BY <1>1, <1>3
  <2> QED  BY ONLY <1>1, <2>1
<1>5. ASSUME n # 0 PROVE request'[n] = [request[n] EXCEPT !.result = "Started", !.data = sent]
  BY <1>5
<1> QED  BY <1>2, <1>4, <1>5 DEF Ended

\* The lists of the devices once the current request has left its own.
LEMMA QueuesAfterEnd ==
    ASSUME Types, Queued, Records, channel.current # 0, kind' = kind,
           NEW n, n = NextQueued(request[channel.current].drive),
           m_requests' = [m_requests EXCEPT ![request[channel.current].drive] = Tail(@)],
           channel'.current = n, NEW y, NEW sent, Ended(channel.current, n, y, sent),
           y.result \notin {"Pending", "Started"}
    PROVE  Queued'
<1> DEFINE c == channel.current
           d == request[c].drive
           m == m_requests[d]
           a == m_requests'[d]
<1>1. /\ d \in Drives /\ m \in Seq(Nat) /\ Len(m) \in Nat /\ Len(m) > 0 /\ 1 \in DOMAIN m /\ m[1] = c
      /\ \A e \in Drives : e # d => m_requests[e] = <<>>
  BY FirstInQueue
<1>2. a = Tail(m) /\ \A e \in Drives : e # d => m_requests'[e] = <<>>
  BY <1>1 DEF Types
<1>3. /\ \A j \in DOMAIN a : j \in Nat /\ j + 1 \in DOMAIN m /\ a[j] = m[j + 1] /\ j + 1 # 1
      /\ \A j \in DOMAIN m : j # 1 => j - 1 \in DOMAIN a /\ a[j - 1] = m[j]
      /\ DOMAIN m = 1..Len(m)
  <2> HIDE DEF m, a
  <2> QED  BY <1>1, <1>2, RestOfQueue
<1>4. n = IF Len(m) < 2 THEN 0 ELSE m[2]
  BY DEF NextQueued
<1>5. \A j \in DOMAIN m :
         /\ m[j] \in DOMAIN request /\ request[m[j]].drive = d
         /\ request[m[j]].result = IF j = 1 THEN "Started" ELSE "Pending"
         /\ \A k \in DOMAIN m : m[k] = m[j] => j = k
  BY <1>1 DEF Queued
<1>6. 0 \notin DOMAIN request /\ (Len(m) >= 2 => 2 \in DOMAIN m) /\ Drives' = Drives
  BY <1>1, <1>3 DEF Types, Drives
<1> HIDE DEF m, a, d
<1>7. ASSUME NEW j \in DOMAIN a
      PROVE  /\ a[j] \in DOMAIN request' /\ request'[a[j]].drive = d
             /\ request'[a[j]].result = IF j = 1 THEN "Started" ELSE "Pending"
             /\ j = 1 => channel'.current = a[j]
             /\ \A k \in DOMAIN a : a[k] = a[j] => j = k
  <2>1. j \in Nat /\ j + 1 \in DOMAIN m /\ a[j] = m[j + 1] /\ j + 1 # 1
    BY <1>3
  <2>2. a[j] \in DOMAIN request /\ a[j] # c /\ request[a[j]].drive = d /\ request[a[j]].result = "Pending"
    BY <1>1, <1>5, <2>1
  <2>3. \A k \in DOMAIN a : a[k] = a[j] => j = k
    <3> SUFFICES ASSUME NEW k \in DOMAIN a, a[k] = a[j] PROVE j = k
      OBVIOUS
    <3>1. k \in Nat /\ k + 1 \in DOMAIN m /\ a[k] = m[k + 1]
      BY <1>3
    <3>2. j + 1 = k + 1
      BY <1>5, <2>1, <3>1
    <3> QED  BY <2>1, <3>1, <3>2
  <2>4. j = 1 => a[j] = n /\ n # 0
    <3> SUFFICES ASSUME j = 1 PROVE a[j] = n /\ n # 0
      OBVIOUS
    <3>1. a[j] = m[2] /\ Len(m) >= 2
      BY <1>1, <1>3, <2>1
    <3>2. n = m[2]
      BY <1>1, <1>4, <3>1
    <3> QED  BY <1>6, <2>2, <3>1, <3>2
  <2>5. j # 1 => a[j] # n
    <3> SUFFICES ASSUME j # 1, a[j] = n PROVE FALSE
      OBVIOUS
    <3>1. n # 0
      BY <1>6, <2>2
    <3>2. n = m[2] /\ 2 \in DOMAIN m
      BY <1>1, <1>4, <1>6, <3>1
    <3>3. j + 1 = 2
      BY <1>5, <2>1, <3>2
    <3> QED  BY <2>1, <3>3
  <2>6. CASE j = 1
    BY <2>2, <2>3, <2>4, <2>6 DEF Ended
  <2>7. CASE j # 1
    BY <2>2, <2>3, <2>5, <2>7 DEF Ended
  <2> QED  BY <2>6, <2>7
<1>8. ASSUME NEW k \in DOMAIN request, request'[k].result \in {"Pending", "Started"}
      PROVE  \E i \in DOMAIN m_requests'[request'[k].drive] : m_requests'[request'[k].drive][i] = k
  <2>1. k # c
    BY <1>8 DEF Ended
  <2>2. /\ request'[k].drive = request[k].drive /\ request[k].result \in {"Pending", "Started"}
    <3>1. CASE k = n
      <4>1. n # 0 /\ 2 \in DOMAIN m /\ n = m[2]
        BY <1>1, <1>4, <1>6, <3>1
      <4> QED  BY <1>5, <3>1, <4>1 DEF Ended
    <3>2. CASE k # n
      BY <1>8, <2>1, <3>2 DEF Ended
    <3> QED  BY <3>1, <3>2
  <2>3. PICK i \in DOMAIN m_requests[request[k].drive] : m_requests[request[k].drive][i] = k
    BY <2>2 DEF Queued
  <2>4. request[k].drive = d
    <3>1. request[k].drive \in Drives
      BY <2>2 DEF Records
    <3>2. request[k].drive # d => DOMAIN m_requests[request[k].drive] = {}
      BY <1>1, <3>1
    <3> QED  BY <2>3, <3>2
  <2>5. i \in DOMAIN m /\ m[i] = k /\ i # 1
    BY <1>1, <2>1, <2>3, <2>4 DEF m
  <2>6. i - 1 \in DOMAIN a /\ a[i - 1] = k
    BY <1>3, <2>5
  <2> QED  BY <2>2, <2>4, <2>6 DEF a
<1>9. channel'.current \in {0} \cup DOMAIN request'
      /\ (channel'.current # 0 => request'[channel'.current].result = "Started")
  BY DEF Ended
<1>10. ASSUME NEW e \in Drives, NEW i \in DOMAIN m_requests'[e]
       PROVE  /\ m_requests'[e][i] \in DOMAIN request'
              /\ request'[m_requests'[e][i]].drive = e
              /\ request'[m_requests'[e][i]].result = IF i = 1 THEN "Started" ELSE "Pending"
              /\ i = 1 => channel'.current = m_requests'[e][i]
              /\ \A j \in DOMAIN m_requests'[e] : m_requests'[e][j] = m_requests'[e][i] => i = j
  <2>1. e = d
    <3>1. e # d => DOMAIN m_requests'[e] = {}
      BY <1>2
    <3> QED  BY <1>10, <3>1
  <2> QED  BY <1>7, <1>10, <2>1 DEF a
<1> QED  BY <1>6, <1>8, <1>9, <1>10 DEF Ended, Queued

\* The callers when the request c was completed: the one who slept is back, the one who
\* has not slept yet will find the wake.
LEMMA CallersAfterEnd ==
    ASSUME Types, Queued, Callers, Sleepers, kind' = kind,
           NEW c \in DOMAIN request, request[c].result = "Started",
           NEW n, n # 0 => n \in DOMAIN request /\ request[n].result = "Pending",
           NEW y, NEW sent, Ended(c, n, y, sent),
           request[c].left # "no" => y.queue.m_blockers = <<>>,
           request[c].left = "no" => y.left = "no" /\ y.result \in Completed
                                     /\ y.queue = WakeAll(request[c].queue),
           call' = [t \in Threads |->
              IF t \in Woken(c) THEN [call[t] EXCEPT !.at = "back"] ELSE call[t]]
    PROVE  Callers' /\ Sleepers'
<1>1. y.queue.m_blockers = <<>>
  <2>1. WakeAll(request[c].queue).m_blockers = <<>>
    BY DEF WakeAll, Queue
  <2> QED  BY <2>1
<1>2. \A t \in Threads : t \in Woken(c) => call[t].at = "blocked" /\ call[t].req = c
  BY DEF Sleepers, Woken
<1>3. \A t \in Threads :
         /\ call'[t].at = IF t \in Woken(c) THEN "back" ELSE call[t].at
         /\ call'[t].drive = call[t].drive /\ call'[t].plan = call[t].plan
         /\ call'[t].block = call[t].block /\ call'[t].req = call[t].req
         /\ call'[t].interrupted = call[t].interrupted
         /\ t \notin Woken(c) => call'[t] = call[t]
  <2> SUFFICES ASSUME NEW t \in Threads
               PROVE  /\ call'[t].at = IF t \in Woken(c) THEN "back" ELSE call[t].at
                      /\ call'[t].drive = call[t].drive /\ call'[t].plan = call[t].plan
                      /\ call'[t].block = call[t].block /\ call'[t].req = call[t].req
                      /\ call'[t].interrupted = call[t].interrupted
                      /\ t \notin Woken(c) => call'[t] = call[t]
    OBVIOUS
  <2>1. call[t] \in CallRecords
    BY DEF Types
  <2>2. CASE t \in Woken(c)
    <3>1. call'[t] = [call[t] EXCEPT !.at = "back"]
      BY <2>2
    <3> QED  BY <2>1, <2>2, <3>1 DEF CallRecords
  <2>3. CASE t \notin Woken(c)
    BY <2>3
  <2> QED  BY <2>2, <2>3
<1>4. \A t \in Threads : InCall(t)' <=> InCall(t)
  BY <1>2, <1>3 DEF InCall
<1>5. Sleepers'
  <2> SUFFICES ASSUME NEW i \in DOMAIN request', NEW t \in Members(request'[i].queue)
               PROVE  call'[t].at = "blocked" /\ call'[t].req = i
    BY DEF Sleepers
  <2>1. i # c
    BY <1>1 DEF Ended, Members, ToSet
  <2>2. i \in DOMAIN request /\ request'[i].queue = request[i].queue
    BY <2>1 DEF Ended
  <2>3. t \in Threads /\ call[t].at = "blocked" /\ call[t].req = i
    BY <2>2, SleepersAreThreads DEF Sleepers
  <2>4. t \notin Woken(c)
    BY <1>2, <2>1, <2>3
  <2> QED  BY <1>3, <2>3, <2>4
<1>6. ASSUME NEW t \in Threads PROVE CallerOK(t)'
  <2>1. CallerOK(t) /\ Drives' = Drives
    BY DEF Callers, Drives
  <2>2. \A u \in Threads : InCall(t) /\ InCall(u)' /\ call'[u].req = call[t].req => u = t
    BY <1>3, <1>4, <2>1 DEF CallerOK, WaitOK
  <2>3. CASE InCall(t) /\ call[t].req = c
    <3>1. /\ request[c].left = "no" /\ request[c].queue.m_should_block
          /\ request[c].queue.m_blockers = IF call[t].at = "blocked" THEN <<t>> ELSE <<>>
      BY <2>1, <2>3 DEF CallerOK, WaitOK
    <3>2. y.left = "no" /\ y.result \in Completed /\ y.queue = WakeAll(request[c].queue)
      BY <3>1
    <3>3. t \in Woken(c) <=> call[t].at = "blocked"
      BY <3>1 DEF Woken, Members, ToSet
    <3>4. call'[t].at # "blocked" /\ (call'[t].at \in {"check", "wait"} => call[t].at = call'[t].at)
      BY <1>3, <3>3
    <3>5. y.queue.m_should_block /\ (call[t].at # "blocked" => y.queue.m_wake_requested)
      <4>1. /\ WakeAll(request[c].queue).m_should_block = request[c].queue.m_should_block
            /\ WakeAll(request[c].queue).m_wake_requested = (request[c].queue.m_blockers = <<>>)
        BY DEF WakeAll, Queue
      <4> QED  BY <3>1, <3>2, <4>1
    <3>6. WaitOK(t)'
      <4>1. call'[t].req = c /\ c \in DOMAIN request' /\ request'[c] = y /\ y.result # "gone"
        BY <1>3, <2>3, <3>2 DEF Ended, Completed
      <4> QED  BY <1>1, <2>2, <2>3, <3>2, <3>4, <3>5, <4>1 DEF WaitOK
    <3>7. call[t].interrupted => call[t].at = "back"
      BY <2>1 DEF CallerOK
    <3>8. call'[t].at = "make" => FALSE
      BY <1>3, <2>3 DEF InCall
    <3>9. call[t].at # "user"
      BY <2>3 DEF InCall
    <3> QED  BY <1>3, <2>1, <3>6, <3>7, <3>8, <3>9 DEF CallerOK
  <2>4. CASE ~(InCall(t) /\ call[t].req = c)
    <3>1. t \notin Woken(c) /\ call'[t] = call[t]
      BY <1>2, <1>3, <2>4 DEF InCall
    <3>2. ASSUME InCall(t) PROVE WaitOK(t)'
      <4> DEFINE r == call[t].req
      <4>1. WaitOK(t) /\ r \in DOMAIN request /\ r # c
        BY <2>1, <2>4, <3>2 DEF CallerOK, WaitOK
      <4>2. CASE r # n
        BY <2>2, <3>1, <3>2, <4>1, <4>2 DEF WaitOK, Ended
      <4>3. CASE r = n
        <5>1. n # 0
          BY <4>1, <4>3 DEF Types
        <5>2. /\ request'[r].queue = request[r].queue /\ request'[r].left = request[r].left
              /\ request'[r].result = "Started" /\ request[r].result = "Pending"
          BY <4>3, <5>1 DEF Ended
        <5>3. "Started" \notin Completed /\ "Pending" \notin Completed
          BY DEF Completed
        <5> QED  BY <2>2, <3>1, <3>2, <4>1, <5>2, <5>3 DEF WaitOK, Ended
      <4> QED  BY <4>2, <4>3
    <3> QED  BY <1>4, <2>1, <3>1, <3>2 DEF CallerOK
  <2> QED  BY <2>3, <2>4
<1> QED  BY <1>5, <1>6 DEF Callers

\* AsyncDeviceRequest::complete and what follows from it: the result is what the item says,
\* or that the copy failed; the next request of the device is started.
LEMMA FinishRequestStep ==
    ASSUME RInv, QInv, Alive, NEW f \in Ways, NEW o \in Ways, FinishRequest(f, o)
    PROVE  RInv' /\ Listed'
<1> DEFINE c == channel.current
           q == request[c]
           d == q.drive
           n == NextQueued(d)
           copies == kind # "pio" /\ work[item].what = "Success" /\ q.type = "Read"
           result == IF f = "faults" THEN "MemoryFault" ELSE work[item].what
           data == IF copies /\ f = "ok" THEN [i \in 1..q.count |-> channel.dma] ELSE q.data
           c0 == [channel EXCEPT !.scatter_list = FALSE]
           free == [c0 EXCEPT !.current = 0]
           s == IF n = 0 THEN Started(free, <<>>, "none", {}) ELSE StartRequest(free, n, request[n], o)
           y == IF q.left # "no" THEN Gone
                ELSE [q EXCEPT !.result = result, !.data = data, !.queue = WakeAll(q.queue)]
<1>1. /\ Running(Completed) /\ ~Stale
      /\ f \in {"ok"} \cup (IF copies /\ ~q.kernel THEN {"faults"} ELSE {})
      /\ Spend(Trouble(f) + Trouble(o))
      /\ CompleteCurrent(c0, result, data, o)
      /\ late' = (late \/ (copies /\ f = "ok" /\ q.left # "no"))
      /\ ran' = TRUE
      /\ UNCHANGED <<kind, irq>>
  BY DEF FinishRequest
<1>2. Types /\ Numbering /\ Queued /\ Callers /\ Sleepers /\ Strays /\ Token /\ Records /\ DataIsOwn
  BY DEF RInv
<1>3. /\ c \in DOMAIN request /\ c \in Nat /\ c # 0 /\ q \in Requests /\ q.result = "Started"
      /\ pc = "run" /\ ran = FALSE /\ item \in Todo /\ work[item].what \in Completed
      /\ work[item].what = "Success" => MovedOK(c) \/ q.reset
      /\ work[item].what = "MemoryFault" => ~q.kernel
      /\ Active => Spent
      /\ irq # NoIrq => Spent
      /\ \A i \in Todo \ {item} : Spent
  BY <1>1, FinishedItem
<1>4. /\ d \in Drives /\ m_requests[d] \in Seq(Nat) /\ Len(m_requests[d]) \in Nat
      /\ Len(m_requests[d]) > 0 /\ m_requests[d][1] = c
  BY <1>2, <1>3, FirstInQueue
<1>5. /\ channel \in Channels /\ c0 \in Channels /\ c0.current = c /\ c0.hw = channel.hw
      /\ c0.scatter_list = FALSE /\ kind \in {"pio", "dma", "ahci"}
  BY <1>2 DEF Types, Channels
<1>6. free \in Channels /\ free.current = 0 /\ free.hw = channel.hw /\ free.scatter_list = FALSE
  <2> HIDE DEF c0
  <2> QED  BY <1>5 DEF Channels
<1>7. /\ o \in (IF n = 0 THEN {"ok"} ELSE Outcomes(request[n]))
      /\ panicked' = panicked \cup s.panic
             \cup (IF q.result # "Started" THEN {"complete"} ELSE {})
             \cup (IF Head(m_requests[d]) # c THEN {"next_request"} ELSE {})
      /\ m_requests' = [m_requests EXCEPT ![d] = Tail(@)]
      /\ request' = [i \in DOMAIN request |->
             IF i = c THEN IF request[i].left # "no" THEN Gone
                           ELSE [request[i] EXCEPT !.result = result, !.data = data,
                                                   !.queue = WakeAll(@)]
             ELSE IF i = n THEN [request[i] EXCEPT !.result = "Started", !.data = s.sent]
             ELSE request[i]]
      /\ call' = [t \in Threads |->
             IF t \in Woken(c) THEN [call[t] EXCEPT !.at = "back"] ELSE call[t]]
      /\ channel' = s.channel
      /\ QueueWork(s.todo, s.channel.current)
  <2> HIDE DEF c0, result, data
  <2> QED  BY <1>1, <1>5 DEF CompleteCurrent
<1>8. n # 0 => /\ n \in DOMAIN request /\ n # c /\ n \in Nat /\ request[n] \in Requests
               /\ request[n].result = "Pending" /\ Sound(request[n]) /\ request[n].drive \in Drives
  <2> SUFFICES ASSUME n # 0
               PROVE  /\ n \in DOMAIN request /\ n # c /\ n \in Nat /\ request[n] \in Requests
                      /\ request[n].result = "Pending" /\ Sound(request[n])
                      /\ request[n].drive \in Drives
    OBVIOUS
  <2>1. n = m_requests[d][2] /\ 2 \in DOMAIN m_requests[d]
    BY <1>4 DEF NextQueued
  <2>2. n \in DOMAIN request /\ request[n].result = "Pending"
    BY <1>2, <1>4, <2>1 DEF Queued
  <2>3. request[n] \in Requests /\ n \in Nat
    BY <1>2, <1>4, <2>1, <2>2, RequestFields
  <2> HIDE DEF n
  <2>4. request[n].type \in {"Read", "Write"} /\ request[n].count > 0 /\ request[n].drive \in Drives
    BY <1>2, <2>2 DEF Records
  <2>5. Sound(request[n])
    BY <2>3, <2>4, IOAssumptions DEF Sound, Requests
  <2> QED  BY <1>3, <2>2, <2>3, <2>4, <2>5
<1> HIDE DEF c0, n
<1>9. n # 0 => StartOK(free, n, request[n], o, s.channel, s.sent, s.todo, s.panic)
  <2> SUFFICES ASSUME n # 0 PROVE StartOK(free, n, request[n], o, s.channel, s.sent, s.todo, s.panic)
    OBVIOUS
  <2>1. s = StartRequest(free, n, request[n], o) /\ o \in Outcomes(request[n])
    BY <1>7
  <2> HIDE DEF s, free
  <2> QED  BY <1>5, <1>6, <1>8, <2>1, StartFields
<1>10. n = 0 => s.channel = free /\ s.sent = <<>> /\ s.todo = "none" /\ s.panic = {}
  <2> HIDE DEF free
  <2> QED  BY DEF Started
<1> HIDE DEF s, free
<1>11. /\ channel' \in Channels /\ channel'.current = n /\ s.todo \in {"none", "MemoryFault"}
       /\ n \in Nat /\ s.sent \in Seq(Nat) /\ (n # 0 => Len(s.sent) <= request[n].count)
       /\ s.panic = IF n # 0 /\ kind = "ahci" /\ o # "ok" THEN {"ahci_unlock"} ELSE {}
  <2>1. CASE n = 0
    <3>1. <<>> \in Seq(Nat) /\ n \in Nat
      BY <2>1
    <3> QED  BY <1>6, <1>7, <1>10, <2>1, <3>1
  <2>2. CASE n # 0
    <3>1. /\ s.channel \in Channels /\ s.channel.current = n /\ s.todo \in {"none", "MemoryFault"}
          /\ s.sent = <<>> \/ s.sent = <<n>>
          /\ s.panic = IF kind = "ahci" /\ o # "ok" THEN {"ahci_unlock"} ELSE {}
      BY <1>9, <2>2 DEF StartOK
    <3>2. request[n].count \in Nat /\ request[n].count > 0
      BY <1>8, <2>2, IOAssumptions DEF Sound
    <3>3. s.sent \in Seq(Nat) /\ Len(s.sent) <= request[n].count
      BY <1>8, <2>2, <3>1, <3>2, SentSectors
    <3> QED  BY <1>7, <1>8, <2>2, <3>1, <3>3
  <2> QED  BY <2>1, <2>2
<1>12. /\ result \in Completed /\ data \in Seq(Nat) /\ Len(data) <= q.count
       /\ result = "MemoryFault" => ~q.kernel
       /\ result = "Success" => data = Own(q.count, c) \/ q.reset
  <2>1. q.data \in Seq(Nat) /\ Len(q.data) <= q.count /\ q.count \in Nat /\ channel.dma \in Nat
    BY <1>2, <1>3, <1>5, IOAssumptions DEF Records, Requests, Channels
  <2>2. data \in Seq(Nat) /\ Len(data) <= q.count
    <3>1. CASE copies /\ f = "ok"
      <4>1. data = Own(q.count, channel.dma)
        BY <3>1 DEF Own
      <4>2. Own(q.count, channel.dma) \in Seq(Nat) /\ Len(Own(q.count, channel.dma)) = q.count
        BY <2>1, OwnSectors
      <4> QED  BY <2>1, <4>1, <4>2
    <3>2. CASE ~(copies /\ f = "ok")
      BY <2>1, <3>2
    <3> QED  BY <3>1, <3>2
  <2>3. result \in Completed /\ (result = "MemoryFault" => ~q.kernel)
    BY <1>1, <1>3 DEF Completed
  <2>4. ASSUME result = "Success" PROVE data = Own(q.count, c) \/ q.reset
    <3>1. f = "ok" /\ work[item].what = "Success"
      BY <1>1, <2>4
    <3>2. MovedOK(c) \/ q.reset
      BY <1>3, <3>1
    <3>3. CASE MovedOK(c) /\ copies
      <4>1. channel.dma = c
        BY <3>3 DEF MovedOK
      <4> QED  BY <3>1, <3>3, <4>1 DEF Own
    <3>4. CASE MovedOK(c) /\ ~copies
      BY <3>1, <3>4 DEF MovedOK
    <3> QED  BY <3>2, <3>3, <3>4
  <2> QED  BY <2>2, <2>3, <2>4
<1> HIDE DEF data, result
<1>13. /\ y \in Requests /\ y.result \notin {"Pending", "Started"}
       /\ q.left # "no" => y = Gone
       /\ q.left = "no" => /\ y.drive = q.drive /\ y.type = q.type /\ y.count = q.count
                           /\ y.kernel = q.kernel /\ y.result = result /\ y.data = data
                           /\ y.queue = WakeAll(q.queue) /\ y.left = "no" /\ y.reset = q.reset
  <2>1. Gone \in Requests /\ Gone.result = "gone"
    BY IOAssumptions DEF Gone, Requests, NewQueue, Queue, Queues
  <2>2. WakeAll(q.queue) \in Queues(Threads)
    <3>1. q.queue \in Queues(Threads)
      BY <1>3 DEF Requests
    <3> QED  BY <3>1 DEF WakeAll, Queue, Queues
  <2>3. CASE q.left # "no"
    BY <2>1, <2>3
  <2>4. CASE q.left = "no"
    <3>1. y = [q EXCEPT !.result = result, !.data = data, !.queue = WakeAll(q.queue)]
      BY <2>4
    <3> HIDE DEF y, q
    <3> QED  BY <1>3, <1>12, <2>2, <2>4, <3>1 DEF Requests, Completed
  <2> QED  BY <2>3, <2>4
<1>14. request' = [i \in DOMAIN request |->
             IF i = c THEN y
             ELSE IF i = n THEN [request[i] EXCEPT !.result = "Started", !.data = s.sent]
             ELSE request[i]]
  <2>1. \A i \in DOMAIN request : i = c =>
           (IF request[i].left # "no" THEN Gone
            ELSE [request[i] EXCEPT !.result = result, !.data = data, !.queue = WakeAll(@)]) = y
    OBVIOUS
  <2> HIDE DEF y
  <2> QED  BY <1>7, <2>1
<1> HIDE DEF y
<1>15. Ended(c, n, y, s.sent)
  BY <1>2, <1>3, <1>8, <1>11, <1>13, <1>14, EndsRequest
<1>16. Gone.drive = "none" /\ Gone.result = "gone" /\ Gone.data = <<>> /\ Gone.count = 0 /\ Gone.queue.m_blockers = <<>>
  BY DEF Gone, NewQueue, Queue
<1>17. m_requests' \in [Drives -> Seq(Nat)]
  <2>1. Tail(m_requests[d]) \in Seq(Nat) /\ m_requests \in [Drives -> Seq(Nat)]
    BY <1>2, <1>4, RestOfQueue DEF Types
  <2> QED  BY <1>4, <1>7, <2>1
<1>18. call' \in [Threads -> CallRecords]
  <2>1. \A t \in Threads : call[t] \in CallRecords /\ [call[t] EXCEPT !.at = "back"] \in CallRecords
    BY <1>2 DEF Types, CallRecords
  <2> QED  BY <1>7, <2>1
<1>19. LET new == IF s.todo = "none" THEN {} ELSE {NewItem}
       IN /\ work' \in Seq(Items) /\ Numbering' /\ NewItem \notin Todo
          /\ Todo' = (Todo \ {item}) \cup new
          /\ \A i \in Todo : i \in Nat /\ work'[i] = work[i]
          /\ s.todo # "none" => work'[NewItem] = [what |-> s.todo, req |-> n]
  <2>1. s.todo \in {"none", "sector", "fatal", "reset"} \cup Completed /\ s.channel.current = n
    BY <1>7, <1>11 DEF Completed
  <2> QED  BY <1>1, <1>2, <1>3, <1>7, <1>11, <2>1, QueueWorkTodo
<1>20. budget' \in 0..MaxTroubles /\ budget' <= budget /\ (o # "ok" => budget' < MaxTroubles)
  BY <1>1, <1>2, IOAssumptions DEF Types, Spend, Trouble
<1>21. Drives' = Drives /\ (Spent => Spent') /\ \A i : Begun(i) => Begun(i)'
  <2>1. Spent => Spent'
    BY <1>1, <1>2, <1>20, IOAssumptions DEF Types, Spent
  <2>2. \A i : Begun(i) => Begun(i)'
    BY <1>13, <1>15 DEF Begun, Ended
  <2> QED  BY <1>1, <2>1, <2>2 DEF Drives
<1>22. Types'
  <2>1. ran' \in BOOLEAN /\ late' \in BOOLEAN
    BY <1>1, <1>2 DEF Types
  <2> QED  BY <1>1, <1>2, <1>11, <1>15, <1>17, <1>18, <1>19, <1>20, <1>21, <2>1 DEF Types, Ended
<1>23. Records' /\ DataIsOwn'
  <2>1. \A i \in DOMAIN request : i = c \/ (i = n /\ n # 0) \/ request'[i] = request[i]
    <3>1. 0 \notin DOMAIN request
      BY <1>2 DEF Types
    <3> QED  BY <1>15, <3>1 DEF Ended
  <2>2. /\ Len(y.data) <= y.count
        /\ y.result # "gone" => y.drive \in Drives /\ y.type \in {"Read", "Write"} /\ y.count > 0
        /\ y.result = "gone" => y.drive = "none"
        /\ y.result = "MemoryFault" => ~y.kernel
    <3>1. CASE q.left # "no"
      BY <1>13, <1>16, <3>1
    <3>2. CASE q.left = "no"
      BY <1>2, <1>3, <1>12, <1>13, <3>2 DEF Records, Completed
    <3> QED  BY <3>1, <3>2
  <2>3. Records'
    <3> SUFFICES ASSUME NEW i \in DOMAIN request
                 PROVE  /\ Len(request'[i].data) <= request'[i].count
                        /\ request'[i].result # "gone" => /\ request'[i].drive \in Drives
                                                          /\ request'[i].type \in {"Read", "Write"}
                                                          /\ request'[i].count > 0
                        /\ request'[i].result = "gone" => request'[i].drive = "none"
                        /\ request'[i].result = "MemoryFault" => ~request'[i].kernel
      BY <1>15, <1>21 DEF Records, Ended
    <3>1. CASE i = c
      BY <1>15, <2>2, <3>1 DEF Ended
    <3>2. CASE i = n /\ n # 0
      <4>1. /\ request[n].type \in {"Read", "Write"} /\ request[n].count > 0
        BY <1>2, <1>8, <3>2 DEF Records
      <4> QED  BY <1>8, <1>11, <1>15, <3>2, <4>1 DEF Ended
    <3>3. CASE request'[i] = request[i]
      BY <1>2, <3>3 DEF Records
    <3> QED  BY <2>1, <3>1, <3>2, <3>3
  <2>4. DataIsOwn'
    <3> SUFFICES ASSUME NEW i \in DOMAIN request
                 PROVE  /\ request'[i].result = "Success" =>
                              \/ request'[i].data = [j \in 1..request'[i].count |-> i]
                              \/ request'[i].reset
                        /\ request'[i].left = "returned" => request'[i].result = "gone"
      BY <1>15 DEF DataIsOwn, Ended
    <3>1. CASE i = c /\ q.left # "no"
      BY <1>13, <1>15, <1>16, <3>1 DEF Ended
    <3>2. CASE i = c /\ q.left = "no"
      <4>1. request'[i] = y
        BY <1>15, <3>2 DEF Ended
      <4> QED  BY <1>12, <1>13, <3>2, <4>1 DEF Own
    <3>3. CASE i = n /\ n # 0
      <4>1. request[n].left # "returned"
        BY <1>2, <1>8, <3>3 DEF DataIsOwn
      <4> QED  BY <1>15, <3>3, <4>1 DEF Ended
    <3>4. CASE request'[i] = request[i]
      BY <1>2, <3>4 DEF DataIsOwn
    <3> QED  BY <2>1, <3>1, <3>2, <3>3, <3>4
  <2> QED  BY <2>3, <2>4
<1>24. PanicsAreKnown'
  <2>1. Head(m_requests[d]) = c
    BY <1>4, RestOfQueue
  <2>2. panicked' = s.panic
    BY <1>3, <1>7, <2>1 DEF Alive
  <2> QED  BY <1>1, <1>11, <1>20, <2>2 DEF PanicsAreKnown
<1>25. Queued'
  BY <1>1, <1>2, <1>3, <1>7, <1>11, <1>13, <1>15, QueuesAfterEnd DEF n
<1>26. Listed'
  BY <1>25 DEF Queued, Listed
<1>27. Callers' /\ Sleepers'
  BY <1>1, <1>2, <1>3, <1>7, <1>8, <1>12, <1>13, <1>15, <1>16, CallersAfterEnd
<1>28. irq # NoIrq => /\ Begun(irq.req)' /\ irq.what # "none" /\ Spent'
                      /\ irq.what \in {"fatal", "reset"} => kind = "ahci"
  <2>1. irq # NoIrq => /\ Begun(irq.req) /\ irq.what # "none"
                       /\ irq.what \in {"fatal", "reset"} => kind = "ahci"
    BY <1>2 DEF Strays
  <2>2. Begun(irq.req) => Begun(irq.req)'
    BY <1>1, <1>13, <1>15 DEF Begun, Ended
  <2> QED  BY <1>3, <1>21, <2>1, <2>2
<1>29. ASSUME NEW i \in Todo \ {item}
       PROVE  /\ Begun(work[i].req)' /\ work'[i].what # "gone" /\ Spent'
              /\ work'[i].what \in {"fatal", "reset"} => kind = "ahci"
  <2>1. work'[i] = work[i] /\ Begun(work[i].req) /\ work[i].what # "gone"
        /\ (work[i].what \in {"fatal", "reset"} => kind = "ahci")
    BY <1>2, <1>19 DEF Strays
  <2>2. Begun(work[i].req)'
    BY <1>13, <1>15, <2>1 DEF Begun, Ended
  <2> QED  BY <1>3, <1>21, <2>1, <2>2
<1>30. CASE n = 0
  <2>1. channel' = free /\ s.todo = "none" /\ Todo' = Todo \ {item}
    BY <1>7, <1>10, <1>19, <1>30
  <2>2. Token'
    BY <1>11, <1>30 DEF Token
  <2>3. Active' => Begun(channel.hw.req)' /\ channel'.hw.left > 0 /\ Spent'
    <3>1. channel'.hw = channel.hw /\ (Active' <=> Active)
      BY <1>6, <2>1 DEF Active
    <3>2. Active => Begun(channel.hw.req) /\ channel.hw.left > 0
      BY <1>2 DEF Strays
    <3>3. Active' => Begun(channel.hw.req)'
      BY <1>13, <1>15, <3>1, <3>2 DEF Begun, Ended
    <3> QED  BY <1>3, <1>21, <3>1, <3>2, <3>3
  <2>4. Strays'
    BY <1>1, <1>6, <1>28, <1>29, <2>1, <2>3 DEF Strays
  <2> QED  BY <1>19, <1>22, <1>23, <1>24, <1>25, <1>27, <1>26, <2>2, <2>4 DEF RInv
<1>31. CASE n # 0 /\ Alive'
  <2>1. s.panic = {}
    BY <1>7, <1>31 DEF Alive
  <2>2. StartOK(free, n, request[n], o, channel', s.sent, s.todo, {})
    BY <1>7, <1>9, <1>31, <2>1
  <2>3. irq.req # n /\ \A i \in Todo : work[i].req # n
    <3>1. \A i : Begun(i) => i # n
      BY <1>8, <1>31 DEF Begun
    <3> QED  BY <1>2, <1>31, <3>1 DEF Strays, NoIrq, Irq
  <2>4. Mine' = IF s.todo = "none" THEN {} ELSE {NewItem}
    <3>1. \A i \in Todo : work'[i].req # n
      BY <1>19, <2>3
    <3>2. s.todo # "none" => work'[NewItem].req = n
      BY <1>19
    <3> QED  BY <1>11, <1>19, <3>1, <3>2 DEF Mine
  <2>5. s.todo # "none" => NewItem \in Todo' /\ work'[NewItem].what = s.todo
    BY <1>19
  <2>6. free.hw.cmd \in {"read", "write", "flush"} /\ free.hw.phase = "busy" => kind = "pio"
    BY <1>3, <1>6 DEF Active, Spent
  <2>7. /\ request'[n].type = request[n].type /\ request'[n].count = request[n].count
        /\ request'[n].kernel = request[n].kernel /\ request'[n].data = s.sent
        /\ request'[n].result = "Started" /\ n \in DOMAIN request'
    BY <1>15, <1>31 DEF Ended
  <2>8. Token' /\ (Active' => channel'.hw.req = n /\ channel'.hw.left > 0)
    <3> DEFINE p == request[n]
    <3>1. /\ StartOK(free, n, p, o, channel', s.sent, s.todo, {}) /\ Sound(p) /\ n \in Nat /\ n # 0
          /\ request'[n].type = p.type /\ request'[n].count = p.count
          /\ request'[n].kernel = p.kernel
      BY <1>8, <1>31, <2>2, <2>7
    <3> HIDE DEF p
    <3>2. /\ kind \in {"pio", "dma", "ahci"} /\ kind' = kind /\ irq' = irq /\ free \in Channels
          /\ irq.req # n /\ request'[n].data = s.sent
      BY <1>1, <1>5, <1>6, <2>3, <2>7
    <3> QED  BY ONLY <2>4, <2>5, <2>6, <3>1, <3>2, StartedToken
  <2>9. ASSUME NEW i \in Todo'
        PROVE  /\ Begun(work[i].req)' /\ work'[i].what # "gone"
               /\ work'[i].what \in {"fatal", "reset"} => kind = "ahci"
               /\ work'[i].req # n => Spent'
    <3>1. CASE i \in Todo \ {item}
      BY <1>29, <3>1
    <3>2. CASE i = NewItem /\ s.todo # "none"
      BY <1>11, <1>19, <2>7, <3>2 DEF Begun
    <3> QED  BY <1>19, <2>9, <3>1, <3>2
  <2>10. Active' => /\ Begun(channel.hw.req)' /\ channel'.hw.left > 0
                    /\ channel'.hw.req = channel'.current
    BY <1>11, <2>7, <2>8 DEF Begun
  <2>11. Strays'
    BY <1>1, <1>11, <1>28, <1>31, <2>9, <2>10 DEF Strays
  <2> QED  BY <1>19, <1>22, <1>23, <1>24, <1>25, <1>27, <1>26, <2>8, <2>11 DEF RInv
<1>32. CASE ~Alive'
  BY <1>19, <1>22, <1>23, <1>24, <1>32, <1>26 DEF RInv
<1> QED  BY <1>30, <1>31, <1>32

----------------------------------------------------------------------------
(* The theorems *)

\* The inductive invariant of DeviceIO.
IOInv == QInv /\ RInv /\ Listed /\ Reported

\* As long as nothing has gone wrong, what is queued was made.
LEMMA AliveListed ==
    ASSUME RInv, Alive
    PROVE  Listed
BY DEF RInv, Queued, Listed

\* A step that fails no VERIFY.
LEMMA StillListed ==
    ASSUME RInv', Alive, panicked' = panicked
    PROVE  Listed'
<1>1. Alive'
  BY DEF Alive
<1> QED  BY <1>1 DEF RInv, Queued, Listed

\* Every step of a caller.
LEMMA CallerSteps ==
    ASSUME QInv, RInv, Alive, NEW t \in Threads,
           \/ ThreadStep(t)
           \/ Interrupt(t)
           \/ \E c \in Calls : Begin(t, c)
    PROVE  RInv' /\ Listed'
<1>1. ASSUME NEW o \in Ways, MakeRequest(t, o) PROVE RInv' /\ Listed'
  BY <1>1, MakeRequestStep
<1>2. ASSUME NEW o \in Ways, HandleResult(t, o) PROVE RInv' /\ Listed'
  <2>1. RInv'
    BY <1>2, HandleResultStep
  <2>2. Listed'
    <3>1. UNCHANGED <<channel, m_requests, kind>> /\ DOMAIN request' = DOMAIN request
      BY <1>2 DEF HandleResult
    <3>2. Listed
      BY AliveListed
    <3> QED  BY <3>1, <3>2 DEF Listed, Drives
  <2> QED  BY <2>1, <2>2
<1>3. CASE CheckResult(t)
  <2>1. RInv' /\ panicked' = panicked
    BY <1>3, CheckStep DEF CheckResult
  <2> QED  BY <2>1, StillListed
<1>4. CASE WaitOnRequest(t)
  <2>1. RInv' /\ panicked' = panicked
    BY <1>4, WaitStep DEF WaitOnRequest
  <2> QED  BY <2>1, StillListed
<1>5. CASE Interrupt(t)
  <2>1. RInv' /\ panicked' = panicked
    BY <1>5, InterruptStep DEF Interrupt
  <2> QED  BY <2>1, StillListed
<1>6. ASSUME NEW c \in Calls, Begin(t, c) PROVE RInv' /\ Listed'
  <2>1. RInv' /\ panicked' = panicked
    BY <1>6, BeginStep DEF Begin
  <2> QED  BY <2>1, StillListed
<1> QED  BY <1>1, <1>2, <1>3, <1>4, <1>5, <1>6 DEF ThreadStep

\* Only a drive that fails reports an error.
LEMMA ReportedStep ==
    ASSUME Types, Reported, [Next]_vars
    PROVE  Reported'
<1>0. /\ budget \in Nat /\ MaxTroubles \in Nat /\ Trouble("ok") = 0
      /\ \A w : Trouble(w) \in {0, 1}
      /\ NoIrq.what = "none" /\ \A w, r : Irq(w, r).what = w
  BY IOAssumptions DEF Types, Trouble, NoIrq, Irq
<1>1. ASSUME kind' = kind, irq' = irq \/ irq'.what # "error",
             budget' = budget \/ \E n \in Nat : Spend(n)
      PROVE  Reported'
  BY <1>0, <1>1 DEF Reported, Spend
<1>2. ASSUME NEW t \in Threads, CallStep(t) PROVE Reported'
  <2>1. ASSUME NEW o \in Ways, MakeRequest(t, o) PROVE Reported'
    <3>1. kind' = kind /\ irq' = irq /\ Spend(Trouble(o))
      BY <2>1 DEF MakeRequest
    <3>2. Trouble(o) \in Nat
      BY <1>0
    <3> QED  BY <1>1, <3>1, <3>2
  <2>2. ASSUME NEW o \in Ways, HandleResult(t, o) PROVE Reported'
    <3>1. kind' = kind /\ irq' = irq /\ Spend(Trouble(o))
      BY <2>2 DEF HandleResult
    <3>2. Trouble(o) \in Nat
      BY <1>0
    <3> QED  BY <1>1, <3>1, <3>2
  <2>3. CASE CheckResult(t) \/ WaitOnRequest(t)
    BY <1>1, <2>3 DEF CheckResult, WaitOnRequest
  <2> QED  BY <1>2, <2>1, <2>2, <2>3 DEF CallStep, ThreadStep
<1>3. CASE KernelStep
  <2>1. CASE ItemStep
    <3>1. CASE RunStale \/ Recover
      BY <1>1, <3>1 DEF RunStale, Recover
    <3>2. ASSUME NEW o \in Ways, ReadSector(o) \/ WriteSector(o) \/ Reset(o) PROVE Reported'
      BY <1>0, <1>1, <3>2 DEF ReadSector, WriteSector, Reset
    <3>3. ASSUME NEW f \in Ways, NEW o \in Ways, FinishRequest(f, o) PROVE Reported'
      <4>1. Trouble(f) + Trouble(o) \in Nat
        BY <1>0
      <4> QED  BY <1>1, <3>3, <4>1 DEF FinishRequest
    <3> QED  BY <2>1, <3>1, <3>2, <3>3 DEF ItemStep
  <2>2. CASE FinishItem \/ Loop \/ Wake
    BY <1>1, <2>2 DEF FinishItem, Loop, Wake, ioVars
  <2>3. ASSUME NEW locked \in BOOLEAN, HandleIrq(locked) PROVE Reported'
    BY <1>0, <1>1, <2>3 DEF HandleIrq
  <2> QED  BY <1>3, <2>1, <2>2, <2>3 DEF KernelStep
<1>4. CASE DriveStep
  BY <1>0, <1>1, <1>4 DEF DriveStep, Answer
<1>5. CASE Environment
  <2>1. ASSUME NEW i \in {"error", "fatal", "reset"}, Fail(i) PROVE Reported'
    BY <1>0, <2>1 DEF Fail, Reported, Spend, Types
  <2>2. ASSUME NEW t \in Threads, Interrupt(t) PROVE Reported'
    BY <1>1, <2>2 DEF Interrupt
  <2>3. ASSUME NEW t \in Threads, NEW c \in Calls, Begin(t, c) PROVE Reported'
    BY <1>1, <2>3 DEF Begin
  <2> QED  BY <1>5, <2>1, <2>2, <2>3 DEF Environment
<1>6. CASE UNCHANGED vars
  BY <1>1, <1>6 DEF vars, ioVars
<1> QED  BY <1>2, <1>3, <1>4, <1>5, <1>6 DEF Next

\* Every step of the worker, its items and the interrupt handler.
LEMMA WorkerSteps ==
    ASSUME QInv, RInv, Reported, Alive,
           ItemStep \/ FinishItem \/ Loop \/ Wake \/ \E locked \in BOOLEAN : HandleIrq(locked)
    PROVE  RInv' /\ Listed'
<1>1. CASE RunStale
  BY <1>1, StaleStep
<1>2. CASE Recover \/ \E o \in Ways : Reset(o)
  <2>1. RInv' /\ panicked' = panicked
    BY <1>2, RecoverStep, ResetStep DEF Recover, Reset
  <2> QED  BY <2>1, StillListed
<1>3. ASSUME NEW o \in Ways, ReadSector(o) \/ WriteSector(o) PROVE RInv' /\ Listed'
  <2>1. RInv' /\ panicked' = panicked
    BY <1>3, ReadSectorStep, WriteSectorStep DEF ReadSector, WriteSector
  <2> QED  BY <2>1, StillListed
<1>4. ASSUME NEW f \in Ways, NEW o \in Ways, FinishRequest(f, o) PROVE RInv' /\ Listed'
  BY <1>4, FinishRequestStep
<1>5. CASE FinishItem
  <2>1. RInv' /\ panicked' = panicked
    BY <1>5, FinishItemStep DEF FinishItem
  <2> QED  BY <2>1, StillListed
<1>7. ASSUME NEW locked \in BOOLEAN, HandleIrq(locked) PROVE RInv' /\ Listed'
  <2>1. CASE panicked' = panicked
    BY <1>7, <2>1, HandleIrqStep, StillListed
  <2>2. CASE panicked' # panicked
    BY <1>7, <2>2, UnlockedErrorStep
  <2> QED  BY <2>1, <2>2
<1>6. CASE Loop \/ Wake
  <2>1. RInv' /\ panicked' = panicked
    BY <1>6, LoopStep DEF Loop, Wake, ioVars
  <2> QED  BY <2>1, StillListed
<1> QED  BY <1>1, <1>2, <1>3, <1>4, <1>5, <1>6, <1>7 DEF ItemStep

\* Every step of a drive.
LEMMA DriveSteps ==
    ASSUME QInv, RInv, Alive, Answer \/ \E i \in {"error", "fatal", "reset"} : Fail(i)
    PROVE  RInv' /\ Listed'
<1>1. RInv' /\ panicked' = panicked
  BY AnswerStep, FailStep DEF Answer, Fail
<1> QED  BY <1>1, StillListed

\* The invariant is inductive: after a VERIFY has failed nothing happens any more.
LEMMA NextIOInv == IOInv /\ [Next]_vars => IOInv'
<1> SUFFICES ASSUME IOInv, [Next]_vars PROVE IOInv'
  OBVIOUS
<1>1. QInv' /\ Reported'
  BY NextQInv, ReportedStep DEF IOInv, RInv
<1>2. CASE Next
  <2>1. QInv /\ RInv /\ Reported /\ Alive
    BY <1>2 DEF IOInv, Next, KernelStep, DriveStep, Environment, CallStep, Alive
  <2>2. CASE KernelStep
    BY <1>1, <2>1, <2>2, WorkerSteps DEF KernelStep, IOInv
  <2>3. CASE DriveStep
    BY <1>1, <2>1, <2>3, DriveSteps DEF DriveStep, IOInv
  <2>4. CASE Environment
    BY <1>1, <2>1, <2>4, DriveSteps, CallerSteps DEF Environment, IOInv
  <2>5. ASSUME NEW t \in Threads, CallStep(t) PROVE IOInv'
    BY <1>1, <2>1, <2>5, CallerSteps DEF CallStep, IOInv
  <2> QED  BY <1>2, <2>2, <2>3, <2>4, <2>5 DEF Next
<1>3. CASE UNCHANGED vars
  <2>1. UNCHANGED <<work, ran, kind, m_requests, request, channel, irq, call, budget, late,
                    panicked, queued, done, pc>>
    BY <1>3 DEF vars, ioVars, workVars
  <2>2. Listed'
    BY <2>1 DEF IOInv, Listed, Drives
  <2>3. Types' /\ Numbering' /\ Records' /\ DataIsOwn' /\ PanicsAreKnown'
    <3>1. Types'
      BY <2>1 DEF IOInv, RInv, Types, Drives
    <3>2. Numbering'
      BY <2>1 DEF IOInv, RInv, Numbering
    <3>3. Records' /\ DataIsOwn' /\ PanicsAreKnown'
      BY <2>1 DEF IOInv, RInv, Records, DataIsOwn, PanicsAreKnown, Drives
    <3> QED  BY <3>1, <3>2, <3>3
  <2>4. CASE Alive
    <3>1. RInv'
      <4>1. RInv /\ Types /\ work \in Seq(Items) /\ ran \in BOOLEAN /\ Todo' = Todo
        BY <2>1 DEF IOInv, RInv, Types, Todo
      <4>2. work' \in Seq(Items) /\ ran' \in BOOLEAN /\ \A i \in Todo : work'[i] = work[i]
        BY <2>1, <4>1
      <4> QED  BY <2>1, <2>3, <2>4, <4>1, <4>2, SameIO
    <3> QED  BY <1>1, <2>2, <3>1 DEF IOInv
  <2>5. CASE ~Alive
    <3>1. ~Alive'
      BY <2>1, <2>5 DEF Alive
    <3> QED  BY <1>1, <2>2, <2>3, <3>1 DEF IOInv, RInv
  <2> QED  BY <2>4, <2>5
<1> QED  BY <1>2, <1>3

\* The life of every request: it is made, waits for its turn, is in the drive, in an
\* interrupt or in an item of the worker, and is completed or given up by its caller.
THEOREM RequestInvariance == Spec => []IOInv
<1>1. Init => IOInv
  <2> SUFFICES ASSUME Init PROVE IOInv
    OBVIOUS
  <2>1. QInv /\ RInv /\ Alive /\ Reported
    BY InitQInv, InitRInv DEF Init, Alive, Reported, NoIrq, Irq
  <2> QED  BY <2>1, AliveListed DEF IOInv
<1>2. IOInv /\ [Next]_vars => IOInv'
  BY NextIOInv
<1> QED  BY <1>1, <1>2, PTL DEF Spec

\* A device works on its requests one at a time and in order, and everything has its type.
THEOREM OneRequestAtATime == Spec => []HeadIsCurrent
<1>1. IOInv => HeadIsCurrent
  <2> SUFFICES ASSUME IOInv PROVE HeadIsCurrent
    OBVIOUS
  <2>1. Types /\ Numbering /\ Records /\ Listed /\ QInv /\ (Alive => Queued)
    BY DEF IOInv, RInv
  <2>2. WQ!TypeOK
    <3>1. Len(m_wait_queue.m_blockers) <= 1
      <4>1. CASE m_wait_queue.m_blockers = <<"worker">>
        BY <4>1
      <4>2. CASE m_wait_queue.m_blockers = <<>>
        BY <4>2
      <4> QED  BY <2>1, <4>1, <4>2 DEF QInv, OneSleeper
    <3>2. m_wait_queue \in WQ!Queues({"worker"})
      BY <2>1 DEF QInv, OneSleeper, Queues, WQ!Queues
    <3> QED  BY <2>1, <3>1, <3>2 DEF QInv, QueueTypes, AnyItem, WQ!TypeOK
  <2>3. \A d \in Drives : ToSet(m_requests[d]) \subseteq DOMAIN request
    BY <2>1 DEF Listed, ToSet
  <2>4. ASSUME NEW r \in DOMAIN request
        PROVE  /\ request[r].drive \in Drives \cup {"none"}
               /\ request[r].result \in {"Pending", "Started", "gone"} \cup Completed
               /\ request[r].queue \in Queues(Threads)
               /\ request[r].left \in {"no", "returned", "interrupted"}
               /\ Len(request[r].data) <= request[r].count
    BY <2>1, RequestFields DEF Records, Requests
  <2>5. channel.hw.left \in 0..PerPage
    BY <2>1 DEF Types, Channels, Commands
  <2>6. \A t \in Threads : call[t].at \in {"user", "make", "check", "wait", "blocked", "back"}
    BY <2>1 DEF Types, CallRecords
  <2>7. TypeOK
    BY <2>1, <2>2, <2>3, <2>4, <2>5, <2>6 DEF TypeOK, Types, Numbering, Listed
  <2> QED  BY <2>1, <2>7 DEF HeadIsCurrent, Queued
<1> QED  BY <1>1, RequestInvariance, PTL

\* A request that succeeded has moved its own sectors, all of them and nothing else, for
\* every driver, unless the port was reset under it; wait() never returns early.
THEOREM SectorsAreOwn == Spec => []DataIsOwn
<1>1. IOInv => DataIsOwn
  BY DEF IOInv, RInv
<1> QED  BY <1>1, RequestInvariance, PTL

\* Of the VERIFYs of the drivers only four can fail, each in a way that is known.
THEOREM IOPanics == Spec => []PanicsAreKnown
<1>1. IOInv => PanicsAreKnown
  BY DEF IOInv, RInv
<1> QED  BY <1>1, RequestInvariance, PTL
=============================================================================
