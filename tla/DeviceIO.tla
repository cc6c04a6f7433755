------------------------------ MODULE DeviceIO ------------------------------
(***************************************************************************)
(* Block devices: the queue of requests every Device keeps                 *)
(* (Kernel/Devices/Device.{h,cpp}, AsyncDeviceRequest.{h,cpp}), the calls  *)
(* that make requests and wait for them (StorageDevice.cpp,                *)
(* BlockDevice.cpp), and the three drivers that serve them: an IDE channel *)
(* with programmed I/O (IDEChannel.cpp) or bus mastering                   *)
(* (BMIDEChannel.cpp), which a master and a slave drive share, and an AHCI *)
(* port (AHCIPort.cpp).  Interrupt handlers leave the work to the kernel   *)
(* thread of WorkQueue.  Hardware answers, fails or answers late.          *)
(*                                                                         *)
(* Sectors are tokens: what a transfer moves is the number of the request  *)
(* whose command the drive was at, or whose buffer was copied.  What runs  *)
(* under the channel's m_lock or m_request_lock is one step.               *)
(***************************************************************************)
EXTENDS Naturals, Sequences, FiniteSetsExt, WaitQueue

CONSTANTS Threads,      \* the callers
          Kinds,        \* the drivers: a subset of {"pio", "dma", "ahci"}
          Calls,        \* what they call: the drive, the operation, the whole blocks and
                        \* whether there is something left over
          PerPage,      \* blocks_per_page
          MaxRequests,  \* bounds: the requests that are made (and with them the work items),
          MaxTroubles   \* and the bad pointers, hardware errors and signals

Operations == {"read", "write", "read_block", "write_block"}

ASSUME IOAssumptions ==
    /\ PerPage \in Nat \ {0} /\ MaxRequests \in Nat /\ MaxTroubles \in Nat
    /\ Kinds \subseteq {"pio", "dma", "ahci"}
    /\ Calls \subseteq [drive : {"master", "slave"}, op : Operations, whole : Nat, rest : BOOLEAN]

VARIABLES
    m_items, m_wait_queue, waking, item, have_more, pc, queued, done,  \* WorkQueue
    work,        \* what each item does
    ran,         \* the item at hand has done it
    kind,        \* the driver
    m_requests,  \* Device::m_requests, per drive
    request,     \* the requests, in the order they were made
    channel,     \* the fields of IDEChannel or AHCIPort, and the hardware
    irq,         \* the interrupt that is pending, and whose command it comes from
    call,        \* the call a thread is in
    budget,      \* the troubles that may still happen
    late,        \* a buffer was written to after its owner had returned
    panicked     \* the VERIFYs that failed

WQ == INSTANCE WorkQueue WITH Items <- Nat \ {0}, Worker <- "worker", NoItem <- 0

workVars == <<m_items, m_wait_queue, waking, item, have_more, pc, queued, done>>
ioVars == <<work, ran, kind, m_requests, request, channel, irq, call, budget, late, panicked>>
vars == <<workVars, ioVars>>

Drives == IF kind = "ahci" THEN {"master"} ELSE {"master", "slave"}
Completed == {"Success", "Failure", "MemoryFault"}

Transfer(type, count, kernel) == [type |-> type, count |-> count, kernel |-> kernel]

\* A call that is not in progress; plan: the requests it has still to make.
NoCall == [at |-> "user", drive |-> "none", plan |-> <<>>, block |-> FALSE,
           req |-> 0, interrupted |-> FALSE]

\* The drive: what it is at, for which request, the sectors to go, and whether it
\* is busy or waits for the host to move a sector.
Command(cmd, r, left, phase) == [cmd |-> cmd, req |-> r, left |-> left, phase |-> phase]
Idle == Command("idle", 0, 0, "busy")

Irq(what, r) == [what |-> what, req |-> r]
NoIrq == Irq("none", 0)

Init ==
    /\ WQ!Init
    /\ work = <<>> /\ ran = FALSE
    /\ kind \in Kinds
    /\ m_requests = [d \in Drives |-> <<>>]
    /\ request = <<>>
    /\ channel = [current |-> 0, block_index |-> 0, flushing |-> FALSE,
                  scatter_list |-> FALSE, dma |-> 0, hw |-> Idle]
    /\ irq = NoIrq
    /\ call = [t \in Threads |-> NoCall]
    /\ budget = MaxTroubles
    /\ late = FALSE
    /\ panicked = {}

\* A step in which so many things go wrong uses up the budget.
Spend(troubles) == troubles <= budget /\ budget' = budget - troubles
Trouble(way) == IF way = "ok" THEN 0 ELSE 1

----------------------------------------------------------------------------
(* Starting a request.  The result: the channel after it, the sectors that  *)
(* were sent to the drive, the work that was queued, and the VERIFY that    *)
(* failed.                                                                  *)

Started(c, sent, todo, panic) == [channel |-> c, sent |-> sent, todo |-> todo, panic |-> panic]

\* IDEChannel::ata_read_sectors and ata_write_sectors: the first sector follows
\* the command.
StartPio(c, r, q, o) ==
    IF q.type = "Read"
      THEN Started([c EXCEPT !.hw = Command("read", r, q.count, "busy")], <<>>, "none", {})
    ELSE IF o = "faults"
      THEN Started([c EXCEPT !.hw = Command("write", r, q.count, "drq")], <<>>, "MemoryFault", {})
    ELSE Started([c EXCEPT !.hw = Command("write", r, q.count, "busy")], <<r>>, "none", {})

\* BMIDEChannel's: one page of memory for all transfers of the channel.
StartDma(c, r, q, o) ==
    IF q.type = "Read"
      THEN Started([c EXCEPT !.hw = Command("read", r, q.count, "busy")], <<>>, "none", {})
    ELSE IF o = "faults"
      THEN Started(c, <<>>, "MemoryFault", {})
    ELSE Started([c EXCEPT !.dma = r, !.hw = Command("write", r, q.count, "busy")],
                 <<>>, "none", {})

\* AHCIPort::start_request: on failure m_lock is unlocked, and unlocked again by the
\* Locker.
StartAhci(c, r, q, o) ==
    IF o # "ok"
      THEN Started([c EXCEPT !.scatter_list = TRUE], <<>>, "none", {"ahci_unlock"})
      ELSE Started([c EXCEPT !.scatter_list = TRUE, !.dma = IF q.type = "Write" THEN r ELSE @,
                             !.hw = Command(IF q.type = "Read" THEN "read" ELSE "write",
                                            r, q.count, "busy")],
                   <<>>, "none",
                   IF c.scatter_list THEN {"scatter_list"} ELSE {})

\* start_request of r, which is the record q, on the channel c.
StartRequest(c, r, q, o) ==
    LET new == [c EXCEPT !.current = r, !.block_index = 0, !.flushing = FALSE]
    IN IF c.current # 0 THEN Started(c, <<>>, "none", {"current_request"})
       ELSE CASE kind = "pio" -> StartPio(new, r, q, o)
              [] kind = "dma" -> StartDma(new, r, q, o)
              [] kind = "ahci" -> StartAhci(new, r, q, o)

\* How the start of a request can go: the buffer of a write may be bad, and an AHCI
\* port not be ready in time.
Outcomes(q) == {"ok"} \cup (IF q.type = "Write" /\ ~q.kernel THEN {"faults"} ELSE {})
                      \cup (IF kind = "ahci" THEN {"errors"} ELSE {})

\* g_io_work->queue, on behalf of the request r
QueueWork(todo, r) ==
    IF todo = "none" THEN UNCHANGED <<workVars, work>>
    ELSE /\ WQ!Enqueue(Len(queued) + 1)
         /\ work' = Append(work, [what |-> todo, req |-> r])

----------------------------------------------------------------------------
(* The calls *)

\* whole_blocks is a u16.
U16(n) == n % 65536

\* StorageDevice::read: whole blocks into the caller's buffer, the rest through a
\* buffer of one block.
ReadPlan(whole, rest) ==
    IF U16(whole) >= PerPage THEN <<Transfer("Read", PerPage, FALSE)>>
    ELSE (IF U16(whole) > 0 THEN <<Transfer("Read", U16(whole), FALSE)>> ELSE <<>>)
         \o (IF rest THEN <<Transfer("Read", 1, TRUE)>> ELSE <<>>)

\* StorageDevice::write: the last block is read, changed and written back.
WritePlan(whole, rest) ==
    IF U16(whole) >= PerPage THEN <<Transfer("Write", PerPage, FALSE)>>
    ELSE (IF U16(whole) > 0 THEN <<Transfer("Write", U16(whole), FALSE)>> ELSE <<>>)
         \o (IF rest THEN <<Transfer("Read", 1, TRUE), Transfer("Write", 1, TRUE)>> ELSE <<>>)

\* The requests a call makes; BlockDevice::read_block and write_block make one, with a
\* kernel buffer.
Plan(c) == CASE c.op = "read" -> ReadPlan(c.whole, c.rest)
             [] c.op = "write" -> WritePlan(c.whole, c.rest)
             [] c.op = "read_block" -> <<Transfer("Read", 1, TRUE)>>
             [] c.op = "write_block" -> <<Transfer("Write", 1, TRUE)>>

\* The requests that were made, and those of the calls under way.
Planned == FoldSet(LAMBDA t, n : n + Len(call[t].plan), Len(request), Threads)

\* A call with nothing to transfer makes no request and returns at once.
Begin(t, c) ==
    /\ call[t].at = "user"
    /\ c.drive \in Drives
    /\ Plan(c) # <<>>
    /\ Planned + Len(Plan(c)) <= MaxRequests
    /\ call' = [call EXCEPT ![t] = [NoCall EXCEPT
                   !.at = "make", !.drive = c.drive, !.plan = Plan(c),
                   !.block = c.op \in {"read_block", "write_block"}]]
    /\ UNCHANGED <<workVars, work, ran, kind, m_requests, request, channel, irq, budget,
                   late, panicked>>

\* Mutant: a request is started at once, whatever the device is at.
WasEmpty_Always(d) == TRUE

\* Mutant: the list is tested after the request was appended to it.
WasEmpty_Never(d) == Append(m_requests[d], 0) = <<>>

WasEmpty(d) == m_requests[d] = <<>>

\* ~AsyncDeviceRequest, once neither the caller nor the device refers to it.
Gone == [drive |-> "none", type |-> "none", count |-> 0, kernel |-> FALSE, result |-> "gone",
         queue |-> NewQueue, data |-> <<>>, left |-> "returned", reset |-> FALSE]

\* Device::make_request
MakeRequest(t, o) ==
    LET d == call[t].drive
        q == Head(call[t].plan)
        r == Len(request) + 1
        start == WasEmpty(d)
        s == IF start THEN StartRequest(channel, r, q, o) ELSE Started(channel, <<>>, "none", {})
    IN /\ call[t].at = "make"
       /\ o \in Outcomes(q) /\ (start \/ o = "ok") /\ Spend(Trouble(o))
       /\ m_requests' = [m_requests EXCEPT ![d] = Append(@, r)]
       /\ request' = Append(request,
              [drive |-> d, type |-> q.type, count |-> q.count, kernel |-> q.kernel,
               result |-> IF start THEN "Started" ELSE "Pending", queue |-> NewQueue,
               data |-> s.sent, left |-> "no", reset |-> FALSE])
       /\ channel' = s.channel
       /\ panicked' = panicked \cup s.panic
       /\ QueueWork(s.todo, s.channel.current)
       /\ call' = [call EXCEPT ![t].at = "check", ![t].plan = Tail(@), ![t].req = r]
       /\ UNCHANGED <<ran, kind, irq, late>>

IsCompleted(r) == request[r].result \in Completed

\* AsyncDeviceRequest::wait up to wait_on
CheckResult(t) ==
    /\ call[t].at = "check"
    /\ call' = [call EXCEPT ![t].at = IF IsCompleted(call[t].req) THEN "back" ELSE "wait"]
    /\ UNCHANGED <<workVars, work, ran, kind, m_requests, request, channel, irq, budget,
                   late, panicked>>

\* wait_on
WaitOnRequest(t) ==
    LET r == call[t].req
    IN /\ call[t].at = "wait"
       /\ request' = [request EXCEPT ![r].queue = AddBlocker(@, t)]
       /\ call' = [call EXCEPT ![t].at = IF ShouldAddBlocker(request[r].queue)
                                           THEN "blocked" ELSE "back"]
       /\ UNCHANGED <<workVars, work, ran, kind, m_requests, channel, irq, budget, late,
                      panicked>>

\* A signal ends the wait.  The callers of read_block and write_block are kernel
\* threads, which get none.
Interrupt(t) ==
    /\ call[t].at = "blocked" /\ ~call[t].block
    /\ Spend(1)
    /\ request' = [request EXCEPT ![call[t].req].queue = RemoveBlocker(@, t)]
    /\ call' = [call EXCEPT ![t].at = "back", ![t].interrupted = TRUE]
    /\ UNCHANGED <<workVars, work, ran, kind, m_requests, channel, irq, late, panicked>>

\* What the call makes of the result: an error ends it, a result other than those
\* named counts as success.  Between the two halves of a partial write the caller's
\* buffer is read.
HandleResult(t, o) ==
    LET r == call[t].req
        q == request[r]
        failed == q.result \in {"Failure", "MemoryFault"}
        ends == call[t].interrupted \/ failed \/ o = "faults" \/ call[t].plan = <<>>
    IN /\ call[t].at = "back"
       /\ o \in {"ok"} \cup (IF q.kernel /\ ~call[t].block /\ ~failed /\ ~call[t].interrupted
                                THEN {"faults"} ELSE {})
       /\ Spend(Trouble(o))
       /\ panicked' = panicked \cup
             (IF r \notin ToSet(m_requests[q.drive]) /\ q.result \notin Completed
                THEN {"destroyed"}
              ELSE IF call[t].block /\ q.result \notin Completed THEN {"read_block"}
              ELSE IF q.kernel /\ ~call[t].interrupted /\ q.result = "MemoryFault"
                THEN {"kernel_buffer"}
              ELSE {})
       /\ request' = [request EXCEPT ![r] =
                         IF r \notin ToSet(m_requests[q.drive]) THEN Gone
                         ELSE [@ EXCEPT !.left = IF call[t].interrupted THEN "interrupted"
                                                                        ELSE "returned"]]
       /\ call' = [call EXCEPT ![t] = IF ends THEN NoCall ELSE [@ EXCEPT !.at = "make"]]
       /\ UNCHANGED <<workVars, work, ran, kind, m_requests, channel, irq, late>>

----------------------------------------------------------------------------
(* Interrupts *)

\* The work an interrupt handler queues.
IrqWork ==
    IF irq.what \in {"fatal", "reset"} THEN irq.what
    ELSE IF channel.current = 0 THEN "none"
    ELSE IF irq.what = "error" THEN "Failure"
    ELSE IF kind = "pio" THEN "sector" ELSE "Success"

\* The channel's m_lock may be held when an interrupt comes: by a thread that has just
\* started the request, or by the work item at hand.
MayHoldLock == ran \/ \E t \in Threads : call[t].at = "check" /\ call[t].req = channel.current

\* handle_irq, handle_interrupt.  What an IDE channel does about an error begins with
\* VERIFY(m_lock.is_locked()), which its handler does not lock.
HandleIrq(locked) ==
    /\ irq # NoIrq
    /\ locked => MayHoldLock
    /\ irq' = NoIrq
    /\ IF IrqWork = "Failure" /\ ~locked
         THEN panicked' = panicked \cup {"error_unlocked"} /\ UNCHANGED <<workVars, work>>
         ELSE QueueWork(IrqWork, irq.req) /\ UNCHANGED panicked
    /\ UNCHANGED <<ran, kind, m_requests, request, channel, call, budget, late>>

----------------------------------------------------------------------------
(* The work items *)

\* The worker is about to do the work of its item, which is one of these.
Running(whats) == pc = "run" /\ ~ran /\ work[item].what \in whats

\* The item was queued on behalf of another request than the one it finds.  It dereferences
\* null or takes a sector that is not its own, and is not followed any further.
Stale == work[item].req # channel.current

RunStale ==
    /\ Running({"sector"} \cup Completed) /\ Stale
    /\ panicked' = panicked \cup {"stale_item"}
    /\ ran' = TRUE
    /\ UNCHANGED <<workVars, work, kind, m_requests, request, channel, irq, call, budget, late>>

\* The drive goes on to its next sector, or is done.
NextSector(hw, phase) ==
    IF hw.left = 1 THEN Idle ELSE [hw EXCEPT !.left = @ - 1, !.phase = phase]

\* Mutant: one sector less.
LastSector_Before(i, count) == i + 1 >= count

LastSector(i, count) == i >= count

\* IDEChannel::handle_irq's work for a read
ReadSector(o) ==
    LET r == channel.current
        i == channel.block_index + 1
    IN /\ Running({"sector"}) /\ ~Stale /\ request[r].type = "Read"
       /\ o \in {"ok"} \cup (IF request[r].kernel THEN {} ELSE {"faults"})
       /\ Spend(Trouble(o))
       /\ channel' = [channel EXCEPT !.hw = NextSector(@, "busy"),
                                     !.block_index = IF o = "ok" THEN i ELSE @]
       /\ request' = IF o = "ok" THEN [request EXCEPT ![r].data = Append(@, channel.hw.req)]
                                 ELSE request
       /\ late' = (late \/ (o = "ok" /\ request[r].left # "no"))
       /\ QueueWork(IF o # "ok" THEN "MemoryFault"
                    ELSE IF LastSector(i, request[r].count) THEN "Success" ELSE "none", r)
       /\ ran' = TRUE
       /\ UNCHANGED <<kind, m_requests, irq, call, panicked>>

\* and for a write: the next sector, the flush after the last one, and the end
WriteSector(o) ==
    LET r == channel.current
        i == channel.block_index + 1
        flush == ~channel.flushing /\ LastSector(i, request[r].count)
        next == ~channel.flushing /\ ~flush
    IN /\ Running({"sector"}) /\ ~Stale /\ request[r].type = "Write"
       /\ o \in {"ok"} \cup (IF next /\ ~request[r].kernel THEN {"faults"} ELSE {})
       /\ Spend(Trouble(o))
       /\ channel' = [channel EXCEPT
             !.block_index = IF channel.flushing THEN @ ELSE i,
             !.flushing = @ \/ flush,
             !.hw = IF flush THEN Command("flush", r, 1, "busy")
                    ELSE IF next /\ o = "ok" THEN [@ EXCEPT !.phase = "busy"] ELSE @]
       /\ request' = IF next /\ o = "ok" THEN [request EXCEPT ![r].data = Append(@, r)]
                                         ELSE request
       /\ QueueWork(IF channel.flushing THEN "Success"
                    ELSE IF o # "ok" THEN "MemoryFault" ELSE "none", r)
       /\ ran' = TRUE
       /\ UNCHANGED <<kind, m_requests, irq, call, late, panicked>>

\* Mutant: the result is set and nobody told.
Woken_None(r) == {}

\* The threads that m_queue.wake_all() of r unblocks.
Woken(r) == Members(request[r].queue)

\* The request that process_next_queued_request of d will start, or 0.
NextQueued(d) == IF Len(m_requests[d]) < 2 THEN 0 ELSE m_requests[d][2]

\* AsyncDeviceRequest::complete and request_finished for the channel's request, which
\* has moved data: the next one starts as o says, then the waiters are woken.
CompleteCurrent(c, result, data, o) ==
    LET r == c.current
        d == request[r].drive
        n == NextQueued(d)
        free == [c EXCEPT !.current = 0]
        s == IF n = 0 THEN Started(free, <<>>, "none", {})
                      ELSE StartRequest(free, n, request[n], o)
    IN /\ o \in (IF n = 0 THEN {"ok"} ELSE Outcomes(request[n]))
       /\ panicked' = panicked \cup s.panic
             \cup (IF request[r].result # "Started" THEN {"complete"} ELSE {})
             \cup (IF Head(m_requests[d]) # r THEN {"next_request"} ELSE {})
       /\ m_requests' = [m_requests EXCEPT ![d] = Tail(@)]
       /\ request' = [i \in DOMAIN request |->
             IF i = r THEN IF request[i].left # "no" THEN Gone
                           ELSE [request[i] EXCEPT !.result = result, !.data = data,
                                                   !.queue = WakeAll(@)]
             ELSE IF i = n THEN [request[i] EXCEPT !.result = "Started", !.data = s.sent]
             ELSE request[i]]
       /\ call' = [t \in Threads |->
             IF t \in Woken(r) THEN [call[t] EXCEPT !.at = "back"] ELSE call[t]]
       /\ channel' = s.channel
       /\ QueueWork(s.todo, s.channel.current)

\* complete_current_request's work, and AHCIPort::handle_interrupt's: after a read the
\* page the drive wrote to is copied (f), unless the sectors were copied one by one.
FinishRequest(f, o) ==
    LET r == channel.current
        q == request[r]
        copies == kind # "pio" /\ work[item].what = "Success" /\ q.type = "Read"
        result == IF f = "faults" THEN "MemoryFault" ELSE work[item].what
        data == IF copies /\ f = "ok" THEN [i \in 1..q.count |-> channel.dma] ELSE q.data
    IN /\ Running(Completed) /\ ~Stale
       /\ f \in {"ok"} \cup (IF copies /\ ~q.kernel THEN {"faults"} ELSE {})
       /\ Spend(Trouble(f) + Trouble(o))
       /\ CompleteCurrent([channel EXCEPT !.scatter_list = FALSE], result, data, o)
       /\ late' = (late \/ (copies /\ f = "ok" /\ q.left # "no"))
       /\ ran' = TRUE
       /\ UNCHANGED <<kind, irq>>

\* The port takes no more commands, and its interrupts are off.
Halted == Command("stopped", 0, 0, "stopped")

\* AHCIPort::recover_from_fatal_error: the port is shut down.
Recover ==
    /\ Running({"fatal"})
    /\ channel' = [channel EXCEPT !.hw = Halted]
    /\ ran' = TRUE
    /\ UNCHANGED <<workVars, work, kind, m_requests, request, irq, call, budget, late, panicked>>

\* AHCIPort::reset: it identifies the device again, and the interrupt that comes of it
\* is taken for the end of the request; or it gives up, and leaves the port as it is.
Reset(o) ==
    LET r == channel.current
    IN /\ Running({"reset"})
       /\ o \in {"ok", "errors"}
       /\ QueueWork(IF o = "ok" THEN "Success" ELSE "none", r)
       /\ request' = IF o = "ok" THEN [request EXCEPT ![r].reset = TRUE] ELSE request
       /\ channel' = IF o = "ok" THEN channel ELSE [channel EXCEPT !.hw = Halted]
       /\ ran' = TRUE
       /\ UNCHANGED <<kind, m_requests, irq, call, budget, late, panicked>>

\* The end of an item, and the rest of the worker's loop.
FinishItem ==
    /\ ran
    /\ WQ!RunItem
    /\ work' = [work EXCEPT ![item] = [what |-> "gone", req |-> 0]]
    /\ ran' = FALSE
    /\ UNCHANGED <<kind, m_requests, request, channel, irq, call, budget, late, panicked>>

Loop == (WQ!TakeItem \/ WQ!WaitOn) /\ UNCHANGED ioVars

\* The second half of do_queue, and the deferred call in which a wake from an interrupt
\* handler ends.
Wake ==
    /\ WQ!RunDeferred \/ \E i \in waking, in_irq \in BOOLEAN : WQ!Wake(i, in_irq)
    /\ UNCHANGED ioVars

\* Work is queued by interrupt handlers and under m_request_lock: on one processor
\* nobody else runs before the worker has been woken.
Preemptible == waking = {} /\ pc # "unblocking"

----------------------------------------------------------------------------
(* The drives *)

\* PIO moves a sector and interrupts; the others interrupt when all are moved.
Answer ==
    LET hw == channel.hw
    IN /\ irq = NoIrq /\ hw.cmd \in {"read", "write", "flush"} /\ hw.phase = "busy"
       /\ irq' = Irq("done", hw.req)
       /\ channel' = [channel EXCEPT
             !.hw = IF kind # "pio" THEN Idle
                    ELSE IF hw.cmd = "read" THEN [@ EXCEPT !.phase = "drq"]
                    ELSE NextSector(@, "drq"),
             !.dma = IF kind # "pio" /\ hw.cmd = "read" THEN hw.req ELSE @]
       /\ request' = IF kind # "pio" /\ hw.cmd = "write"
                       THEN [request EXCEPT ![hw.req].data =
                                [i \in 1..request[hw.req].count |-> channel.dma]]
                       ELSE request
       /\ UNCHANGED <<workVars, work, ran, kind, m_requests, call, budget, late, panicked>>

Fail(i) ==
    LET hw == channel.hw
    IN /\ irq = NoIrq /\ hw.cmd \in {"read", "write", "flush"} /\ hw.phase = "busy"
       /\ i \in (IF kind = "ahci" THEN {"fatal", "reset"} ELSE {"error"})
       /\ Spend(1)
       /\ irq' = Irq(i, hw.req)
       /\ channel' = [channel EXCEPT !.hw = Idle]
       /\ UNCHANGED <<workVars, work, ran, kind, m_requests, request, call, late, panicked>>

----------------------------------------------------------------------------
Ways == {"ok", "faults", "errors"}

ThreadStep(t) ==
    \/ \E o \in Ways : MakeRequest(t, o) \/ HandleResult(t, o)
    \/ CheckResult(t)
    \/ WaitOnRequest(t)

ItemStep ==
    \/ RunStale \/ Recover
    \/ \E o \in Ways : ReadSector(o) \/ WriteSector(o) \/ Reset(o)
    \/ \E f, o \in Ways : FinishRequest(f, o)

KernelStep ==
    /\ panicked = {}
    /\ Wake \/ (Preemptible /\ (ItemStep \/ FinishItem \/ Loop \/ \E locked \in BOOLEAN : HandleIrq(locked)))

CallStep(t) == panicked = {} /\ Preemptible /\ ThreadStep(t)

Environment ==
    /\ panicked = {} /\ Preemptible
    /\ \/ \E i \in {"error", "fatal", "reset"} : Fail(i)
       \/ \E t \in Threads : Interrupt(t) \/ \E c \in Calls : Begin(t, c)

DriveStep == panicked = {} /\ Preemptible /\ Answer

Next == KernelStep \/ DriveStep \/ Environment \/ \E t \in Threads : CallStep(t)

Spec == Init /\ [][Next]_vars

\* Interrupts are handled, the worker and the callers get to run, a call that was
\* begun goes on, and a drive that is not broken answers.
FairSpec ==
    /\ Spec
    /\ WF_vars(KernelStep) /\ WF_vars(DriveStep)
    /\ \A t \in Threads : WF_vars(CallStep(t))

----------------------------------------------------------------------------
TypeOK ==
    /\ WQ!TypeOK
    /\ Len(work) = Len(queued) /\ ran \in BOOLEAN
    /\ kind \in Kinds
    /\ \A d \in Drives : ToSet(m_requests[d]) \subseteq DOMAIN request
    /\ \A r \in DOMAIN request :
          /\ request[r].drive \in Drives \cup {"none"}
          /\ request[r].result \in {"Pending", "Started", "gone"} \cup Completed
          /\ request[r].queue \in Queues(Threads)
          /\ request[r].left \in {"no", "returned", "interrupted"}
          /\ Len(request[r].data) <= request[r].count
    /\ channel.current \in {0} \cup DOMAIN request
    /\ channel.hw.left \in 0..PerPage
    /\ irq.what \in {"none", "done", "error", "fatal", "reset"}
    /\ \A t \in Threads : call[t].at \in {"user", "make", "check", "wait", "blocked", "back"}
    /\ late \in BOOLEAN

Alive == panicked = {}

\* A device works on its requests one at a time and in order: of those that are
\* queued the first is started, is the channel's own, and the others are pending;
\* what is completed is not queued any more.
HeadIsCurrent ==
    /\ TypeOK
    /\ Alive => \A d \in Drives : \A i \in DOMAIN m_requests[d] :
                   LET r == m_requests[d][i]
                   IN /\ request[r].result = IF i = 1 THEN "Started" ELSE "Pending"
                      /\ i = 1 => channel.current = r

\* A request that succeeded has moved its own sectors, all of them and nothing else:
\* through one page for all requests, through the drive's data register, whatever
\* failed or was given up before.  After the reset of a port this is not so.  And
\* nobody goes on as if a request were done while it is not: wait() returns when it
\* is completed, or says that it was interrupted.
DataIsOwn ==
    \A r \in DOMAIN request :
       /\ request[r].result = "Success" =>
             \/ request[r].data = [i \in 1..request[r].count |-> r]
             \/ request[r].reset
       /\ request[r].left = "returned" => request[r].result = "gone"

\* The ways to go wrong: two drives of one channel are used at the same time; the copy
\* of a sector failed that was not the last of a read, and the drive goes on with the
\* next; an AHCI port could not start a request; an IDE drive reports an error while
\* nobody holds its channel's m_lock.  The other VERIFYs hold: a request is
\* completed once, in its turn, and before it is destroyed, read_block finds it completed,
\* a kernel buffer never faults, and the scatter list was given back.
PanicsAreKnown ==
    /\ "current_request" \in panicked => \A d \in Drives : kind # "ahci" /\ m_requests[d] # <<>>
    /\ "stale_item" \in panicked => kind = "pio" /\ budget < MaxTroubles
    /\ "ahci_unlock" \in panicked => kind = "ahci" /\ budget < MaxTroubles
    /\ "error_unlocked" \in panicked => kind # "ahci" /\ budget < MaxTroubles
    /\ panicked \subseteq {"current_request", "stale_item", "ahci_unlock", "error_unlocked"}

\* WorkQueue's promises, with these items: the worker does not sleep beside an item
\* whose wake is spent, however wakes from handlers and from items fall together, and
\* runs the items in order: a completion never overtakes the sector before it.
WorkRunsInOrder == WQ!NoItemStranded /\ WQ!RunInOrder

Shutdown == channel.hw = Halted

\* A thread that waits for a request comes back, unless the port was shut down or its
\* reset failed.
CallsReturn ==
    \A t \in Threads : call[t].at = "blocked" ~> (call[t].at # "blocked" \/ Shutdown \/ ~Alive)

----------------------------------------------------------------------------
(* What does not hold *)

\* The buffer of a read is there as long as the request is.
BufferOutlivesRequest == ~late

\* VERIFY(m_current_request.is_null()) of start_request never fails.
ChannelIsFree == "current_request" \notin panicked

\* A work item finds the request it was queued for.
ItemsMeetTheirRequest == "stale_item" \notin panicked

\* A request that cannot be started is reported to its caller.
StartFailsCleanly == "ahci_unlock" \notin panicked

\* An error that an IDE drive reports is handled.
ErrorsAreHandled == "error_unlocked" \notin panicked

\* A request that was under way when the port was reset is not a success.
ResetIsNoSuccess ==
    \A r \in DOMAIN request :
       request[r].result = "Success" => request[r].data = [i \in 1..request[r].count |-> r]

\* A thread that waits for a request comes back.
ErrorsAreReported ==
    \A t \in Threads : call[t].at = "blocked" ~> (call[t].at # "blocked" \/ ~Alive)
=============================================================================
