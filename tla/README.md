# A TLA+ verification of the prana-os kernel

prana-os is a Unix-like operating system: an x86 kernel (`src/Kernel`), a C++ library
shared by kernel and user land (`src/AK`), and a few graphical applications
(`src/UserLand`). This project models the kernel in two layers. The first is its
concurrency core, the code every blocking system call goes through: locks, wait queues,
`Thread::block()`, signals, stopping and killing, futexes, timers, `waitid`, the work
queue, and the joining and burying of threads. The second is what processes do through
it: disk requests and their drivers, the block cache, the block lists and directories of
Ext2, TCP, pipes and local sockets. TLC checks each model on small instances; TLAPS
proves the safety of locks, blocking, joins, timers, `waitid`, disk requests and the block
cache for every number of threads, requests and blocks.

## The system

| Part | State it keeps | Operations | Interacts with | Why it is hard |
|---|---|---|---|---|
| `Kernel::Lock` (`Lock.{h,cpp}`) | mode, holder, shared holders, count, wait queue | lock, unlock, force_unlock_if_locked, restore_lock, clear_waiters | `WaitQueue`; given up and taken back around every block and yield | recursion, two modes, losers sleep outside the spin flag |
| `WaitQueue`, `BlockCondition` (`WaitQueue.*`, `Thread.h`) | blockers, pending wake, should-block switch | add and remove a blocker, wake_one, wake_all | every sleeper | a wake comes before, during or after the registration |
| Thread blocking (`Thread.*`, `ThreadBlockers.cpp`) | thread state, stop state, blocker, pending signals, should_die | block, unblock, send_signal, stop, resume, set_should_die, die_if_needed, finalize | scheduler, timers, wait queues | five causes can end one sleep, in any order |
| Scheduler (`Scheduler.cpp`) | ready queues by priority, current thread | yield, pick_next, context switch, timer tick | thread states, deferred calls | runs between any two steps; makes killed threads Dying |
| Futexes (`Syscalls/futex.cpp`, `FutexQueue.*`) | map from address to queue, blockers per queue, references | wait, wake, wake bitset, requeue, exec | `Thread::block()`, big lock | the map, the queue and the blocker have different locks and lifetimes |
| Timers (`TimeQueue.*`) | ordered list, next due time, timers executing | add, cancel, fire | interrupts, deferred calls, `block()`, alarm | a callback writes to the stack frame of a block() that may be leaving |
| waitid, disown (`Syscalls/waitid.cpp`, `disown.cpp`, `WaitBlockCondition`) | list of children's states, blockers, results | wait, state changes of children, finalize, disown | signals, finalizer | SIGCHLD, the list and the blocker are told at different times |
| `WorkQueue` | items, wait queue | queue, worker loop | interrupt handlers | wakes coalesce |
| Thread join, finalizer (`Syscalls/thread.cpp`, `Tasks/FinalizerTask.cpp`) | joinable, exit value, joiner's blocker, thread list, tid map, references, the finalizer's flag and queue | create, join, detach, exit, exec, kill, finalize | blocking, `WaitQueue`, scheduler | a thread is joined, killed, detached and buried by different actors, each of which may come first |
| Processor | critical section count, deferred calls, SMP messages | enter, leave, deferred_call_queue | everything | deferred calls run where a critical section ends |
| TCP, network task (`Net/TCPSocket.*`, `Net/NetworkTask.cpp`, `Net/IPv4Socket.*`) | socket state, sequence numbers, packets not acked, backlog, `closing_sockets` | handle_tcp, connect, accept, send, recv, shutdown, close, retransmit | network task, callers | two actors and a lossy network; the caller checks before it sleeps and uses after |
| Pipes, local sockets, `DoubleBuffer` (`FileSystem/FIFO.cpp`, `Net/LocalSocket.cpp`) | two halves of a buffer, open counts, roles, backlog | open, connect, accept, read, write, close | file blockers, `WaitQueue` | full, empty, closed; one wake for several sleepers |
| Storage (`Devices/AsyncDeviceRequest.*`, `Storage/*`) | request queues, the current request of a channel, the hardware's command | make, start, interrupt, work item, complete, wait, reset | `WorkQueue`, interrupts, callers | completion races with signals, with errors, and with the channel's other drive |
| Block cache (`FileSystem/BlockBasedFileSystem.cpp`) | entries, hash, clean and dirty lists | read, write, direct and raw access, flush | disk below, Ext2 above | eviction inside a lookup, incoherent direct access, crashes |
| Ext2 blocks (`FileSystem/Ext2FileSystem.cpp`) | block bitmaps, inodes, trees of pointer blocks | resize, flush_block_list, compute_block_list, free_inode | block cache | every border of a three-level tree, on a disk that fills up |
| Names (`FileSystem/VirtualFileSystem.cpp`, `Ext2FileSystem.cpp`, `Inode.cpp`) | directories, link counts, lookup caches, inode cache, locks | create, mkdir, link, unlink, rmdir, rename, sync | SyncTask | many steps under different locks, any of which may fail |
| ARP, routing, adapters | tables, rings | lookup, send | TCP | |
| Virtual memory, allocators | page references, committed pages, free ranges | fault, fork, purge, allocate | processes | copy on write between forks |
| TTY, PTY | input lines, open counts | read, write, close | processes, signals | the pair's two ends close apart |
| VirtIO, other devices | descriptor rings | start, complete | interrupts | |
| Interrupts, PCI, ACPI, time keeping, tracing, AK, user land | | | | see `PROJECT.json` |

What makes the modelled parts correct: a lock excludes, and its books agree with its
users; a sleeper that should be woken is woken, and only for the reason it is told; a
process stops, continues and dies as a whole; no queue points at a blocker that is gone;
a timer fires in order, once, and never into a dead stack frame; a child's death is
returned to its parent exactly once; a disk request moves its own sectors and is
completed once; the cache is invisible; a block has one owner and a name an inode that
exists; what is read from a stream is what was written to it, in order.

## Modules

| Module | Models | Composes |
|---|---|---|
| `WaitQueue` | `WaitQueue` and the `BlockCondition` below it, as operators on a record of its fields | |
| `ReadersWriterLock` | what `Kernel::Lock` promises, as an abstract specification | |
| `KernelLock` | `Lock.{h,cpp}`: one action per stretch of code under the spin flag `m_lock` | `WaitQueue`; implements `ReadersWriterLock` |
| `ThreadBlocking` | the threads of one process: `block()`, wakes, timeouts, signals, stop, continue, kill, context switch, end of a system call | `WaitQueue` |
| `Futex` | `sys$futex`, the map of queues, their blockers and references | |
| `TimerQueue` | the queue of one clock, the timer interrupt, deferred calls, `block()` timeouts, `sys$alarm` | |
| `ProcessWait` | `sys$waitid`, `sys$disown`, `WaitBlockCondition`, and the children | |
| `WorkQueue` | `WorkQueue::do_queue` and the worker | `WaitQueue` |
| `ThreadJoin` | the life of a process's threads from `create_thread` to `~Thread`, with `join_thread`, `detach_thread`, exit, exec and `FinalizerTask` | `WaitQueue` |
| `DeviceIO` | `AsyncDeviceRequest`, `Device`, `StorageDevice`, and the IDE, bus-master IDE and AHCI drivers | `WorkQueue` (by `INSTANCE`), `WaitQueue` |
| `BlockStore` | what the block cache promises, as an abstract specification | |
| `DiskCache` | `BlockBasedFileSystem` and its `DiskCache` | implements `BlockStore` |
| `Ext2Blocks` | block bitmaps and block lists of Ext2 inodes | |
| `FileTree` | path-based calls of `VFS` over Ext2 directories, with `sync` | |
| `TCP` | `TCPSocket`, `IPv4Socket`, `handle_tcp`, `sys$accept`, between two hosts | |
| `Streams` | `DoubleBuffer`, `FIFO`, `LocalSocket`, and the calls on them | `WaitQueue` |
| `MC...` | what TLC needs beside the specification: instances, symmetry, views | |
| `...Proofs` | theorems about the module of that name; `WaitQueueProofs` the lemmas they share | |

**Steps.** What the code does under one spin lock, or on one processor with interrupts
off, is one action. Where it lets go (before `begin_blocking`, between `yield()` and the
re-acquisition of the big lock, between the lookup of a futex queue and the registration
in it, between appending a work item and the wake) a new action begins. Variables keep
the names of the fields they model; `pc` says where a thread is between two actions.
A failed `VERIFY` stops the kernel: `verify_failed`, or a name in `panicked`, disables
`Next`. Data (values at
futex addresses, payloads of work items, signal numbers other than those with a role of
their own) are left out or are model values.

**KernelLock.** `m_mode`, `m_times_locked`, `m_holder`, `m_shared_holders` and `m_queue`
are the fields of `Lock`. `LockUnlocked`, `LockHeldExclusively`, `LockShared` and
`LockRefused` are the branches of `lock()`; `Unlock` and `WakeWaiter` the two halves of
`unlock()`; `ForceUnlockHeld`, `ForceUnlockUnlocked` and `RestoreLock` what
`unlock_process_if_locked` and `relock_process` do. `depth` and `grant` are the users'
own view: how many `lock()` calls a thread has to undo and what it was granted.
`SplitRegistration` says whether another processor may run between the registration of a
blocker and `begin_blocking`; it cannot in the default build, which schedules on one
processor, and `MayRun` then keeps everybody else out while a thread is on its way to
sleep.

**ThreadBlocking.** `m_state`, `m_stop_state`, `m_is_stopped`, `m_should_die`,
`m_pending_signals` and `m_blocker` are fields of `Thread` and `Process`; `timer` and
`timeout_unblocked` locals of `block()`. `StopProcess` and `ContinueProcess` are the two
special cases of `set_state`, `KillThreads` is `set_should_die` over a set of threads,
`DispatchOne` is `dispatch_one_pending_signal`. `Preempt` and `Schedule` are the context
switch, with the signal dispatch of `enter_current`.

**Futex.** `m_futex_queues` is the map; `m_blockers` and `m_block_condition` are the two
directions between queues and blockers; `futex_queue` is the reference that `do_wait`
holds. A queue is alive while the map or a wait refers to it. The vectors that
`do_take_blockers` and `do_append_blockers` index while they shrink are modelled by what
that does: `EveryOther`.

**TimerQueue.** `list`, `next_timer_due` and `m_timers_executing` are the queue's;
`deferred` is the processor's list of pending deferred calls. Times are relative to now,
so that `Tick` brings each deadline one closer and no clock grows. `next_timer_due` is set
where the code sets it, and the `VERIFY` of `fire()` is a conjunct of `Tick`. What a tick
fires runs in the same step, at the exit of the interrupt, except in one place:
`restore_critical` sets `m_in_critical` before it turns interrupts off (`pc` is
"restoring"), and a tick there leaves its calls for the end of `block()`'s critical section.
No thread runs on a second processor in this build.

**ProcessWait.** `m_processes` is `WaitBlockCondition`'s list. A death is two steps, as in
`Process::finalize`: SIGCHLD, then the waiters. A `waitid` that returns from its sleep is
two: `end_blocking`, which may still take a state from the list, and the destruction of
the blocker, which is registered until then.

**WorkQueue.** `Enqueue` and `Wake` are the two halves of `do_queue`; a wake from an
interrupt handler unblocks the worker in a deferred call.

**ThreadJoin.** `m_state`, `m_is_joinable` and `m_should_die` are fields of `Thread`,
`did_exit` and `m_blockers` those of its `JoinBlockCondition`; `m_thread_list` is the
process's, and `Referenced` says whether the running reference, a system call or
`m_threads_for_coredump` keeps a thread. `JoinFails`, `JoinAtOnce` and `JoinBlocks` are
the outcomes of `try_join`, `LeaveJoin` the return of `block()`. `Kill` is `detach` and
`set_should_die` over a set of threads, for `Exit` all and for `Exec` all but the caller
and the Dying; `Die` is the context switch that finds a running thread marked to die.
`Wait` to `NoneLeft` are the finalizer's loop, `Finalize`, `DropThreadCount` and `Unref`
the steps of burying one thread, and `Destroy` the end of `~Thread`. Priorities are left
out: the finalizer's is low, but a thread may have set itself a lower one.

**DeviceIO.** `m_requests` is the queue of each drive; `request` holds the results, the
waiters and, as tokens, the sectors moved so far; `channel` the fields of the channel or
port and what the hardware is at. `MakeRequest`, `CheckResult`, `WaitOnRequest` and
`HandleResult` are the caller's side of `StorageDevice` and `BlockDevice`; a call is a
plan of transfers (`Plan`: whole pages, then a partial block that is read and written
back). `HandleIrq` is the interrupt handler, which queues a work item with the steps of
`WorkQueue`; what it does about an error of an IDE drive begins with
`VERIFY(m_lock.is_locked())`, and `MayHoldLock` says when some thread happens to hold it.
`ReadSector`, `WriteSector`, `FinishRequest`, `Recover` and `Reset` are the items; a reset
that fails at one of its steps leaves the port `Halted`, its request not completed.
`Answer` and `Fail` are the hardware (external). `kind` chooses the driver.

**DiskCache.** `cache` has the fields of `DiskCache` and of its entries; each call holds
the file system's lock, so each is one action. The refinement mapping gives a block of
`BlockStore` the content of its entry, or of the disk, as what is read, and the disk's as
what is durable. Errors, torn copies and incoherent direct writes damage one block
(`damaged`, mapped to `Unknown`) until it is written in full.

**Ext2Blocks.** `used` are the bitmaps, `contents` the pointer blocks, `inode` the raw
inode and the cached list. `FlushBlockList` is `flush_block_list` with its recursive
helpers (`GrowDoubly`, `ShrinkDoubly`, `GrowTriply`, `ShrinkTriply`), `BlockList` is
`compute_block_list`, with and without the blocks of the tree. `leaked` collects what
cutting a file to nothing leaves marked, so that `BlocksOwnedOnce` is exact about the
rest.

**FileTree.** A call resolves its path one component at a time and then works off a list
of sections (`todo`), which its `Plan...` operator takes from the code; each section
needs the lock of one directory, and of the file system or of a child for a moment.
`SyncBegin`, `SyncEnter`, `FlushMetadata` and `FlushWrites` are `Inode::sync` and
`Ext2FS::flush_writes`. `entries` are the blocks of a directory, of `PerBlock` records
each: `WriteDirectory` fills the blocks that the list needs and leaves the ones behind them
as they are, as `write_bytes` does, and `Listing` reads them all. `strayed` collects the
inodes whose link count a failed step has left too high, `short` those that have less than
their names (a full parent, a removal for the second time), `kept` the names that were
removed and are still read, `missing` the indices for which the inode cache has nullptr.

**TCP.** `sock` are the two ends of one connection; `Transition` is `handle_tcp`'s switch,
one operator per state, with what it sends and how far it acknowledges; `SendPacket`
includes the retransmission of what is 500 ms old, on any wire: `Tick` is time. `refs` says
who keeps a socket alive: a descriptor, the listener's pending set or queue,
`closing_sockets`. Several threads may be in `recvmsg` on one socket; one that was woken
and then found itself beaten to the bytes is `beaten`. `again`, `void` and `dropped` record
what was sent twice, sent without a connection, and had no room. The wire is external.

**Streams.** `buf` are the two halves of each `DoubleBuffer`; `Evaluated` is
`evaluate_block_conditions`, the only place where blocked readers and writers are woken.
`openq` are the two open queues of a FIFO, `local` the fields of a `LocalSocket`. The
threads at one end of a socket share a description, whose `m_lock` `read()` keeps while it
sleeps in `recvfrom` (`Recv`) and `write()` needs (`Write`); `RecvMsg` and `SendMsg` do
without it. `WriteBegin`, `WriteCheck` and `Write` are the test, the loop's head and the
loop's body of `do_write`; a page fault's -EFAULT goes into its count as it does in the
code (`Remaining`). `AcceptBegin`, `Accept`, `Attach` and `AcceptReturn` are the parts of
`sys$accept`.

## Runs

| Run | Instance | Shows |
|---|---|---|
| `lock` | 3 threads, nesting 2, both modes, one processor | `MutualExclusion`, `VerifiedState`, `HoldersAgree`, `NoSleeperForgotten`; that `KernelLock` implements `ReadersWriterLock`; a free lock somebody sleeps on is taken (`FreeLockIsTaken`) |
| `block_stop` | 2 threads, SIGKILL, SIGCONT, SIGSTOP | `StoppedTogether`, `BlockerMeansAsleep`; while the process is not stopped, `WakesReachSleepers` |
| `futex` | 4 threads, 2 addresses, one of them a requeue target; wakes with a bitset that matches, one that does not, and none | `BlockersExist`, `OnlyRequeueDrops` |
| `timers` | 2 threads with timeouts and an alarm, delays up to 4 | `DueIsHead`, `NoStrayCallback`, `TimeoutsWork` |
| `wait` | 2 waiting threads, 2 children, stops, SIGCHLD and another signal handled | `NobodyMisses`, `DeathTakenOnce`, `OnlyInterruptedLose` |
| `join` | 3 threads, the first of which creates the others | `JoinHandsOver`, `PanicsAreKnown`, and that the finalizer does its work (`DyingAreBuried`) |
| `io` | 2 threads, 2 requests, 2 drives, each driver, one error, fault or signal | `HeadIsCurrent`, `DataIsOwn`, `PanicsAreKnown`, `WorkRunsInOrder`, and that waits end (`CallsReturn`) |
| `cache` | 3 blocks of 2 cells, 2 entries, one damaged block at a time | `EntriesAgree`, and that `DiskCache` implements `BlockStore` |
| `tree` | 2 files, 1 direct block, 2 pointers to a block, 24 blocks in 2 groups, 5 calls | `TreeReadsBack`, `BlocksOwnedOnce`, `PanicsAreKnown` |
| `names` | 2 threads with 13 kinds of call, SyncTask, one failing write, 7 inodes, 4 links, a root directory of 2 blocks | `NoDanglingName`, `LinksCounted`, `DeadlocksAreKnown` |
| `tcp` | 2 items each way, 2 readers at each end, a buffer of one item, a pause of 500 ms, 4 calls on a reliable wire, 3 on a lossy one with one fault | `StreamIntact`, `NothingForgottenEarly`, `PanicsAreKnown`, `SettledWhenQuiet` |
| `streams` | one thread at one end and two at the other of a FIFO or a socket, buffers of 2 bytes, 2 writes of 3, one fault or signal | `StreamIntact`, `NoSleeperForgotten`, `PanicsAreKnown` |

The type invariant of a module is a conjunct of its first structural invariant
(`BlockerMeansAsleep`, `BlockersExist`, `DueIsHead`, `DeathTakenOnce`, `JoinHandsOver`, `HeadIsCurrent`,
`EntriesAgree`, `TreeReadsBack`, `NoDanglingName`, and the two `StreamIntact`); that of
`KernelLock` is proved.

Some promises hold with exceptions that the code has. The property then names the
exception: `PanicsAreKnown` lists each `VERIFY` that can fail with the circumstance that it
takes, `DeadlocksAreKnown` the three calls that ask for locks against the order,
`LinksCounted` the ways in which a link count gets too high or too low, `StreamIntact` of
`TCP` what a full buffer drops and a slow ACK doubles. A new way to fail would
violate them.

Further configurations that pass: `TCP_live.cfg` (a connect returns, and two sockets that
are closed go away), `DeviceIO_more.cfg` (the invariants of `io` with three requests),
`WorkQueue_work.cfg` (four items, without drivers: every item runs). The safety of the lock
with another processor between registration and sleep is proved (see below).

### What does not hold

A configuration named `..._refuted.cfg` holds statements that one might make of the code,
and that its comments or `VERIFY`s often do make, for which TLC finds a counterexample;
one is active, the others are commented out. They mark what the passing runs had to leave
out.

| Configuration | Property | What happens |
|---|---|---|
| `KernelLock` | `NoSleeperForgotten` | if threads ran on two processors (in this build they do not: `SCHEDULE_ON_ALL_PROCESSORS` is 0), a wake that comes between the registration of a blocker and `begin_blocking` is dropped: `unblock_from_blocker` looks at `m_is_blocking`, not at `m_block_lock` |
| `ThreadBlocking` | `NoLostWakeup` | a wake for a stopped thread takes its blocker out of the queue and leaves `m_blocker` set; after SIGCONT the thread sleeps for ever |
| | `NoVerifyFails` | in a stopped process, a thread still in the kernel kills its peers: `VERIFY(!process().is_stopped())` |
| | `BlockReturnsBeforeDeath` | a killed thread is made Dying by a tick while it takes the big lock back, its blocker registered |
| | `StopHolds` | a thread of a stopped process that is still in the kernel calls `block()` and so continues all |
| | `KilledThreadsDie` | under `FairSpec`: a thread marked to die goes on to sleep uninterruptibly |
| `Futex` | `NoWaiterOrphaned` | a waiter that comes back finds its own queue empty and removes the newer queue at the address from the map, with a sleeper in it |
| | `NobodyDropped` | a requeue of some of the waiters loses others |
| | `NoVerifyFails` | a requeue that wakes nobody |
| | `QueueOutlivesBlockers` | a requeued waiter's queue is destroyed before its blocker |
| `TimerQueue` | `CancelReturns` | on one processor a timer fires in the `restore_critical` of its `block()`, between the store of `m_in_critical` and the `cli`, and its callback is left pending; `cancel_timer` then waits, in the critical section, for a callback that only the section's end runs |
| `ProcessWait` | `NoStatusLost` | a child's death goes to a waiter that a signal has interrupted, and is lost with `EINTR` |
| | `NoZombieKept`, `DisownedIsReaped` | a child that had been stopped stays listed after its death was returned, or after it was disowned |
| | `NobodyMissesState` | the `was_waited` of a traced child's previous state hides its new one |
| | `StateTakenOnce` | one stop is returned to two calls |
| | `DisownWakesWaiters` | `disown` asks the child's own `WaitBlockCondition` |
| `ThreadJoin` | `NoJoinerAtFinalize` | a process exits with a thread in `join_thread`; the joinee is finalized before the joiner has left `block()`: `VERIFY(m_thread_did_exit)` |
| | `NoFreedBlocker` | a joinee calls exec, which kills its joiner inside `block()`; the joinee's later `exit_thread` uses the blocker on the freed stack |
| | `FoundThreadsLive` | `from_tid` finds a thread whose last reference is gone and whose destructor has not left the tid map yet |
| | `ExitReachesAll` | a thread marked to die runs on until the next context switch, and creates another one |
| | `NoHalfThread` | `create_thread` fails or is killed half way: the new thread stays Invalid, is counted, and the process is never finalized |
| | `LateAreBuried` | a join or detach of a thread that is already Dying does not tell the finalizer |
| | `LastThreadEndsProcess` | the last thread calls `exit_thread` while an unjoined or unburied one is still counted, and becomes one that nobody can join |
| `DeviceIO` | `BufferOutlivesRequest` | a signal ends `read()`, whose block buffer is freed; the request is still under way |
| | `ChannelIsFree` | master and slave have a queue each and share a channel |
| | `ItemsMeetTheirRequest` | a copy fails in the middle of a PIO read; the drive goes on with the next sector |
| | `StartFailsCleanly` | AHCI: `m_lock` is unlocked by hand and again by its `Locker` |
| | `ResetIsNoSuccess` | the interrupt of the identify command after a reset completes the request that was cut off |
| | `ErrorsAreHandled` | an IDE drive reports an error after `start_request` has let go of `m_lock`: `VERIFY(m_lock.is_locked())` in `try_disambiguate_error` |
| | `ErrorsAreReported` | after a fatal error the port is shut down, or its reset fails, and its request is never completed |
| `DiskCache` | `ImplementsBlockStore` | with block 0 in use: a new entry says block 0, and claiming it removes block 0 from the hash |
| `FileTree` | `NoDeadlock` | a mkdir, which holds the file system and asks for the parent, against a lookup in it |
| | `LookupsFind` | a sync clears the lookup cache between its population and the search |
| | `SyncVerified` | two syncs collect one dirty inode, and the second finds it clean |
| | `RemovedIsGone` | a directory comes to need a block less; the block stays part of it, with the name that was removed |
| `TCP` | `ReaderFindsData` | a FIN wakes a thread in `recvfrom` that finds no data, or one packet wakes two: `VERIFY(!m_receive_buffer.is_empty())` |
| | `NothingTwice` | the ACK takes more than 500 ms; the packet is sent again and received twice |
| | `AcceptFindsSocket` | two threads are told of one connection |
| | `DroppedIsNotAcked` | a full buffer drops what is acknowledged all the same |
| | `NothingForgottenEarly` | acknowledgements are compared without regard to wrapping (first number 98 of 100) |
| | `NothingLeaked` | a socket whose peer is gone stays in `closing_sockets` |
| `Streams` | `AcceptIsSafe` | `accept` takes a socket whose `connect` was interrupted |
| | `AcceptFindsSocket` | two threads accept one connection: `VERIFY(accepted_socket)` |
| | `PeerIsAsked` | `sendmsg` on a socket that is not connected: `VERIFY_NOT_REACHED` in `has_attached_peer` |
| | `ShortWriteIsSome` | a write that does not block finds room, and then none: `VERIFY(total_nwritten > 0)` |
| | `WriterNotHeld` | `read()` sleeps in `recvfrom` with the description's lock; a writer waits for it |
| | `ReaderFindsData` | two threads receive from one socket, one of them with `recvmsg` |
| | `EndIsTrue` | a reader whose FIFO's writers are between a close and an open is told of the end |
| | `OpenMeetsPeer`, `OpenNotStranded` | a wake of the open queue is remembered once: a later open returns alone, or of two readers one sleeps beside a writer |
| | `ConnectedHasPeer` | `connect` returns before `accept` has attached the other end |
| | `ConnectNotStranded` | the listener closes with a `connect` in its backlog |
| | `NoGarbage` | the buffer's size grows before the copy from user space fails |

### Bounds

Threads: an exclusive user, a waiter and one that interferes make three for the lock; a
sleeper and a peer that stops or kills it make two for `block()`; a caller and three
waiters are what a requeue needs to wake one, move one and leave one. Nesting 2 is the
first at which counts and holders can disagree. Two threads and an alarm give the timer
list a head, a middle and a tail, and four delays order them in every way. A joiner, its joinee and one that kills or joins as well make
three for `ThreadJoin`. Two children
let a list have an entry before the one that matters. Four work items let wakes coalesce
while one item runs and another waits. `QueueIds` is larger than twice the threads plus
the addresses, so that a fresh queue object always exists (an assumption of the module).
Two requests meet in a queue, in a channel and in the work queue, whose items are not
bounded by themselves. Two entries for three blocks make every lookup of the third evict, and
two cells let a write be partial. One direct block and two pointers per block put all
borders of an Ext2 tree between 1 and 15 blocks, and 24 blocks are few enough to run out.
Two threads with one call each and a sync that runs twice give every crossing of two
calls; the calls are chosen around one parent, one file and two directories. In `TCP` the
counts of calls, faults and ticks are per behaviour; two items each way are the least that
can be reordered, and a buffer of one is the least that one of them fills. In `names` the
root is at the limit of links, until a directory in it is removed, and has a block that
one removal empties; records are taken to fill a block exactly. A write of 3 bytes to a buffer
of 2 must block half way, and two halves of 2 must change places to take it; -EFAULT is
taken for 1, so that it can be less than what was written before it, as 14 can.

Runs in which threads are interchangeable and no liveness is checked use symmetry. Three
runs use a view: `cache` leaves out the last answer, which no step reads and which
`BlockStore` only constrains in the step that gives it, and the bytes of entries without
data; `tree` leaves out the pointers beyond those a file has, which the code does not
read; `streams` leaves out the histories of the refuted statements and, after a page fault,
the values of the bytes, which no step and no property looks at then. Deadlock is checked
for `TimerQueue` only: elsewhere threads may leave for good, processes die, items and
budgets run out, and a failed `VERIFY` stops everything.

### Fairness

`KernelLock`: strong fairness of the steps a thread takes inside `Lock`: a thread that is
runnable there is run again and again, between others on their way to sleep; nothing is
assumed of users, who may keep a lock for ever. `TimerQueue`: the clock
ticks, but an interrupt that comes in a critical section waits for its end, hence strong
fairness of the tick; the ready queue is first in, first out, hence strong fairness of
scheduling; a thread that runs gets somewhere in its time slices. `TimeoutsWork` makes
the exception that `CancelReturns` of `TimerQueue_refuted.cfg` calls for. `WorkQueue`:
weak fairness of the worker, of the second half of `do_queue`, and of deferred calls; nothing is assumed of items
being queued. `DeviceIO`: the same of interrupts and the worker, of a drive that is not
broken, which answers, and of a call that was begun; nobody has to begin one.
`ThreadJoin`: the finalizer runs when it can, and a running thread that is to die meets a
timer tick. `ThreadBlocking`: as `TimerQueue`, for `KilledThreadsDie`. `TCP`: weak fairness of the
network task and of the return of a `connect` that can return.

## Proofs

Each proof module extends the module it is about and holds for every value of the
constants that the named assumption of that module allows. TLC evaluates the assumptions
in the runs; they say no more than that a thread is not the mark for none, that a page
has room for something, or which signals there are. An invariant that a run checks is
seldom inductive by itself; every module states the strengthening as a conjunction of
named parts (`IInv`), which TLC checked on the run's instance before it was proved, and
proves it with one lemma per action.

`WaitQueueProofs` has what several modules need: typing and membership of the operators
of `WaitQueue`, for any set of threads, what `RemoveFirst` and concatenation do to a
list's members, and the least number of a set, which takes the place of induction: to
show something of every index, look at the least one for which it fails.

**`KernelLockProofs`** (from `LockAssumptions`, any nesting bound, both settings of
`SplitRegistration`):

- `Typing`, `LockMutualExclusion`, `LockVerifies`, `LockHoldersAgree`: the type invariant
  and the first three invariants of `lock`;
- `LockRefinement`: `Spec => RW!Spec`; the refinement mapping takes the users' `depth`
  and `grant` for those of the abstract lock, so that what is refined is the order in
  which holds are granted and given up;
- `LockForgetsNobody`: `NoSleeperForgotten`, for `~SplitRegistration` (with it,
  `KernelLock_refuted.cfg` has a counterexample).

The first five rest on `IInv == TypeOK /\ Books /\ Callers`. `HoldersAgree` is not
inductive by itself: when a shared holder leaves, whether the lock becomes free depends
on `m_times_locked`, which must be the sum of all entries of `m_shared_holders`. `Books`
says so with a set of tokens, one per shared hold, whose cardinality is the sum; the
lemmas `RemoveTokens`, `AddTokens` and `NoTokens` take the place of an induction over the
threads. `Callers` says that a thread inside `lock()` wants a mode and one that has given
the lock up knows what to take back. The last rests on
`SInv == IInv /\ Sleepers /\ NoSleeperForgotten`: `Sleepers` ties `pc` to the queue (a
sleeper is in it once, whoever is in it sleeps or was interrupted) and says that a lock
that is free with its queue still told to block has nobody on the way to sleep.

**`ThreadBlockingProofs`** (from `BlockingAssumptions`): `StopsTogether`,
`BlockersMeanAsleep`, and the action property `WakesReach`.
`IInv == TypeOK /\ Current /\ Stops /\ Blocking /\ Registered`. That a blocker means
sleep is only kept if a stopped thread remembers to go back to sleep (`Stops`), if only
the current thread is between `add_blocker` and its yield (`Current`), and if a thread
leaves the queue before it leaves `block()` (`Registered`). `WakesReach` is proved from
the same invariant, action by action: a wake taken while the process is not stopped makes
its thread runnable, and no `VERIFY` on the way fails.

**`ThreadJoinProofs`** (from `JoinAssumptions`): `JoinsHandOver` and `JoinPanics`.
`IInv == TypeOK /\ Lives /\ Creation /\ Joins /\ Deaths /\ Burial /\ PanicsAreKnown`.
That a value is handed over once needs the whole life of a join: a joiner is the only one
its joinee will ever have (`Joins`), a sleeper that will live on sleeps for somebody who
neither exited nor is to die (`Deaths`), and the finalizer drops only what it has taken
off the list (`Burial`). `JoinPanics` says in which case the `VERIFY`s about joiners at
the end of a thread do fail: a joiner was killed before.

**`ProcessWaitProofs`** (from `WaitAssumptions`): `DeathsTakenOnce`,
`NobodyMissesDeaths`, `NobodyMissesStates`, and the action property
`OnlyInterruptedLoses`. `IInv == TypeOK /\ Callers /\ Deaths /\ Told /\ Follows`. `Told`
is the heart: who waits has been offered everything that is listed, so what is listed and
fits it cannot be there. It holds of deaths for any children; of stops and continues only
for children that nobody traces, whose list entry follows their state (`Follows`). Hence
two theorems: deaths for any `Traced`, and all of `NobodyMisses` for `Traced = {}`; the
entry of a traced child can be overtaken by an unblock that is never offered to callers.

**`TimerQueueProofs`** (from `TimerAssumptions`): `DueIsTheHead` and `NoCallbackStrays`.
`IInv == TypeOK /\ Order /\ Calls /\ Frames /\ Pending`. The loop of `add_timer_locked` finds
its place by looking at deadlines, so what it needs of the list is that it is ordered, and
it must be shown that insertion in the middle keeps this (`Order`). That the next due time
is the head's is a lemma for each of the two operations that set it in some branches only
(`AddedDueIsNext`, `RemovedDueIsNext`): it stays right where it is not set because the head
of the list stays. `Calls` and `Frames` follow a timer from the list through the deferred
call to the `block()` whose stack frame its callback writes to; `Pending` says where calls
can be left over at all, so that nobody adds a timer that is still executing.

**`DeviceIOProofs`** (from `IOAssumptions`, for any callers, calls, blocks per page and
bounds, and for the three drivers): `ItemsRunInOrder`, for the `WorkQueue` as the drivers
use it, and `OneRequestAtATime`, `SectorsAreOwn` and `IOPanics`, which are the other three
invariants of `io`. The first rests on
`QInv == QueueTypes /\ OneSleeper /\ Awaited /\ Order`. `Awaited` is the strengthening:
between the worker's last look at `m_items` and its sleep an item may come in, whose wake
must be under way or remembered by the wait queue.

The others rest on `IOInv == QInv /\ RInv /\ Listed /\ Reported`, the life of a request.
(`Reported`: an error that an interrupt reports has cost a trouble, and is an IDE drive's.)
None of the three is inductive: that the sectors are right when `complete` is called is
decided by what the drive and the driver counted, steps earlier and in another thread.
`RInv` has parts that hold always (`Types`, `Numbering` of the items, `Records`, and
`DataIsOwn` and `PanicsAreKnown` themselves) and parts that hold until a `VERIFY` fails:

- `Queued`: the states of the requests and the devices' queues agree, both ways;
- `Callers`, `Sleepers`: between `make_request` and the end of `wait()` a request belongs
  to one thread, is not destroyed, and its wait queue has that thread exactly while it
  sleeps, or remembers the wake;
- `Token`: the current request is in exactly one place: the drive is at its command
  (`InDrive`), an interrupt is pending (`InIrq`), one work item has it (`InItem`), or an
  AHCI port was stopped (`Stopped`). In each place it is said which sectors were moved:
  `DriveOK`, `SectorOK`, `MovedOK`. So it is completed once, and with all its sectors;
- `Strays`: commands, interrupts and items of other requests exist only with PIO and
  after a trouble (`Spent`). The driver does not stop the drive when a copy faults, so
  the drive goes on with a request that was given up. `Broken` is the state of the
  current request in that case: the oldest of its items will fail it, and the items
  behind that one are what the `VERIFY` named `stale_item` is about.

The drive is modelled as `Answer` and `Fail` say: it answers the command it was given, one
sector or transfer at a time, or fails. What is proved of the sectors is under that model.

**`DiskCacheProofs`** (from `CacheAssumptions`, for `BlockZero \notin Blocks`):
`CacheEntriesAgree` and `CacheRefinement`, which is `Spec => Abstract!Spec` under the
mapping of `DiskCache`. The hypothesis is what the code leaves to its callers: a new entry
carries block number 0, and if block 0 is cached `DiskCache_refuted.cfg` has a
counterexample. The invariant is stated for a cache, a device and a set of damaged blocks
as parameters, `Good(c, d, dm)`, because a call goes through several caches before it is
done: a lookup may flush, then evict, then fill, then make dirty. There is a lemma for
each of these parts (`WroteBack`, `Claimed`, `Filled`, `Put`, `Spoiled`, `WroteAround`)
that says it keeps `Good` and which blocks it is seen to change; a call is their
composition. `Coherent`, which the run does not check, is the part that matters: a clean
entry with data holds what the device does, unless its block is damaged. Without it an
eviction could lose a write. `FilterProperties` shows by its least counterexample that
the filter of a list keeps what it should, each once.

Only model-checked: all liveness, which the prover does not do, and the properties of
`Futex`, `Ext2Blocks`, `FileTree`, `TCP` and `Streams`. `Futex`, `TCP` and `Ext2Blocks`
filter lists with `SelectSeq`, which the prover has no definition of: `DiskCache` has a
`Filter` of its own for that reason, and they would need it too. `StreamIntact` of `TCP`
and `Streams` is about prefixes of a stream cut into packets or buffers, and
`TreeReadsBack` about a tree that is built and read level by level: inductions over data
that the prover does not do.

## Not modelled

Of the modelled parts: page faults, signal masks and handlers' stack frames, tracing
stops, `wake_n` of `WaitQueue` (no caller in the models), timers by id (no caller in the
kernel), the arithmetic of `FUTEX_WAKE_OP`, the unmapping of a shared futex, SMP beyond
`SplitRegistration`, sub-requests of partitions (no reachable caller), inode bitmaps, the
bytes of files and directory entries (records that straddle blocks, and writes of a
directory that fail after some of its blocks), device errors inside `flush_block_list`,
mounts, permissions and `unveil`, checksums, UDP
and ICMP, more than one TCP connection, descriptors passed through sockets, `select`.

Of the rest: hardware set-up and register programming, formatting and `/proc`, which keep
no state worth a model; user land, whose libraries are not in the repository; and what the
plan below names. `PROJECT.json` says for each component what is left out and why.

## Plan

Modelled: `WaitQueue`, `KernelLock` and `DiskCache` with their abstract specifications,
`ThreadBlocking`, `ThreadJoin`, `Futex`, `TimerQueue`, `ProcessWait`, `WorkQueue`,
`DeviceIO`, `Ext2Blocks`, `FileTree`, `TCP`, `Streams`. Proved about: all but the last
four and `Futex`.

Worth modelling next, in this order: the scheduler's ready queues with
priorities; deferred wakes and lock order on several processors; copy on write with
committed pages, purging, and the allocators against reference definitions; PTY life
cycle, Plan 9 message matching, VirtIO rings, ARP.

Theorems planned: `BlockersExist` of `Futex`, with a filter the prover can read;
`NoDanglingName` of `FileTree`; the parts of `Streams` that are not about the bytes,
`NoSleeperForgotten` and `PanicsAreKnown`.
