------------------------------ MODULE Streams ------------------------------
(***************************************************************************)
(* Byte streams between processes: pipes and named FIFOs (FIFO.cpp) and    *)
(* local stream sockets (LocalSocket.cpp), the DoubleBuffer both are made  *)
(* of, and the read, write, open, connect, accept and close calls on them. *)
(*                                                                         *)
(* The threads of set A write into a FIFO, or belong to the process that   *)
(* connects; those of set B read from it, or belong to the process that    *)
(* accepts.  In a FIFO every thread has a description of its own; the      *)
(* threads at one end of a socket share one, and its lock, which read()    *)
(* holds while it sleeps in recvfrom; recvmsg and sendmsg do without.      *)
(* A blocked thread is woken only where the code calls                     *)
(* evaluate_block_conditions.                                              *)
(***************************************************************************)
EXTENDS Naturals, Sequences, FiniteSets, WaitQueue

CONSTANTS A, B,         \* the threads at the two ends
          Kinds,        \* "fifo", "local"
          Capacity,     \* of a DoubleBuffer, in bytes
          WriteSize,    \* bytes of one write()
          ReadSize,     \* bytes of one read()
          Backlog,      \* of the listener
          MaxWrites,    \* bound: write() and sendmsg() calls
          MaxOpens,     \* bound: open(), socket() and connect() calls
          MaxMishaps,   \* bound: bad user pointers, and signals that interrupt a call
          EFAULT        \* 14; do_write takes it from the bytes written

VARIABLES
    kind,
    buf,        \* the DoubleBuffer that holds what was sent to each end
    pc,         \* what each thread does
    has,        \* the threads that have a description
    left,       \* the bytes a thread in write() has still to write
    nonblocking, \* the threads in a write() that does not block
    m_lock,     \* the lock of the description at each end of a socket
    openq,      \* FIFO: m_write_open_queue ("A"), m_read_open_queue ("B")
    local,      \* LocalSocket's fields, and the listener's
    written,    \* history: the bytes sent to each end
    taken,      \* history: the bytes read at each end
    falseEnd,   \* history: a read() reported an end of file that was none
    met,        \* history: the threads in open() that had company since they called it
    alone,      \* history: an open() of a FIFO returned and no peer had come
    direct,     \* history: the ends where recvmsg was called
    early,      \* history: connect() returned before accept() attached its description
    panicked,   \* VERIFYs that failed
    writes, opens, faults, signals

call == <<left, nonblocking, m_lock>>
counters == <<writes, opens, faults, signals>>
history == <<written, taken, falseEnd, met, alone, direct, early>>
vars == <<kind, buf, pc, has, call, openq, local, history, panicked, counters>>

Threads == A \union B
Ends == {"A", "B"}
EndOf(t) == IF t \in A THEN "A" ELSE "B"
Other(e) == IF e = "A" THEN "B" ELSE "A"
At(e) == {t \in has : EndOf(t) = e}

Nobody == "nobody"
NewBuffer == [w |-> <<>>, r |-> <<>>]

Init ==
    /\ kind \in Kinds
    /\ buf = [e \in Ends |-> NewBuffer]
    /\ pc = [t \in Threads |-> "out"]
    /\ has = {}
    /\ left = [t \in Threads |-> <<>>]
    /\ nonblocking = {}
    /\ m_lock = [e \in Ends |-> Nobody]
    /\ openq = [e \in Ends |-> NewQueue]
    /\ local = [ connRole |-> "None", role |-> "None", connFd |-> "none", acceptOpen |-> FALSE,
                 connected |-> FALSE, setup |-> FALSE, pending |-> 0, listening |-> TRUE ]
    /\ written = [e \in Ends |-> <<>>]
    /\ taken = [e \in Ends |-> <<>>]
    /\ falseEnd = FALSE
    /\ met = {}
    /\ alone = FALSE
    /\ direct = {}
    /\ early = FALSE
    /\ panicked = {}
    /\ writes = [e \in Ends |-> 0]
    /\ opens = 0
    /\ faults = 0
    /\ signals = 0

----------------------------------------------------------------------------
(* DoubleBuffer: m_write_buffer, and what is left of m_read_buffer *)

Contents(b) == b.r \o b.w
IsEmpty(b) == b.r = <<>> /\ b.w = <<>>
Space(b) == Capacity - Len(b.w)

\* Mutant: the buffers are swapped before the read buffer is used up.
Flip_Early(b) == IF b.w # <<>> THEN [w |-> <<>>, r |-> b.w] ELSE b

\* flip(), which read() calls when its buffer is used up and there is more.
Flip(b) == IF b.r = <<>> /\ b.w # <<>> THEN [w |-> <<>>, r |-> b.w] ELSE b

Smaller(m, n) == IF m < n THEN m ELSE n

Put(b, data) == [b EXCEPT !.w = @ \o SubSeq(data, 1, Smaller(Len(data), Space(b)))]
Take(b) == LET f == Flip(b) IN [f EXCEPT !.r = SubSeq(@, ReadSize + 1, Len(@))]
Given(b) == LET f == Flip(b) IN SubSeq(f.r, 1, Smaller(ReadSize, Len(f.r)))

----------------------------------------------------------------------------
(* Who can read and write *)

Role(e) == IF local.connFd = e THEN local.connRole ELSE local.role

\* LocalSocket::has_attached_peer, for the two roles that have one: it must not
\* be called in another (VERIFY_NOT_REACHED).
HasAttachedPeer(e) ==
    IF Role(e) = "Accepted" THEN local.connFd # "none" ELSE local.acceptOpen

Linked(e) == Role(e) \in {"Accepted", "Connected"}

\* receive_buffer_for: m_for_server is buf["B"], m_for_client is buf["A"].
ReceiveEnd(e) == IF kind = "fifo" THEN "B" ELSE IF Role(e) = "Accepted" THEN "B" ELSE "A"
SendEnd(e) == IF kind = "fifo" THEN "B" ELSE Other(ReceiveEnd(e))

\* Nobody is at the other end.
PeerGone(e) == IF kind = "fifo" THEN At(Other(e)) = {} ELSE ~HasAttachedPeer(e)

CanRead(e) == (kind = "local" => Linked(e)) /\ (~IsEmpty(buf[ReceiveEnd(e)]) \/ PeerGone(e))
CanWrite(e) == (kind = "local" => Linked(e)) /\ (Space(buf[SendEnd(e)]) > 0 \/ PeerGone(e))


\* evaluate_block_conditions, in the state the step leads to: the threads that
\* are about to be in states next.
Evaluated(next) ==
    [t \in Threads |->
        CASE next[t] = "read" /\ CanRead(EndOf(t))'   -> "reading"
          [] next[t] = "recv" /\ CanRead(EndOf(t))'   -> "taking"
          [] next[t] = "accept" /\ local'.pending > 0 -> "accepting"
          [] next[t] = "write" /\ CanWrite(EndOf(t))' -> "writing"
          [] next[t] = "connect" /\ local'.setup      -> "connected"
          [] OTHER                                    -> next[t]]

Up == panicked = {}

\* One more call may go wrong.
Mishap == faults + signals < MaxMishaps

----------------------------------------------------------------------------
(* Reading and writing *)

\* read(): go on, or block until can_read.
ReadBegin(t) ==
    /\ Up /\ pc[t] = "open" /\ t \in has
    /\ kind = "fifo" => t \in B
    /\ pc' = [pc EXCEPT ![t] = IF CanRead(EndOf(t)) THEN "reading" ELSE "read"]
    /\ UNCHANGED <<kind, buf, has, call, openq, local, panicked>> /\ UNCHANGED <<history, counters>>

\* LocalSocket::recvfrom has a test and a block of its own, ...
Receiving(e) == IF CanRead(e) THEN "taking" ELSE "recv"

\* ... in read() with the lock of the description held, ...
Recv(t) ==
    LET e == EndOf(t)
    IN  /\ Up /\ kind = "local" /\ pc[t] = "reading" /\ m_lock[e] = Nobody
        /\ m_lock' = [m_lock EXCEPT ![e] = t]
        /\ pc' = [pc EXCEPT ![t] = Receiving(e)]
        /\ UNCHANGED <<kind, buf, has, left, nonblocking, openq, local, panicked>>
        /\ UNCHANGED <<history, counters>>

\* ... in recvmsg without.  (Of a description that does not block, the test is
\* that there is something to take.)
RecvMsg(t) ==
    LET e == EndOf(t)
    IN  /\ Up /\ kind = "local" /\ pc[t] = "open" /\ t \in has
        /\ Linked(e)                            \* EINVAL
        /\ direct' = direct \union {e}
        /\ pc' = [pc EXCEPT ![t] = Receiving(e)]
        /\ UNCHANGED <<kind, buf, has, call, openq, local, panicked>> /\ UNCHANGED counters
        /\ UNCHANGED <<written, taken, falseEnd, met, alone, early>>

\* FIFO::read, and the rest of recvfrom.  A bad pointer is found after flip();
\* FileDescription::read takes -EFAULT for a count and wakes those who wait.
Read(t, fault) ==
    LET e == EndOf(t)
        b == buf[ReceiveEnd(e)]
        ended == PeerGone(e) /\ IsEmpty(b)
        crash == kind = "local" /\ ~ended /\ IsEmpty(b)
        msg == kind = "local" /\ m_lock[e] # t
    IN  /\ Up /\ pc[t] = (IF kind = "fifo" THEN "reading" ELSE "taking")
        /\ fault => Mishap /\ ~IsEmpty(b)
        /\ faults' = IF fault THEN faults + 1 ELSE faults
        /\ panicked' = IF crash THEN {IF e = "A" THEN "recv_connect" ELSE "recv_accept"} ELSE {}
        /\ falseEnd' = (falseEnd \/ (IsEmpty(b) /\ ~ended /\ ~crash))
        /\ buf' = [buf EXCEPT ![ReceiveEnd(e)] = IF fault THEN Flip(b) ELSE Take(b)]
        /\ taken' = IF fault THEN taken ELSE [taken EXCEPT ![ReceiveEnd(e)] = @ \o Given(b)]
        /\ m_lock' = IF msg THEN m_lock ELSE [m_lock EXCEPT ![e] = Nobody]
        /\ UNCHANGED <<kind, has, left, nonblocking, openq, local, written, met, alone, direct, early>>
        /\ UNCHANGED <<writes, opens, signals>>
        /\ LET after == [pc EXCEPT ![t] = "open"]
           IN  pc' = IF msg /\ (fault \/ IsEmpty(b) \/ Space(buf'[ReceiveEnd(e)]) = 0) THEN after
                     ELSE Evaluated(after)

\* How many calls there were to write.
Written == writes["A"] + writes["B"]

\* The bytes of the next write() at an end.
NextBytes(e) == [i \in 1 .. WriteSize |-> WriteSize * writes[e] + i]

\* write(): WriteSize bytes, as far as they go; EAGAIN at once when the description
\* does not block and there is no room.
WriteBegin(t, blocks) ==
    LET e == EndOf(t)
    IN  /\ Up /\ pc[t] = "open" /\ t \in has /\ Written < MaxWrites
        /\ kind = "fifo" => t \in A
        /\ blocks \/ CanWrite(e)
        /\ writes' = [writes EXCEPT ![e] = @ + 1]
        /\ left' = [left EXCEPT ![t] = NextBytes(e)]
        /\ nonblocking' = IF blocks THEN nonblocking ELSE nonblocking \union {t}
        /\ pc' = [pc EXCEPT ![t] = "loop"]
        /\ UNCHANGED <<kind, buf, has, m_lock, openq, local, panicked, opens, faults, signals>>
        /\ UNCHANGED history

\* The head of do_write's loop: go on, block until there is room, or return what
\* was written, VERIFY(total_nwritten > 0).
WriteCheck(t) ==
    LET e == EndOf(t)
        returns == ~CanWrite(e) /\ t \in nonblocking
    IN  /\ Up /\ pc[t] = "loop"
        /\ pc' = [pc EXCEPT ![t] = IF CanWrite(e) THEN "writing" ELSE IF returns THEN "open" ELSE "write"]
        /\ left' = IF returns THEN [left EXCEPT ![t] = <<>>] ELSE left
        /\ panicked' = IF returns /\ Len(left[t]) = WriteSize THEN {"total_nwritten"} ELSE {}
        /\ nonblocking' = IF returns THEN nonblocking \ {t} ELSE nonblocking
        /\ UNCHANGED <<kind, buf, has, m_lock, openq, local>>
        /\ UNCHANGED <<history, counters>>

\* What a write() has still to do when n bytes went out.  Of a bad pointer,
\* -EFAULT is added to the bytes written: the loop ends, or goes back.
Remaining(data, n, fault) ==
    LET todo == Len(data) + EFAULT
    IN  IF ~fault THEN SubSeq(data, n + 1, Len(data))
        ELSE IF todo > WriteSize THEN <<>>
        ELSE [i \in 1 .. todo |-> data[Len(data)] - todo + i]

\* FIFO::write, LocalSocket::sendto inside the loop, under the lock of the
\* description.  EPIPE when the peer is gone; no room (someone else took it) ends
\* the call.  The bytes of a bad pointer are counted before they are copied:
\* garbage (0) is sent.
Write(t, fault) ==
    LET e == EndOf(t)
        b == buf[SendEnd(e)]
        n == Smaller(Len(left[t]), Space(b))
        rest == Remaining(left[t], n, fault)
        ends == PeerGone(e) \/ n = 0 \/ rest = <<>>
    IN  /\ Up /\ pc[t] = "writing"
        /\ kind = "local" => m_lock[e] = Nobody
        /\ fault => Mishap /\ ~PeerGone(e) /\ n > 0
        /\ faults' = IF fault THEN faults + 1 ELSE faults
        /\ buf' = IF PeerGone(e) THEN buf
                  ELSE [buf EXCEPT ![SendEnd(e)] = Put(@, IF fault THEN [i \in 1 .. n |-> 0] ELSE left[t])]
        /\ written' = IF PeerGone(e) \/ fault THEN written
                      ELSE [written EXCEPT ![SendEnd(e)] = @ \o SubSeq(left[t], 1, n)]
        /\ left' = [left EXCEPT ![t] = IF ends THEN <<>> ELSE rest]
        /\ nonblocking' = IF ends THEN nonblocking \ {t} ELSE nonblocking
        /\ UNCHANGED <<kind, has, m_lock, openq, local, panicked>>
        /\ UNCHANGED <<taken, falseEnd, met, alone, direct, early, writes, opens, signals>>
        /\ LET after == [pc EXCEPT ![t] = IF ends THEN "open" ELSE "loop"]
           IN  pc' = IF PeerGone(e) THEN after ELSE Evaluated(after)

\* sendmsg: one sendto, without the lock and without can_write before it.
SendMsg(t) ==
    LET e == EndOf(t)
        n == Smaller(WriteSize, Space(buf[SendEnd(e)]))
        sends == Linked(e) /\ ~PeerGone(e)
    IN  /\ Up /\ kind = "local" /\ pc[t] = "open" /\ t \in has /\ Written < MaxWrites
        /\ writes' = [writes EXCEPT ![e] = @ + 1]
        /\ panicked' = IF Linked(e) THEN {} ELSE {"has_attached_peer"}
        /\ buf' = IF sends THEN [buf EXCEPT ![SendEnd(e)] = Put(@, NextBytes(e))] ELSE buf
        /\ written' = IF sends THEN [written EXCEPT ![SendEnd(e)] = @ \o SubSeq(NextBytes(e), 1, n)]
                      ELSE written
        /\ UNCHANGED <<kind, has, call, openq, local, opens, faults, signals>>
        /\ UNCHANGED <<taken, falseEnd, met, alone, direct, early>>
        /\ pc' = IF sends THEN Evaluated(pc) ELSE pc

\* Where a thread is outside of calls.
Back(t) == IF t \in has THEN "open" ELSE "out"

\* A signal ends a read(), an accept() and a write() that has written nothing;
\* another write() tries again.
Interrupted(t) ==
    LET e == EndOf(t)
        begun == pc[t] = "write" /\ Len(left[t]) < WriteSize
    IN  /\ Up /\ pc[t] \in {"read", "recv", "write", "accept"} /\ Mishap
        /\ signals' = signals + 1
        /\ pc' = [pc EXCEPT ![t] = IF begun THEN "writing" ELSE Back(t)]
        /\ left' = IF begun THEN left ELSE [left EXCEPT ![t] = <<>>]
        /\ m_lock' = IF m_lock[e] = t THEN [m_lock EXCEPT ![e] = Nobody] ELSE m_lock
        /\ UNCHANGED <<kind, buf, has, nonblocking, openq, local, panicked, writes, opens, faults>>
        /\ UNCHANGED history

----------------------------------------------------------------------------
(* FIFO: open and close *)

Direction(t) == EndOf(t)

\* open_direction_blocking: attach, wake those who wait for this end, ...
OpenFifo(t) ==
    LET e == Direction(t)
    IN  /\ Up /\ kind = "fifo" /\ pc[t] = "out" /\ opens < MaxOpens
        /\ opens' = opens + 1
        /\ has' = has \union {t}
        /\ openq' = [openq EXCEPT ![e] = WakeAll(@)]
        /\ met' = IF At(Other(e)) = {} THEN met \ {t} ELSE met \union {t} \union At(Other(e))
        /\ UNCHANGED <<kind, buf, call, local, written, taken, falseEnd, alone, direct, early, panicked>>
        /\ UNCHANGED <<writes, faults, signals>>
        /\ pc' = Evaluated([u \in Threads |->
                    IF u = t THEN IF At(Other(e)) = {} THEN "opening" ELSE "open"
                    ELSE IF u \in Members(openq[e]) THEN "open" ELSE pc[u]])

\* ... and wait for the other end, with the lock released.
OpenWait(t) ==
    LET q == Other(Direction(t))
    IN  /\ Up /\ pc[t] = "opening"
        /\ openq' = [openq EXCEPT ![q] = AddBlocker(@, t)]
        /\ pc' = [pc EXCEPT ![t] = IF ShouldAddBlocker(openq[q]) THEN "opened" ELSE "open"]
        /\ alone' = (alone \/ (~ShouldAddBlocker(openq[q]) /\ t \notin met))
        /\ UNCHANGED <<kind, buf, has, call, local, written, taken, falseEnd, met, direct, early, panicked>>
        /\ UNCHANGED counters

\* close(): FIFO::detach.
CloseFifo(t) ==
    /\ Up /\ kind = "fifo" /\ pc[t] = "open"
    /\ has' = has \ {t}
    /\ UNCHANGED <<kind, buf, call, openq, local, panicked>> /\ UNCHANGED <<history, counters>>
    /\ pc' = Evaluated([pc EXCEPT ![t] = "out"])

----------------------------------------------------------------------------
(* LocalSocket: connect, accept, close *)

\* socket(): the connecting process's description is attached.
CreateSocket ==
    /\ Up /\ kind = "local" /\ \A t \in A : pc[t] = "out" /\ opens < MaxOpens
    /\ opens' = opens + 1
    /\ has' = has \union A
    /\ local' = [local EXCEPT !.connFd = "A"]
    /\ pc' = [t \in Threads |-> IF t \in A THEN "open" ELSE pc[t]]
    /\ UNCHANGED <<kind, buf, call, openq, panicked, writes, faults, signals>> /\ UNCHANGED history

\* connect(): Role::Connecting, and into the listener's queue, if there is room.
\* Nothing stops a second call before the first one was accepted.
Connect(t) ==
    LET room == local.pending < Backlog
    IN  /\ Up /\ kind = "local" /\ t \in A /\ pc[t] = "open" /\ opens < MaxOpens
        /\ ~local.connected /\ local.listening
        /\ opens' = opens + 1
        /\ local' = IF room THEN [local EXCEPT !.connRole = "Connecting", !.pending = @ + 1]
                    ELSE [local EXCEPT !.connRole = "None"]
        /\ UNCHANGED <<kind, buf, has, call, openq, panicked, writes, faults, signals>>
        /\ UNCHANGED history
        /\ pc' = Evaluated([pc EXCEPT ![t] = IF room THEN "queued" ELSE "open"])

\* ... done if is_connected() already, else block until the setup is complete.
ConnectTest(t) ==
    /\ Up /\ pc[t] = "queued"
    /\ local' = [local EXCEPT !.connRole = IF local.connected THEN "Connected" ELSE @]
    /\ early' = (early \/ (local.connected /\ \E u \in B : pc[u] = "accepted"))
    /\ UNCHANGED <<kind, buf, has, call, openq, written, taken, falseEnd, met, alone, direct, panicked>>
    /\ UNCHANGED counters
    /\ pc' = Evaluated([pc EXCEPT ![t] = IF local.connected THEN "open" ELSE "connect"])

ConnectReturn(t) ==
    /\ Up /\ pc[t] = "connected"
    /\ local' = [local EXCEPT !.connRole = "Connected"]
    /\ UNCHANGED <<kind, buf, has, call, openq, panicked>> /\ UNCHANGED <<history, counters>>
    /\ pc' = Evaluated([pc EXCEPT ![t] = "open"])

\* A signal: Role::None, EINTR.  The socket stays in the listener's queue.
ConnectInterrupted(t) ==
    /\ Up /\ pc[t] = "connect" /\ Mishap
    /\ signals' = signals + 1
    /\ local' = [local EXCEPT !.connRole = "None"]
    /\ UNCHANGED <<kind, buf, has, call, openq, panicked, writes, opens, faults>> /\ UNCHANGED history
    /\ pc' = Evaluated([pc EXCEPT ![t] = "open"])

\* accept(): can_accept, or block until it holds, ...
AcceptBegin(t) ==
    /\ Up /\ kind = "local" /\ t \in B /\ pc[t] = Back(t) /\ local.listening
    /\ pc' = [pc EXCEPT ![t] = IF local.pending > 0 THEN "accepting" ELSE "accept"]
    /\ UNCHANGED <<kind, buf, has, call, openq, local, panicked>> /\ UNCHANGED <<history, counters>>

\* Mutant: the socket stays in the listener's queue.
Accept_KeepPending(t) ==
    /\ Up /\ pc[t] = "accepting"
    /\ panicked' = IF local.pending = 0 THEN {"accepted_socket"}
                   ELSE IF local.connected THEN {"accept"} ELSE {}
    /\ local' = [local EXCEPT !.connected = TRUE, !.role = "Accepted"]
    /\ pc' = [pc EXCEPT ![t] = "accepted"]
    /\ UNCHANGED <<kind, buf, has, call, openq>> /\ UNCHANGED <<history, counters>>

\* ... Socket::accept, with VERIFY(accepted_socket) and VERIFY(!client->is_connected()), ...
Accept(t) ==
    LET none == local.pending = 0
    IN  /\ Up /\ pc[t] = "accepting"
        /\ panicked' = IF none THEN {"accepted_socket"} ELSE IF local.connected THEN {"accept"} ELSE {}
        /\ local' = IF none THEN local
                    ELSE [local EXCEPT !.pending = @ - 1, !.connected = TRUE, !.role = "Accepted"]
        /\ pc' = [pc EXCEPT ![t] = "accepted"]
        /\ UNCHANGED <<kind, buf, has, call, openq>> /\ UNCHANGED <<history, counters>>

\* ... EFAULT, which leaves the socket connected to nobody, ...
AcceptFault(t) ==
    /\ Up /\ pc[t] = "accepted" /\ Mishap
    /\ faults' = faults + 1
    /\ pc' = [pc EXCEPT ![t] = Back(t)]
    /\ UNCHANGED <<kind, buf, has, call, openq, local, panicked, writes, opens, signals>>
    /\ UNCHANGED history

\* ... LocalSocket::attach of a new description, with its VERIFYs, ...
Attach(t) ==
    /\ Up /\ pc[t] = "accepted"
    /\ panicked' = IF local.acceptOpen THEN {"attach"}
                   ELSE IF local.connRole = "None" /\ local.connFd # "none" THEN {"attach_interrupted"}
                   ELSE {}
    /\ local' = IF local.connRole = "None" THEN [local EXCEPT !.connFd = "B"]
                ELSE [local EXCEPT !.acceptOpen = TRUE]
    /\ has' = has \union B
    /\ UNCHANGED <<kind, buf, call, openq>> /\ UNCHANGED <<history, counters>>
    /\ pc' = Evaluated([u \in Threads |->
                IF u = t THEN "attached" ELSE IF u \in B /\ pc[u] = "out" THEN "open" ELSE pc[u]])

\* ... and set_setup_state(Completed), which lets connect() return.
AcceptReturn(t) ==
    /\ Up /\ pc[t] = "attached"
    /\ local' = [local EXCEPT !.setup = TRUE]
    /\ UNCHANGED <<kind, buf, has, call, openq, panicked>> /\ UNCHANGED <<history, counters>>
    /\ pc' = Evaluated([pc EXCEPT ![t] = "open"])

\* A thread lets go of its end; the last one closes the description: detach.
CloseSocket(t) ==
    LET e == EndOf(t)
        last == At(e) = {t}
        detached == IF local.connFd = e THEN [local EXCEPT !.connFd = "none"]
                    ELSE [local EXCEPT !.acceptOpen = FALSE]
    IN  /\ Up /\ kind = "local" /\ pc[t] = "open" /\ t \in has
        /\ has' = has \ {t}
        /\ local' = IF last THEN detached ELSE local
        /\ panicked' = IF last /\ local.connFd # e /\ ~local.acceptOpen THEN {"detach"} ELSE {}
        /\ UNCHANGED <<kind, buf, call, openq>> /\ UNCHANGED <<history, counters>>
        /\ LET after == [pc EXCEPT ![t] = "closed"] IN pc' = IF last THEN Evaluated(after) ELSE after

\* The listener is closed and forgets the sockets in its queue.
CloseListener ==
    /\ Up /\ kind = "local" /\ local.listening
    /\ \A t \in B : pc[t] \notin {"accept", "accepting"}
    /\ local' = [local EXCEPT !.listening = FALSE, !.pending = 0]
    /\ UNCHANGED <<kind, buf, pc, has, call, openq, panicked>> /\ UNCHANGED <<history, counters>>

Next ==
    \/ CreateSocket \/ CloseListener
    \/ \E t \in Threads :
          \/ ReadBegin(t) \/ Recv(t) \/ RecvMsg(t) \/ WriteCheck(t) \/ SendMsg(t) \/ Interrupted(t)
          \/ \E blocks \in BOOLEAN : WriteBegin(t, blocks)
          \/ \E fault \in BOOLEAN : Read(t, fault) \/ Write(t, fault)
          \/ OpenFifo(t) \/ OpenWait(t) \/ CloseFifo(t)
          \/ Connect(t) \/ ConnectTest(t) \/ ConnectReturn(t) \/ ConnectInterrupted(t)
          \/ AcceptBegin(t) \/ Accept(t) \/ AcceptFault(t) \/ Attach(t) \/ AcceptReturn(t) \/ CloseSocket(t)

Spec == Init /\ [][Next]_vars

----------------------------------------------------------------------------
(* Properties *)

PCs == {"out", "opening", "opened", "open", "read", "reading", "recv", "taking", "loop", "write",
        "writing", "closed", "queued", "connect", "connected", "accept", "accepting", "accepted",
        "attached"}

\* Types, and the bounds of the two buffers: flip() never makes one that is
\* larger than its half of the storage.
TypeOK ==
    /\ pc \in [Threads -> PCs]
    /\ \A e \in Ends : Len(buf[e].w) <= Capacity /\ Len(buf[e].r) <= Capacity
    /\ \A e \in Ends : m_lock[e] # Nobody => pc[m_lock[e]] \in {"recv", "taking"}
    /\ has \subseteq {t \in Threads : pc[t] \notin {"out", "closed"}}
    /\ \A e \in Ends : openq[e] \in Queues(Threads)
                       /\ \A t \in Members(openq[e]) : pc[t] = "opened" /\ EndOf(t) = Other(e)

\* What the readers of an end were given and what is buffered for it is what was
\* sent to it, in order, whoever reads and writes, through every flip.  Only a
\* write() that fails half way (bad pointer) adds bytes nobody sent.
StreamIntact ==
    /\ TypeOK
    /\ faults = 0 => \A e \in Ends : taken[e] \o Contents(buf[e]) = written[e]

\* No thread sleeps in read(), recvfrom, write(), accept() or connect() when it
\* could go on: each change of the buffers, of the ends, of the listener's queue or
\* of the setup state wakes the threads it concerns.  (A thread that waits for the
\* lock of its description waits for one that is in recvfrom: TypeOK.)  A recvmsg
\* that fails half way is the exception.  Of the threads in open() this is so for
\* the first two of a FIFO.
NoSleeperForgotten ==
    \A t \in Threads :
        /\ pc[t] \in {"read", "recv"} => ~CanRead(EndOf(t))
        /\ pc[t] = "write" => ~CanWrite(EndOf(t)) \/ (faults > 0 /\ direct # {})
        /\ pc[t] = "accept" => local.pending = 0
        /\ pc[t] = "connect" => ~local.setup
        /\ pc[t] = "opened" /\ opens <= 2 => At(Other(EndOf(t))) = {}

\* The VERIFYs that can fail: recvfrom's, when a second thread takes the bytes with
\* recvmsg, or when connect() returned before accept() attached the other end;
\* attach's, when accept() takes a socket whose connect() was interrupted;
\* accept's two, when two threads saw one connection, and when connect() was
\* called twice for one socket; has_attached_peer's, when a socket that is not
\* connected is sent to; and do_write's, when two threads that do not block write
\* at one end, when a FIFO gets a reader again that it had lost, or when -EFAULT
\* took back what was written.  Those of detach and VERIFY(!m_accept_side_fd_open) never fail.
PanicsAreKnown ==
    /\ panicked \subseteq {"recv_connect", "recv_accept", "attach_interrupted", "accept",
                           "accepted_socket", "has_attached_peer", "total_nwritten"}
    /\ "recv_connect" \in panicked => early \/ ("A" \in direct /\ Cardinality(A) > 1)
    /\ "recv_accept" \in panicked => "B" \in direct /\ Cardinality(B) > 1
    /\ panicked \intersect {"attach_interrupted", "accept"} # {} => signals > 0 \/ Cardinality(A) > 1
    /\ "accepted_socket" \in panicked => Cardinality(B) > 1
    /\ "has_attached_peer" \in panicked => ~Linked("A") \/ ~Linked("B")
    /\ "total_nwritten" \in panicked =>
          \/ faults > 0
          \/ kind = "fifo" /\ opens > 2
          \/ \E e \in Ends : Cardinality({t \in Threads : EndOf(t) = e}) > 1 /\ writes[e] > 1

\* VERIFY(m_connect_side_fd == nullptr) in LocalSocket::attach never fails.
AcceptIsSafe == "attach_interrupted" \notin panicked

\* VERIFY(accepted_socket) in sys$accept never fails.
AcceptFindsSocket == "accepted_socket" \notin panicked

\* VERIFY_NOT_REACHED() in LocalSocket::has_attached_peer is not reached.
PeerIsAsked == "has_attached_peer" \notin panicked

\* VERIFY(total_nwritten > 0) in do_write never fails.
ShortWriteIsSome == "total_nwritten" \notin panicked

\* A thread that can write does not wait for one that sleeps in read().
WriterNotHeld ==
    \A t, u \in Threads : pc[t] = "writing" /\ pc[u] = "recv" => m_lock[EndOf(t)] # u

\* VERIFY(!socket_buffer->is_empty()) in LocalSocket::recvfrom never fails.
ReaderFindsData == panicked \intersect {"recv_connect", "recv_accept"} = {}

\* read() says end of file only when there is no writer.
EndIsTrue == ~falseEnd

\* No thread sleeps in open() of a FIFO whose other end is open: two that are on
\* their way to sleep share one wake.
OpenNotStranded == \A t \in Threads : pc[t] = "opened" => At(Other(EndOf(t))) = {}

\* open() of a FIFO returns when both ends are open.
OpenMeetsPeer == ~alone

\* When connect() returns, the accepting side's description is attached.
ConnectedHasPeer == ~early

\* A thread in connect() has its socket in the queue of a listener, or accepted.
ConnectNotStranded ==
    \A t \in A : pc[t] = "connect" => local.pending > 0 \/ local.connected

\* Whatever fails, what was sent is what is received.
NoGarbage == \A e \in Ends : taken[e] \o Contents(buf[e]) = written[e]

=============================================================================
