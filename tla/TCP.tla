-------------------------------- MODULE TCP --------------------------------
(***************************************************************************)
(* A TCP connection between two hosts that both run Kernel/Net: TCPSocket, *)
(* IPv4Socket and Socket, and NetworkTask's handle_tcp.  The client host   *)
(* has one socket ("c"); the server host has a listener and the socket     *)
(* create_client makes for the incoming connection ("s").  The network     *)
(* task handles one packet at a time under the lock of the socket, so one  *)
(* packet is one step; applications connect, accept, send, receive, shut   *)
(* down and close in between.                                              *)
(*                                                                         *)
(* The wire keeps packets in order, or (mode "lossy") drops, repeats and   *)
(* reorders up to MaxFaults of them.  On either, time passes (Tick) in     *)
(* steps of 500 milliseconds, after which the next send repeats what is    *)
(* not acked.                                                              *)
(* Routing always finds an adapter; one data packet carries one item.      *)
(***************************************************************************)
EXTENDS Integers, Sequences, FiniteSets, SequencesExt

CONSTANTS Acceptors,    \* threads that call accept on the listener
          Readers,      \* threads that call recvfrom, on each side
          InitialSeqs,  \* what get_good_random may give a client
          ServerSeq,    \* the first sequence number of every server socket
          Width,        \* sequence numbers are modulo Width (2^32)
          MaxSends,     \* bound: data packets written by each side
          MaxCalls,     \* bound: the calls that Call counts, for each mode
          MaxFaults,    \* bound: packets lost, repeated or overtaken
          MaxTicks,     \* bound: periods of 500 ms
          BufferSize,   \* items the receive buffer holds
          Backlog,      \* of the listener
          Modes         \* the kinds of wire: "reliable", "lossy"

VARIABLES
    sock,       \* the two sockets; NoSocket when destroyed
    listening,  \* the listener is open
    wire,       \* the packets on their way to each host
    reader,     \* the threads in recvfrom on each socket: idle, blocked, woken, or
                \* beaten (woken, and another took what was there)
    connector,  \* the thread in connect: idle, blocked, done
    acceptor,   \* the threads in accept: idle, blocked, checked
    sent, got,  \* history: items each side wrote, items put into its buffer
    first,      \* history: the sequence number each side's first item has, or
                \* would have had if it was sent before connect
    reached,    \* history: the items the peer had written before the latest packet
                \* of its that each socket took
    again,      \* history: items each side sent again after 500 ms
    void,       \* history: items each side sent while it was not connected, or
                \* before the peer's socket was there
    dropped,    \* history: items each side had no room for
    panicked,   \* VERIFYs that failed
    mode, calls, faults, ticks

apps == <<reader, connector, acceptor>>
history == <<sent, got, first, reached, again, void, dropped>>
world == <<mode, calls, faults, ticks>>
vars == <<sock, listening, wire, panicked, apps, history, world>>

Sides == {"c", "s"}
Peer(x) == IF x = "c" THEN "s" ELSE "c"

NoSocket == [state |-> "None"]
NewSocket(refs) ==
    [ state |-> "Closed", setup |-> "Unstarted", connected |-> FALSE, error |-> FALSE,
      seq |-> 0, ack |-> 0, unacked |-> <<>>, buffer |-> <<>>,
      shutR |-> FALSE, shutW |-> FALSE, refs |-> refs ]

Init ==
    /\ sock = [x \in Sides |-> IF x = "c" THEN NewSocket({"fd"}) ELSE NoSocket]
    /\ listening = TRUE
    /\ wire = [x \in Sides |-> <<>>]
    /\ reader = [x \in Sides |-> [r \in Readers |-> "idle"]]
    /\ connector = "idle"
    /\ acceptor = [a \in Acceptors |-> "idle"]
    /\ sent = [x \in Sides |-> 0]
    /\ got = [x \in Sides |-> <<>>]
    /\ first = [x \in Sides |-> 0]
    /\ reached = [x \in Sides |-> 0]
    /\ again = [x \in Sides |-> {}] /\ void = again /\ dropped = again
    /\ panicked = {}
    /\ mode \in Modes
    /\ calls = 0
    /\ faults = 0
    /\ ticks = 0

Exists(x) == sock[x] # NoSocket

Disconnected(s) == s.state \in {"Closed", "CloseWait", "LastAck", "FinWait1", "FinWait2",
                                "Closing", "TimeWait"}

----------------------------------------------------------------------------
(* Sending *)

Plus(n, k) == (n + k) % Width

\* send_tcp_packet on socket record s: the record afterwards, and what goes out:
\* the packet, after the ones that were not acked for 500 ms.
Packet(s, flags, data) ==
    [flags |-> flags, seq |-> s.seq, ack |-> IF "ACK" \in flags THEN s.ack ELSE 0, data |-> data]

\* The items that SendPacket sends again with a packet that is to be acked.
Repeated(s) == UNION {ToSet(s.unacked[i].packet.data) : i \in {i \in DOMAIN s.unacked : s.unacked[i].old}}

\* Mutant: what is not acked is sent again however short ago it was sent.
SendPacket_ResendAll(s, flags, data) ==
    LET p == Packet(s, flags, data)
        next == Plus(s.seq, IF "SYN" \in flags THEN 1 ELSE Len(data))
        kept == "SYN" \in flags \/ data # <<>>
    IN  [ s |-> [s EXCEPT !.seq = next,
                   !.unacked = IF kept THEN Append(@, [upto |-> next, packet |-> p, old |-> FALSE]) ELSE @],
          out |-> Append([i \in DOMAIN s.unacked |-> s.unacked[i].packet], p) ]

SendPacket(s, flags, data) ==
    LET p == Packet(s, flags, data)
        next == Plus(s.seq, IF "SYN" \in flags THEN 1 ELSE Len(data))
        kept == "SYN" \in flags \/ data # <<>>
        old == SelectSeq(s.unacked, LAMBDA u : u.old)
    IN  IF kept
        THEN [ s |-> [s EXCEPT !.seq = next,
                        !.unacked = [i \in DOMAIN @ |-> [@[i] EXCEPT !.old = FALSE]]
                                       \o <<[upto |-> next, packet |-> p, old |-> FALSE]>>],
               out |-> [i \in DOMAIN old |-> old[i].packet] \o <<p>> ]
        ELSE [ s |-> [s EXCEPT !.seq = next], out |-> <<p>> ]

\* Mutant: an ack is taken for the packet after it as well.
Covered_One(upto, ack) == upto <= ack + 1

\* receive_tcp_packet compares without regard to wrap-around.
Covered(upto, ack) == upto <= ack

\* receive_tcp_packet: the acked packets at the front are forgotten.
Forget(unacked, ack) ==
    LET kept == {i \in DOMAIN unacked : ~Covered(unacked[i].upto, ack)}
    IN  IF kept = {} THEN <<>>
        ELSE SubSeq(unacked, CHOOSE i \in kept : \A j \in kept : i <= j, Len(unacked))

----------------------------------------------------------------------------
(* handle_tcp: the state machine.  A step says the next state, what the      *)
(* ack number becomes (beyond the sequence number and the payload; -1: it    *)
(* stays) and the flags of the reply, {} for none.                           *)

Step(to, beyond, reply) == [to |-> to, beyond |-> beyond, reply |-> reply]
Reset == Step("Closed", -1, {"RST"})

SynSent(p) ==
    IF p.flags = {"SYN"} THEN Step("SynReceived", 1, {"ACK"})
    ELSE IF p.flags = {"SYN", "ACK"} THEN Step("Established", 1, {"ACK"})
    ELSE IF p.flags = {"ACK", "FIN"} THEN Step("Closed", 1, {"ACK"})
    ELSE IF p.flags = {"ACK", "RST"} THEN Step("Closed", 0, {"ACK"})
    ELSE Reset

\* The server's socket needs its originator, the listener, which keeps it in
\* m_pending_release_for_accept until it is established.
SynReceived(x, s, p) ==
    IF p.flags # {"ACK"} THEN Reset
    ELSE IF x = "s" /\ "pending" \notin s.refs THEN Step("Closed", 0, {"RST"})
    ELSE Step("Established", 0, {})

LastAck(p) == IF p.flags = {"ACK"} THEN Step("Closed", 0, {}) ELSE Reset

FinWait1(p) ==
    IF p.flags = {"ACK"} THEN Step("FinWait2", 0, {})
    ELSE IF p.flags = {"FIN"} THEN Step("Closing", 1, {})
    ELSE Reset

\* Mutant: a FIN|ACK is ignored.
FinWait2_Ignore(p) ==
    IF p.flags = {"FIN"} THEN Step("TimeWait", 1, {}) ELSE Step("FinWait2", -1, {})

FinWait2(p) ==
    IF p.flags = {"FIN"} THEN Step("TimeWait", 1, {})
    ELSE IF p.flags = {"ACK", "RST"} THEN Step("Closed", -1, {})
    ELSE Reset

Closing(p) == IF p.flags = {"ACK"} THEN Step("TimeWait", 0, {}) ELSE Reset

\* did_receive: there is room, and the reader is still interested.
Accepts(s, p) == p.data # <<>> /\ ~s.shutR /\ Len(s.buffer) < BufferSize

Established(s, p) ==
    IF "RST" \in p.flags THEN Step("Closed", -1, {})
    ELSE IF "FIN" \in p.flags THEN Step("CloseWait", 1, {"ACK"})
    ELSE Step("Established", 0, IF Accepts(s, p) THEN {"ACK"} ELSE {})

Transition(x, s, p) ==
    CASE s.state = "Closed"      -> Step("Closed", -1, {})
      [] s.state = "SynSent"     -> SynSent(p)
      [] s.state = "SynReceived" -> SynReceived(x, s, p)
      [] s.state = "Established" -> Established(s, p)
      [] s.state = "LastAck"     -> LastAck(p)
      [] s.state = "FinWait1"    -> FinWait1(p)
      [] s.state = "FinWait2"    -> FinWait2(p)
      [] s.state = "Closing"     -> Closing(p)
      [] s.state \in {"CloseWait", "TimeWait"} -> Reset

----------------------------------------------------------------------------
(* handle_tcp: the effects *)

\* release_to_originator: from the listener's table into its accept queue, or
\* into nothing when the queue is full.
Released(refs) ==
    IF "pending" \notin refs THEN refs
    ELSE (refs \ {"pending"}) \union (IF Backlog > 0 THEN {"queue"} ELSE {})

\* set_state: a socket that is Closed leaves closing_sockets and the listener's table.
SetState(s, to) ==
    [s EXCEPT !.state = to, !.refs = IF to = "Closed" THEN Released(@ \ {"closing"}) ELSE @]

\* Mutant: the server's socket is connected as soon as it is established.
Settled_BothConnected(x, was, s) ==
    LET up == s.state = "Established" /\ was # "Established"
    IN  [s EXCEPT !.setup = IF up THEN "Completed" ELSE @, !.connected = @ \/ up,
                  !.refs = IF up THEN Released(@) ELSE @]

\* set_setup_state, set_connected, set_error and release_to_originator, which the
\* state machine calls on the way from state was to s.state.
Settled(x, was, s) ==
    LET up == s.state = "Established" /\ was # "Established"
        refused == was = "SynSent" /\ s.state = "Closed"
    IN  [s EXCEPT !.setup = IF up \/ refused THEN "Completed" ELSE @,
                  !.error = @ \/ refused,
                  !.connected = (@ \/ (up /\ x = "c"))
                                  /\ ~(was = "Established" /\ s.state = "CloseWait"),
                  !.refs = IF up THEN Released(@) ELSE @]

\* The socket and the packets it sends after it was given packet p.
Handle(x, p) ==
    LET s == sock[x]
        step == Transition(x, s, p)
        taken == [s EXCEPT
            !.unacked = IF "ACK" \in p.flags THEN Forget(@, p.ack) ELSE @,
            !.ack = IF step.beyond = -1 THEN @ ELSE Plus(p.seq, Len(p.data) + step.beyond),
            !.buffer = IF s.state = "Established" /\ "RST" \notin p.flags /\ Accepts(s, p)
                       THEN @ \o p.data ELSE @]
        replied == IF step.reply = {} THEN [s |-> taken, out |-> <<>>]
                   ELSE SendPacket(taken, step.reply, <<>>)
    IN  [ s |-> Settled(x, s.state, SetState(replied.s, step.to)), out |-> replied.out ]

\* A socket that nothing refers to any more is destroyed.
Kept(s) == IF s # NoSocket /\ s.refs = {} THEN NoSocket ELSE s

Up == panicked = {}

\* A socket whose readers need not wait, and the readers of x once it is s:
\* evaluate_block_conditions wakes all that wait.
CanRead(s) == s.buffer # <<>> \/ s.shutR \/ Disconnected(s)
Woken(x, s) == [reader EXCEPT ![x] =
    [r \in Readers |-> IF @[r] = "blocked" /\ CanRead(s) THEN "woken" ELSE @[r]]]

\* The readers of x when r has taken what was there.
Beaten(x, r) == [reader EXCEPT ![x] =
    [q \in Readers |-> IF q = r THEN "idle" ELSE IF @[q] = "woken" THEN "beaten" ELSE @[q]]]

\* The i-th packet on the wire to x is taken from it and out goes the other way.
Exchange(x, i, out) ==
    wire' = [wire EXCEPT ![x] = RemoveAt(@, i), ![Peer(x)] = @ \o out]

\* History: the items before the end of packet p, if that is more than n.
Latest(n, x, p) ==
    LET items == (p.seq + Len(p.data) - first[Peer(x)]) % Width
        taken == "SYN" \notin p.flags /\ Transition(x, sock[x], p).beyond # -1
    IN  IF taken /\ items \in n .. sent[Peer(x)] THEN items ELSE n

\* A packet comes to the socket of its tuple.
DeliverToSocket(x) ==
    /\ Up /\ wire[x] # <<>> /\ sock[x] # NoSocket
    /\ LET p == Head(wire[x])
           h == Handle(x, p)
       IN  /\ sock' = [sock EXCEPT ![x] = Kept(h.s)]
           /\ Exchange(x, 1, h.out)
           /\ got' = [got EXCEPT ![x] = @ \o SubSeq(h.s.buffer, Len(sock[x].buffer) + 1, Len(h.s.buffer))]
           /\ reached' = [reached EXCEPT ![x] = Latest(@, x, p)]
           /\ dropped' = [dropped EXCEPT ![x] =
                 IF sock[x].state = "Established" /\ ~Accepts(sock[x], p) THEN @ \union ToSet(p.data) ELSE @]
           /\ reader' = Woken(x, h.s)
    /\ UNCHANGED <<listening, connector, acceptor, sent, first, again, void, panicked>>
    /\ UNCHANGED world

\* The listener gets a SYN from a tuple that has no socket: create_client.  The
\* histories begin again, and what the client sent before belongs to no stream.
DeliverSyn ==
    /\ Up /\ wire["s"] # <<>> /\ sock["s"] = NoSocket /\ listening
    /\ LET p == Head(wire["s"])
           new == [NewSocket({"pending"}) EXCEPT
                     !.setup = "InProgress", !.seq = ServerSeq,
                     !.ack = Plus(p.seq, Len(p.data) + 1)]
           reply == SendPacket(new, {"SYN", "ACK"}, <<>>)
       IN  /\ p.flags = {"SYN"}
           /\ sock' = [sock EXCEPT !["s"] = SetState(reply.s, "SynReceived")]
           /\ Exchange("s", 1, reply.out)
           /\ first' = [first EXCEPT !["s"] = reply.s.seq]
    /\ sent' = [sent EXCEPT !["s"] = 0]
    /\ void' = [c |-> 1 .. sent["c"], s |-> {}]
    /\ got' = [x \in Sides |-> <<>>] /\ reached' = [x \in Sides |-> 0]
    /\ again' = [again EXCEPT !["s"] = {}] /\ dropped' = [x \in Sides |-> {}]
    /\ UNCHANGED <<listening, panicked>> /\ UNCHANGED <<apps, world>>

\* No socket has the packet's tuple, or only the listener has and it is no SYN:
\* it is dropped and nothing is sent.
DeliverNowhere(x) ==
    /\ Up /\ wire[x] # <<>> /\ sock[x] = NoSocket
    /\ ~(x = "s" /\ listening /\ Head(wire[x]).flags = {"SYN"})
    /\ Exchange(x, 1, <<>>)
    /\ UNCHANGED <<sock, listening, panicked>> /\ UNCHANGED <<apps, history, world>>

----------------------------------------------------------------------------
(* System calls *)

\* Bound: one call of write, recvfrom, shutdown or close more.
Call == calls < MaxCalls[mode] /\ calls' = calls + 1 /\ UNCHANGED <<mode, faults, ticks>>

HasFd(x) == sock[x] # NoSocket /\ "fd" \in sock[x].refs

\* connect: protocol_connect sends the SYN and, unless the descriptor is
\* non-blocking, waits until the setup is complete.
Connect(seq, blocking) ==
    /\ Up /\ HasFd("c") /\ connector = "idle"
    /\ LET syn == SendPacket([sock["c"] EXCEPT !.seq = seq, !.setup = "InProgress"], {"SYN"}, <<>>)
       IN  /\ sock' = [sock EXCEPT !["c"] = [syn.s EXCEPT !.state = "SynSent"]]
           /\ wire' = [wire EXCEPT !["s"] = @ \o syn.out]
           /\ first' = [first EXCEPT !["c"] = (syn.s.seq - sent["c"]) % Width]
           /\ again' = [again EXCEPT !["c"] = @ \union Repeated(sock["c"])]
    /\ connector' = IF blocking THEN "blocked" ELSE "done"
    /\ UNCHANGED <<listening, reader, acceptor, sent, got, reached, void, dropped, panicked>>
    /\ UNCHANGED world

ConnectReturn ==
    /\ Up /\ connector = "blocked" /\ sock["c"].setup = "Completed"
    /\ connector' = "done"
    /\ UNCHANGED <<sock, listening, wire, reader, acceptor, panicked>> /\ UNCHANGED <<history, world>>

\* accept: can_accept(), or block until it holds.
AcceptCheck(a) ==
    /\ Up /\ listening /\ acceptor[a] # "checked"
    /\ LET can == sock["s"] # NoSocket /\ "queue" \in sock["s"].refs
       IN  /\ can \/ acceptor[a] = "idle"
           /\ acceptor' = [acceptor EXCEPT ![a] = IF can THEN "checked" ELSE "blocked"]
    /\ UNCHANGED <<sock, listening, wire, reader, connector, panicked>> /\ UNCHANGED <<history, world>>

\* ... then Socket::accept; VERIFY(accepted_socket) and VERIFY(!client->is_connected()).
AcceptTake(a) ==
    /\ Up /\ acceptor[a] = "checked"
    /\ acceptor' = [acceptor EXCEPT ![a] = "idle"]
    /\ LET can == sock["s"] # NoSocket /\ "queue" \in sock["s"].refs
       IN  IF can /\ ~sock["s"].connected
           THEN /\ sock' = [sock EXCEPT !["s"].connected = TRUE, !["s"].setup = "Completed",
                                         !["s"].refs = (@ \ {"queue"}) \union {"fd"}]
                /\ UNCHANGED panicked
           ELSE /\ panicked' = {IF can THEN "is_connected" ELSE "accepted_socket"}
                /\ UNCHANGED sock
    /\ UNCHANGED <<listening, wire, reader, connector>> /\ UNCHANGED <<history, world>>

\* sendmsg: one packet, whatever the state of the socket; write waits until it
\* is connected.
Send(x) ==
    /\ Up /\ Call /\ HasFd(x) /\ ~sock[x].shutW /\ sent[x] < MaxSends
    /\ LET item == sent[x] + 1
           r == SendPacket(sock[x], {"ACK", "PUSH"}, <<item>>)
       IN  /\ sock' = [sock EXCEPT ![x] = r.s]
           /\ wire' = [wire EXCEPT ![Peer(x)] = @ \o r.out]
           /\ sent' = [sent EXCEPT ![x] = item]
           /\ again' = [again EXCEPT ![x] = @ \union Repeated(sock[x])]
           /\ void' = [void EXCEPT ![x] = IF sock[x].connected THEN @ ELSE @ \union {item}]
    /\ UNCHANGED <<listening, got, first, reached, dropped, panicked>> /\ UNCHANGED apps

\* recvfrom, receive_byte_buffered: take what is there, report the end of the
\* stream (no change), or block.
RecvBegin(x, r) ==
    /\ Up /\ Call /\ HasFd(x) /\ ~sock[x].shutR /\ reader[x][r] = "idle"
    /\ \/ /\ sock[x].buffer # <<>>
          /\ sock' = [sock EXCEPT ![x].buffer = <<>>]
          /\ reader' = Beaten(x, r)
       \/ /\ sock[x].buffer = <<>> /\ ~Disconnected(sock[x])
          /\ reader' = [reader EXCEPT ![x][r] = "blocked"]
          /\ UNCHANGED sock
    /\ UNCHANGED <<listening, wire, connector, acceptor, panicked>> /\ UNCHANGED history

\* EINTR, or EAGAIN after the timeout of the socket.
RecvInterrupted(x, r) ==
    /\ Up /\ reader[x][r] = "blocked"
    /\ reader' = [reader EXCEPT ![x][r] = "idle"]
    /\ UNCHANGED <<sock, listening, wire, connector, acceptor, panicked>> /\ UNCHANGED <<history, world>>

\* The thread goes on; VERIFY(!m_receive_buffer.is_empty()).
RecvWake(x, r) ==
    /\ Up /\ reader[x][r] \in {"woken", "beaten"}
    /\ panicked' = IF sock[x].buffer # <<>> THEN {}
                   ELSE {IF reader[x][r] = "beaten" THEN "beaten" ELSE "receive_buffer"}
    /\ sock' = [sock EXCEPT ![x].buffer = <<>>]
    /\ reader' = Beaten(x, r)
    /\ UNCHANGED <<listening, wire, connector, acceptor>> /\ UNCHANGED <<history, world>>

\* shutdown(how): a connected socket only; FIN|ACK if it is Established.
ShutDown(s, how) ==
    LET fin == "W" \in how /\ ~s.shutW /\ s.state = "Established"
        r == IF fin THEN SendPacket(s, {"FIN", "ACK"}, <<>>) ELSE [s |-> s, out |-> <<>>]
        moved == IF fin THEN SetState(r.s, "FinWait1") ELSE r.s
    IN  IF ~s.connected THEN [s |-> s, out |-> <<>>]
        ELSE [ s |-> [moved EXCEPT !.shutR = @ \/ "R" \in how, !.shutW = @ \/ "W" \in how],
               out |-> r.out ]

Shutdown(x, how) ==
    /\ Up /\ Call /\ HasFd(x) /\ sock[x].connected
    /\ LET r == ShutDown(sock[x], how)
       IN  /\ sock' = [sock EXCEPT ![x] = r.s]
           /\ wire' = [wire EXCEPT ![Peer(x)] = @ \o r.out]
           /\ reader' = Woken(x, r.s)
    /\ UNCHANGED <<listening, connector, acceptor, panicked>> /\ UNCHANGED history

\* The last reference to the description goes: TCPSocket::close.  A thread in
\* connect or recvfrom holds a reference.
Close(x) ==
    /\ Up /\ Call /\ HasFd(x) /\ (\A r \in Readers : reader[x][r] = "idle") /\ (x = "c" => connector # "blocked")
    /\ LET r == ShutDown(sock[x], {"R", "W"})
           last == r.s.state = "CloseWait"
           f == IF last THEN SendPacket(r.s, {"FIN", "ACK"}, <<>>) ELSE [s |-> r.s, out |-> <<>>]
           e == IF last THEN SetState(f.s, "LastAck") ELSE f.s
           refs == (e.refs \ {"fd"}) \union (IF e.state = "Closed" THEN {} ELSE {"closing"})
       IN  /\ sock' = [sock EXCEPT ![x] = Kept([e EXCEPT !.refs = refs])]
           /\ wire' = [wire EXCEPT ![Peer(x)] = @ \o r.out \o f.out]
    /\ UNCHANGED <<listening, panicked>> /\ UNCHANGED <<apps, history>>

\* The listener goes, and with it the sockets it alone refers to.
CloseListener ==
    /\ Up /\ Call /\ listening /\ \A a \in Acceptors : acceptor[a] = "idle"
    /\ listening' = FALSE
    /\ sock' = [sock EXCEPT !["s"] =
          IF @ = NoSocket THEN @ ELSE Kept([@ EXCEPT !.refs = @ \ {"pending", "queue"}])]
    /\ UNCHANGED <<wire, panicked>> /\ UNCHANGED <<apps, history>>

----------------------------------------------------------------------------
(* The network and time *)

Fault(x, packets) ==
    /\ Up /\ mode = "lossy" /\ faults < MaxFaults
    /\ faults' = faults + 1
    /\ wire' = [wire EXCEPT ![x] = packets]
    /\ UNCHANGED <<sock, listening, panicked, mode, calls, ticks>> /\ UNCHANGED <<apps, history>>

Lose(x)     == wire[x] # <<>> /\ Fault(x, Tail(wire[x]))
Repeat(x)   == wire[x] # <<>> /\ Fault(x, Append(wire[x], Head(wire[x])))
Overtake(x) == Len(wire[x]) >= 2 /\ Fault(x, Append(Tail(wire[x]), Head(wire[x])))

\* 500 ms pass: what is not acked by now is sent again with the next packet.
Tick ==
    /\ Up /\ ticks < MaxTicks
    /\ \E x \in Sides : Exists(x) /\ sock[x].unacked # <<>>
    /\ ticks' = ticks + 1
    /\ sock' = [x \in Sides |->
          IF sock[x] = NoSocket THEN NoSocket
          ELSE [sock[x] EXCEPT !.unacked = [i \in DOMAIN @ |-> [@[i] EXCEPT !.old = TRUE]]]]
    /\ UNCHANGED <<listening, wire, panicked, mode, calls, faults>> /\ UNCHANGED <<apps, history>>

NetworkTask == DeliverSyn \/ \E x \in Sides : DeliverToSocket(x) \/ DeliverNowhere(x)

Next ==
    \/ \E seq \in InitialSeqs, blocking \in BOOLEAN : Connect(seq, blocking)
    \/ NetworkTask \/ ConnectReturn \/ CloseListener \/ Tick
    \/ \E a \in Acceptors : AcceptCheck(a) \/ AcceptTake(a)
    \/ \E x \in Sides :
          \/ Send(x) \/ Close(x)
          \/ \E r \in Readers : RecvBegin(x, r) \/ RecvInterrupted(x, r) \/ RecvWake(x, r)
          \/ \E how \in {{"R"}, {"W"}} : Shutdown(x, how)
          \/ Lose(x) \/ Repeat(x) \/ Overtake(x)

\* The network task is a thread that takes every packet from the adapters; a
\* thread whose block condition holds is woken and runs.
Fairness == WF_vars(NetworkTask) /\ WF_vars(ConnectReturn)

Spec == Init /\ [][Next]_vars /\ Fairness

----------------------------------------------------------------------------
(* Properties *)

States == {"Closed", "SynSent", "SynReceived", "Established", "CloseWait", "LastAck",
           "FinWait1", "FinWait2", "Closing", "TimeWait"}

\* Between two such hosts a connection uses these states and references only: a
\* socket of the listener is not connected, one in closing_sockets has no
\* descriptor and is not Closed (set_state takes it out), and sequence numbers
\* keep their width.
TypeOK ==
    /\ \A x \in Sides : sock[x] # NoSocket =>
          LET s == sock[x]
          IN  /\ s.state \in States /\ s.seq \in 0 .. Width - 1 /\ s.ack \in 0 .. Width - 1
              /\ s.refs # {}
              /\ s.refs \in {{"fd"}, {"closing"}, {"pending"}, {"queue"}}
              /\ s.refs = {"pending"} => s.state = "SynReceived"
              /\ s.refs = {"closing"} => s.state # "Closed"
              /\ s.refs = {"queue"} => ~s.connected
    /\ connector \in {"idle", "blocked", "done"}
    /\ \A x \in Sides, r \in Readers : reader[x][r] # "idle" => HasFd(x)

\* On a wire that keeps packets, however slow, a side receives what the other
\* wrote without gaps and in order, and an item twice only when it was sent
\* again because its ack took more than 500 ms; a side that was told of the
\* end of the stream (FIN: CloseWait, LastAck) has had all of it.  Losing
\* interest (shutdown for reading), a full buffer and writing before the
\* connection was up are the only ways out.
StreamIntact ==
    /\ TypeOK
    /\ mode = "reliable" => \A x \in Sides : sock[x] # NoSocket =>
          LET lost == dropped[x] \union void[Peer(x)]
          IN  \/ sock[x].shutR
              \/ /\ \A k \in DOMAIN got[x] :
                       /\ 1 .. got[x][k] - 1 \subseteq lost \union {got[x][i] : i \in 1 .. k - 1}
                       /\ got[x][k] \in {got[x][i] : i \in 1 .. k - 1} => got[x][k] \in again[Peer(x)]
                 /\ ToSet(got[x]) \subseteq 1 .. sent[Peer(x)]
                 /\ sock[x].state \in {"CloseWait", "LastAck"}
                       => 1 .. sent[Peer(x)] \subseteq lost \union ToSet(got[x])

\* Whatever the wire does, a packet leaves m_not_acked only when the peer took it,
\* or a packet sent after it (which is all an ack of this code says).  Not so for
\* one that was sent before connect() chose the sequence numbers.
NothingForgottenEarly ==
    \A x \in Sides : sock[x] # NoSocket =>
        \A i \in (1 .. sent[x]) \ void[x] :
            \/ \E k \in DOMAIN sock[x].unacked : sock[x].unacked[k].packet.data = <<i>>
            \/ i <= reached[Peer(x)]

\* The VERIFYs that can fail: recvfrom's, when the stream ends (FIN, RST or
\* shutdown) while the thread waits, or when one packet woke two threads and the
\* other took it; accept's, when two threads saw one connection.
\* VERIFY(!client->is_connected()) never does.
PanicsAreKnown ==
    /\ panicked \subseteq {"receive_buffer", "beaten", "accepted_socket"}
    /\ "receive_buffer" \in panicked =>
          \E x \in Sides : Exists(x) /\ (Disconnected(sock[x]) \/ sock[x].shutR)
    /\ "accepted_socket" \in panicked => Cardinality(Acceptors) > 1

Quiet == \A x \in Sides : wire[x] = <<>>

\* On a wire that keeps packets, when none is left on it, a blocked connect()
\* can return if the listener is there, and of two sockets that were closed not
\* both are in closing_sockets, waiting for each other's packet.
SettledWhenQuiet ==
    Quiet /\ mode = "reliable" =>
        /\ connector = "blocked" /\ listening => sock["c"].setup = "Completed"
        /\ ~\A x \in Sides : Exists(x) /\ sock[x].refs = {"closing"}
                              /\ sock[x].state \in {"FinWait1", "FinWait2", "LastAck"}

\* VERIFY(!m_receive_buffer.is_empty()) in receive_byte_buffered never fails.
ReaderFindsData == panicked \intersect {"receive_buffer", "beaten"} = {}

\* On a wire that keeps packets, nothing is received twice.
NothingTwice == mode = "reliable" => \A x \in Sides : IsInjective(got[x])

\* VERIFY(accepted_socket) in sys$accept never fails.
AcceptFindsSocket == "accepted_socket" \notin panicked

\* Data that fits no buffer is not acked: it stays with its sender.
DroppedIsNotAcked ==
    \A x \in Sides : sock[x] # NoSocket /\ Exists(Peer(x)) /\ ~sock[Peer(x)].shutR =>
        \A i \in 1 .. sent[x] :
            \/ \E k \in DOMAIN sock[x].unacked : sock[x].unacked[k].packet.data = <<i>>
            \/ \E k \in DOMAIN got[Peer(x)] : got[Peer(x)][k] = i

Alive == panicked = {}

\* connect() returns, on a wire that keeps packets, while the listener is there.
ConnectReturns ==
    (connector = "blocked" /\ mode = "reliable") ~> (connector = "done" \/ ~listening \/ ~Alive)

\* Once both ends of a connection are closed, closing_sockets lets both go.
ClosedSocketsGo ==
    (/\ mode = "reliable"
     /\ \A x \in Sides : Exists(x) /\ sock[x].refs = {"closing"}
                           /\ sock[x].state \in {"FinWait1", "FinWait2", "LastAck"})
        ~> ((\A x \in Sides : ~Exists(x)) \/ ~Alive)

\* A socket in closing_sockets does not stay there.
NothingLeaked ==
    (mode = "reliable" /\ Exists("c") /\ sock["c"].refs = {"closing"}) ~> (~Exists("c") \/ ~Alive)

=============================================================================
