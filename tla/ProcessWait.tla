----------------------------- MODULE ProcessWait -----------------------------
(***************************************************************************)
(* sys$waitid and sys$disown: the WaitBlockCondition of a parent process   *)
(* (Kernel/ThreadBlockers.cpp, Thread.h), the threads of the parent that   *)
(* wait on it, and its children, which stop, continue and die              *)
(* (Process::finalize, Thread::set_state).  One processor.                 *)
(*                                                                         *)
(* waitid is one step from its call until it blocks.  A death is two: the  *)
(* finalizer thread first sends SIGCHLD, then tells the waiters.  SIGCHLD  *)
(* goes to the parent's main thread.  That the parent itself is stopped is *)
(* left to ThreadBlocking.                                                 *)
(***************************************************************************)
EXTENDS Naturals, Sequences, SequencesExt

CONSTANTS Threads,   \* the threads of the parent
          Main,      \* the one that gets the signals
          Children,  \* its children
          Group,     \* the children in the process group P_PGID asks for
          Traced,    \* the children that are traced
          Options,   \* the sets of options waitid is called with
          Handled,   \* the signals the parent has handlers for
          Stops      \* whether children are stopped and continued

ASSUME WaitAssumptions ==
    /\ Main \in Threads
    /\ Group \subseteq Children /\ Traced \subseteq Children
    /\ Handled \subseteq {"SIGCHLD", "SIGUSR1"}
    /\ Options \subseteq SUBSET {"WNOHANG", "WUNTRACED", "WEXITED", "WCONTINUED", "WNOWAIT"}
    /\ Stops \in BOOLEAN

VARIABLES
    state,           \* of each child: see below
    disowned,        \* the children whose m_ppid is 0
    m_processes,     \* WaitBlockCondition::m_processes
    m_blockers,      \* the threads whose blockers are registered
    m_finalized,     \* WaitBlockCondition::m_finalized
    request,         \* a thread's id_type, the children it means, and its options
    m_result,        \* its m_result; m_did_unblock is that it is there
    interrupted_by,  \* the signal that interrupted its blocker
    eintr,           \* whether block() is going to say that it was interrupted
    pc,              \* where it is
    collected,       \* history: the children whose latest state a waitid took
    retaken,         \* history: the children of which two calls took the same state
    returned,        \* history: the children whose death a waitid took and returned
    verify_failed    \* whether a VERIFY failed

vars == <<state, disowned, m_processes, m_blockers, m_finalized, request, m_result,
          interrupted_by, eintr, pc, collected, retaken, returned, verify_failed>>

(* state[c]:  "Running", "Stopped"
              "Dead"       m_dead, and SIGCHLD has been sent
              "Finalized"  the waiters have been told, the finalizer is done
   pc[t]:     "out"        outside waitid
              "blocked"    asleep
              "unblocked"  woken or interrupted, before end_blocking
              "relock"     taking the big lock back; the blocker still exists *)
NoResult == [process |-> "none", flags |-> "none"]
Flags == {"Terminated", "Stopped", "Continued"}
Ids == {[type |-> "P_ALL", who |-> Children], [type |-> "P_PGID", who |-> Group]}
         \cup {[type |-> "P_PID", who |-> {c}] : c \in Children}
Requests == [id : Ids, options : Options]
NoRequest == [id |-> [type |-> "P_ALL", who |-> {}], options |-> {}]

Init ==
    /\ state = [c \in Children |-> "Running"]
    /\ disowned = {}
    /\ m_processes = <<>>
    /\ m_blockers = {}
    /\ m_finalized = FALSE
    /\ request = [t \in Threads |-> NoRequest]
    /\ m_result = [t \in Threads |-> NoResult]
    /\ interrupted_by = [t \in Threads |-> "none"]
    /\ eintr = [t \in Threads |-> FALSE]
    /\ pc = [t \in Threads |-> "out"]
    /\ collected = {}
    /\ retaken = {}
    /\ returned = {}
    /\ verify_failed = FALSE

Listed(c) == \E i \in DOMAIN m_processes : m_processes[i].process = c

\* from_pid still finds the child: the finalizer, the list, or the m_waitee of a
\* blocker holds a reference.
Exists(c) ==
    \/ state[c] # "Finalized" \/ Listed(c)
    \/ \E t \in Threads : pc[t] # "out" /\ request[t].id = [type |-> "P_PID", who |-> {c}]

----------------------------------------------------------------------------
(* WaitBlocker *)

IsWait(r) == "WNOWAIT" \notin r.options

\* The part of WaitBlocker::unblock that says whether the blocker waits for this.
WaitsFor(r, c, flags) ==
    /\ c \in r.id.who
    /\ \/ flags = "Terminated" /\ "WEXITED" \in r.options
       \/ flags = "Stopped" /\ "WUNTRACED" \in r.options
       \/ /\ flags = "Continued" /\ "WCONTINUED" \in r.options
          /\ "WUNTRACED" \in r.options \/ c \in Traced

\* What do_set_result makes of the signal that interrupted the blocker.
ClearSigchld(signal) == IF signal = "SIGCHLD" THEN "none" ELSE signal

\* The first entry of the list that a waiter takes.
FirstMatch(matches) == CHOOSE i \in matches : \A j \in matches : i <= j

\* Mutant: the entry stays, and can be waited for again.
Consume_Keeps(r, i) == m_processes

\* should_add_blocker takes a state for a blocker: only a death goes away.
Consume(r, i) ==
    IF m_processes[i].flags = "Terminated" /\ IsWait(r)
      THEN RemoveAt(m_processes, i) ELSE m_processes

\* The entries should_add_blocker would let the request have.
Matches(r) ==
    {i \in DOMAIN m_processes : WaitsFor(r, m_processes[i].process, m_processes[i].flags)}

\* The constructor's check of P_PID; the group of P_PGID exists.
Refused(r) ==
    r.id.type = "P_PID" /\ \E c \in r.id.who : ~Exists(c) \/ c \in disowned

\* The latest state of c goes to the request r.
Take(r, c) ==
    /\ collected' = IF IsWait(r) THEN collected \cup {c} ELSE collected
    /\ retaken' = IF IsWait(r) /\ c \in collected THEN retaken \cup {c} ELSE retaken

\* waitid returns at once, with a state of the list.
WaitFound(t, r) ==
    LET i     == FirstMatch(Matches(r))
        entry == m_processes[i]
    IN  /\ pc[t] = "out" /\ ~m_finalized
        /\ ~Refused(r) /\ Matches(r) # {}
        /\ m_processes' = Consume(r, i)
        /\ Take(r, entry.process)
        /\ returned' = IF IsWait(r) /\ entry.flags = "Terminated"
                         THEN returned \cup {entry.process} ELSE returned
        /\ UNCHANGED <<state, disowned, m_blockers, m_finalized, request, m_result, interrupted_by,
                       eintr, pc, verify_failed>>

\* waitid blocks.  (With WNOHANG it returns, without an effect.)
WaitBlocks(t, r) ==
    /\ pc[t] = "out" /\ ~m_finalized
    /\ ~Refused(r) /\ Matches(r) = {}
    /\ "WNOHANG" \notin r.options
    /\ m_blockers' = m_blockers \cup {t}
    /\ request' = [request EXCEPT ![t] = r]
    /\ pc' = [pc EXCEPT ![t] = "blocked"]
    /\ UNCHANGED <<state, disowned, m_processes, m_finalized, m_result, interrupted_by, eintr,
                   collected, retaken, returned, verify_failed>>

\* A signal arrives at the main thread.
Signal ==
    /\ "SIGUSR1" \in Handled
    /\ pc[Main] = "blocked"
    /\ interrupted_by' = [interrupted_by EXCEPT ![Main] = "SIGUSR1"]
    /\ pc' = [pc EXCEPT ![Main] = "unblocked"]
    /\ UNCHANGED <<state, disowned, m_processes, m_blockers, m_finalized, request, m_result, eintr,
                   collected, retaken, returned, verify_failed>>

\* block_result
WasInterrupted(signal) == signal # "none"

\* end_blocking, with try_unblock if nobody has set a result yet.
EndBlocking(t) ==
    LET r       == request[t]
        matches == {i \in Matches(r) : ~(m_processes[i].was_waited /\ IsWait(r))}
        i       == FirstMatch(matches)
        entry   == m_processes[i]
        retry   == m_result[t] = NoResult /\ matches # {}
    IN  /\ pc[t] = "unblocked"
        /\ IF retry
             THEN /\ m_result' = [m_result EXCEPT ![t] =
                                    [process |-> entry.process, flags |-> entry.flags]]
                  /\ interrupted_by' = [interrupted_by EXCEPT ![t] = ClearSigchld(@)]
                  /\ m_processes' = IF IsWait(r) /\ entry.flags # "Terminated"
                                      THEN [m_processes EXCEPT ![i].was_waited = TRUE]
                                      ELSE Consume(r, i)
                  /\ Take(r, entry.process)
             ELSE UNCHANGED <<m_result, interrupted_by, m_processes, collected, retaken>>
        /\ eintr' = [eintr EXCEPT ![t] = WasInterrupted(interrupted_by'[t])]
        /\ pc' = [pc EXCEPT ![t] = "relock"]
        /\ UNCHANGED <<state, disowned, m_blockers, m_finalized, request, returned, verify_failed>>

\* block() has the big lock again and destroys the blocker; do_waitid VERIFYs
\* that there is a result, and waitid returns.
Return(t) ==
    /\ pc[t] = "relock"
    /\ m_blockers' = m_blockers \ {t}
    /\ returned' = IF ~eintr[t] /\ IsWait(request[t]) /\ m_result[t].flags = "Terminated"
                     THEN returned \cup {m_result[t].process} ELSE returned
    /\ verify_failed' = (~eintr[t] /\ m_result[t] = NoResult)
    /\ request' = [request EXCEPT ![t] = NoRequest]
    /\ m_result' = [m_result EXCEPT ![t] = NoResult]
    /\ interrupted_by' = [interrupted_by EXCEPT ![t] = "none"]
    /\ eintr' = [eintr EXCEPT ![t] = FALSE]
    /\ pc' = [pc EXCEPT ![t] = "out"]
    /\ UNCHANGED <<state, disowned, m_processes, m_finalized, collected, retaken>>

----------------------------------------------------------------------------
(* WaitBlockCondition *)

\* Mutant: a death is not listed if somebody only looked at it (WNOWAIT).
UpdateList_LookIsEnough(c, flags, hit) ==
    IF hit # {} THEN m_processes
    ELSE Append(m_processes, [process |-> c, flags |-> flags, was_waited |-> FALSE])

\* Unless a waiter took c's death, its state is listed: in the place of its
\* previous one, if there is one.
UpdateList(c, flags, hit) ==
    LET did_wait == \E t \in hit : IsWait(request[t])
    IN  IF flags = "Terminated" /\ did_wait THEN m_processes
        ELSE IF Listed(c)
          THEN [i \in DOMAIN m_processes |->
                  IF m_processes[i].process = c
                    THEN [process |-> c, flags |-> flags, was_waited |-> did_wait]
                    ELSE m_processes[i]]
        ELSE Append(m_processes, [process |-> c, flags |-> flags, was_waited |-> FALSE])

\* Mutant: a child that is listed already unblocks nobody.
Hit_NotListed(c, flags) ==
    {t \in m_blockers : /\ m_result[t] = NoResult
                        /\ WaitsFor(request[t], c, flags)
                        /\ flags # "Terminated" => ~Listed(c)}

\* The blockers WaitBlockCondition::unblock unblocks.
Hit(c, flags) ==
    LET was_waited_already ==
          /\ flags # "Terminated"
          /\ \E i \in DOMAIN m_processes : m_processes[i].process = c /\ m_processes[i].was_waited
    IN  {t \in m_blockers : /\ m_result[t] = NoResult
                            /\ WaitsFor(request[t], c, flags)
                            /\ ~(was_waited_already /\ IsWait(request[t]))}

\* WaitBlockCondition::unblock, and a SIGCHLD right after it if sigchld.  The
\* VERIFY is about a child that is listed as dead already.
Unblock(c, flags, sigchld) ==
    LET hit    == Hit(c, flags)
        awake  == [t \in Threads |-> IF t \in hit /\ pc[t] = "blocked" THEN "unblocked" ELSE pc[t]]
        signal == sigchld /\ awake[Main] = "blocked"
    IN  /\ m_result' = [t \in Threads |-> IF t \in hit THEN [process |-> c, flags |-> flags]
                                          ELSE m_result[t]]
        /\ interrupted_by' = [t \in Threads |->
                                IF t \in hit THEN ClearSigchld(interrupted_by[t])
                                ELSE IF t = Main /\ signal THEN "SIGCHLD"
                                ELSE interrupted_by[t]]
        /\ pc' = [awake EXCEPT ![Main] = IF signal THEN "unblocked" ELSE @]
        /\ m_blockers' = m_blockers \ hit
        /\ m_processes' = UpdateList(c, flags, hit)
        /\ collected' = IF \E t \in hit : IsWait(request[t])
                          THEN collected \cup {c} ELSE collected \ {c}
        /\ verify_failed' = \E i \in DOMAIN m_processes :
                              m_processes[i].process = c /\ m_processes[i].flags = "Terminated"

\* unblock_waiters: the parent may be gone.
UnblockWaiters(c, flags, sigchld) ==
    IF c \notin disowned /\ ~m_finalized
      THEN Unblock(c, flags, sigchld)
      ELSE UNCHANGED <<m_result, interrupted_by, pc, m_blockers, m_processes, collected,
                       verify_failed>>

----------------------------------------------------------------------------
(* The children *)

\* Thread::set_state of a child that stops or continues tells the waiters, then
\* sends SIGCHLD.
ChangeState(c, from, to, flags) ==
    /\ Stops
    /\ state[c] = from
    /\ state' = [state EXCEPT ![c] = to]
    /\ UnblockWaiters(c, flags, "SIGCHLD" \in Handled)
    /\ UNCHANGED <<disowned, m_finalized, request, eintr, retaken, returned>>

Stop(c) == ChangeState(c, "Running", "Stopped", "Stopped")
Continue(c) == ChangeState(c, "Stopped", "Running", "Continued")

\* The first half of Process::finalize.  (A stopped child is continued before
\* it dies.)
Die(c) ==
    LET signal == "SIGCHLD" \in Handled /\ c \notin disowned /\ pc[Main] = "blocked"
    IN  /\ state[c] = "Running"
        /\ state' = [state EXCEPT ![c] = "Dead"]
        /\ interrupted_by' = [interrupted_by EXCEPT ![Main] = IF signal THEN "SIGCHLD" ELSE @]
        /\ pc' = [pc EXCEPT ![Main] = IF signal THEN "unblocked" ELSE @]
        /\ UNCHANGED <<disowned, m_processes, m_blockers, m_finalized, request, m_result, eintr,
                       collected, retaken, returned, verify_failed>>

\* The second half.
Finalize(c) ==
    /\ state[c] = "Dead"
    /\ state' = [state EXCEPT ![c] = "Finalized"]
    /\ UnblockWaiters(c, "Terminated", FALSE)
    /\ UNCHANGED <<disowned, m_finalized, request, eintr, retaken, returned>>

\* sys$disown.  It asks the child's own WaitBlockCondition, which lists the
\* child's children, for entries of the parent, and there are none.
Disown(t, c) ==
    /\ pc[t] = "out" /\ ~m_finalized
    /\ Exists(c) /\ c \notin disowned
    /\ disowned' = disowned \cup {c}
    /\ UNCHANGED <<state, m_processes, m_blockers, m_finalized, request, m_result, interrupted_by,
                   eintr, pc, collected, retaken, returned, verify_failed>>

\* The parent's own Process::finalize, when all of its threads are gone.
FinalizeParent ==
    /\ \A t \in Threads : pc[t] = "out"
    /\ ~m_finalized
    /\ m_finalized' = TRUE
    /\ m_processes' = <<>>
    /\ UNCHANGED <<state, disowned, m_blockers, request, m_result, interrupted_by, eintr, pc,
                   collected, retaken, returned, verify_failed>>

----------------------------------------------------------------------------
Next ==
    /\ ~verify_failed
    /\ \/ \E t \in Threads :
            \/ \E r \in Requests : WaitFound(t, r) \/ WaitBlocks(t, r)
            \/ EndBlocking(t) \/ Return(t)
            \/ \E c \in Children : Disown(t, c)
       \/ \E c \in Children : Stop(c) \/ Continue(c) \/ Die(c) \/ Finalize(c)
       \/ Signal \/ FinalizeParent

Spec == Init /\ [][Next]_vars

----------------------------------------------------------------------------
\* Types: in particular WaitBlockCondition lists a child at most once.
TypeOK ==
    /\ state \in [Children -> {"Running", "Stopped", "Dead", "Finalized"}]
    /\ disowned \subseteq Children
    /\ m_processes \in Seq([process : Children, flags : Flags, was_waited : BOOLEAN])
    /\ \A i, j \in DOMAIN m_processes : m_processes[i].process = m_processes[j].process => i = j
    /\ m_blockers \subseteq Threads
    /\ m_finalized \in BOOLEAN
    /\ request \in [Threads -> Requests \cup {NoRequest}]
    /\ m_result \in [Threads -> [process : Children, flags : Flags] \cup {NoResult}]
    /\ interrupted_by \in [Threads -> {"none", "SIGCHLD", "SIGUSR1"}]
    /\ eintr \in [Threads -> BOOLEAN]
    /\ pc \in [Threads -> {"out", "blocked", "unblocked", "relock"}]
    /\ collected \subseteq Children /\ retaken \subseteq Children /\ returned \subseteq Children
    /\ verify_failed \in BOOLEAN

\* Whoever sleeps for the death of a child is not asleep when that child is dead
\* and nobody has taken its death: unblock and should_add_blocker leave no gap.
NobodyMissesDeath ==
    \A t \in Threads, c \in Children :
        ~(/\ pc[t] = "blocked" /\ WaitsFor(request[t], c, "Terminated")
          /\ state[c] = "Finalized" /\ c \notin disowned /\ c \notin collected)

\* The same for a child that has stopped or continued and whose new state nobody
\* has waited for.
NobodyMissesState ==
    \A t \in Threads : \A i \in DOMAIN m_processes :
        pc[t] = "blocked" /\ WaitsFor(request[t], m_processes[i].process, m_processes[i].flags) =>
            m_processes[i].was_waited

\* Nobody who waits for a child misses what happens to it.
NobodyMisses == NobodyMissesDeath /\ NobodyMissesState

\* The death of c is listed, returned, or on its way to the caller of a waitid.
DeathKept(c) ==
    state[c] = "Finalized" /\ c \notin disowned /\ ~m_finalized =>
        \/ \E i \in DOMAIN m_processes :
              m_processes[i].process = c /\ m_processes[i].flags = "Terminated"
        \/ c \in returned
        \/ \E t \in Threads : /\ m_result[t] = [process |-> c, flags |-> "Terminated"]
                              /\ IsWait(request[t])
                              /\ IF pc[t] = "relock" THEN ~eintr[t] ELSE interrupted_by[t] = "none"

\* The death of a child is listed until a waitid returns it to its caller.
NoStatusLost == \A c \in Children : DeathKept(c)

\* WaitBlockCondition loses a death only to a waitid that a signal has interrupted,
\* and no VERIFY of its unblock() or of do_waitid fails.
OnlyInterruptedLose ==
    [][~verify_failed' /\ \A c \in Children : DeathKept(c) /\ ~DeathKept(c)' =>
          \E t \in Threads : interrupted_by[t] # "none" /\ m_result'[t].process = c]_vars

\* A death that a waitid has returned is not listed for another.
DeathTakenOnce ==
    /\ TypeOK
    /\ \A i \in DOMAIN m_processes :
          m_processes[i].flags = "Terminated" => m_processes[i].process \notin returned

\* A dead child whose death was returned is let go of.
NoZombieKept == \A c \in Children : c \in returned => ~Listed(c)

\* So is a child that died after it was disowned: the kernel reaps it.
DisownedIsReaped ==
    \A c \in disowned : state[c] = "Finalized" => ~Listed(c)

\* Disowning a child wakes whoever waits for it, and for nothing else.
DisownWakesWaiters ==
    \A t \in Threads :
        ~(pc[t] = "blocked" /\ request[t].id.type = "P_PID" /\ request[t].id.who \subseteq disowned)

\* A state that one call has waited for is not returned to a later one.
StateTakenOnce == retaken = {}
=============================================================================
