----------------------------- MODULE TimerQueue -----------------------------
(***************************************************************************)
(* Kernel/TimeQueue.{h,cpp}: the queue of timers, the timer interrupt that *)
(* fires them, the deferred calls (Arch/i386/CPU.cpp) that run their       *)
(* callbacks, and their two users, a Thread::block() with a timeout and    *)
(* sys$alarm.  One processor, one clock, whose ticks are the unit of time. *)
(*                                                                         *)
(* The interrupt is off in a critical section.  What it fires runs at its  *)
(* own exit (exit_trap), unless it came where m_in_critical is set already *)
(* and interrupts are still on: restore_critical stores it before the cli. *)
(* Then the calls are left for the end of the critical section.            *)
(* Times are relative to the current time.                                 *)
(***************************************************************************)
EXTENDS Integers, Sequences, SequencesExt

CONSTANTS Threads,   \* threads that block with a timeout; their block() timers
          Main,      \* the main thread, which gets SIGALRM
          Alarm,     \* the process's alarm timer
          NoThread,  \* something else runs: another process, or the idle thread
          MaxDelay   \* bound on the timeouts

ASSUME TimerAssumptions ==
    /\ Main \in Threads /\ Alarm \notin Threads /\ NoThread \notin Threads
    /\ MaxDelay \in Nat \ {0}

VARIABLES
    list,                \* Queue::list
    m_expires,           \* Timer::m_expires of the timers in the list
    next_timer_due,      \* Queue::next_timer_due, 0 if the list is empty
    m_timers_executing,  \* TimerQueue::m_timers_executing
    deferred,            \* Processor::m_pending_deferred_calls, oldest first
    cur,                 \* the thread that runs
    m_blocker,           \* the threads whose m_blocker is set
    timeout_unblocked,   \* the threads whose block() has timed out
    pc                   \* where each thread is

queueVars == <<list, m_expires, next_timer_due>>
vars == <<list, m_expires, next_timer_due, m_timers_executing, deferred, cur, m_blocker,
          timeout_unblocked, pc>>

Timers == Threads \cup {Alarm}
Delays == 1..MaxDelay

(* pc[t]:  "out"       not in block()
           "waiting"   in block(), yielded
           "window"    back from Scheduler::yield(), before restore_critical
           "restoring" in restore_critical: m_in_critical is set, interrupts are on
           "critical"  in block() after restore_critical
           "cancel"    in the loop of cancel_timer, in the same critical section
           "leaving"   at the end of block(), about to leave that section *)
PCs == {"out", "waiting", "window", "restoring", "critical", "cancel", "leaving"}

Init ==
    /\ list = <<>>
    /\ m_expires = [t \in Timers |-> 0]
    /\ next_timer_due = 0
    /\ m_timers_executing = {}
    /\ deferred = <<>>
    /\ cur = NoThread
    /\ m_blocker = {}
    /\ timeout_unblocked = {}
    /\ pc = [t \in Threads |-> "out"]

\* Interrupts are off.
InterruptsOff == cur \in Threads /\ pc[cur] \in {"critical", "cancel", "leaving"}

----------------------------------------------------------------------------
(* The queue *)

\* update_next_timer_due.
NextDue(l, expires) == IF l = <<>> THEN 0 ELSE expires[Head(l)]

\* add_timer_locked puts a timer before the first one that expires later.
InsertPosition(l, expires, d) ==
    CHOOSE i \in 1..(Len(l) + 1) :
        /\ \A j \in 1..(i - 1) : expires[l[j]] <= d
        /\ i <= Len(l) => expires[l[i]] > d

AddTimer(l, expires, t, d) == InsertAt(l, InsertPosition(l, expires, d), t)

\* Mutant: the next due time is set for the first timer of an empty list only.
AddedDue_EmptyOnly(l, expires, due, d) == IF l = <<>> THEN d ELSE due

\* add_timer_locked sets the next due time for a timer that comes first.
AddedDue(l, expires, due, d) ==
    IF l = <<>> \/ InsertPosition(l, expires, d) = 1 THEN d ELSE due

\* remove_timer_locked updates it if the timer was the next one.
RemovedDue(l, expires, due, t) ==
    IF l # <<>> /\ Head(l) = t THEN NextDue(RemoveFirst(l, t), expires) ELSE due

\* cancel_timer, for a timer that is not executing.
RemoveTimer(t) ==
    /\ list' = RemoveFirst(list, t)
    /\ m_expires' = [m_expires EXCEPT ![t] = 0]
    /\ next_timer_due' = RemovedDue(list, m_expires, next_timer_due, t)

\* A timer fires when the time is past its deadline.
HasExpired(remaining) == remaining < 0

\* Mutant: only the first of the calls is executed.
ExecuteDeferred_FirstOnly(calls, executing) ==
    LET timed_out == IF calls = <<>> THEN {} ELSE m_blocker \cap {Head(calls)}
    IN  /\ timeout_unblocked' = timeout_unblocked \cup timed_out
        /\ m_blocker' = m_blocker \ timed_out
        /\ m_timers_executing' = executing \ ToSet(calls)
        /\ deferred' = <<>>

\* deferred_call_execute_pending.  A block() timer's callback unblocks its
\* thread, if that is still blocked; the alarm's sends it a signal.
ExecuteDeferred(calls, executing) ==
    LET signalled == {t \in {Main} : Alarm \in ToSet(calls)}
        AlarmBefore(t) == \E i, j \in DOMAIN calls :
                            i < j /\ calls[i] = Alarm /\ calls[j] = t
        timed_out == {t \in m_blocker \cap ToSet(calls) : ~(t = Main /\ AlarmBefore(t))}
    IN  /\ timeout_unblocked' = timeout_unblocked \cup timed_out
        /\ m_blocker' = m_blocker \ (signalled \cup timed_out)
        /\ m_timers_executing' = executing \ ToSet(calls)
        /\ deferred' = <<>>

\* exit_trap: smp_process_pending_messages leaves a critical section, the outermost
\* one (which executes the calls) unless the interrupted code is in one.
ExitTrap(calls, executing) ==
    IF cur \in Threads /\ pc[cur] = "restoring"
      THEN /\ deferred' = calls
           /\ m_timers_executing' = executing
           /\ UNCHANGED <<m_blocker, timeout_unblocked>>
      ELSE ExecuteDeferred(calls, executing)

\* The VERIFY of fire().
HeadIsDue == list # <<>> => next_timer_due = m_expires[Head(list)]

\* The timer interrupt.  fire(): one timer after the other, from the head of the
\* list, until one that has not expired; each is left to a deferred call.
Tick ==
    LET passed == [t \in Timers |-> IF t \in ToSet(list) THEN m_expires[t] - 1 ELSE 0]
        n      == CHOOSE n \in 0..Len(list) :
                    /\ \A i \in 1..n : HasExpired(passed[list[i]])
                    /\ n < Len(list) => ~HasExpired(passed[list[n + 1]])
        fired  == SubSeq(list, 1, n)
    IN  /\ ~InterruptsOff
        /\ HeadIsDue
        /\ list' = SubSeq(list, n + 1, Len(list))
        /\ m_expires' = [t \in Timers |-> IF t \in ToSet(fired) THEN 0 ELSE passed[t]]
        /\ next_timer_due' = IF n > 0 THEN NextDue(list', m_expires')
                             ELSE IF list # <<>> THEN next_timer_due - 1 ELSE next_timer_due
        /\ ExitTrap(deferred \o fired, m_timers_executing \cup ToSet(fired))
        /\ UNCHANGED <<cur, pc>>

----------------------------------------------------------------------------
(* The scheduler *)

Schedule(t) ==
    /\ cur = NoThread
    /\ t \notin m_blocker
    /\ cur' = t
    /\ pc' = [pc EXCEPT ![t] = IF @ = "waiting" THEN "window" ELSE @]
    /\ UNCHANGED <<queueVars, m_timers_executing, deferred, m_blocker, timeout_unblocked>>

Preempt(t) ==
    /\ cur = t
    /\ pc[t] \in {"out", "window"}
    /\ cur' = NoThread
    /\ UNCHANGED <<queueVars, m_timers_executing, deferred, m_blocker, timeout_unblocked, pc>>

----------------------------------------------------------------------------
(* Thread::block() with a timeout *)

\* add_timer_without_id, and the yield.  (With a deadline that has passed
\* block() returns at once.)
Block(t, d) ==
    /\ cur = t /\ pc[t] = "out"
    /\ list' = AddTimer(list, m_expires, t, d)
    /\ m_expires' = [m_expires EXCEPT ![t] = d]
    /\ next_timer_due' = AddedDue(list, m_expires, next_timer_due, d)
    /\ m_blocker' = m_blocker \cup {t}
    /\ pc' = [pc EXCEPT ![t] = "waiting"]
    /\ cur' = NoThread
    /\ UNCHANGED <<m_timers_executing, deferred, timeout_unblocked>>

\* The blocker is unblocked by what it waits for.
Wake(t) ==
    /\ ~InterruptsOff
    /\ t \in m_blocker
    /\ m_blocker' = m_blocker \ {t}
    /\ UNCHANGED <<queueVars, m_timers_executing, deferred, cur, timeout_unblocked, pc>>

\* restore_critical, after the yield: first the store, then the cli.
Resume(t) ==
    /\ cur = t
    /\ \/ pc[t] = "window" /\ pc' = [pc EXCEPT ![t] = "restoring"]
       \/ pc[t] = "restoring" /\ pc' = [pc EXCEPT ![t] = "critical"]
    /\ UNCHANGED <<queueVars, m_timers_executing, deferred, cur, m_blocker, timeout_unblocked>>

\* Mutant: cancel_timer does not look at m_timers_executing.
MustWait_Never(t) == FALSE

\* cancel_timer waits until a callback that is executing has finished.
MustWait(t) == t \in m_timers_executing

\* The rest of block(): cancel the timer if it is not what unblocked us.
EndBlock(t) ==
    /\ cur = t /\ pc[t] \in {"critical", "cancel"}
    /\ IF t \notin timeout_unblocked /\ MustWait(t)
         THEN /\ pc' = [pc EXCEPT ![t] = "cancel"]
              /\ UNCHANGED <<queueVars, timeout_unblocked>>
         ELSE /\ pc' = [pc EXCEPT ![t] = "leaving"]
              /\ timeout_unblocked' = timeout_unblocked \ {t}
              /\ RemoveTimer(t)
    /\ UNCHANGED <<m_timers_executing, deferred, cur, m_blocker>>

\* leave_critical, when block() returns.
Leave(t) ==
    /\ cur = t /\ pc[t] = "leaving"
    /\ pc' = [pc EXCEPT ![t] = "out"]
    /\ ExecuteDeferred(deferred, m_timers_executing)
    /\ UNCHANGED <<queueVars, cur>>

----------------------------------------------------------------------------
\* sys$alarm: cancel the previous alarm, and set a new one unless d is 0.
SetAlarm(t, d) ==
    /\ cur = t /\ pc[t] = "out"
    /\ LET rest    == RemoveFirst(list, Alarm)
           expires == [m_expires EXCEPT ![Alarm] = d]
           due     == RemovedDue(list, m_expires, next_timer_due, Alarm)
       IN  /\ list' = IF d = 0 THEN rest ELSE AddTimer(rest, expires, Alarm, d)
           /\ m_expires' = expires
           /\ next_timer_due' = IF d = 0 THEN due ELSE AddedDue(rest, expires, due, d)
    /\ UNCHANGED <<m_timers_executing, deferred, cur, m_blocker, timeout_unblocked, pc>>

----------------------------------------------------------------------------
KernelStep(t) == Resume(t) \/ EndBlock(t) \/ Leave(t)

Next ==
    \/ Tick
    \/ \E t \in Threads :
        \/ KernelStep(t) \/ Schedule(t) \/ Preempt(t) \/ Wake(t)
        \/ \E d \in Delays : Block(t, d)
        \/ \E d \in Delays \cup {0} : SetAlarm(t, d)

Spec == Init /\ [][Next]_vars

\* The clock ticks (an interrupt that comes in a critical section waits for its
\* end), and threads are scheduled in turn.
FairSpec ==
    /\ Spec
    /\ SF_vars(Tick)
    /\ \A t \in Threads : /\ SF_vars(Schedule(t)) /\ WF_vars(Preempt(t))
                          /\ SF_vars(KernelStep(t))

----------------------------------------------------------------------------
\* Types: no timer in the list is past its deadline when fire() is done, and a
\* deadline of 0 is one that is due with the next tick.
TypeOK ==
    /\ list \in Seq(Timers)
    /\ m_expires \in [Timers -> 0..MaxDelay]
    /\ next_timer_due \in 0..MaxDelay
    /\ m_timers_executing \subseteq Timers
    /\ deferred \in Seq(Timers)
    /\ cur \in Threads \cup {NoThread}
    /\ m_blocker \subseteq Threads
    /\ timeout_unblocked \subseteq Threads
    /\ pc \in [Threads -> PCs]

\* The VERIFY of fire() never fails, whatever was added and cancelled in between and
\* though the next due time is only set in some branches of that; and the list is
\* ordered, so that no timer that has expired stays behind one that has not.
DueIsHead ==
    /\ TypeOK
    /\ HeadIsDue
    /\ \A i \in DOMAIN list : \A j \in 1..i : m_expires[list[j]] <= m_expires[list[i]]

\* block() does not go beyond cancel_timer before its timer's callback, which writes
\* to its stack frame, has run or can no longer run: also if the callback was put
\* off because the interrupt came in restore_critical.
NoStrayCallback ==
    \A t \in Threads : pc[t] \in {"leaving", "out"} =>
        t \notin ToSet(list) \cup m_timers_executing \cup ToSet(deferred)

\* A thread that blocks with a timeout does not block for ever, unless another
\* one waits in cancel_timer for a call that only its own critical section's end runs.
TimeoutsWork ==
    \A t \in Threads : pc[t] = "waiting" ~> pc[t] # "waiting" \/ \E u \in Threads : pc[u] = "cancel"

\* cancel_timer does not loop for long: the callback it waits for finishes.
CancelReturns == \A t \in Threads : pc[t] = "cancel" ~> pc[t] # "cancel"
=============================================================================
