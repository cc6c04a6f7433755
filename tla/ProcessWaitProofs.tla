------------------------- MODULE ProcessWaitProofs -------------------------
(***************************************************************************)
(* Proofs about ProcessWait, for every parent and every set of children:   *)
(* a death is returned once, whom it may miss, and how it can get lost.    *)
(***************************************************************************)
EXTENDS ProcessWait, WaitQueueProofs, TLAPS

Entry == [process : Children, flags : Flags, was_waited : BOOLEAN]

\* What m_processes holds, its order left aside.
EntriesOf(s) == {s[i] : i \in DOMAIN s}
Entries == EntriesOf(m_processes)

\* A list of states, with one entry for a child at most.
IsList(s) ==
    /\ s \in Seq(Entry)
    /\ \A i, j \in DOMAIN s : s[i].process = s[j].process => i = j

(* The inductive invariant.                                                  *)

\* A thread whose blocker is registered and has not been given a state.
Waiting(t) == t \in m_blockers /\ m_result[t] = NoResult

\* Where a caller of waitid is: who sleeps is registered, and who leaves without
\* a state was interrupted.
Callers ==
    /\ m_finalized => Entries = {} /\ \A t \in Threads : pc[t] = "out"
    /\ \A t \in Threads :
          /\ pc[t] = "out" => /\ t \notin m_blockers /\ m_result[t] = NoResult
                              /\ interrupted_by[t] = "none"
          /\ pc[t] = "blocked" => Waiting(t) /\ interrupted_by[t] = "none"
          /\ pc[t] \in {"unblocked", "relock"} /\ m_result[t] = NoResult =>
                t \in m_blockers /\ interrupted_by[t] # "none"
          /\ pc[t] = "relock" /\ m_result[t] = NoResult => eintr[t]

\* What is known of a dead child: its death is listed until a caller takes it.
Deaths ==
    /\ \A e \in Entries : e.flags = "Terminated" =>
          state[e.process] = "Finalized" /\ e.process \notin returned
    /\ \A t \in Threads : m_result[t].flags = "Terminated" =>
          /\ state[m_result[t].process] = "Finalized"
          /\ IsWait(request[t]) =>
                \A e \in Entries : e.flags = "Terminated" => e.process # m_result[t].process
    /\ \A c \in returned : state[c] = "Finalized"
    /\ \A c \in Children :
          state[c] = "Finalized" /\ c \notin disowned /\ ~m_finalized /\ c \notin collected =>
             \E e \in Entries : e.process = c /\ e.flags = "Terminated"

\* Who waits has been told: nothing it waits for is listed, but perhaps that a
\* traced child stopped or continued.
Told ==
    \A t \in Threads : Waiting(t) =>
        \A e \in Entries : WaitsFor(request[t], e.process, e.flags) =>
            e.flags # "Terminated" /\ e.process \in Traced

\* The entry of an untraced child follows its stops, and only a stop is ever
\* marked as waited for.
Follows ==
    \A e \in Entries : e.process \notin Traced =>
        /\ e.was_waited => e.flags = "Stopped"
        /\ e.process \notin disowned =>
              (e.flags = "Stopped" <=> state[e.process] = "Stopped")

IInv == TypeOK /\ Callers /\ Deaths /\ Told /\ Follows

----------------------------------------------------------------------------
(* The list. *)

\* The loops over the list find an entry if there is one.
LEMMA FirstMatchIsMatch ==
    ASSUME NEW s, IsList(s), NEW matches, matches \subseteq DOMAIN s, matches # {}
    PROVE  FirstMatch(matches) \in matches
<1>1. matches \subseteq Nat
  BY DEF IsList
<1>2. \E x \in matches : \A y \in matches : x <= y
  BY <1>1, LeastNumber
<1> QED  BY <1>2 DEF FirstMatch

\* Taking an entry out.
LEMMA RemovedEntry ==
    ASSUME NEW s, IsList(s), NEW i \in DOMAIN s
    PROVE  /\ IsList(RemoveAt(s, i))
           /\ EntriesOf(RemoveAt(s, i)) = EntriesOf(s) \ {s[i]}
<1> DEFINE r == RemoveAt(s, i)
<1>1. s \in Seq(Entry) /\ i \in 1..Len(s) /\ Len(s) \in Nat /\ DOMAIN s = 1..Len(s)
  BY DEF IsList
<1>2. r \in Seq(Entry)
  BY <1>1 DEF RemoveAt
<1>3. /\ Len(r) = Len(s) - 1
      /\ DOMAIN r = 1..(Len(s) - 1)
      /\ \A j \in 1..(Len(s) - 1) : r[j] = IF j < i THEN s[j] ELSE s[j + 1]
  BY <1>1, RemoveAtProperties
<1> HIDE DEF r
<1>4. \A j \in DOMAIN r : \E k \in DOMAIN s : k # i /\ r[j] = s[k] /\ k = (IF j < i THEN j ELSE j + 1)
  BY <1>1, <1>3
<1>5. \A k \in DOMAIN s : k # i => \E j \in DOMAIN r : r[j] = s[k]
  <2> TAKE k \in DOMAIN s
  <2> HAVE k # i
  <2>1. CASE k < i
    <3>1. k \in DOMAIN r /\ r[k] = s[k]
      BY <1>1, <1>3, <2>1
    <3> QED  BY <3>1
  <2>2. CASE k > i
    <3>1. k - 1 \in DOMAIN r /\ r[k - 1] = s[k]
      BY <1>1, <1>3, <2>2
    <3> QED  BY <3>1
  <2> QED  BY <1>1, <2>1, <2>2
<1>6. \A k \in DOMAIN s : s[k] = s[i] => k = i
  BY DEF IsList
<1>7. EntriesOf(r) = EntriesOf(s) \ {s[i]}
  BY <1>4, <1>5, <1>6 DEF EntriesOf
<1>8. \A j, k \in DOMAIN r : r[j].process = r[k].process => j = k
  BY <1>1, <1>3, <1>4 DEF IsList
<1> QED  BY <1>2, <1>7, <1>8 DEF IsList, r

\* A child that is not listed gets an entry at the end.
LEMMA AppendedEntry ==
    ASSUME NEW s, IsList(s), NEW e \in Entry, \A i \in DOMAIN s : s[i].process # e.process
    PROVE  /\ IsList(Append(s, e))
           /\ EntriesOf(Append(s, e)) = EntriesOf(s) \cup {e}
<1> DEFINE r == Append(s, e)
<1>1. s \in Seq(Entry) /\ Len(s) \in Nat /\ DOMAIN s = 1..Len(s)
  BY DEF IsList
<1>2. /\ r \in Seq(Entry) /\ DOMAIN r = 1..(Len(s) + 1)
      /\ r[Len(s) + 1] = e
      /\ \A j \in 1..Len(s) : r[j] = s[j]
  BY <1>1
<1> HIDE DEF r
<1>3. \A j, k \in DOMAIN r : r[j].process = r[k].process => j = k
  BY <1>1, <1>2 DEF IsList
<1>4. EntriesOf(r) = EntriesOf(s) \cup {e}
  BY <1>1, <1>2 DEF EntriesOf
<1> QED  BY <1>2, <1>3, <1>4 DEF IsList, r

\* A child that is listed gets its new entry in the place of the old.
LEMMA ReplacedEntry ==
    ASSUME NEW s, IsList(s), NEW e \in Entry, NEW i \in DOMAIN s, s[i].process = e.process,
           NEW r, r = [j \in DOMAIN s |-> IF s[j].process = e.process THEN e ELSE s[j]]
    PROVE  /\ IsList(r)
           /\ EntriesOf(r) = {x \in EntriesOf(s) : x.process # e.process} \cup {e}
<1>1. s \in Seq(Entry) /\ Len(s) \in Nat /\ DOMAIN s = 1..Len(s)
  BY DEF IsList
<1>2. DOMAIN r = DOMAIN s /\ \A j \in DOMAIN s : r[j] \in Entry
  BY <1>1
<1>3. r \in Seq(Entry)
  BY <1>1, <1>2, SeqDef
<1>4. \A j \in DOMAIN s : r[j].process = s[j].process
  OBVIOUS
<1>5. EntriesOf(r) = {x \in EntriesOf(s) : x.process # e.process} \cup {e}
  BY <1>2 DEF EntriesOf
<1> QED  BY <1>2, <1>3, <1>4, <1>5 DEF IsList

\* try_unblock marks an entry as waited for.
LEMMA MarkedEntry ==
    ASSUME NEW s, IsList(s), NEW i \in DOMAIN s
    PROVE  LET e == [process |-> s[i].process, flags |-> s[i].flags, was_waited |-> TRUE]
               r == [s EXCEPT ![i].was_waited = TRUE]
           IN  /\ IsList(r)
               /\ EntriesOf(r) = {x \in EntriesOf(s) : x.process # e.process} \cup {e}
<1> DEFINE e == [process |-> s[i].process, flags |-> s[i].flags, was_waited |-> TRUE]
           r == [s EXCEPT ![i].was_waited = TRUE]
<1>1. s[i] \in Entry
  BY DEF IsList
<1>2. e \in Entry
  BY <1>1 DEF Entry
<1>2a. \A v : [s[i] EXCEPT !.was_waited = v] =
                 [process |-> s[i].process, flags |-> s[i].flags, was_waited |-> v]
  BY <1>1 DEF Entry
<1>2b. [s[i] EXCEPT !.was_waited = TRUE] = e
  BY <1>2a, Zenon
<1>3. r = [s EXCEPT ![i] = e]
  BY <1>2b
<1>4. s[i].process = e.process
  OBVIOUS
<1> HIDE DEF r, e
<1>5. \A j \in DOMAIN s : s[j].process = e.process <=> j = i
  BY <1>4 DEF IsList
<1>6. DOMAIN s = 1..Len(s)
  BY DEF IsList
<1>7. r = [j \in DOMAIN s |-> IF s[j].process = e.process THEN e ELSE s[j]]
  BY <1>3, <1>5, <1>6
<1> QED  BY <1>2, <1>4, <1>7, ReplacedEntry DEF r, e

----------------------------------------------------------------------------
(* The invariant holds at first, and every step keeps it. *)

\* At first nobody waits and nothing is listed.
LEMMA InitIInv == Init => IInv
<1> SUFFICES ASSUME Init PROVE IInv
  OBVIOUS
<1>1. m_processes \in Seq([process : Children, flags : Flags, was_waited : BOOLEAN]) /\ Entries = {}
  BY DEF Init, Entries, EntriesOf
<1>2. TypeOK
  <2>1. \A i, j \in DOMAIN m_processes : m_processes[i].process = m_processes[j].process => i = j
    BY DEF Init
  <2>2. m_finalized \in BOOLEAN /\ eintr \in [Threads -> BOOLEAN] /\ verify_failed \in BOOLEAN
    BY DEF Init
  <2> QED  BY <1>1, <2>1, <2>2 DEF Init, TypeOK
<1>3. Callers /\ Told /\ Follows
  BY <1>1 DEF Init, Callers, Waiting, Told, Follows
<1>4. Deaths
  BY <1>1 DEF Init, Deaths, NoResult
<1> QED  BY <1>2, <1>3, <1>4 DEF IInv

\* What a request can be, and which entries a caller finds, in terms of Entries.
LEMMA ListFacts ==
    ASSUME TypeOK
    PROVE  /\ IsList(m_processes)
           /\ Entries \subseteq Entry
           /\ \A c \in Children : Listed(c) <=> \E e \in Entries : e.process = c
           /\ \A e, f \in Entries : e.process = f.process => e = f
           /\ \A r : Matches(r) \subseteq DOMAIN m_processes
           /\ \A r : Matches(r) = {} <=> \A e \in Entries : ~WaitsFor(r, e.process, e.flags)
<1>1. IsList(m_processes)
  BY DEF TypeOK, IsList, Entry
<1>2. Entries \subseteq Entry
  BY <1>1 DEF IsList, Entries, EntriesOf
<1>3. \A c \in Children : Listed(c) <=> \E e \in Entries : e.process = c
  BY DEF Listed, Entries, EntriesOf
<1>4. \A e, f \in Entries : e.process = f.process => e = f
  BY <1>1 DEF IsList, Entries, EntriesOf
<1>5. \A r : Matches(r) \subseteq DOMAIN m_processes
  BY DEF Matches
<1>6. \A r : Matches(r) = {} <=> \A e \in Entries : ~WaitsFor(r, e.process, e.flags)
  BY DEF Matches, Entries, EntriesOf
<1> QED  BY <1>1, <1>2, <1>3, <1>4, <1>5, <1>6

\* What an entry is, read off its list.
LEMMA SameList ==
    ASSUME IInv, UNCHANGED m_processes
    PROVE  Entries' = Entries
BY DEF Entries

\* waitid blocks: nothing it waits for is listed.
LEMMA WaitBlocksStep ==
    ASSUME IInv, NEW t \in Threads, NEW r \in Requests, WaitBlocks(t, r)
    PROVE  IInv'
<1> USE WaitAssumptions DEF IInv
<1>0. /\ Entries' = Entries
      /\ \A e \in Entries : ~WaitsFor(r, e.process, e.flags)
  BY SameList, ListFacts DEF WaitBlocks
<1>1. TypeOK'
  BY <1>0 DEF TypeOK, WaitBlocks
<1>2. Callers'
  BY <1>0 DEF TypeOK, Callers, Waiting, WaitBlocks
<1>3. Deaths'
  BY <1>0 DEF TypeOK, Callers, Waiting, Deaths, NoResult, WaitBlocks
<1>4. Told'
  BY <1>0 DEF TypeOK, Callers, Waiting, Told, Deaths, WaitBlocks
<1>5. Follows'
  BY <1>0 DEF TypeOK, Callers, Follows, Deaths, WaitBlocks
<1> QED  BY <1>1, <1>2, <1>3, <1>4, <1>5

\* A signal interrupts the blocker of the main thread.
LEMMA SignalStep ==
    ASSUME IInv, Signal
    PROVE  IInv'
<1> USE WaitAssumptions DEF IInv
<1>0. Entries' = Entries
  BY SameList DEF Signal
<1>1. TypeOK'
  BY <1>0 DEF TypeOK, Signal
<1>2. Callers'
  BY <1>0 DEF TypeOK, Callers, Waiting, Signal
<1>3. Deaths'
  BY <1>0 DEF TypeOK, Callers, Waiting, Deaths, NoResult, Signal
<1>4. Told'
  BY <1>0 DEF TypeOK, Callers, Waiting, Told, Deaths, Signal
<1>5. Follows'
  BY <1>0 DEF TypeOK, Callers, Follows, Deaths, Signal
<1> QED  BY <1>1, <1>2, <1>3, <1>4, <1>5

\* A child dies, and SIGCHLD may interrupt the blocker of the main thread.
LEMMA DieStep ==
    ASSUME IInv, NEW c \in Children, Die(c)
    PROVE  IInv'
<1> USE WaitAssumptions DEF IInv
<1>0. Entries' = Entries
  BY SameList DEF Die
<1>1. TypeOK'
  BY <1>0 DEF TypeOK, Die
<1>2. Callers'
  BY <1>0 DEF TypeOK, Callers, Waiting, Die
<1>3. Deaths'
  BY <1>0 DEF TypeOK, Callers, Waiting, Deaths, NoResult, Die
<1>4. Told'
  BY <1>0 DEF TypeOK, Callers, Waiting, Told, Deaths, Die
<1>5. Follows'
  BY <1>0 DEF TypeOK, Callers, Follows, Deaths, Die
<1> QED  BY <1>1, <1>2, <1>3, <1>4, <1>5

\* A child is disowned.
LEMMA DisownStep ==
    ASSUME IInv, NEW t \in Threads, NEW c \in Children, Disown(t, c)
    PROVE  IInv'
<1> USE WaitAssumptions DEF IInv
<1>0. Entries' = Entries
  BY SameList DEF Disown
<1>1. TypeOK'
  BY <1>0 DEF TypeOK, Disown
<1>2. Callers'
  BY <1>0 DEF TypeOK, Callers, Waiting, Disown
<1>3. Deaths'
  BY <1>0 DEF TypeOK, Callers, Waiting, Deaths, NoResult, Disown
<1>4. Told'
  BY <1>0 DEF TypeOK, Callers, Waiting, Told, Deaths, Disown
<1>5. Follows'
  BY <1>0 DEF TypeOK, Callers, Follows, Deaths, Disown
<1> QED  BY <1>1, <1>2, <1>3, <1>4, <1>5

\* The parent goes.
LEMMA FinalizeParentStep ==
    ASSUME IInv, FinalizeParent
    PROVE  IInv'
<1> USE WaitAssumptions DEF IInv
<1>0. /\ m_processes' \in Seq([process : Children, flags : Flags, was_waited : BOOLEAN])
      /\ Entries' = {}
  BY DEF FinalizeParent, Entries, EntriesOf
<1>1. TypeOK'
  BY <1>0 DEF TypeOK, FinalizeParent
<1>2. Callers'
  BY <1>0 DEF TypeOK, Callers, Waiting, FinalizeParent
<1>3. Deaths'
  BY <1>0 DEF TypeOK, Callers, Waiting, Deaths, NoResult, FinalizeParent
<1>4. Told'
  BY <1>0 DEF TypeOK, Callers, Waiting, Told, Deaths, FinalizeParent
<1>5. Follows'
  BY <1>0 DEF TypeOK, Callers, Follows, Deaths, FinalizeParent
<1> QED  BY <1>1, <1>2, <1>3, <1>4, <1>5

\* waitid returns.
LEMMA ReturnStep ==
    ASSUME IInv, NEW t \in Threads, Return(t)
    PROVE  IInv'
<1> USE WaitAssumptions DEF IInv
<1>0. Entries' = Entries
  BY SameList DEF Return
<1>1. TypeOK'
  <2>1. returned' \subseteq Children
    BY DEF TypeOK, Return, NoResult
  <2>2. verify_failed' \in BOOLEAN
    BY DEF Return
  <2>3. eintr' \in [Threads -> BOOLEAN]
    BY DEF Return, TypeOK
  <2> QED  BY <2>1, <2>2, <2>3 DEF TypeOK, Return
<1>2. Callers'
  BY <1>0 DEF TypeOK, Callers, Waiting, Return
<1>3. Deaths'
  BY <1>0 DEF TypeOK, Callers, Waiting, Deaths, NoResult, Return
<1>4. Told'
  BY <1>0 DEF TypeOK, Callers, Waiting, Told, Deaths, Return
<1>5. Follows'
  BY <1>0 DEF TypeOK, Callers, Follows, Deaths, Return
<1> QED  BY <1>1, <1>2, <1>3, <1>4, <1>5

\* waitid finds an entry it waits for; a death goes with it.
LEMMA FoundEntry ==
    ASSUME IInv, NEW t \in Threads, NEW r \in Requests, WaitFound(t, r)
    PROVE  \E e \in Entries :
             /\ WaitsFor(r, e.process, e.flags)
             /\ IsList(m_processes')
             /\ Entries' = IF e.flags = "Terminated" /\ IsWait(r) THEN Entries \ {e} ELSE Entries
             /\ Take(r, e.process)
             /\ returned' = IF IsWait(r) /\ e.flags = "Terminated"
                              THEN returned \cup {e.process} ELSE returned
<1> DEFINE i == FirstMatch(Matches(r))
           e == m_processes[i]
<1>1. IsList(m_processes) /\ Matches(r) \subseteq DOMAIN m_processes /\ Matches(r) # {}
  BY ListFacts DEF IInv, WaitFound
<1>2. i \in Matches(r)
  BY <1>1, FirstMatchIsMatch
<1>3. i \in DOMAIN m_processes /\ e \in Entries /\ WaitsFor(r, e.process, e.flags)
  BY <1>2 DEF Matches, Entries, EntriesOf
<1>4. m_processes' = Consume(r, i) /\ Take(r, e.process)
  BY DEF WaitFound
<1>5. returned' = IF IsWait(r) /\ e.flags = "Terminated"
                    THEN returned \cup {e.process} ELSE returned
  BY DEF WaitFound
<1>6. Entries' = EntriesOf(m_processes')
  BY DEF Entries
<1> HIDE DEF i
<1>7. /\ IsList(m_processes')
      /\ Entries' = IF e.flags = "Terminated" /\ IsWait(r) THEN Entries \ {e} ELSE Entries
  BY <1>1, <1>3, <1>4, <1>6, RemovedEntry DEF Consume, Entries
<1> QED  BY <1>3, <1>4, <1>5, <1>7

\* waitid returns with what it found.
LEMMA WaitFoundStep ==
    ASSUME IInv, NEW t \in Threads, NEW r \in Requests, WaitFound(t, r)
    PROVE  IInv'
<1> USE WaitAssumptions DEF IInv
<1>0. PICK e \in Entries :
             /\ WaitsFor(r, e.process, e.flags)
             /\ IsList(m_processes')
             /\ Entries' = IF e.flags = "Terminated" /\ IsWait(r) THEN Entries \ {e} ELSE Entries
             /\ Take(r, e.process)
             /\ returned' = IF IsWait(r) /\ e.flags = "Terminated"
                              THEN returned \cup {e.process} ELSE returned
  BY FoundEntry
<1>6. /\ e \in Entry /\ \A f \in Entries : f.process = e.process => f = e
      /\ ~m_finalized /\ Entries' \subseteq Entries
  BY <1>0, ListFacts DEF WaitFound
<1>1. TypeOK'
  BY <1>0, <1>6 DEF TypeOK, WaitFound, Take, IsList, Entry
<1>2. Callers'
  BY <1>0, <1>6 DEF TypeOK, Callers, Waiting, WaitFound, Take, Entry
<1>3. Deaths'
  BY <1>0, <1>6 DEF TypeOK, Callers, Waiting, Deaths, NoResult, WaitFound, Take, Entry
<1>4. Told'
  BY <1>0, <1>6 DEF TypeOK, Callers, Waiting, Told, Deaths, WaitFound, Take, Entry
<1>5. Follows'
  BY <1>0, <1>6 DEF TypeOK, Callers, Follows, Deaths, WaitFound, Take, Entry
<1> QED  BY <1>1, <1>2, <1>3, <1>4, <1>5

\* end_blocking: if try_unblock finds something, a traced child stopped or continued.
LEMMA RetriedEntry ==
    ASSUME IInv, NEW t \in Threads, EndBlocking(t)
    PROVE  \/ UNCHANGED <<m_result, interrupted_by, m_processes, collected, retaken>>
           \/ /\ m_result[t] = NoResult
              /\ \E e \in Entries :
                   /\ e.process \in Traced /\ e.flags # "Terminated"
                   /\ m_result' = [m_result EXCEPT ![t] =
                                     [process |-> e.process, flags |-> e.flags]]
                   /\ interrupted_by' = [interrupted_by EXCEPT ![t] = ClearSigchld(@)]
                   /\ Take(request[t], e.process)
                   /\ IsList(m_processes')
                   /\ \/ Entries' = Entries
                      \/ Entries' = {x \in Entries : x.process # e.process} \cup
                                      {[process |-> e.process, flags |-> e.flags,
                                        was_waited |-> TRUE]}
<1> DEFINE r       == request[t]
           matches == {i \in Matches(r) : ~(m_processes[i].was_waited /\ IsWait(r))}
           i       == FirstMatch(matches)
           e       == m_processes[i]
           retry   == m_result[t] = NoResult /\ matches # {}
<1>1. CASE ~retry
  BY <1>1 DEF EndBlocking
<1>2. CASE retry
  <2>1. IsList(m_processes) /\ matches \subseteq DOMAIN m_processes /\ matches # {}
    BY <1>2, ListFacts DEF IInv
  <2>2. i \in matches
    BY <2>1, FirstMatchIsMatch
  <2>3. i \in DOMAIN m_processes /\ e \in Entries /\ WaitsFor(r, e.process, e.flags)
    BY <2>2 DEF Matches, Entries, EntriesOf
  <2>4. Waiting(t)
    BY <1>2 DEF IInv, Callers, Waiting, EndBlocking
  <2>5. e.process \in Traced /\ e.flags # "Terminated"
    BY <2>3, <2>4 DEF IInv, Told
  <2>6. /\ m_result' = [m_result EXCEPT ![t] = [process |-> e.process, flags |-> e.flags]]
        /\ interrupted_by' = [interrupted_by EXCEPT ![t] = ClearSigchld(@)]
        /\ Take(request[t], e.process)
        /\ m_processes' = IF IsWait(r) /\ e.flags # "Terminated"
                            THEN [m_processes EXCEPT ![i].was_waited = TRUE]
                            ELSE Consume(r, i)
    BY <1>2 DEF EndBlocking
  <2>7. Entries' = EntriesOf(m_processes')
    BY DEF Entries
  <2> HIDE DEF i
  <2>8. CASE IsWait(r)
    BY <1>2, <2>1, <2>3, <2>5, <2>6, <2>7, <2>8, MarkedEntry DEF Entries
  <2>9. CASE ~IsWait(r)
    <3>1. m_processes' = m_processes
      BY <2>6, <2>9 DEF Consume
    <3> QED  BY <1>2, <2>1, <2>3, <2>5, <2>6, <2>7, <3>1 DEF Entries
  <2> QED  BY <2>8, <2>9
<1> QED  BY <1>1, <1>2

\* end_blocking, whether or not a state has been given to the blocker.
LEMMA EndBlockingStep ==
    ASSUME IInv, NEW t \in Threads, EndBlocking(t)
    PROVE  IInv'
<1> USE WaitAssumptions DEF IInv
<1>1. CASE UNCHANGED <<m_result, interrupted_by, m_processes, collected, retaken>>
  <2>0. Entries' = Entries
    BY <1>1, SameList
  <2>1. eintr' = [eintr EXCEPT ![t] = interrupted_by[t] # "none"]
    BY <1>1 DEF EndBlocking, WasInterrupted
  <2>2. TypeOK'
    BY <1>1, <2>1 DEF TypeOK, EndBlocking
  <2>3. Callers'
    BY <1>1, <2>0, <2>1 DEF TypeOK, Callers, Waiting, EndBlocking
  <2>4. Deaths'
    BY <1>1, <2>0 DEF TypeOK, Deaths, EndBlocking
  <2>5. Told' /\ Follows'
    BY <1>1, <2>0 DEF Told, Waiting, Follows, EndBlocking
  <2> QED  BY <2>2, <2>3, <2>4, <2>5
<1>2. CASE ~UNCHANGED <<m_result, interrupted_by, m_processes, collected, retaken>>
  <2>1. PICK e \in Entries :
                   /\ e.process \in Traced /\ e.flags # "Terminated"
                   /\ m_result' = [m_result EXCEPT ![t] =
                                     [process |-> e.process, flags |-> e.flags]]
                   /\ interrupted_by' = [interrupted_by EXCEPT ![t] = ClearSigchld(@)]
                   /\ Take(request[t], e.process)
                   /\ IsList(m_processes')
                   /\ \/ Entries' = Entries
                      \/ Entries' = {x \in Entries : x.process # e.process} \cup
                                      {[process |-> e.process, flags |-> e.flags,
                                        was_waited |-> TRUE]}
    BY <1>2, RetriedEntry
  <2>2. e \in Entry /\ \A f \in Entries : f.process = e.process => f = e
    BY <2>1, ListFacts
  <2>3. \A f \in Entries' : \E g \in Entries :
           /\ f.process = g.process /\ f.flags = g.flags
           /\ f = g \/ f.process \in Traced
    BY <2>1, <2>2
  <2>4. \A g \in Entries : \E f \in Entries' : f.process = g.process /\ f.flags = g.flags
    <3>1. CASE Entries' = Entries
      BY <3>1
    <3>2. CASE Entries' # Entries
      <4> DEFINE new == [process |-> e.process, flags |-> e.flags, was_waited |-> TRUE]
      <4>1. new \in Entries' /\ new.process = e.process /\ new.flags = e.flags
        BY <2>1, <3>2
      <4>2. \A g \in Entries : g = e \/ g \in Entries'
        BY <2>1, <2>2, <3>2
      <4> QED  BY <4>1, <4>2
    <3> QED  BY <3>1, <3>2
  <2>5. m_result'[t] # NoResult /\ \A u \in Threads \ {t} : m_result'[u] = m_result[u]
    BY <2>1, <2>2 DEF TypeOK, NoResult, Entry, Flags
  <2>6. TypeOK'
    <3>1. interrupted_by' \in [Threads -> {"none", "SIGCHLD", "SIGUSR1"}]
      BY <2>1 DEF TypeOK, ClearSigchld
    <3>2. m_result' \in [Threads -> [process : Children, flags : Flags] \cup {NoResult}]
      BY <2>1, <2>2 DEF TypeOK, Entry
    <3>3. eintr' \in [Threads -> BOOLEAN]
      BY DEF TypeOK, EndBlocking, WasInterrupted
    <3>4. collected' \subseteq Children /\ retaken' \subseteq Children
      BY <2>1, <2>2 DEF TypeOK, Take, Entry
    <3> QED  BY <2>1, <3>1, <3>2, <3>3, <3>4 DEF TypeOK, EndBlocking, IsList, Entry
  <2>7. Callers'
    BY <2>1, <2>3, <2>5 DEF TypeOK, Callers, Waiting, EndBlocking
  <2>8. Deaths'
    <3>1. \A u \in Threads : m_result'[u].flags = "Terminated" => u # t
      BY <2>1 DEF TypeOK
    <3>2. \A f \in Entries' : f.flags = "Terminated" => f \in Entries
      BY <2>1
    <3>3. collected \subseteq collected'
      BY <2>1 DEF Take
    <3> QED  BY <2>4, <2>5, <3>1, <3>2, <3>3 DEF Deaths, EndBlocking
  <2>9. Told'
    BY <2>3, <2>5 DEF Told, Waiting, EndBlocking
  <2>10. Follows'
    BY <2>3 DEF Follows, EndBlocking
  <2> QED  BY <2>6, <2>7, <2>8, <2>9, <2>10
<1> QED  BY <1>1, <1>2

\* unblock() lists the new state of c.
LEMMA UpdatedEntries ==
    ASSUME TypeOK, NEW c \in Children, NEW flags \in Flags, NEW hit \in SUBSET Threads
    PROVE  /\ IsList(UpdateList(c, flags, hit))
           /\ \/ /\ flags = "Terminated" /\ \E t \in hit : IsWait(request[t])
                 /\ EntriesOf(UpdateList(c, flags, hit)) = Entries
              \/ /\ flags = "Terminated" => \A t \in hit : ~IsWait(request[t])
                 /\ \E w \in BOOLEAN :
                      /\ w => Listed(c) /\ \E t \in hit : IsWait(request[t])
                      /\ EntriesOf(UpdateList(c, flags, hit)) =
                            {e \in Entries : e.process # c} \cup
                              {[process |-> c, flags |-> flags, was_waited |-> w]}
<1> DEFINE did_wait == \E t \in hit : IsWait(request[t])
           new(w) == [process |-> c, flags |-> flags, was_waited |-> w]
<1>0. IsList(m_processes)
  BY ListFacts
<1>1. CASE flags = "Terminated" /\ did_wait
  BY <1>0, <1>1 DEF UpdateList, Entries
<1>2. CASE ~(flags = "Terminated" /\ did_wait) /\ Listed(c)
  <2>1. PICK w \in BOOLEAN : w = did_wait
    OBVIOUS
  <2>2. new(w) \in Entry /\ new(w).process = c
    BY <2>1 DEF Entry
  <2>3. PICK i \in DOMAIN m_processes : m_processes[i].process = c
    BY <1>2 DEF Listed
  <2>4. UpdateList(c, flags, hit) =
          [j \in DOMAIN m_processes |->
             IF m_processes[j].process = new(w).process THEN new(w) ELSE m_processes[j]]
    BY <1>2, <2>1, <2>2 DEF UpdateList
  <2>5. /\ IsList(UpdateList(c, flags, hit))
        /\ EntriesOf(UpdateList(c, flags, hit)) =
              {e \in EntriesOf(m_processes) : e.process # new(w).process} \cup {new(w)}
    BY <1>0, <2>2, <2>3, <2>4, ReplacedEntry
  <2> QED  BY <1>2, <2>1, <2>2, <2>5 DEF Entries
<1>3. CASE ~(flags = "Terminated" /\ did_wait) /\ ~Listed(c)
  <2>1. new(FALSE) \in Entry /\ new(FALSE).process = c
    BY DEF Entry
  <2>2. UpdateList(c, flags, hit) = Append(m_processes, new(FALSE))
    BY <1>3 DEF UpdateList
  <2>3. \A i \in DOMAIN m_processes : m_processes[i].process # new(FALSE).process
    BY <1>3, <2>1 DEF Listed
  <2>4. /\ IsList(UpdateList(c, flags, hit))
        /\ EntriesOf(UpdateList(c, flags, hit)) = EntriesOf(m_processes) \cup {new(FALSE)}
    BY <1>0, <2>1, <2>2, <2>3, AppendedEntry
  <2>5. {e \in Entries : e.process # c} = Entries
    BY <2>3, <2>1 DEF Entries, EntriesOf
  <2> QED  BY <1>3, <2>4, <2>5 DEF Entries
<1> QED  BY <1>1, <1>2, <1>3

\* A change of a child's state, and the flags that tell of it.
Change(c, from, to, flags) ==
    /\ \/ from = "Running" /\ to = "Stopped" /\ flags = "Stopped"
       \/ from = "Stopped" /\ to = "Running" /\ flags = "Continued"
       \/ from = "Dead" /\ to = "Finalized" /\ flags = "Terminated"
    /\ state[c] = from
    /\ state' = [state EXCEPT ![c] = to]
    /\ UNCHANGED <<disowned, m_finalized, request, eintr, retaken, returned>>

\* unblock_waiters when there is nobody to tell.
LEMMA UntoldStep ==
    ASSUME IInv, NEW c \in Children, NEW from, NEW to, NEW flags,
           Change(c, from, to, flags), c \in disowned \/ m_finalized,
           UNCHANGED <<m_result, interrupted_by, pc, m_blockers, m_processes, collected,
                       verify_failed>>
    PROVE  IInv'
<1> USE DEF IInv
<1>0. Entries' = Entries
  BY SameList
<1>1. TypeOK'
  BY DEF TypeOK, Change
<1>2. Callers'
  BY <1>0 DEF Callers, Waiting, Change
<1>3. Deaths'
  BY <1>0 DEF TypeOK, Deaths, Change
<1>4. Told'
  BY <1>0 DEF Told, Waiting, Change
<1>5. Follows'
  BY <1>0 DEF TypeOK, Follows, Callers, Change
<1> QED  BY <1>1, <1>2, <1>3, <1>4, <1>5

\* unblock(): the waiters it hits get the state, and the list is brought up to date.
LEMMA ToldStep ==
    ASSUME IInv, NEW c \in Children, NEW from, NEW to, NEW flags, NEW sigchld \in BOOLEAN,
           Change(c, from, to, flags), c \notin disowned, ~m_finalized, Unblock(c, flags, sigchld)
    PROVE  IInv' /\ ~verify_failed'
<1> USE WaitAssumptions DEF IInv
<1> DEFINE hit == Hit(c, flags)
           did_wait == \E t \in hit : IsWait(request[t])
           result == [process |-> c, flags |-> flags]
<1>1. /\ flags \in Flags /\ hit \subseteq m_blockers /\ hit \in SUBSET Threads
      /\ \A t \in hit : Waiting(t) /\ WaitsFor(request[t], c, flags)
  BY DEF Change, Flags, Hit, TypeOK, Waiting
<1>2. /\ IsList(m_processes') /\ m_blockers' = m_blockers \ hit
      /\ \/ flags = "Terminated" /\ did_wait /\ Entries' = Entries
         \/ /\ flags = "Terminated" => ~did_wait
            /\ \E w \in BOOLEAN :
                 /\ w => Listed(c) /\ did_wait
                 /\ Entries' = {e \in Entries : e.process # c} \cup
                                 {[process |-> c, flags |-> flags, was_waited |-> w]}
  <2>1. m_processes' = UpdateList(c, flags, hit) /\ m_blockers' = m_blockers \ hit
    BY DEF Unblock
  <2>2. Entries' = EntriesOf(m_processes')
    BY DEF Entries
  <2> HIDE DEF hit
  <2> QED  BY <1>1, <2>1, <2>2, UpdatedEntries
<1>3. /\ m_result' \in [Threads -> [process : Children, flags : Flags] \cup {NoResult}]
      /\ \A t \in hit : m_result'[t] = result /\ m_result'[t] # NoResult
      /\ \A t \in Threads \ hit : m_result'[t] = m_result[t]
  <2>1. m_result' = [t \in Threads |-> IF t \in hit THEN result ELSE m_result[t]]
    BY DEF Unblock
  <2>2. result \in [process : Children, flags : Flags] /\ result # NoResult
    BY <1>1 DEF NoResult, Flags
  <2> HIDE DEF hit, result
  <2> QED  BY <1>1, <2>1, <2>2 DEF TypeOK
<1>4. /\ pc' \in [Threads -> {"out", "blocked", "unblocked", "relock"}]
      /\ \A t \in Threads : pc[t] # "blocked" => pc'[t] = pc[t]
      /\ \A t \in Threads : pc[t] = "blocked" => pc'[t] \in {"blocked", "unblocked"}
      /\ \A t \in hit : pc'[t] # "blocked"
      /\ interrupted_by' \in [Threads -> {"none", "SIGCHLD", "SIGUSR1"}]
      /\ \A t \in Threads \ hit :
            \/ interrupted_by'[t] = interrupted_by[t] /\ pc'[t] = pc[t]
            \/ pc[t] = "blocked" /\ pc'[t] = "unblocked" /\ interrupted_by'[t] = "SIGCHLD"
  <2> HIDE DEF hit
  <2>1. hit = Hit(c, flags)
    BY DEF hit
  <2> QED  BY <1>1, <2>1 DEF TypeOK, Unblock, ClearSigchld
<1> HIDE DEF hit
<1>5. /\ \A e, f \in Entries : e.process = f.process => e = f
      /\ \A e \in Entries : e.process = c => e.flags # "Terminated"
      /\ Listed(c) <=> \E e \in Entries : e.process = c
  BY ListFacts DEF Deaths, Change
<1>6. ~verify_failed'
  <2>1. verify_failed' = \E e \in Entries : e.process = c /\ e.flags = "Terminated"
    BY DEF Unblock, Entries, EntriesOf
  <2> QED  BY <1>5, <2>1
<1>7. TypeOK'
  <2>1. collected' \subseteq Children /\ verify_failed' \in BOOLEAN
    BY <1>6 DEF TypeOK, Unblock
  <2>2. state' \in [Children -> {"Running", "Stopped", "Dead", "Finalized"}]
    BY DEF TypeOK, Change
  <2> QED  BY <1>1, <1>2, <1>3, <1>4, <2>1, <2>2 DEF TypeOK, IsList, Entry, Change
<1>8. Callers'
  BY <1>1, <1>2, <1>3, <1>4 DEF Callers, Waiting, Change, TypeOK
<1>9. Deaths'
  <2>1. \A e \in Entries' : e.flags = "Terminated" =>
          state'[e.process] = "Finalized" /\ e.process \notin returned'
    BY <1>2, <1>5 DEF Deaths, Change, TypeOK
  <2>2. \A t \in Threads : m_result'[t].flags = "Terminated" =>
          /\ state'[m_result'[t].process] = "Finalized"
          /\ IsWait(request'[t]) =>
                \A e \in Entries' : e.flags = "Terminated" => e.process # m_result'[t].process
    <3> TAKE t \in Threads
    <3> HAVE m_result'[t].flags = "Terminated"
    <3>1. CASE t \in hit
      BY <1>1, <1>2, <1>3, <1>5, <3>1 DEF Deaths, Change, TypeOK
    <3>2. CASE t \notin hit
      <4>1. state[m_result[t].process] = "Finalized" /\ m_result[t].process # c
        BY <1>3, <3>2 DEF Deaths, Change
      <4> QED  BY <1>2, <1>3, <3>2, <4>1 DEF Deaths, Change, TypeOK
    <3> QED  BY <3>1, <3>2
  <2>3. \A d \in returned' : state'[d] = "Finalized"
    BY DEF Deaths, Change, TypeOK
  <2>4. \A d \in Children :
          state'[d] = "Finalized" /\ d \notin disowned' /\ ~m_finalized' /\ d \notin collected' =>
             \E e \in Entries' : e.process = d /\ e.flags = "Terminated"
    <3> TAKE d \in Children
    <3> HAVE state'[d] = "Finalized" /\ d \notin disowned' /\ ~m_finalized' /\ d \notin collected'
    <3>0. collected' = IF did_wait THEN collected \cup {c} ELSE collected \ {c}
      BY DEF Unblock, hit
    <3>1. CASE d = c
      <4>1. flags = "Terminated" /\ ~did_wait
        BY <3>0, <3>1 DEF Change, TypeOK
      <4>2. PICK w \in BOOLEAN : [process |-> c, flags |-> flags, was_waited |-> w] \in Entries'
        BY <1>2, <4>1
      <4> QED  BY <3>1, <4>1, <4>2
    <3>2. CASE d # c
      <4>1. \E e \in Entries : e.process = d /\ e.flags = "Terminated"
        BY <3>0, <3>2 DEF Deaths, Change, TypeOK
      <4> QED  BY <1>2, <3>2, <4>1
    <3> QED  BY <3>1, <3>2
  <2> QED  BY <2>1, <2>2, <2>3, <2>4 DEF Deaths
<1>10. \A e \in Entries : e.process = c /\ c \notin Traced =>
          /\ flags = "Stopped" => ~e.was_waited
          /\ flags = "Continued" => \A t \in Threads :
                Waiting(t) => ~WaitsFor(request[t], c, "Continued")
  BY DEF Follows, Told, WaitsFor, Change
<1>11. Told'
  <2> SUFFICES ASSUME NEW t \in Threads, Waiting(t)', NEW e \in Entries',
                      WaitsFor(request[t], e.process, e.flags)
               PROVE  e.flags # "Terminated" /\ e.process \in Traced
    BY DEF Told, Change
  <2>1. Waiting(t) /\ t \notin hit
    BY <1>2, <1>3 DEF Waiting
  <2>2. CASE e \in Entries
    BY <2>1, <2>2 DEF Told
  <2>3. CASE e \notin Entries
    <3>1. e.process = c /\ e.flags = flags
      BY <1>2, <2>3
    <3>2. /\ flags # "Terminated"
          /\ \E i \in DOMAIN m_processes : m_processes[i].process = c /\ m_processes[i].was_waited
      BY <2>1, <3>1 DEF hit, Hit, Waiting
    <3>3. \E f \in Entries : f.process = c /\ f.was_waited
      BY <3>2 DEF Entries, EntriesOf
    <3> QED  BY <1>10, <2>1, <3>1, <3>2, <3>3 DEF Change
  <2> QED  BY <2>2, <2>3
<1>12. Follows'
  <2> SUFFICES ASSUME NEW e \in Entries', e.process \notin Traced
               PROVE  /\ e.was_waited => e.flags = "Stopped"
                      /\ e.process \notin disowned =>
                           (e.flags = "Stopped" <=> state'[e.process] = "Stopped")
    BY DEF Follows, Change
  <2>1. CASE e.process # c
    BY <1>2, <2>1 DEF Follows, Change, TypeOK
  <2>2. CASE e.process = c /\ e \in Entries /\ flags = "Terminated" /\ did_wait
    BY <2>2 DEF Follows, Change, TypeOK
  <2>3. CASE e.process = c /\ ~(flags = "Terminated" /\ did_wait)
    <3>1. e.flags = flags
      BY <1>2, <2>3
    <3>2. e.was_waited => Listed(c) /\ did_wait
      BY <1>2, <2>3
    <3>3. e.was_waited => flags = "Stopped"
      BY <1>1, <1>5, <1>10, <2>3, <3>2 DEF Change
    <3> QED  BY <2>3, <3>1, <3>3 DEF Change, TypeOK
  <2> QED  BY <1>2, <2>1, <2>2, <2>3
<1> QED  BY <1>6, <1>7, <1>8, <1>9, <1>11, <1>12

\* unblock_waiters.
LEMMA ChangeStep ==
    ASSUME IInv, ~verify_failed, NEW c \in Children, NEW from, NEW to, NEW flags,
           NEW sigchld \in BOOLEAN, Change(c, from, to, flags), UnblockWaiters(c, flags, sigchld)
    PROVE  IInv' /\ ~verify_failed'
<1>1. CASE c \notin disowned /\ ~m_finalized
  BY <1>1, ToldStep DEF UnblockWaiters
<1>2. CASE c \in disowned \/ m_finalized
  <2>1. UNCHANGED <<m_result, interrupted_by, pc, m_blockers, m_processes, collected,
                    verify_failed>>
    BY <1>2 DEF UnblockWaiters
  <2> QED  BY <1>2, <2>1, UntoldStep
<1> QED  BY <1>1, <1>2

\* A child stops, continues or is finalized.
LEMMA ChildChanges ==
    ASSUME NEW c \in Children
    PROVE  /\ Stop(c) => /\ Change(c, "Running", "Stopped", "Stopped")
                         /\ UnblockWaiters(c, "Stopped", "SIGCHLD" \in Handled)
           /\ Continue(c) => /\ Change(c, "Stopped", "Running", "Continued")
                             /\ UnblockWaiters(c, "Continued", "SIGCHLD" \in Handled)
           /\ Finalize(c) => /\ Change(c, "Dead", "Finalized", "Terminated")
                             /\ UnblockWaiters(c, "Terminated", FALSE)
BY DEF Stop, Continue, Finalize, ChangeState, Change

\* So all of them keep the invariant, and the VERIFY of unblock() holds.
LEMMA TellStep ==
    ASSUME IInv, ~verify_failed, NEW c \in Children, Stop(c) \/ Continue(c) \/ Finalize(c)
    PROVE  IInv' /\ ~verify_failed'
<1>0. ("SIGCHLD" \in Handled) \in BOOLEAN /\ FALSE \in BOOLEAN
  OBVIOUS
<1>1. CASE Stop(c)
  BY <1>0, <1>1, ChildChanges, ChangeStep
<1>2. CASE Continue(c)
  BY <1>0, <1>2, ChildChanges, ChangeStep
<1>3. CASE Finalize(c)
  BY <1>0, <1>3, ChildChanges, ChangeStep
<1> QED  BY <1>1, <1>2, <1>3

\* Every step keeps the invariant.
LEMMA NextIInv == IInv /\ [Next]_vars => IInv'
<1> SUFFICES ASSUME IInv, [Next]_vars PROVE IInv'
  OBVIOUS
<1>1. CASE Next
  <2>1. ASSUME NEW t \in Threads, NEW r \in Requests, WaitFound(t, r) \/ WaitBlocks(t, r)
        PROVE  IInv'
    BY <2>1, WaitFoundStep, WaitBlocksStep
  <2>2. ASSUME NEW t \in Threads, EndBlocking(t) \/ Return(t)
        PROVE  IInv'
    BY <2>2, EndBlockingStep, ReturnStep
  <2>3. ASSUME NEW t \in Threads, NEW c \in Children, Disown(t, c)
        PROVE  IInv'
    BY <2>3, DisownStep
  <2>4. ASSUME NEW c \in Children, Stop(c) \/ Continue(c) \/ Finalize(c)
        PROVE  IInv'
    BY <1>1, <2>4, TellStep DEF Next
  <2>5. ASSUME NEW c \in Children, Die(c)
        PROVE  IInv'
    BY <2>5, DieStep
  <2>6. CASE Signal
    BY <2>6, SignalStep
  <2>7. CASE FinalizeParent
    BY <2>7, FinalizeParentStep
  <2> QED  BY <1>1, <2>1, <2>2, <2>3, <2>4, <2>5, <2>6, <2>7 DEF Next
<1>2. CASE UNCHANGED vars
  <2>1. Entries' = Entries
    BY <1>2, SameList DEF vars
  <2> QED  BY <1>2, <2>1 DEF vars, IInv, TypeOK, Callers, Waiting, Deaths, Told, Follows
<1> QED  BY <1>1, <1>2

\* In every behaviour of waitid, disown and the children, callers that sleep are
\* registered and have been told of every listed state they wait for.
THEOREM Invariance == Spec => []IInv
<1> QED  BY InitIInv, NextIInv, PTL DEF Spec

\* WaitBlockCondition lists a child once, and never a death that a waitid returned.
THEOREM DeathsTakenOnce == Spec => []DeathTakenOnce
<1>1. IInv => DeathTakenOnce
  BY DEF IInv, DeathTakenOnce, Deaths, Entries, EntriesOf
<1> QED  BY <1>1, Invariance, PTL

\* No caller sleeps for the death of a child that is dead and that nobody has
\* taken, whatever else it waits for and whoever else waits.
THEOREM NobodyMissesDeaths == Spec => []NobodyMissesDeath
<1>1. IInv => NobodyMissesDeath
  <2> SUFFICES ASSUME IInv, NEW t \in Threads, NEW c \in Children,
                      pc[t] = "blocked", WaitsFor(request[t], c, "Terminated"),
                      state[c] = "Finalized", c \notin disowned, c \notin collected
               PROVE  FALSE
    BY DEF NobodyMissesDeath
  <2>1. Waiting(t) /\ ~m_finalized
    BY DEF IInv, Callers, TypeOK
  <2>2. PICK e \in Entries : e.process = c /\ e.flags = "Terminated"
    BY <2>1 DEF IInv, Deaths
  <2> QED  BY <2>1, <2>2 DEF IInv, Told
<1> QED  BY <1>1, Invariance, PTL

\* If no child is traced, no caller sleeps for a listed state that nobody has
\* waited for: stops and continues are not missed either.
THEOREM NobodyMissesStates == ASSUME Traced = {} PROVE Spec => []NobodyMisses
<1>1. IInv => NobodyMissesState
  BY DEF IInv, NobodyMissesState, Callers, Told, Entries, EntriesOf
<1> QED  BY <1>1, Invariance, NobodyMissesDeaths, PTL DEF NobodyMisses

----------------------------------------------------------------------------
(* How a death is lost. *)

IsListedDead(c) == \E e \in Entries : e.process = c /\ e.flags = "Terminated"

\* The caller t is going to return the death of c.
Brings(t, c) ==
    /\ m_result[t] = [process |-> c, flags |-> "Terminated"]
    /\ IsWait(request[t])
    /\ IF pc[t] = "relock" THEN ~eintr[t] ELSE interrupted_by[t] = "none"

\* DeathKept in these terms, before a step and after it.
LEMMA KeptDef ==
    ASSUME NEW c \in Children
    PROVE  /\ DeathKept(c) <=>
                (state[c] = "Finalized" /\ c \notin disowned /\ ~m_finalized =>
                   IsListedDead(c) \/ c \in returned \/ \E t \in Threads : Brings(t, c))
           /\ DeathKept(c)' <=>
                (state'[c] = "Finalized" /\ c \notin disowned' /\ ~m_finalized' =>
                   IsListedDead(c)' \/ c \in returned' \/ \E t \in Threads : Brings(t, c)')
<1>1. /\ IsListedDead(c) <=> \E i \in DOMAIN m_processes :
            m_processes[i].process = c /\ m_processes[i].flags = "Terminated"
      /\ IsListedDead(c)' <=> \E i \in DOMAIN m_processes' :
            m_processes'[i].process = c /\ m_processes'[i].flags = "Terminated"
  BY DEF IsListedDead, Entries, EntriesOf
<1> QED  BY <1>1 DEF DeathKept, Brings

\* Steps that leave the list, what was returned, and every caller with a state alone.
LEMMA KeptByOthers ==
    ASSUME IInv, NEW c \in Children, DeathKept(c),
           \/ \E t \in Threads, r \in Requests : WaitBlocks(t, r)
           \/ \E t \in Threads, d \in Children : Disown(t, d)
           \/ \E d \in Children : Die(d)
           \/ Signal \/ FinalizeParent
    PROVE  DeathKept(c)'
<1> USE WaitAssumptions DEF IInv
<1>1. CASE \E t \in Threads, r \in Requests : WaitBlocks(t, r)
  <2>1. Entries' = Entries
    BY <1>1, SameList DEF WaitBlocks
  <2>2. \A t \in Threads : Brings(t, c) => Brings(t, c)'
    BY <1>1 DEF Brings, WaitBlocks, Callers, NoResult, TypeOK
  <2> QED  BY <1>1, <2>1, <2>2, KeptDef DEF WaitBlocks, IsListedDead
<1>2. CASE \E t \in Threads, d \in Children : Disown(t, d)
  <2>1. Entries' = Entries
    BY <1>2, SameList DEF Disown
  <2>2. \A t \in Threads : Brings(t, c) => Brings(t, c)'
    BY <1>2 DEF Brings, Disown
  <2> QED  BY <1>2, <2>1, <2>2, KeptDef DEF Disown, IsListedDead
<1>3. CASE \E d \in Children : Die(d)
  <2>1. Entries' = Entries
    BY <1>3, SameList DEF Die
  <2>2. \A t \in Threads : Brings(t, c) => Brings(t, c)'
    BY <1>3 DEF Brings, Die, Callers, Waiting, NoResult, TypeOK
  <2> QED  BY <1>3, <2>1, <2>2, KeptDef DEF Die, IsListedDead, TypeOK
<1>4. CASE Signal
  <2>1. Entries' = Entries
    BY <1>4, SameList DEF Signal
  <2>2. \A t \in Threads : Brings(t, c) => Brings(t, c)'
    BY <1>4 DEF Brings, Signal, Callers, Waiting, NoResult, TypeOK
  <2> QED  BY <1>4, <2>1, <2>2, KeptDef DEF Signal, IsListedDead
<1>5. CASE FinalizeParent
  BY <1>5, KeptDef DEF FinalizeParent
<1> QED  BY <1>1, <1>2, <1>3, <1>4, <1>5

\* waitid returns what it takes from the list.
LEMMA KeptByWaitFound ==
    ASSUME IInv, NEW c \in Children, DeathKept(c),
           NEW t \in Threads, NEW r \in Requests, WaitFound(t, r)
    PROVE  DeathKept(c)'
<1>1. IsListedDead(c) => IsListedDead(c)' \/ c \in returned'
  BY FoundEntry DEF IsListedDead
<1>2. \A u \in Threads : Brings(u, c) => Brings(u, c)'
  BY DEF Brings, WaitFound
<1> QED  BY <1>1, <1>2, KeptDef DEF WaitFound

\* end_blocking takes no death from the list.
LEMMA KeptByEndBlocking ==
    ASSUME IInv, NEW c \in Children, DeathKept(c),
           NEW t \in Threads, EndBlocking(t)
    PROVE  DeathKept(c)'
<1>1. IsListedDead(c) => IsListedDead(c)'
  BY RetriedEntry, ListFacts DEF IsListedDead, IInv, Entries
<1>2. \A u \in Threads : Brings(u, c) => Brings(u, c)'
  <2> SUFFICES ASSUME NEW u \in Threads, Brings(u, c) PROVE Brings(u, c)'
    OBVIOUS
  <2>1. m_result'[u] = m_result[u] /\ interrupted_by'[u] = interrupted_by[u]
    BY RetriedEntry DEF Brings, NoResult, IInv, TypeOK
  <2> QED  BY <2>1 DEF Brings, EndBlocking, WasInterrupted, IInv, TypeOK
<1> QED  BY <1>1, <1>2, KeptDef DEF EndBlocking

\* A caller that was not interrupted returns the death it brings.
LEMMA KeptByReturn ==
    ASSUME IInv, NEW c \in Children, DeathKept(c), NEW t \in Threads, Return(t)
    PROVE  DeathKept(c)'
<1>1. Entries' = Entries
  BY SameList DEF Return
<1>2. \A u \in Threads : Brings(u, c) => Brings(u, c)' \/ c \in returned'
  BY DEF Brings, Return, IInv, TypeOK
<1>3. returned \subseteq returned'
  BY DEF Return
<1> QED  BY <1>1, <1>2, <1>3, KeptDef DEF Return, IsListedDead

\* unblock() gives a death to a caller: one that a signal has interrupted loses it.
LEMMA KeptByChange ==
    ASSUME IInv, NEW c \in Children, DeathKept(c), NEW d \in Children,
           NEW from, NEW to, NEW flags, NEW sigchld \in BOOLEAN,
           Change(d, from, to, flags), UnblockWaiters(d, flags, sigchld)
    PROVE  \/ DeathKept(c)'
           \/ \E t \in Threads : interrupted_by[t] # "none" /\ m_result'[t].process = c
<1> USE WaitAssumptions DEF IInv
<1> DEFINE hit == Hit(d, flags)
<1>1. CASE d \in disowned \/ m_finalized
  <2>1. UNCHANGED <<m_result, interrupted_by, pc, m_blockers, m_processes, collected,
                    verify_failed>>
    BY <1>1 DEF UnblockWaiters
  <2>2. Entries' = Entries
    BY <2>1, SameList
  <2>3. \A t \in Threads : Brings(t, c) => Brings(t, c)'
    BY <2>1 DEF Brings, Change
  <2> QED  BY <1>1, <2>2, <2>3, KeptDef DEF Change, IsListedDead, TypeOK
<1>2. CASE d \notin disowned /\ ~m_finalized
  <2>1. Unblock(d, flags, sigchld)
    BY <1>2 DEF UnblockWaiters
  <2>2. /\ flags \in Flags /\ hit \in SUBSET Threads
        /\ \A t \in hit : Waiting(t)
    BY DEF Change, Flags, Hit, TypeOK, Waiting
  <2>3. /\ m_processes' = UpdateList(d, flags, hit)
        /\ Entries' = EntriesOf(m_processes')
        /\ m_result' = [t \in Threads |-> IF t \in hit THEN [process |-> d, flags |-> flags]
                                          ELSE m_result[t]]
    BY <2>1 DEF Unblock, Entries
  <2>4. /\ \A t \in hit : interrupted_by[t] = "none" => interrupted_by'[t] = "none"
        /\ \A t \in hit : pc[t] = "blocked" => pc'[t] = "unblocked"
        /\ \A t \in Threads : pc[t] # "blocked" => pc'[t] = pc[t]
        /\ \A t \in Threads \ hit : pc[t] # "blocked" => interrupted_by'[t] = interrupted_by[t]
    <3> HIDE DEF hit
    <3>1. hit = Hit(d, flags)
      BY DEF hit
    <3> QED  BY <2>1, <2>2, <3>1 DEF TypeOK, Unblock, ClearSigchld
  <2> HIDE DEF hit
  <2>5. \/ flags = "Terminated" /\ (\E t \in hit : IsWait(request[t])) /\ Entries' = Entries
        \/ /\ flags = "Terminated" => \A t \in hit : ~IsWait(request[t])
           /\ \E w \in BOOLEAN :
                Entries' = {e \in Entries : e.process # d} \cup
                             {[process |-> d, flags |-> flags, was_waited |-> w]}
    BY <2>2, <2>3, UpdatedEntries
  <2>6. CASE c # d
    <3>1. IsListedDead(c) => IsListedDead(c)'
      BY <2>5, <2>6 DEF IsListedDead
    <3>2. \A t \in Threads : Brings(t, c) => Brings(t, c)'
      <4> SUFFICES ASSUME NEW t \in Threads, Brings(t, c) PROVE Brings(t, c)'
        OBVIOUS
      <4>1. m_result[t] # NoResult /\ pc[t] # "blocked" /\ t \notin hit
        BY <2>2 DEF Brings, NoResult, Callers, Waiting
      <4> QED  BY <2>3, <2>4, <4>1 DEF Brings, Change
    <3> QED  BY <2>6, <3>1, <3>2, KeptDef DEF Change, TypeOK
  <2>7. CASE c = d /\ flags # "Terminated"
    BY <2>7, KeptDef DEF Change, TypeOK
  <2>8. CASE c = d /\ flags = "Terminated" /\ \A t \in hit : ~IsWait(request[t])
    <3>1. PICK w \in BOOLEAN : [process |-> d, flags |-> flags, was_waited |-> w] \in Entries'
      BY <2>5, <2>8
    <3>2. IsListedDead(c)'
      BY <2>8, <3>1 DEF IsListedDead
    <3> QED  BY <3>2, KeptDef
  <2>9. CASE c = d /\ flags = "Terminated" /\ \E t \in hit : IsWait(request[t])
    <3>1. PICK t \in hit : IsWait(request[t])
      BY <2>9
    <3>2. t \in Threads /\ Waiting(t) /\ m_result'[t] = [process |-> c, flags |-> "Terminated"]
      BY <2>2, <2>3, <2>9, <3>1
    <3>3. CASE interrupted_by[t] # "none"
      BY <3>2, <3>3
    <3>4. CASE interrupted_by[t] = "none"
      <4>1. pc[t] = "blocked" /\ pc'[t] = "unblocked" /\ interrupted_by'[t] = "none"
        BY <2>4, <3>1, <3>2, <3>4 DEF Callers, Waiting, TypeOK
      <4>2. Brings(t, c)'
        BY <3>1, <3>2, <4>1 DEF Brings, Change
      <4> QED  BY <3>2, <4>2, KeptDef
    <3> QED  BY <3>3, <3>4
  <2> QED  BY <2>6, <2>7, <2>8, <2>9
<1> QED  BY <1>1, <1>2

\* Every step keeps what OnlyInterruptedLose says.
LEMMA NextLoses ==
    ASSUME IInv, Next, NEW c \in Children, DeathKept(c)
    PROVE  \/ DeathKept(c)'
           \/ \E t \in Threads : interrupted_by[t] # "none" /\ m_result'[t].process = c
<1>1. ASSUME NEW t \in Threads, NEW r \in Requests, WaitFound(t, r)
      PROVE  DeathKept(c)'
  BY <1>1, KeptByWaitFound
<1>2. ASSUME NEW t \in Threads, EndBlocking(t) \/ Return(t)
      PROVE  DeathKept(c)'
  BY <1>2, KeptByEndBlocking, KeptByReturn
<1>3. ASSUME NEW d \in Children, Stop(d) \/ Continue(d) \/ Finalize(d)
      PROVE  \/ DeathKept(c)'
             \/ \E t \in Threads : interrupted_by[t] # "none" /\ m_result'[t].process = c
  <2>0. ("SIGCHLD" \in Handled) \in BOOLEAN /\ FALSE \in BOOLEAN
    OBVIOUS
  <2>2. CASE Stop(d)
    BY <2>0, <2>2, ChildChanges, KeptByChange
  <2>3. CASE Continue(d)
    BY <2>0, <2>3, ChildChanges, KeptByChange
  <2>4. CASE Finalize(d)
    BY <2>0, <2>4, ChildChanges, KeptByChange
  <2> QED  BY <1>3, <2>2, <2>3, <2>4
<1>4. CASE \/ \E t \in Threads, r \in Requests : WaitBlocks(t, r)
           \/ \E t \in Threads, d \in Children : Disown(t, d)
           \/ \E d \in Children : Die(d)
           \/ Signal \/ FinalizeParent
  BY <1>4, KeptByOthers
<1> QED  BY <1>1, <1>2, <1>3, <1>4 DEF Next

\* No VERIFY fails: unblock() is told of a death once, and a caller without a
\* state was interrupted.
LEMMA NextVerifies ==
    ASSUME IInv, Next
    PROVE  ~verify_failed'
<1>1. ASSUME NEW c \in Children, Stop(c) \/ Continue(c) \/ Finalize(c)
      PROVE  ~verify_failed'
  BY <1>1, TellStep DEF Next
<1>2. ASSUME NEW t \in Threads, Return(t)
      PROVE  ~verify_failed'
  BY <1>2 DEF Return, IInv, Callers
<1> QED
  BY <1>1, <1>2 DEF Next, WaitFound, WaitBlocks, EndBlocking, Disown, Die, Signal, FinalizeParent

\* A death that is listed, returned or on its way is lost to an interrupted waitid
\* or not at all, and the VERIFYs of unblock() and do_waitid hold.
THEOREM OnlyInterruptedLoses == Spec => OnlyInterruptedLose
<1>1. IInv /\ [Next]_vars =>
        [~verify_failed' /\ \A c \in Children : DeathKept(c) /\ ~DeathKept(c)' =>
            \E t \in Threads : interrupted_by[t] # "none" /\ m_result'[t].process = c]_vars
  BY NextLoses, NextVerifies
<1> QED  BY <1>1, Invariance, PTL DEF Spec, OnlyInterruptedLose

=============================================================================
