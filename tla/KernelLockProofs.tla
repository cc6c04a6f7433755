-------------------------- MODULE KernelLockProofs --------------------------
(***************************************************************************)
(* Proofs about KernelLock, for every set of threads and every nesting     *)
(* bound.                                                                  *)
(***************************************************************************)
EXTENDS KernelLock, FiniteSetTheorems, WaitQueueProofs, TLAPS

(* One token per shared hold, so that m_times_locked, the sum of the entries
   of m_shared_holders, is a cardinality.                                    *)
TokensOf(f) == {x \in Threads \X Nat : x[2] >= 1 /\ x[2] <= f[x[1]]}

\* n tokens of one thread.
Block(t, a, n) == {t} \X ((a + 1)..(a + n))

LEMMA TokenBlock ==
    ASSUME NEW t, NEW a \in Nat, NEW n \in Nat
    PROVE  IsFiniteSet(Block(t, a, n)) /\ Cardinality(Block(t, a, n)) = n
<1> DEFINE I == (a + 1)..(a + n)
<1>1. IsFiniteSet({t}) /\ Cardinality({t}) = 1
  BY FS_Singleton
<1>2. IsFiniteSet(I) /\ Cardinality(I) = n
  <2>1. a + 1 \in Int /\ a + n \in Int
    OBVIOUS
  <2>2. /\ IsFiniteSet(I)
        /\ Cardinality(I) = IF a + 1 > a + n THEN 0 ELSE (a + n) - (a + 1) + 1
    BY <2>1, FS_Interval
  <2> QED  BY <2>2
<1> HIDE DEF I
<1>3. /\ IsFiniteSet({t} \X I)
      /\ Cardinality({t} \X I) = Cardinality({t}) * Cardinality(I)
  BY <1>1, <1>2, FS_Product
<1>4. IsFiniteSet({t} \X I) /\ Cardinality({t} \X I) = n
  BY <1>1, <1>2, <1>3
<1> QED  BY <1>4 DEF I, Block

\* Taking n shared holds away from t takes n tokens away.
LEMMA RemoveTokens ==
    ASSUME NEW f \in [Threads -> Nat], NEW t \in Threads, NEW n \in Nat,
           n <= f[t], IsFiniteSet(TokensOf(f))
    PROVE  /\ [f EXCEPT ![t] = @ - n] \in [Threads -> Nat]
           /\ IsFiniteSet(TokensOf([f EXCEPT ![t] = @ - n]))
           /\ Cardinality(TokensOf([f EXCEPT ![t] = @ - n])) = Cardinality(TokensOf(f)) - n
<1> DEFINE a == f[t] - n
           g == [f EXCEPT ![t] = @ - n]
           D == Block(t, a, n)
<1>1. a \in Nat
  OBVIOUS
<1>2. g \in [Threads -> Nat]
  OBVIOUS
<1>3. TokensOf(g) = TokensOf(f) \ D
  BY <1>2 DEF TokensOf, Block
<1>4. TokensOf(f) \cap D = D
  BY DEF TokensOf, Block
<1> HIDE DEF a, g
<1>5. IsFiniteSet(D) /\ Cardinality(D) = n
  BY <1>1, TokenBlock
<1> HIDE DEF D
<1>6. /\ IsFiniteSet(TokensOf(f) \ D)
      /\ Cardinality(TokensOf(f) \ D) = Cardinality(TokensOf(f)) - Cardinality(TokensOf(f) \cap D)
  BY FS_Difference
<1>8. Cardinality(TokensOf(g)) = Cardinality(TokensOf(f)) - n
  BY <1>3, <1>4, <1>5, <1>6
<1>9. IsFiniteSet(TokensOf(g))
  BY <1>3, <1>6
<1> QED  BY <1>2, <1>8, <1>9 DEF g

\* Giving t another n shared holds adds n tokens.
LEMMA AddTokens ==
    ASSUME NEW f \in [Threads -> Nat], NEW t \in Threads, NEW n \in Nat,
           IsFiniteSet(TokensOf(f))
    PROVE  /\ [f EXCEPT ![t] = @ + n] \in [Threads -> Nat]
           /\ IsFiniteSet(TokensOf([f EXCEPT ![t] = @ + n]))
           /\ Cardinality(TokensOf([f EXCEPT ![t] = @ + n])) = Cardinality(TokensOf(f)) + n
<1> DEFINE a == f[t]
           g == [f EXCEPT ![t] = @ + n]
           D == Block(t, a, n)
<1>1. a \in Nat
  OBVIOUS
<1>2. g \in [Threads -> Nat]
  OBVIOUS
<1>3. TokensOf(g) = TokensOf(f) \cup D
  BY <1>2 DEF TokensOf, Block
<1>4. TokensOf(f) \cap D = {}
  BY DEF TokensOf, Block
<1> HIDE DEF a, g
<1>5. IsFiniteSet(D) /\ Cardinality(D) = n
  BY <1>1, TokenBlock
<1> HIDE DEF D
<1>6. /\ IsFiniteSet(TokensOf(f) \cup D)
      /\ Cardinality(TokensOf(f) \cup D) =
            Cardinality(TokensOf(f)) + Cardinality(D) - Cardinality(TokensOf(f) \cap D)
  BY <1>5, FS_Union
<1>7. Cardinality(TokensOf(f) \cap D) = 0
  BY <1>4, FS_EmptySet
<1>8. Cardinality(TokensOf(f)) \in Nat
  BY FS_CardinalityType
<1>9. Cardinality(TokensOf(g)) = Cardinality(TokensOf(f)) + n
  <2>1. Cardinality(TokensOf(g)) = Cardinality(TokensOf(f)) + n - 0
    BY <1>3, <1>5, <1>6, <1>7
  <2> QED  BY <1>8, <2>1
<1>10. IsFiniteSet(TokensOf(g))
  BY <1>3, <1>6
<1> QED  BY <1>2, <1>9, <1>10 DEF g

\* No tokens, no holders.
LEMMA NoTokens ==
    ASSUME NEW f \in [Threads -> Nat], IsFiniteSet(TokensOf(f))
    PROVE  Cardinality(TokensOf(f)) = 0 <=> \A t \in Threads : f[t] = 0
<1>1. ASSUME NEW t \in Threads, f[t] # 0 PROVE <<t, 1>> \in TokensOf(f)
  BY <1>1 DEF TokensOf
<1>2. ASSUME NEW x \in TokensOf(f) PROVE f[x[1]] # 0 /\ x[1] \in Threads
  BY DEF TokensOf
<1>3. Cardinality(TokensOf(f)) = 0 <=> TokensOf(f) = {}
  BY FS_EmptySet
<1> HIDE DEF TokensOf
<1> QED  BY <1>1, <1>2, <1>3

----------------------------------------------------------------------------
(* The inductive invariant.  The books: what the fields say, in each mode,
   about who holds the lock.  m_times_locked is the sum of the shared holds;
   without that the last unlock could not conclude that no holder is left.   *)
Books ==
    /\ IsFiniteSet(TokensOf(m_shared_holders))
    /\ m_mode = "Unlocked" =>
          /\ m_holder = NoThread
          /\ m_times_locked = 0
          /\ \A t \in Threads : m_shared_holders[t] = 0 /\ depth[t] = 0
    /\ m_mode = "Exclusive" =>
          /\ m_holder \in Threads
          /\ m_times_locked > 0
          /\ m_times_locked = depth[m_holder]
          /\ grant[m_holder] = "Exclusive"
          /\ \A t \in Threads : m_shared_holders[t] = 0
          /\ \A t \in Threads \ {m_holder} : depth[t] = 0
    /\ m_mode = "Shared" =>
          /\ m_holder = NoThread
          /\ m_times_locked > 0
          /\ m_times_locked = Cardinality(TokensOf(m_shared_holders))
          /\ \A t \in Threads : /\ m_shared_holders[t] = depth[t]
                                /\ depth[t] > 0 => grant[t] = "Shared"

\* A thread inside lock() asks for a mode; one that is away knows what to take
\* back, and holds nothing.
Callers ==
    \A t \in Threads :
        /\ pc[t] \in {"trying", "refused", "registered", "blocked", "interrupted"} =>
              want[t] \in {"Exclusive", "Shared"}
        /\ pc[t] \in {"yielding", "away"} =>
              /\ saved[t].mode \in {"Exclusive", "Shared"}
              /\ saved[t].count > 0
              /\ depth[t] = 0

IInv == TypeOK /\ Books /\ Callers

LEMMA InitIInv == Init => IInv
<1> SUFFICES ASSUME Init PROVE IInv
  OBVIOUS
<1>1. TypeOK
  BY DEF Init, TypeOK, NewQueue, Queue, Queues, PCs, NothingSaved
<1>2. TokensOf(m_shared_holders) = {}
  BY DEF Init, TokensOf
<1>3. Books
  BY <1>2, FS_EmptySet DEF Init, Books
<1>4. Callers
  BY DEF Init, Callers
<1> QED  BY <1>1, <1>3, <1>4 DEF IInv

\* Steps that leave the lock's fields and the users' holds alone.
LEMMA QuietSteps ==
    ASSUME IInv, NEW t \in Threads,
           \/ \E mode \in Modes : CallLock(t, mode)
           \/ LockRefused(t) \/ RegisterBlocker(t) \/ BeginBlocking(t)
           \/ Interrupt(t) \/ Resume(t) \/ WakeWaiter(t)
           \/ \E next \in {"yielding", "exiting"} : ForceUnlockUnlocked(t, next)
           \/ ClearWaiters(t)
    PROVE  IInv'
<1> USE LockAssumptions
<1>1. UNCHANGED <<lockVars, depth, grant, saved>>
  BY DEF CallLock, LockRefused, RegisterBlocker, BeginBlocking, Interrupt,
         Resume, WakeWaiter, ForceUnlockUnlocked, ClearWaiters
<1>2. Books'
  BY <1>1 DEF IInv, Books, TokensOf, lockVars
<1>3. m_queue' \in Queues(Threads)
  <2>1. m_queue \in Queues(Threads)
    BY DEF IInv, TypeOK
  <2>2. m_queue' \in {m_queue, AddBlocker(m_queue, t), RemoveBlocker(m_queue, t),
                      WakeOne(m_queue), WakeAll(m_queue)}
    BY DEF CallLock, LockRefused, RegisterBlocker, BeginBlocking, Interrupt,
           Resume, WakeWaiter, ForceUnlockUnlocked, ClearWaiters
  <2>3. /\ AddBlocker(m_queue, t) \in Queues(Threads)
        /\ RemoveBlocker(m_queue, t) \in Queues(Threads)
        /\ WakeOne(m_queue) \in Queues(Threads)
        /\ WakeAll(m_queue) \in Queues(Threads)
    BY <2>1, QueueTyping
  <2> QED  BY <2>1, <2>2, <2>3
<1>4. want' \in [Threads -> {"Unlocked", "Exclusive", "Shared"}]
  BY DEF IInv, TypeOK, CallLock, LockRefused, RegisterBlocker, BeginBlocking,
         Interrupt, Resume, WakeWaiter, ForceUnlockUnlocked, ClearWaiters
<1>5. pc' \in [Threads -> PCs]
  BY DEF IInv, TypeOK, PCs, Goto, AfterWake, Unblocked, CallLock, LockRefused,
         RegisterBlocker, BeginBlocking, Interrupt, Resume, WakeWaiter,
         ForceUnlockUnlocked, ClearWaiters
<1>6. TypeOK'
  BY <1>1, <1>3, <1>4, <1>5 DEF IInv, TypeOK, lockVars
<1>7. Callers'
  BY <1>1, <1>4, <1>5 DEF IInv, TypeOK, Callers, PCs, Goto, AfterWake, Unblocked,
         CallLock, LockRefused, RegisterBlocker, BeginBlocking, Interrupt, Resume,
         WakeWaiter, ForceUnlockUnlocked, ClearWaiters
<1> QED  BY <1>2, <1>6, <1>7 DEF IInv

\* lock() on a free lock.
LEMMA FreshGrant ==
    ASSUME IInv, NEW t \in Threads, LockUnlocked(t)
    PROVE  IInv'
<1> USE LockAssumptions
<1>1. want[t] \in {"Exclusive", "Shared"}
  BY DEF IInv, Callers, LockUnlocked
<1>2. m_queue' \in Queues(Threads)
  <2>1. m_queue \in Queues(Threads)
    BY DEF IInv, TypeOK
  <2>2. SetShouldBlock(m_queue, TRUE) \in Queues(Threads)
    BY <2>1, QueueTyping
  <2> QED  BY <2>2 DEF LockUnlocked
<1>3. TypeOK'
  <2>1. /\ m_mode' \in {"Unlocked", "Exclusive", "Shared"}
        /\ m_times_locked' \in Nat
        /\ m_holder' \in Threads \cup {NoThread}
        /\ m_shared_holders' \in [Threads -> Nat]
    BY <1>1 DEF IInv, TypeOK, LockUnlocked
  <2>2. /\ pc' \in [Threads -> PCs]
        /\ want' \in [Threads -> {"Unlocked", "Exclusive", "Shared"}]
        /\ saved' = saved
        /\ depth' \in [Threads -> Nat]
        /\ grant' \in [Threads -> {"Unlocked", "Exclusive", "Shared"}]
    BY <1>1 DEF IInv, TypeOK, LockUnlocked, Granted, Goto, PCs
  <2> QED  BY <1>2, <2>1, <2>2 DEF IInv, TypeOK
<1>4. Callers'
  BY DEF IInv, Callers, TypeOK, LockUnlocked, Granted, Goto
<1>5. Books'
  <2>1. CASE want[t] = "Exclusive"
    BY <2>1 DEF IInv, Books, TypeOK, LockUnlocked, Granted, TokensOf
  <2>2. CASE want[t] = "Shared"
    <3>1. m_shared_holders' = [m_shared_holders EXCEPT ![t] = @ + 1]
      BY <2>2 DEF IInv, Books, TypeOK, LockUnlocked
    <3>2. /\ IsFiniteSet(TokensOf(m_shared_holders'))
          /\ Cardinality(TokensOf(m_shared_holders')) =
                Cardinality(TokensOf(m_shared_holders)) + 1
      <4>1. m_shared_holders \in [Threads -> Nat] /\ IsFiniteSet(TokensOf(m_shared_holders))
        BY DEF IInv, Books, TypeOK
      <4>2. LET g == [m_shared_holders EXCEPT ![t] = @ + 1]
            IN  /\ IsFiniteSet(TokensOf(g))
                /\ Cardinality(TokensOf(g)) = Cardinality(TokensOf(m_shared_holders)) + 1
        BY <4>1, AddTokens
      <4> QED  BY <3>1, <4>2
    <3>3. Cardinality(TokensOf(m_shared_holders)) = 0
      BY NoTokens DEF IInv, Books, TypeOK, LockUnlocked
    <3>4. TokensOf(m_shared_holders)' = TokensOf(m_shared_holders')
      BY DEF TokensOf
    <3> QED  BY <2>2, <3>1, <3>2, <3>3, <3>4 DEF IInv, Books, TypeOK, LockUnlocked, Granted
  <2> QED  BY <1>1, <2>1, <2>2
<1> QED  BY <1>3, <1>4, <1>5 DEF IInv

\* lock() by the exclusive holder, and by anybody who joins the readers.
LEMMA FurtherGrant ==
    ASSUME IInv, NEW t \in Threads, LockHeldExclusively(t) \/ LockShared(t)
    PROVE  IInv'
<1> USE LockAssumptions
<1>1. want[t] \in {"Exclusive", "Shared"}
  BY DEF IInv, Callers, LockHeldExclusively, LockShared
<1>2. TypeOK'
  BY <1>1 DEF IInv, TypeOK, LockHeldExclusively, LockShared, Granted, Goto, PCs
<1>3. Callers'
  BY DEF IInv, Callers, TypeOK, LockHeldExclusively, LockShared, Granted, Goto
<1>4. CASE LockHeldExclusively(t)
  <2>1. Books'
    BY <1>4 DEF IInv, Books, TypeOK, LockHeldExclusively, Granted, TokensOf
  <2> QED  BY <1>2, <1>3, <2>1 DEF IInv
<1>5. CASE LockShared(t)
  <2>1. m_shared_holders' = [m_shared_holders EXCEPT ![t] = @ + 1]
    BY <1>5 DEF LockShared
  <2>2. /\ IsFiniteSet(TokensOf(m_shared_holders'))
        /\ Cardinality(TokensOf(m_shared_holders')) =
              Cardinality(TokensOf(m_shared_holders)) + 1
    <3>1. m_shared_holders \in [Threads -> Nat] /\ IsFiniteSet(TokensOf(m_shared_holders))
      BY DEF IInv, Books, TypeOK
    <3>2. LET g == [m_shared_holders EXCEPT ![t] = @ + 1]
          IN  /\ IsFiniteSet(TokensOf(g))
              /\ Cardinality(TokensOf(g)) = Cardinality(TokensOf(m_shared_holders)) + 1
      BY <3>1, AddTokens
    <3> QED  BY <2>1, <3>2
  <2>3. TokensOf(m_shared_holders)' = TokensOf(m_shared_holders')
    BY DEF TokensOf
  <2>4. Books'
    BY <1>5, <2>1, <2>2, <2>3 DEF IInv, Books, TypeOK, LockShared, Granted
  <2> QED  BY <1>2, <1>3, <2>4 DEF IInv
<1> QED  BY <1>4, <1>5

\* Giving up n holds of a thread that has them.
LEMMA DropHoldBooks ==
    ASSUME TypeOK, Books, NEW t \in Threads, NEW n \in Nat, n > 0,
           n <= depth[t], n = 1 \/ n = HeldCount(t), DropHold(t, n)
    PROVE  /\ Books'
           /\ m_mode' \in {"Unlocked", m_mode}
           /\ m_times_locked' \in Nat
           /\ m_holder' \in Threads \cup {NoThread}
           /\ m_shared_holders' \in [Threads -> Nat]
           /\ m_queue' \in Queues(Threads)
           /\ depth' \in [Threads -> Nat]
           /\ grant' \in [Threads -> {"Unlocked", "Exclusive", "Shared"}]
<1> USE LockAssumptions
<1>0. m_mode # "Unlocked"
  BY DEF TypeOK, Books
<1>1. m_queue' \in Queues(Threads)
  <2>1. m_queue \in Queues(Threads)
    BY DEF TypeOK
  <2>2. SetShouldBlock(m_queue, FALSE) \in Queues(Threads)
    BY <2>1, QueueTyping
  <2> QED  BY <2>1, <2>2 DEF DropHold
<1>2. /\ depth' \in [Threads -> Nat]
      /\ grant' \in [Threads -> {"Unlocked", "Exclusive", "Shared"}]
      /\ m_mode' \in {"Unlocked", m_mode}
  <2>1. depth' = [depth EXCEPT ![t] = @ - n] /\ depth \in [Threads -> Nat]
    BY DEF TypeOK, DropHold
  <2>2. depth' \in [Threads -> Nat]
    BY <2>1
  <2>3. grant' \in [Threads -> {"Unlocked", "Exclusive", "Shared"}]
    BY DEF TypeOK, DropHold
  <2>4. m_mode' \in {"Unlocked", m_mode}
    BY DEF DropHold
  <2> QED  BY <2>2, <2>3, <2>4
<1>3. CASE m_mode = "Exclusive"
  <2>1. m_holder = t /\ m_times_locked = depth[t]
    BY <1>3 DEF TypeOK, Books
  <2>2. m_shared_holders' = m_shared_holders /\ m_times_locked' = m_times_locked - n
    BY <1>3 DEF DropHold
  <2>3. TokensOf(m_shared_holders)' = TokensOf(m_shared_holders)
    BY <2>2 DEF TokensOf
  <2>4. depth' = [depth EXCEPT ![t] = @ - n] /\ depth \in [Threads -> Nat]
    BY DEF TypeOK, DropHold
  <2>5. CASE m_times_locked = n
    <3>1. m_mode' = "Unlocked" /\ m_holder' = NoThread
      BY <1>3, <2>5 DEF DropHold
    <3>2. m_times_locked' = 0 /\ \A u \in Threads : depth'[u] = 0
      BY <1>3, <2>1, <2>2, <2>4, <2>5 DEF Books, TypeOK
    <3>3. Books'
      BY <1>3, <2>2, <2>3, <3>1, <3>2 DEF Books
    <3> QED  BY <1>1, <1>2, <2>2, <3>1, <3>2, <3>3 DEF TypeOK
  <2>6. CASE m_times_locked # n
    <3>1. m_mode' = "Exclusive" /\ m_holder' = t
      BY <1>3, <2>1, <2>6 DEF DropHold
    <3>2. /\ m_times_locked' \in Nat /\ m_times_locked' > 0
          /\ m_times_locked' = depth'[t]
      BY <2>1, <2>2, <2>4, <2>6
    <3>3. grant'[t] = "Exclusive"
      BY <1>3, <2>1, <2>6 DEF Books, TypeOK, DropHold
    <3>4. \A u \in Threads \ {t} : depth'[u] = 0
      BY <1>3, <2>1, <2>4 DEF Books
    <3>5. Books'
      BY <1>3, <2>2, <2>3, <3>1, <3>2, <3>3, <3>4 DEF Books
    <3> QED  BY <1>1, <1>2, <2>2, <3>1, <3>2, <3>5 DEF TypeOK
  <2> QED  BY <2>5, <2>6
<1>4. CASE m_mode = "Shared"
  <2>1. m_shared_holders' = [m_shared_holders EXCEPT ![t] = @ - n]
    BY <1>4 DEF DropHold
  <2>2. n <= m_shared_holders[t]
    BY <1>4 DEF Books
  <2>3. /\ m_shared_holders' \in [Threads -> Nat]
        /\ IsFiniteSet(TokensOf(m_shared_holders'))
        /\ Cardinality(TokensOf(m_shared_holders')) =
              Cardinality(TokensOf(m_shared_holders)) - n
    <3>1. m_shared_holders \in [Threads -> Nat] /\ IsFiniteSet(TokensOf(m_shared_holders))
      BY DEF Books, TypeOK
    <3> DEFINE g == [m_shared_holders EXCEPT ![t] = @ - n]
    <3>2. g \in [Threads -> Nat] /\ IsFiniteSet(TokensOf(g))
      BY <2>2, <3>1, RemoveTokens
    <3>3. Cardinality(TokensOf(g)) = Cardinality(TokensOf(m_shared_holders)) - n
      BY <2>2, <3>1, RemoveTokens
    <3> QED  BY <2>1, <3>2, <3>3
  <2>4. TokensOf(m_shared_holders)' = TokensOf(m_shared_holders')
    BY DEF TokensOf
  <2>5. Cardinality(TokensOf(m_shared_holders')) \in Nat
    BY <2>3, FS_CardinalityType
  <2>6. m_times_locked' = Cardinality(TokensOf(m_shared_holders')) /\ m_times_locked' \in Nat
    BY <1>4, <2>3, <2>5 DEF Books, TypeOK, DropHold
  <2>7. m_times_locked' = 0 <=> m_times_locked = n
    BY <1>4, <2>6 DEF DropHold, TypeOK
  <2>8. m_times_locked' = 0 <=> \A u \in Threads : m_shared_holders'[u] = 0
    BY <2>3, <2>6, NoTokens
  <2>9. \A u \in Threads : m_shared_holders'[u] = depth'[u]
    BY <1>4, <2>1 DEF Books, TypeOK, DropHold
  <2>10. m_holder' = m_holder /\ m_holder = NoThread
    BY <1>4 DEF Books, DropHold
  <2>11. CASE m_times_locked = n
    <3>1. m_mode' = "Unlocked"
      BY <2>11 DEF DropHold
    <3> QED  BY <1>1, <1>2, <2>3, <2>4, <2>6, <2>7, <2>8, <2>9, <2>10, <2>11, <3>1 DEF Books, TypeOK
  <2>12. CASE m_times_locked # n
    <3>1. m_mode' = "Shared"
      BY <1>4, <2>12 DEF DropHold
    <3>2. \A u \in Threads : depth'[u] > 0 => grant'[u] = "Shared"
      BY <1>4 DEF Books, TypeOK, DropHold
    <3>3. m_times_locked' > 0
      BY <2>6, <2>7, <2>12
    <3> QED  BY <1>1, <1>2, <2>3, <2>4, <2>6, <2>9, <2>10, <3>1, <3>2, <3>3 DEF Books, TypeOK
  <2> QED  BY <2>11, <2>12
<1> QED  BY <1>0, <1>3, <1>4 DEF TypeOK

\* A thread's own count is what the lock has on file for it.
LEMMA HeldCountIsDepth ==
    ASSUME TypeOK, Books, NEW t \in Threads
    PROVE  /\ Holds(t) <=> depth[t] > 0
           /\ Holds(t) => HeldCount(t) = depth[t] /\ m_mode = grant[t]
<1> USE LockAssumptions
<1> QED  BY DEF TypeOK, Books, Holds, HeldCount

\* unlock() and force_unlock_if_locked().
LEMMA Releases ==
    ASSUME IInv, NEW t \in Threads,
           \/ Unlock(t)
           \/ \E next \in {"yielding", "exiting"} : ForceUnlockHeld(t, next)
    PROVE  IInv'
<1> USE LockAssumptions
<1>1. CASE Unlock(t)
  <2>1. DropHold(t, 1) /\ 1 <= depth[t]
    BY <1>1 DEF Unlock, IInv, TypeOK
  <2>2. /\ Books'
        /\ m_mode' \in {"Unlocked", m_mode}
        /\ m_times_locked' \in Nat
        /\ m_holder' \in Threads \cup {NoThread}
        /\ m_shared_holders' \in [Threads -> Nat]
        /\ m_queue' \in Queues(Threads)
        /\ depth' \in [Threads -> Nat]
        /\ grant' \in [Threads -> {"Unlocked", "Exclusive", "Shared"}]
    BY <2>1, DropHoldBooks DEF IInv
  <2>3. TypeOK'
    BY <1>1, <2>2 DEF IInv, TypeOK, Unlock, Goto, PCs
  <2>4. Callers'
    BY <1>1 DEF IInv, TypeOK, Callers, Unlock, Goto, DropHold
  <2> QED  BY <2>2, <2>3, <2>4 DEF IInv
<1>2. ASSUME NEW next \in {"yielding", "exiting"}, ForceUnlockHeld(t, next)
      PROVE  IInv'
  <2> DEFINE n == HeldCount(t)
  <2>1. n = depth[t] /\ n > 0 /\ n \in Nat /\ m_mode = grant[t]
    BY <1>2, HeldCountIsDepth DEF ForceUnlockHeld, IInv, TypeOK
  <2>2. DropHold(t, n)
    BY <1>2 DEF ForceUnlockHeld
  <2>3. n <= depth[t] /\ n = HeldCount(t)
    BY <2>1
  <2> HIDE DEF n
  <2>4. /\ Books'
        /\ m_mode' \in {"Unlocked", m_mode}
        /\ m_times_locked' \in Nat
        /\ m_holder' \in Threads \cup {NoThread}
        /\ m_shared_holders' \in [Threads -> Nat]
        /\ m_queue' \in Queues(Threads)
        /\ depth' \in [Threads -> Nat]
        /\ grant' \in [Threads -> {"Unlocked", "Exclusive", "Shared"}]
    BY <2>1, <2>2, <2>3, DropHoldBooks DEF IInv
  <2>5. saved' \in [Threads -> [mode : {"Unlocked", "Exclusive", "Shared"}, count : Nat]]
    BY <1>2, <2>1 DEF IInv, TypeOK, ForceUnlockHeld, n
  <2>6. TypeOK'
    BY <1>2, <2>4, <2>5 DEF IInv, TypeOK, ForceUnlockHeld, Goto, PCs
  <2>7. m_mode \in {"Exclusive", "Shared"}
    BY <1>2 DEF ForceUnlockHeld, Holds
  <2>8. depth'[t] = 0 /\ \A u \in Threads \ {t} : depth'[u] = depth[u]
    BY <2>1, <2>2 DEF DropHold, IInv, TypeOK
  <2>9. /\ \A u \in Threads \ {t} : saved'[u] = saved[u] /\ pc'[u] = pc[u]
        /\ pc'[t] = next /\ want' = want
        /\ next = "yielding" => saved'[t].mode = m_mode /\ saved'[t].count = n
    BY <1>2 DEF ForceUnlockHeld, Goto, IInv, TypeOK, n
  <2>10. Callers'
    BY <2>1, <2>7, <2>8, <2>9 DEF IInv, Callers
  <2> QED  BY <2>4, <2>6, <2>10 DEF IInv
<1> QED  BY <1>1, <1>2

\* restore_lock().
LEMMA Restores ==
    ASSUME IInv, NEW t \in Threads, RestoreLock(t)
    PROVE  IInv'
<1> USE LockAssumptions
<1> DEFINE n == saved[t].count
<1>1. /\ saved[t].mode \in {"Exclusive", "Shared"}
      /\ n > 0 /\ n \in Nat
      /\ depth[t] = 0
  BY DEF IInv, Callers, TypeOK, RestoreLock
<1>2. m_queue' \in Queues(Threads)
  <2>1. m_queue \in Queues(Threads)
    BY DEF IInv, TypeOK
  <2>2. SetShouldBlock(m_queue, TRUE) \in Queues(Threads)
    BY <2>1, QueueTyping
  <2> QED  BY <2>2 DEF RestoreLock
<1>3. m_shared_holders[t] = 0
  BY <1>1 DEF IInv, Books, RestoreLock
<1>4. TypeOK'
  <2>1. /\ m_mode' \in {"Unlocked", "Exclusive", "Shared"}
        /\ m_times_locked' \in Nat
        /\ m_holder' \in Threads \cup {NoThread}
        /\ m_shared_holders' \in [Threads -> Nat]
    BY <1>1 DEF IInv, TypeOK, RestoreLock
  <2>2. /\ pc' \in [Threads -> PCs]
        /\ want' = want
        /\ depth' \in [Threads -> Nat]
        /\ grant' \in [Threads -> {"Unlocked", "Exclusive", "Shared"}]
    BY <1>1 DEF IInv, TypeOK, RestoreLock, Goto, PCs
  <2>3. saved' \in [Threads -> [mode : {"Unlocked", "Exclusive", "Shared"}, count : Nat]]
    BY DEF IInv, TypeOK, RestoreLock, NothingSaved
  <2> QED  BY <1>2, <2>1, <2>2, <2>3 DEF IInv, TypeOK
<1>5. Callers'
  BY DEF IInv, Callers, TypeOK, RestoreLock, Goto
<1>6. /\ depth' = [depth EXCEPT ![t] = n]
      /\ grant' = [grant EXCEPT ![t] = saved[t].mode]
      /\ m_mode' = saved[t].mode
      /\ m_times_locked' = m_times_locked + n
  BY DEF RestoreLock
<1>7. Books'
  <2>1. CASE saved[t].mode = "Exclusive"
    <3>1. m_mode = "Unlocked" /\ m_holder' = t /\ m_shared_holders' = m_shared_holders
      BY <2>1 DEF RestoreLock
    <3>2. TokensOf(m_shared_holders)' = TokensOf(m_shared_holders)
      BY <3>1 DEF TokensOf
    <3> HIDE DEF n
    <3> QED  BY <1>1, <1>6, <2>1, <3>1, <3>2 DEF IInv, Books, TypeOK
  <2>2. CASE saved[t].mode = "Shared"
    <3>1. /\ m_shared_holders' = [m_shared_holders EXCEPT ![t] = @ + n]
          /\ m_holder' = m_holder
          /\ m_mode \in {"Unlocked", "Shared"}
      BY <1>1, <1>3, <2>2 DEF IInv, TypeOK, RestoreLock
    <3>2. m_shared_holders \in [Threads -> Nat] /\ IsFiniteSet(TokensOf(m_shared_holders))
      BY DEF IInv, Books, TypeOK
    <3> HIDE DEF n
    <3>3. /\ IsFiniteSet(TokensOf(m_shared_holders'))
          /\ Cardinality(TokensOf(m_shared_holders')) =
                Cardinality(TokensOf(m_shared_holders)) + n
      <4> DEFINE g == [m_shared_holders EXCEPT ![t] = @ + n]
      <4>1. IsFiniteSet(TokensOf(g))
        BY <1>1, <3>2, AddTokens
      <4>2. Cardinality(TokensOf(g)) = Cardinality(TokensOf(m_shared_holders)) + n
        BY <1>1, <3>2, AddTokens
      <4> QED  BY <3>1, <4>1, <4>2
    <3>4. Cardinality(TokensOf(m_shared_holders)) = m_times_locked
      BY <3>1, <3>2, NoTokens DEF IInv, Books
    <3>5. TokensOf(m_shared_holders)' = TokensOf(m_shared_holders')
      BY DEF TokensOf
    <3>6. m_times_locked' = Cardinality(TokensOf(m_shared_holders))' /\ m_times_locked' > 0
      BY <1>1, <1>6, <3>3, <3>4, <3>5 DEF IInv, TypeOK
    <3>7. \A u \in Threads : /\ m_shared_holders'[u] = depth'[u]
                             /\ depth'[u] > 0 => grant'[u] = "Shared"
      BY <1>1, <1>3, <1>6, <2>2, <3>1, <3>2 DEF IInv, Books, TypeOK
    <3>8. m_holder' = NoThread
      BY <3>1 DEF IInv, Books
    <3> QED  BY <1>6, <2>2, <3>3, <3>5, <3>6, <3>7, <3>8 DEF Books
  <2> QED  BY <1>1, <2>1, <2>2
<1> QED  BY <1>4, <1>5, <1>7 DEF IInv

LEMMA NextIInv == IInv /\ [Next]_vars => IInv'
<1> SUFFICES ASSUME IInv, [Next]_vars PROVE IInv'
  OBVIOUS
<1>1. CASE UNCHANGED vars
  BY <1>1 DEF vars, IInv, TypeOK, Books, Callers, TokensOf
<1>2. ASSUME NEW t \in Threads, KernelStep(t) PROVE IInv'
  BY <1>2, QuietSteps, FreshGrant, FurtherGrant, Restores DEF KernelStep
<1>3. ASSUME NEW t \in Threads, UserStep(t) PROVE IInv'
  BY <1>3, QuietSteps, Releases DEF UserStep
<1> QED  BY <1>1, <1>2, <1>3 DEF Next

THEOREM Invariance == Spec => []IInv
<1> QED  BY InitIInv, NextIInv, PTL DEF Spec

\* Type correctness.
THEOREM Typing == Spec => []TypeOK
<1>1. IInv => TypeOK
  BY DEF IInv
<1> QED  BY <1>1, Invariance, PTL

\* Whoever was granted exclusive access is alone, however lock(), unlock(),
\* force_unlock_if_locked(), restore_lock() and the wait queue interleave.
THEOREM LockMutualExclusion == Spec => []MutualExclusion
<1>1. IInv => MutualExclusion
  BY DEF IInv, TypeOK, Books, MutualExclusion
<1> QED  BY <1>1, Invariance, PTL

\* No VERIFY of Lock.cpp about the lock's fields can fail.
THEOREM LockVerifies == Spec => []VerifiedState
<1>1. ASSUME IInv PROVE VerifiedState
  <2> USE LockAssumptions
  <2>1. m_mode = "Shared" => ~NoSharedHolders
    BY <1>1, NoTokens DEF IInv, Books, TypeOK, NoSharedHolders
  <2> QED  BY <1>1, <2>1 DEF IInv, TypeOK, Books, Callers, VerifiedState, NoSharedHolders
<1> QED  BY <1>1, Invariance, PTL

\* The lock's books agree with its users.
THEOREM LockHoldersAgree == Spec => []HoldersAgree
<1>1. ASSUME IInv PROVE HoldersAgree
  BY <1>1, HeldCountIsDepth DEF IInv, TypeOK, HoldersAgree
<1> QED  BY <1>1, Invariance, PTL

----------------------------------------------------------------------------
(* No sleeper is forgotten *)

(* The queue holds exactly those on their way to sleep, the sleepers and the
   interrupted, and a lock that is free does not let anybody go to sleep (until
   the first lock() ever, when m_should_block is still TRUE, nobody tries to). *)
Sleepers ==
    /\ Distinct(m_queue)
    /\ \A t \in Threads :
          /\ pc[t] = "registered" => m_mode # "Unlocked"
          /\ pc[t] \in {"registered", "blocked"} => t \in Members(m_queue)
          /\ t \in Members(m_queue) => pc[t] \in {"registered", "blocked", "interrupted"}
    /\ m_mode = "Unlocked" /\ m_queue.m_should_block =>
          \A t \in Threads : pc[t] \notin {"refused", "blocked", "interrupted"}

SInv == IInv /\ Sleepers /\ NoSleeperForgotten

LEMMA InitSInv == Init => SInv
<1> SUFFICES ASSUME Init PROVE SInv
  OBVIOUS
<1>1. IInv
  BY InitIInv
<1>2. Members(m_queue) = {} /\ Distinct(m_queue)
  BY DEF Init, NewQueue, Queue, Members, ToSet, Distinct
<1> QED  BY <1>1, <1>2 DEF Init, SInv, Sleepers, NoSleeperForgotten

\* Steps that leave the queue's blockers alone.
LEMMA SInvSameQueue ==
    ASSUME SInv, NEW t \in Threads, \A u \in Threads \ {t} : pc[u] # "registered",
           \/ \E mode \in Modes : CallLock(t, mode)
           \/ LockUnlocked(t) \/ LockHeldExclusively(t) \/ LockShared(t)
           \/ LockRefused(t) \/ BeginBlocking(t) \/ Interrupt(t)
           \/ Unlock(t) \/ RestoreLock(t)
           \/ \E next \in {"yielding", "exiting"} :
                 ForceUnlockHeld(t, next) \/ ForceUnlockUnlocked(t, next)
    PROVE  Sleepers' /\ NoSleeperForgotten'
<1> USE LockAssumptions
<1>0. pc \in [Threads -> PCs]
  BY DEF SInv, IInv, TypeOK
<1>1. /\ Members(m_queue') = Members(m_queue)
      /\ Distinct(m_queue')
  <2>1. m_queue' \in {m_queue, SetShouldBlock(m_queue, TRUE), SetShouldBlock(m_queue, FALSE)}
    BY DEF CallLock, LockUnlocked, LockHeldExclusively, LockShared, LockRefused,
           BeginBlocking, Interrupt, Unlock, DropHold, RestoreLock, ForceUnlockHeld,
           ForceUnlockUnlocked
  <2>2. Distinct(m_queue)
    BY DEF SInv, Sleepers
  <2> QED  BY <2>1, <2>2, SwitchMembers
<1>2. CASE \/ \E mode \in Modes : CallLock(t, mode)
           \/ LockHeldExclusively(t) \/ LockShared(t) \/ LockRefused(t)
           \/ BeginBlocking(t) \/ Interrupt(t)
           \/ \E next \in {"yielding", "exiting"} : ForceUnlockUnlocked(t, next)
  <2>1. m_queue' = m_queue /\ m_mode' = m_mode
    BY <1>2 DEF CallLock, LockHeldExclusively, LockShared, LockRefused,
           BeginBlocking, Interrupt, ForceUnlockUnlocked, lockVars
  <2>2. \A u \in Threads \ {t} : pc'[u] = pc[u]
    BY <1>0, <1>2 DEF CallLock, LockHeldExclusively, LockShared, LockRefused, Granted,
           BeginBlocking, Interrupt, ForceUnlockUnlocked, Goto
  <2>3. \/ pc[t] = "out" /\ pc'[t] \in {"trying", "waking", "exiting"}
        \/ pc[t] = "trying" /\ pc'[t] \in {"out", "refused"} /\ m_mode # "Unlocked"
        \/ pc[t] = "blocked" /\ pc'[t] = "interrupted"
        \/ pc[t] = "registered" /\ pc'[t] = "blocked"
    BY <1>0, <1>2 DEF CallLock, LockHeldExclusively, LockShared, LockRefused, Granted,
           BeginBlocking, Interrupt, ForceUnlockUnlocked, Goto, SInv, Sleepers
  <2> QED  BY <1>1, <2>1, <2>2, <2>3 DEF SInv, Sleepers, NoSleeperForgotten, Distinct
<1>3. CASE LockUnlocked(t) \/ RestoreLock(t)
  <2>1. m_mode' # "Unlocked"
    BY <1>3 DEF LockUnlocked, RestoreLock, SInv, IInv, Callers
  <2>2. \A u \in Threads \ {t} : pc'[u] = pc[u]
    BY <1>0, <1>3 DEF LockUnlocked, Granted, RestoreLock, Goto
  <2>3. pc[t] \in {"trying", "away"} /\ pc'[t] = "out"
    BY <1>0, <1>3 DEF LockUnlocked, Granted, RestoreLock, Goto
  <2> QED  BY <1>1, <2>1, <2>2, <2>3 DEF SInv, Sleepers, NoSleeperForgotten, Distinct
<1>4. CASE Unlock(t) \/ \E next \in {"yielding", "exiting"} : ForceUnlockHeld(t, next)
  <2>1. m_mode # "Unlocked"
    BY <1>4 DEF Unlock, ForceUnlockHeld, Holds, SInv, IInv, Books, TypeOK
  <2>2. \A u \in Threads \ {t} : pc'[u] = pc[u]
    BY <1>0, <1>4 DEF Unlock, ForceUnlockHeld, Goto
  <2>3. pc[t] = "out" /\ pc'[t] \in {"out", "waking", "yielding", "exiting"}
    BY <1>0, <1>4 DEF Unlock, ForceUnlockHeld, Goto
  <2>4. m_mode' = "Unlocked" =>
           pc'[t] \in {"waking", "yielding", "exiting"} /\ m_queue'.m_should_block = FALSE
    <3>1. m_mode' = "Unlocked" => m_queue' = SetShouldBlock(m_queue, FALSE)
      BY <1>4, <2>1 DEF Unlock, ForceUnlockHeld, DropHold
    <3>2. m_mode' = "Unlocked" => m_queue'.m_should_block = FALSE
      BY <3>1 DEF SetShouldBlock, Queue
    <3>3. CASE Unlock(t)
      <4>1. m_mode' = "Unlocked" => m_times_locked = 1
        BY <2>1, <3>3 DEF Unlock, DropHold
      <4>2. m_times_locked = 1 => pc'[t] = "waking"
        BY <1>0, <3>3 DEF Unlock, Goto
      <4> QED  BY <3>2, <4>1, <4>2
    <3>4. CASE \E next \in {"yielding", "exiting"} : ForceUnlockHeld(t, next)
      <4>1. pc'[t] \in {"yielding", "exiting"}
        BY <1>0, <3>4 DEF ForceUnlockHeld, Goto
      <4> QED  BY <3>2, <4>1
    <3> QED  BY <1>4, <3>3, <3>4
  <2> QED  BY <1>1, <2>2, <2>3, <2>4 DEF SInv, Sleepers, NoSleeperForgotten, Distinct
<1> QED  BY <1>2, <1>3, <1>4

\* Steps that add blockers to the queue or take them out.
LEMMA SInvQueue ==
    ASSUME SInv, NEW t \in Threads, \A u \in Threads \ {t} : pc[u] # "registered",
           RegisterBlocker(t) \/ Resume(t) \/ WakeWaiter(t) \/ ClearWaiters(t)
    PROVE  Sleepers' /\ NoSleeperForgotten'
<1> USE LockAssumptions
<1>0. /\ pc \in [Threads -> PCs]
      /\ m_queue \in Queues(Threads)
      /\ Distinct(m_queue)
      /\ m_mode' = m_mode
  BY DEF SInv, IInv, TypeOK, Sleepers, RegisterBlocker, Resume, WakeWaiter,
         ClearWaiters, lockVars
<1>1. CASE RegisterBlocker(t)
  <2>1. t \notin Members(m_queue)
    BY <1>1 DEF RegisterBlocker, SInv, Sleepers
  <2>2. /\ Distinct(m_queue')
        /\ Members(m_queue') = IF ShouldAddBlocker(m_queue)
                                 THEN Members(m_queue) \cup {t} ELSE Members(m_queue)
    <3>1. m_queue' = AddBlocker(m_queue, t)
      BY <1>1 DEF RegisterBlocker
    <3> QED  BY <1>0, <2>1, <3>1, AddedMembers
  <2>3. m_queue'.m_should_block = m_queue.m_should_block
    BY <1>1 DEF RegisterBlocker, AddBlocker, Queue
  <2>4. \A u \in Threads \ {t} : pc'[u] = pc[u]
    BY <1>0, <1>1 DEF RegisterBlocker, Goto
  <2>5. pc[t] = "refused"
    BY <1>1 DEF RegisterBlocker
  <2>6. CASE ShouldAddBlocker(m_queue)
    <3>1. pc'[t] = "registered"
      BY <1>0, <1>1, <2>6 DEF RegisterBlocker, Goto
    <3>2. m_mode # "Unlocked"
      BY <2>5, <2>6 DEF ShouldAddBlocker, SInv, Sleepers
    <3> QED  BY <1>0, <2>2, <2>4, <2>5, <2>6, <3>1, <3>2
             DEF SInv, Sleepers, NoSleeperForgotten, Distinct
  <2>7. CASE ~ShouldAddBlocker(m_queue)
    <3>1. pc'[t] = "trying"
      BY <1>0, <1>1, <2>7 DEF RegisterBlocker, Goto
    <3> QED  BY <1>0, <2>1, <2>2, <2>3, <2>4, <2>5, <2>7, <3>1
             DEF SInv, Sleepers, NoSleeperForgotten, Distinct
  <2> QED  BY <2>6, <2>7
<1>2. CASE Resume(t)
  <2>1. Distinct(m_queue') /\ Members(m_queue') = Members(m_queue) \ {t}
    <3>1. m_queue' = RemoveBlocker(m_queue, t)
      BY <1>2 DEF Resume
    <3> QED  BY <1>0, <3>1, RemovedMembers
  <2>2. m_queue'.m_should_block = m_queue.m_should_block
    BY <1>2 DEF Resume, RemoveBlocker, Queue
  <2>3. \A u \in Threads \ {t} : pc'[u] = pc[u]
    BY <1>0, <1>2 DEF Resume, Goto
  <2>4. pc[t] = "interrupted" /\ pc'[t] = "trying"
    BY <1>0, <1>2 DEF Resume, Goto
  <2> QED  BY <1>0, <2>1, <2>2, <2>3, <2>4 DEF SInv, Sleepers, NoSleeperForgotten, Distinct
<1>3. CASE WakeWaiter(t)
  <2> DEFINE W == WokenByOne(m_queue)
  <2>1. /\ Distinct(m_queue')
        /\ Members(m_queue') = Members(m_queue) \ W
        /\ W \subseteq Members(m_queue)
        /\ Members(m_queue) # {} => W # {}
    <3>1. m_queue' = WakeOne(m_queue)
      BY <1>3 DEF WakeWaiter
    <3> QED  BY <1>0, <3>1, WokenMembers
  <2>2. m_queue'.m_should_block = m_queue.m_should_block
    BY <1>3 DEF WakeWaiter, WakeOne, Queue
  <2> HIDE DEF W
  <2>3. pc[t] \in {"waking", "yielding", "exiting"} /\ pc'[t] \in {"out", "away", "dead"}
    BY <1>3 DEF WakeWaiter, AfterWake
  <2>4. \A u \in Threads \ {t} :
           pc'[u] = IF u \in W /\ pc[u] = "blocked" THEN "trying" ELSE pc[u]
    BY <1>3 DEF WakeWaiter, Unblocked, W
  <2>5. Sleepers'
    BY <1>0, <2>1, <2>2, <2>3, <2>4 DEF SInv, Sleepers, Distinct
  <2>6. ASSUME NEW u \in Threads, pc'[u] = "blocked"
        PROVE  \E v \in Threads : pc'[v] \in {"trying", "interrupted"}
    <3>1. u \in Members(m_queue)
      BY <2>3, <2>4, <2>6 DEF SInv, Sleepers
    <3>2. PICK v \in W : TRUE
      BY <2>1, <3>1
    <3>3. v \in Members(m_queue) /\ v \in Threads
      BY <1>0, <2>1, <3>2 DEF Queues, Members, ToSet
    <3>4. pc[v] \in {"blocked", "interrupted"} /\ v # t
      BY <2>3, <3>3 DEF SInv, Sleepers
    <3> QED  BY <2>4, <3>2, <3>3, <3>4
  <2>7. NoSleeperForgotten'
    BY <2>6 DEF NoSleeperForgotten
  <2> QED  BY <2>5, <2>7
<1>4. CASE ClearWaiters(t)
  <2>1. Distinct(m_queue') /\ Members(m_queue') = {}
    BY <1>0, <1>4, WokenMembers DEF ClearWaiters
  <2>2. m_queue'.m_should_block = m_queue.m_should_block
    BY <1>4 DEF ClearWaiters, WakeAll, Queue
  <2>3. \A u \in Threads :
           pc'[u] = IF u \in Members(m_queue) /\ pc[u] = "blocked" THEN "trying" ELSE pc[u]
    BY <1>4 DEF ClearWaiters, Unblocked
  <2>4. \A u \in Threads : pc'[u] \notin {"registered", "blocked"}
    <3>1. pc[t] # "registered"
      BY <1>4 DEF ClearWaiters
    <3> QED  BY <2>3, <3>1 DEF SInv, Sleepers
  <2> QED  BY <1>0, <2>1, <2>2, <2>3, <2>4 DEF SInv, Sleepers, NoSleeperForgotten, Distinct
<1> QED  BY <1>1, <1>2, <1>3, <1>4

\* On one processor no wake-up is lost: while somebody sleeps on a free lock,
\* some thread is about to wake a sleeper or to take the lock.
THEOREM LockForgetsNobody ==
    ASSUME ~SplitRegistration
    PROVE  Spec => []NoSleeperForgotten
<1>1. SInv /\ [Next]_vars => SInv'
  <2> SUFFICES ASSUME SInv, [Next]_vars PROVE SInv'
    OBVIOUS
  <2>1. IInv'
    BY NextIInv DEF SInv
  <2>2. CASE UNCHANGED vars
    BY <2>1, <2>2 DEF vars, SInv, Sleepers, NoSleeperForgotten, Distinct, Members
  <2>3. ASSUME NEW t \in Threads, MayRun(t), KernelStep(t)
        PROVE  Sleepers' /\ NoSleeperForgotten'
    <3>1. \A u \in Threads \ {t} : pc[u] # "registered"
      BY <2>3 DEF MayRun
    <3> QED  BY <2>3, <3>1, SInvSameQueue, SInvQueue DEF KernelStep
  <2>4. ASSUME NEW t \in Threads, MayRun(t), UserStep(t)
        PROVE  Sleepers' /\ NoSleeperForgotten'
    <3>1. \A u \in Threads \ {t} : pc[u] # "registered"
      BY <2>4 DEF MayRun
    <3> QED  BY <2>4, <3>1, SInvSameQueue, SInvQueue DEF UserStep
  <2> QED  BY <2>1, <2>2, <2>3, <2>4 DEF Next, SInv
<1>2. SInv => NoSleeperForgotten
  BY DEF SInv
<1> QED  BY InitSInv, <1>1, <1>2, PTL DEF Spec

----------------------------------------------------------------------------
(* Kernel::Lock implements ReadersWriterLock *)

LEMMA RefinementStep ==
    ASSUME IInv, [Next]_vars
    PROVE  [RW!Next]_(RW!vars)
<1> USE LockAssumptions
<1>0. depth \in [Threads -> Nat] /\ grant \in [Threads -> {"Unlocked", "Exclusive", "Shared"}]
  BY DEF IInv, TypeOK
<1>1. CASE UNCHANGED <<depth, grant>>
  BY <1>1 DEF RW!vars
<1>2. ASSUME NEW t \in Threads, LockUnlocked(t) PROVE RW!Next
  <2>1. want[t] \in {"Exclusive", "Shared"} /\ \A u \in Threads : depth[u] = 0
    BY <1>2 DEF IInv, Callers, Books, LockUnlocked
  <2>2. grant' = [grant EXCEPT ![t] = want[t]]
    BY <1>0, <1>2, <2>1 DEF LockUnlocked, Granted
  <2>3. depth' = [depth EXCEPT ![t] = depth'[t]] /\ depth'[t] \in Nat \ {0}
    <3>1. depth' = [depth EXCEPT ![t] = @ + 1]
      BY <1>2 DEF LockUnlocked, Granted
    <3> QED  BY <1>0, <3>1
  <2>4. RW!Acquire(t, want[t])
    BY <2>1, <2>2, <2>3 DEF RW!Acquire, RW!Compatible
  <2> QED  BY <2>1, <2>3, <2>4 DEF RW!Next
<1>3. ASSUME NEW t \in Threads, LockHeldExclusively(t) \/ LockShared(t) PROVE RW!Next
  <2>1. want[t] \in {"Exclusive", "Shared"}
    BY <1>3 DEF IInv, Callers, LockHeldExclusively, LockShared
  <2>2. /\ depth' = [depth EXCEPT ![t] = @ + 1]
        /\ grant' = [grant EXCEPT ![t] = IF depth[t] = 0 THEN want[t] ELSE @]
    BY <1>3 DEF LockHeldExclusively, LockShared, Granted
  <2>3. depth' = [depth EXCEPT ![t] = depth'[t]] /\ depth'[t] = depth[t] + 1
    BY <1>0, <2>2
  <2>4. CASE depth[t] = 0
    <3>1. LockShared(t)
      BY <1>3, <2>4 DEF IInv, TypeOK, Books, LockHeldExclusively
    <3>2. want[t] = "Shared" /\ \A u \in Threads : depth[u] > 0 => grant[u] = "Shared"
      BY <3>1 DEF LockShared, IInv, Books
    <3>3. RW!Acquire(t, want[t])
      BY <1>0, <2>2, <2>3, <2>4, <3>2 DEF RW!Acquire, RW!Compatible
    <3> QED  BY <2>1, <2>3, <3>3 DEF RW!Next
  <2>5. CASE depth[t] # 0
    <3>1. depth[t] > 0 /\ grant' = grant
      BY <1>0, <2>2, <2>5
    <3>2. RW!Compatible(t, grant[t])
      BY <1>0, <1>3, <3>1 DEF RW!Compatible, LockHeldExclusively, LockShared, IInv, Books
    <3>3. RW!Nest(t)
      BY <2>3, <3>1, <3>2 DEF RW!Nest
    <3> QED  BY <2>3, <3>3 DEF RW!Next
  <2> QED  BY <2>4, <2>5
<1>4. ASSUME NEW t \in Threads, NEW n \in Nat, n > 0, n <= depth[t], DropHold(t, n)
      PROVE  RW!Next
  <2>1. /\ depth' = [depth EXCEPT ![t] = @ - n]
        /\ grant' = [grant EXCEPT ![t] = IF depth[t] = n THEN "Unlocked" ELSE @]
    BY <1>4 DEF DropHold
  <2>2. /\ depth' = [depth EXCEPT ![t] = depth'[t]]
        /\ depth'[t] \in 0..(depth[t] - 1)
        /\ depth'[t] = 0 <=> depth[t] = n
    BY <1>0, <1>4, <2>1
  <2>3. RW!Release(t)
    BY <2>1, <2>2 DEF RW!Release
  <2> QED  BY <2>2, <2>3 DEF RW!Next
<1>5. ASSUME NEW t \in Threads, RestoreLock(t) PROVE RW!Next
  <2>1. /\ saved[t].mode \in {"Exclusive", "Shared"}
        /\ saved[t].count \in Nat \ {0}
        /\ depth[t] = 0
    BY <1>5 DEF IInv, TypeOK, Callers, RestoreLock
  <2>2. /\ depth' = [depth EXCEPT ![t] = saved[t].count]
        /\ grant' = [grant EXCEPT ![t] = saved[t].mode]
    BY <1>5 DEF RestoreLock
  <2>3. depth' = [depth EXCEPT ![t] = depth'[t]] /\ depth'[t] \in Nat \ {0}
    BY <1>0, <2>1, <2>2
  <2>4. RW!Compatible(t, saved[t].mode)
    BY <1>5 DEF RW!Compatible, RestoreLock, IInv, Books
  <2>5. RW!Acquire(t, saved[t].mode)
    BY <2>1, <2>2, <2>3, <2>4 DEF RW!Acquire
  <2> QED  BY <2>1, <2>3, <2>5 DEF RW!Next
<1>6. ASSUME NEW t \in Threads, KernelStep(t) PROVE RW!Next \/ UNCHANGED <<depth, grant>>
  BY <1>2, <1>3, <1>5, <1>6
     DEF KernelStep, LockRefused, RegisterBlocker, BeginBlocking, Resume, WakeWaiter
<1>7. ASSUME NEW t \in Threads, UserStep(t) PROVE RW!Next \/ UNCHANGED <<depth, grant>>
  <2>1. CASE Unlock(t)
    BY <1>0, <1>4, <2>1 DEF Unlock
  <2>2. ASSUME NEW next \in {"yielding", "exiting"}, ForceUnlockHeld(t, next) PROVE RW!Next
    <3>1. HeldCount(t) = depth[t] /\ depth[t] > 0 /\ DropHold(t, HeldCount(t))
      BY <2>2, HeldCountIsDepth DEF ForceUnlockHeld, IInv
    <3> QED  BY <1>0, <1>4, <3>1
  <2> QED  BY <1>7, <2>1, <2>2 DEF UserStep, CallLock, Interrupt, ForceUnlockUnlocked, ClearWaiters
<1> QED  BY <1>1, <1>6, <1>7 DEF Next, vars

\* Every behaviour of Kernel::Lock is one of the abstract readers-writer lock.
THEOREM LockRefinement == Spec => ImplementsRW
<1>1. Init => RW!Init
  BY DEF Init, RW!Init
<1>2. IInv /\ [Next]_vars => [RW!Next]_(RW!vars)
  BY RefinementStep
<1> QED  BY <1>1, <1>2, Invariance, PTL DEF Spec, ImplementsRW, RW!Spec
=============================================================================
