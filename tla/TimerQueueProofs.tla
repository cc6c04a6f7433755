-------------------------- MODULE TimerQueueProofs --------------------------
(***************************************************************************)
(* Proofs about TimerQueue, for any threads and timeouts: what is due next *)
(* is the head of an ordered list, and no callback outlives its block().   *)
(***************************************************************************)
EXTENDS TimerQueue, WaitQueueProofs, TLAPS

(* The inductive invariant.                                                  *)

\* No timer of l is due before one that comes earlier in l.
Ordered(l, expires) ==
    \A i \in DOMAIN l : \A j \in 1..i : expires[l[j]] <= expires[l[i]]

\* The list holds a timer once, in the order of the deadlines.
Order ==
    /\ IsInjective(list)
    /\ Ordered(list, m_expires)
    /\ next_timer_due = NextDue(list, m_expires)

\* A timer that has fired has left the list, and executes until its deferred call
\* is done.
Calls ==
    /\ m_timers_executing = ToSet(deferred)
    /\ ToSet(list) \cap ToSet(deferred) = {}

\* A timer that may still fire, or has, belongs to a thread that is in block() and has
\* not got past cancel_timer; once it has timed out it is neither in the list nor
\* executing.
Past(t) == pc[t] \in {"leaving", "out"}
Frames ==
    \A t \in Threads :
        /\ t \in ToSet(list) \cup ToSet(deferred) => ~Past(t)
        /\ t \in timeout_unblocked =>
              ~Past(t) /\ t \notin ToSet(list) \cup ToSet(deferred)

\* Calls are left over only while the thread that runs is in the critical section of
\* its block(), from restore_critical on.
Pending ==
    ToSet(deferred) # {} =>
        cur \in Threads /\ pc[cur] \in {"restoring", "critical", "cancel", "leaving"}

IInv == TypeOK /\ Order /\ Calls /\ Frames /\ Pending

----------------------------------------------------------------------------
(* The list. *)

\* Every timer of a list is at some place of it.
LEMMA Places ==
    ASSUME NEW T, NEW l \in Seq(T)
    PROVE  /\ DOMAIN l = 1..Len(l) /\ Len(l) \in Nat
           /\ ToSet(l) \subseteq T
           /\ \A t : t \in ToSet(l) <=> \E i \in 1..Len(l) : l[i] = t
BY DEF ToSet

\* remove(): the timer leaves the list, and the others stay in their order.
LEMMA RemovedTimer ==
    ASSUME NEW T, NEW l \in Seq(T), IsInjective(l), NEW t,
           NEW r, r = RemoveFirst(l, t)
    PROVE  /\ r \in Seq(T) /\ IsInjective(r) /\ ToSet(r) = ToSet(l) \ {t}
           /\ \A e, f : /\ Ordered(l, e)
                        /\ \A u \in ToSet(l) \ {t} : f[u] = e[u]
                        => Ordered(r, f)
<1>1. /\ r \in Seq(T) /\ IsInjective(r) /\ ToSet(r) = ToSet(l) \ {t}
      /\ \A a \in DOMAIN r : \A b \in 1..a : \E x \in DOMAIN l : \E y \in 1..x :
            r[a] = l[x] /\ r[b] = l[y]
  BY RemovedFirst
<1>2. ASSUME NEW e, NEW f, Ordered(l, e), \A u \in ToSet(l) \ {t} : f[u] = e[u]
      PROVE  Ordered(r, f)
  <2> SUFFICES ASSUME NEW a \in DOMAIN r, NEW b \in 1..a
               PROVE  f[r[b]] <= f[r[a]]
    BY DEF Ordered
  <2>1. PICK x \in DOMAIN l : \E y \in 1..x : r[a] = l[x] /\ r[b] = l[y]
    BY <1>1
  <2>2. PICK y \in 1..x : r[a] = l[x] /\ r[b] = l[y]
    BY <2>1
  <2>3. e[l[y]] <= e[l[x]]
    BY <1>2 DEF Ordered
  <2>4. b \in DOMAIN r
    BY <1>1
  <2>5. r[a] \in ToSet(l) \ {t} /\ r[b] \in ToSet(l) \ {t}
    BY <1>1, <2>4 DEF ToSet
  <2> QED  BY <1>2, <2>2, <2>3, <2>5
<1> QED  BY <1>1, <1>2

\* add_timer_locked finds a place: before the first timer that expires later.
LEMMA InsertPlace ==
    ASSUME NEW T, NEW l \in Seq(T), NEW e \in [T -> Int], NEW d \in Int
    PROVE  LET i == InsertPosition(l, e, d)
           IN  /\ i \in 1..(Len(l) + 1)
               /\ \A j \in 1..(i - 1) : e[l[j]] <= d
               /\ i <= Len(l) => e[l[i]] > d
<1> DEFINE later == {i \in 1..Len(l) : e[l[i]] > d}
<1>0. Len(l) \in Nat /\ \A i \in 1..Len(l) : e[l[i]] \in Int
  OBVIOUS
<1>1. \E i \in 1..(Len(l) + 1) :
        /\ \A j \in 1..(i - 1) : e[l[j]] <= d
        /\ i <= Len(l) => e[l[i]] > d
  <2>1. CASE later = {}
    <3>1. \A j \in 1..Len(l) : e[l[j]] <= d
      BY <1>0, <2>1
    <3>2. Len(l) + 1 \in 1..(Len(l) + 1) /\ (Len(l) + 1) - 1 = Len(l) /\ ~(Len(l) + 1 <= Len(l))
      BY <1>0
    <3> QED  BY <3>1, <3>2
  <2>2. CASE later # {}
    <3>1. later \subseteq Nat
      BY <1>0
    <3>2. PICK i \in later : \A j \in later : i <= j
      BY <2>2, <3>1, LeastNumber
    <3>3. \A j \in 1..(i - 1) : e[l[j]] <= d
      BY <1>0, <3>2
    <3>4. i \in 1..(Len(l) + 1) /\ e[l[i]] > d
      BY <1>0, <3>2
    <3> QED  BY <3>3, <3>4
  <2> QED  BY <2>1, <2>2
<1> QED  BY <1>1 DEF InsertPosition

\* A sequence with an element put before its i-th.
LEMMA InsertAtProperties ==
    ASSUME NEW T, NEW s \in Seq(T), NEW t \in T, NEW i \in 1..(Len(s) + 1)
    PROVE  /\ InsertAt(s, i, t) \in Seq(T)
           /\ DOMAIN InsertAt(s, i, t) = 1..(Len(s) + 1)
           /\ InsertAt(s, i, t)[i] = t
           /\ \A j \in 1..(Len(s) + 1) : j < i => InsertAt(s, i, t)[j] = s[j]
           /\ \A j \in 1..(Len(s) + 1) : j > i => InsertAt(s, i, t)[j] = s[j - 1]
<1> DEFINE a == SubSeq(s, 1, i - 1)
           b == SubSeq(s, i, Len(s))
           m == a \o <<t>>
           r == InsertAt(s, i, t)
<1>0. Len(s) \in Nat /\ i \in Nat /\ i >= 1 /\ i <= Len(s) + 1
  OBVIOUS
<1>1. a \in Seq(T) /\ Len(a) = i - 1 /\ \A j \in 1..(i - 1) : a[j] = s[j]
  BY <1>0
<1>2. /\ b \in Seq(T) /\ Len(b) = Len(s) - i + 1
      /\ \A j \in 1..(Len(s) - i + 1) : b[j] = s[i + j - 1]
  BY <1>0
<1>3. r = m \o b
  BY DEF InsertAt
<1> HIDE DEF a, b, r
<1>4. /\ m \in Seq(T) /\ Len(m) = i
      /\ \A j \in 1..i : m[j] = IF j < i THEN a[j] ELSE t
  BY <1>0, <1>1
<1> HIDE DEF m
<1>5. /\ m \o b \in Seq(T) /\ Len(m \o b) = Len(m) + Len(b)
      /\ \A j \in 1..(Len(m) + Len(b)) :
            (m \o b)[j] = IF j <= Len(m) THEN m[j] ELSE b[j - Len(m)]
  BY <1>2, <1>4, ConcatProperties
<1>6. r \in Seq(T) /\ Len(r) = Len(s) + 1 /\ DOMAIN r = 1..(Len(s) + 1)
  BY <1>0, <1>2, <1>3, <1>4, <1>5
<1>7. r[i] = t
  BY <1>0, <1>2, <1>3, <1>4, <1>5
<1>8. ASSUME NEW j \in 1..(Len(s) + 1), j < i
      PROVE  r[j] = s[j]
  <2>1. j \in 1..(Len(m) + Len(b)) /\ j <= Len(m) /\ j \in 1..i /\ j \in 1..(i - 1)
    BY <1>0, <1>2, <1>4, <1>8
  <2> QED  BY <1>1, <1>3, <1>4, <1>5, <1>8, <2>1
<1>9. ASSUME NEW j \in 1..(Len(s) + 1), j > i
      PROVE  r[j] = s[j - 1]
  <2>1. j - i \in 1..(Len(s) - i + 1) /\ i + (j - i) - 1 = j - 1
    BY <1>0, <1>9
  <2>2. j \in 1..(Len(m) + Len(b)) /\ ~(j <= Len(m)) /\ j - Len(m) = j - i
    BY <1>0, <1>2, <1>4, <1>9
  <2>3. r[j] = b[j - i]
    BY <1>3, <1>5, <2>2
  <2> QED  BY <1>2, <2>1, <2>3
<1> QED  BY <1>6, <1>7, <1>8, <1>9 DEF r

\* What an insertion does to a list without t.
LEMMA InsertedElement ==
    ASSUME NEW T, NEW s \in Seq(T), IsInjective(s), NEW t \in T, t \notin ToSet(s),
           NEW i \in 1..(Len(s) + 1)
    PROVE  /\ IsInjective(InsertAt(s, i, t))
           /\ ToSet(InsertAt(s, i, t)) = ToSet(s) \cup {t}
           /\ \A j \in DOMAIN InsertAt(s, i, t) : j # i =>
                \E k \in 1..Len(s) : /\ InsertAt(s, i, t)[j] = s[k]
                                     /\ k = (IF j < i THEN j ELSE j - 1)
<1> DEFINE r == InsertAt(s, i, t)
<1>0. DOMAIN s = 1..Len(s) /\ Len(s) \in Nat /\ i \in Nat /\ \A j \in 1..Len(s) : s[j] # t
  BY DEF ToSet
<1>1. /\ DOMAIN r = 1..(Len(s) + 1)
      /\ r[i] = t
      /\ \A j \in 1..(Len(s) + 1) : j < i => r[j] = s[j]
      /\ \A j \in 1..(Len(s) + 1) : j > i => r[j] = s[j - 1]
  BY InsertAtProperties
<1> HIDE DEF r
<1>2. \A j \in DOMAIN r : j # i =>
         \E k \in 1..Len(s) : r[j] = s[k] /\ k = (IF j < i THEN j ELSE j - 1)
  <2> TAKE j \in DOMAIN r
  <2> HAVE j # i
  <2>1. CASE j < i
    BY <1>0, <1>1, <2>1
  <2>2. CASE j > i
    <3>1. j - 1 \in 1..Len(s) /\ r[j] = s[j - 1]
      BY <1>0, <1>1, <2>2
    <3> QED  BY <1>0, <1>1, <2>2, <3>1
  <2> QED  BY <1>0, <1>1, <2>1, <2>2
<1>3. \A k \in 1..Len(s) : \E j \in DOMAIN r : r[j] = s[k]
  <2> TAKE k \in 1..Len(s)
  <2>1. CASE k < i
    <3>1. k \in DOMAIN r /\ r[k] = s[k]
      BY <1>0, <1>1, <2>1
    <3> QED  BY <3>1
  <2>2. CASE k >= i
    <3>1. k + 1 \in DOMAIN r /\ k + 1 > i /\ (k + 1) - 1 = k
      BY <1>0, <1>1, <2>2
    <3>2. r[k + 1] = s[k]
      BY <1>1, <3>1
    <3> QED  BY <3>1, <3>2
  <2> QED  BY <1>0, <2>1, <2>2
<1>4. i \in DOMAIN r
  BY <1>0, <1>1
<1>5. ToSet(r) = ToSet(s) \cup {t}
  <2>1. ToSet(r) \subseteq ToSet(s) \cup {t}
    BY <1>0, <1>1, <1>2 DEF ToSet
  <2>2. ToSet(s) \subseteq ToSet(r)
    BY <1>0, <1>3 DEF ToSet
  <2>3. t \in ToSet(r)
    BY <1>1, <1>4 DEF ToSet
  <2> QED  BY <2>1, <2>2, <2>3
<1>6. IsInjective(r)
  <2> SUFFICES ASSUME NEW x \in DOMAIN r, NEW y \in DOMAIN r, r[x] = r[y]
               PROVE  x = y
    BY DEF IsInjective
  <2>1. CASE x = i \/ y = i
    BY <1>0, <1>1, <1>2, <2>1
  <2>2. CASE x # i /\ y # i
    <3>1. PICK k \in 1..Len(s) : r[x] = s[k] /\ k = (IF x < i THEN x ELSE x - 1)
      BY <1>2, <2>2
    <3>2. PICK m \in 1..Len(s) : r[y] = s[m] /\ m = (IF y < i THEN y ELSE y - 1)
      BY <1>2, <2>2
    <3>3. k = m
      BY <1>0, <3>1, <3>2 DEF IsInjective
    <3> QED  BY <1>0, <1>1, <2>2, <3>1, <3>2, <3>3
  <2> QED  BY <2>1, <2>2
<1> QED  BY <1>2, <1>5, <1>6 DEF r

\* A list in the order of e, a timer t that is not in it and that is to expire at d,
\* and the expiries f once it is in.
Addable(l, e, t, d, f) ==
    /\ l \in Seq(Timers) /\ IsInjective(l) /\ t \in Timers \ ToSet(l)
    /\ e \in [Timers -> Int] /\ Ordered(l, e) /\ d \in Int
    /\ f \in [Timers -> Int] /\ f[t] = d /\ \A u \in ToSet(l) : f[u] = e[u]

\* r is l with t in it, in the order of f.
Added(r, l, t, f) ==
    /\ r \in Seq(Timers) /\ IsInjective(r)
    /\ ToSet(r) = ToSet(l) \cup {t}
    /\ Ordered(r, f)

\* add_timer_locked puts a timer into the list, which stays in order.
LEMMA AddedTimer ==
    ASSUME NEW l, NEW e, NEW t, NEW d, NEW f, Addable(l, e, t, d, f)
    PROVE  Added(AddTimer(l, e, t, d), l, t, f)
<1> USE DEF Addable
<1> DEFINE i == InsertPosition(l, e, d)
           r == AddTimer(l, e, t, d)
<1>0. /\ DOMAIN l = 1..Len(l) /\ Len(l) \in Nat
      /\ \A j \in 1..Len(l) : l[j] \in ToSet(l) /\ l[j] \in Timers
  BY DEF ToSet
<1>1. /\ i \in 1..(Len(l) + 1)
      /\ \A j \in 1..(i - 1) : e[l[j]] <= d
      /\ i <= Len(l) => e[l[i]] > d
  BY InsertPlace
<1>2. r = InsertAt(l, i, t) /\ i \in 1..(Len(l) + 1) /\ i \in Nat
  BY <1>0, <1>1 DEF AddTimer
<1> HIDE DEF i, r
<1>3. /\ r \in Seq(Timers) /\ DOMAIN r = 1..(Len(l) + 1)
      /\ r[i] = t
      /\ \A j \in 1..(Len(l) + 1) : j < i => r[j] = l[j]
      /\ \A j \in 1..(Len(l) + 1) : j > i => r[j] = l[j - 1]
  <2>1. i \in 1..(Len(l) + 1)
    BY <1>2
  <2>2. /\ InsertAt(l, i, t) \in Seq(Timers) /\ DOMAIN InsertAt(l, i, t) = 1..(Len(l) + 1)
        /\ InsertAt(l, i, t)[i] = t
        /\ \A j \in 1..(Len(l) + 1) : j < i => InsertAt(l, i, t)[j] = l[j]
        /\ \A j \in 1..(Len(l) + 1) : j > i => InsertAt(l, i, t)[j] = l[j - 1]
    BY <2>1, InsertAtProperties
  <2> QED  BY <1>2, <2>2
<1>4. /\ IsInjective(r) /\ ToSet(r) = ToSet(l) \cup {t}
      /\ \A j \in DOMAIN r : j # i =>
            \E k \in 1..Len(l) : r[j] = l[k] /\ k = (IF j < i THEN j ELSE j - 1)
  <2>1. i \in 1..(Len(l) + 1)
    BY <1>2
  <2>2. /\ IsInjective(InsertAt(l, i, t)) /\ ToSet(InsertAt(l, i, t)) = ToSet(l) \cup {t}
        /\ \A j \in DOMAIN InsertAt(l, i, t) : j # i =>
             \E k \in 1..Len(l) : /\ InsertAt(l, i, t)[j] = l[k]
                                  /\ k = (IF j < i THEN j ELSE j - 1)
    BY <2>1, InsertedElement
  <2> QED  BY <1>2, <2>2
<1>5. Ordered(r, f)
  <2> SUFFICES ASSUME NEW x \in DOMAIN r, NEW y \in 1..x
               PROVE  f[r[y]] <= f[r[x]]
    BY DEF Ordered
  <2>0. y \in DOMAIN r /\ x \in Nat /\ y \in Nat /\ y <= x /\ f[r[x]] \in Int /\ i \in Nat
    BY <1>0, <1>2, <1>3
  <2>1. \A j \in 1..Len(l) : f[l[j]] = e[l[j]] /\ e[l[j]] \in Int
    BY <1>0
  <2>2. CASE x = i /\ y = i
    BY <2>0, <2>2
  <2>3. CASE x = i /\ y # i
    <3>1. y \in 1..(i - 1) /\ y \in 1..Len(l) /\ r[y] = l[y]
      BY <1>0, <1>2, <1>3, <2>0, <2>3
    <3> QED  BY <1>1, <1>3, <2>1, <2>3, <3>1
  <2>4. CASE x # i /\ y = i
    <3>1. x > i /\ x - 1 \in 1..Len(l) /\ i \in 1..(x - 1) /\ i <= Len(l) /\ i \in 1..Len(l)
      <4>1. x \in 1..(Len(l) + 1) /\ x > i
        BY <1>3, <2>0, <2>4
      <4> QED  BY <1>0, <1>2, <4>1
    <3>2. r[x] = l[x - 1]
      BY <1>3, <3>1
    <3>3. e[l[i]] <= e[l[x - 1]]
      BY <1>0, <3>1 DEF Ordered
    <3>4. e[l[i]] > d
      BY <1>1, <3>1
    <3>5. f[r[y]] = d
      BY <1>3, <2>4
    <3>6. f[r[x]] = e[l[x - 1]] /\ e[l[x - 1]] \in Int /\ e[l[i]] \in Int
      BY <2>1, <3>1, <3>2
    <3> QED  BY <3>3, <3>4, <3>5, <3>6
  <2>5. CASE x # i /\ y # i
    <3>1. PICK k \in 1..Len(l) : r[x] = l[k] /\ k = (IF x < i THEN x ELSE x - 1)
      BY <1>4, <2>5
    <3>2. PICK m \in 1..Len(l) : r[y] = l[m] /\ m = (IF y < i THEN y ELSE y - 1)
      BY <1>4, <2>0, <2>5
    <3>3. m \in 1..k
      BY <1>0, <2>0, <2>5, <3>1, <3>2
    <3>4. e[l[m]] <= e[l[k]]
      BY <1>0, <3>3 DEF Ordered
    <3> QED  BY <2>1, <3>1, <3>2, <3>4
  <2> QED  BY <2>2, <2>3, <2>4, <2>5
<1> QED  BY <1>3, <1>4, <1>5 DEF Added, r

\* update_next_timer_due.
LEMMA DueTyping ==
    ASSUME NEW l \in Seq(Timers), NEW e \in [Timers -> 0..MaxDelay]
    PROVE  NextDue(l, e) \in 0..MaxDelay
<1>1. l # <<>> => Head(l) \in Timers
  OBVIOUS
<1> QED  BY <1>1, TimerAssumptions DEF NextDue

\* add_timer_locked leaves the next due time right, though it sets it only for a
\* timer that comes first.
LEMMA AddedDueIsNext ==
    ASSUME NEW l, NEW e, NEW t, NEW d, NEW f, Addable(l, e, t, d, f)
    PROVE  AddedDue(l, e, NextDue(l, e), d) = NextDue(AddTimer(l, e, t, d), f)
<1> USE DEF Addable
<1> DEFINE i == InsertPosition(l, e, d)
           r == AddTimer(l, e, t, d)
<1>0. /\ DOMAIN l = 1..Len(l) /\ Len(l) \in Nat
      /\ \A j \in 1..Len(l) : l[j] \in ToSet(l)
  BY DEF ToSet
<1>1. i \in 1..(Len(l) + 1)
  BY InsertPlace
<1>2. r = InsertAt(l, i, t)
  BY DEF AddTimer
<1>3. AddedDue(l, e, NextDue(l, e), d) = IF l = <<>> \/ i = 1 THEN d ELSE NextDue(l, e)
  BY DEF AddedDue
<1> HIDE DEF i, r
<1>4. /\ r \in Seq(Timers) /\ DOMAIN r = 1..(Len(l) + 1)
      /\ r[i] = t
      /\ \A j \in 1..(Len(l) + 1) : j < i => r[j] = l[j]
  <2>1. /\ InsertAt(l, i, t) \in Seq(Timers) /\ DOMAIN InsertAt(l, i, t) = 1..(Len(l) + 1)
        /\ InsertAt(l, i, t)[i] = t
        /\ \A j \in 1..(Len(l) + 1) : j < i => InsertAt(l, i, t)[j] = l[j]
    BY <1>1, InsertAtProperties
  <2> QED  BY <1>2, <2>1
<1>5. r # <<>> /\ Head(r) = r[1]
  BY <1>0, <1>4
<1>6. CASE l = <<>> \/ i = 1
  <2>1. i = 1
    BY <1>0, <1>1, <1>6
  <2> QED  BY <1>3, <1>4, <1>5, <1>6, <2>1 DEF NextDue, r
<1>7. CASE ~(l = <<>> \/ i = 1)
  <2>1. l # <<>> /\ Head(l) = l[1] /\ 1 \in 1..Len(l) /\ 1 \in 1..(Len(l) + 1) /\ 1 < i
    BY <1>0, <1>1, <1>7
  <2>2. r[1] = l[1] /\ f[l[1]] = e[l[1]]
    BY <1>0, <1>4, <2>1
  <2> QED  BY <1>3, <1>5, <1>7, <2>1, <2>2 DEF NextDue, r
<1> QED  BY <1>6, <1>7

\* So does remove_timer_locked, which updates it only for a timer that was first.
LEMMA RemovedDueIsNext ==
    ASSUME NEW T, NEW l \in Seq(T), IsInjective(l), NEW e, NEW f, NEW t,
           \A u \in ToSet(l) \ {t} : f[u] = e[u]
    PROVE  RemovedDue(l, e, NextDue(l, e), t) = NextDue(RemoveFirst(l, t), f)
<1> DEFINE r == RemoveFirst(l, t)
<1>0. DOMAIN l = 1..Len(l) /\ Len(l) \in Nat
  OBVIOUS
<1>1. /\ r \in Seq(T) /\ IsInjective(r) /\ ToSet(r) = ToSet(l) \ {t}
      /\ \A a \in DOMAIN r : \A b \in 1..a : \E x \in DOMAIN l : \E y \in 1..x :
            r[a] = l[x] /\ r[b] = l[y]
  BY RemovedFirst
<1>2. RemovedDue(l, e, NextDue(l, e), t)
        = IF l # <<>> /\ Head(l) = t THEN NextDue(r, e) ELSE NextDue(l, e)
  BY DEF RemovedDue
<1> HIDE DEF r
<1>3. NextDue(r, e) = NextDue(r, f)
  <2>1. CASE r = <<>>
    BY <2>1 DEF NextDue
  <2>2. CASE r # <<>>
    <3>1. Head(r) = r[1] /\ 1 \in DOMAIN r
      BY <1>1, <2>2
    <3>2. Head(r) \in ToSet(l) \ {t}
      BY <1>1, <3>1 DEF ToSet
    <3> QED  BY <2>2, <3>2 DEF NextDue
  <2> QED  BY <2>1, <2>2
<1>4. CASE l # <<>> /\ Head(l) = t
  BY <1>2, <1>3, <1>4 DEF r
<1>5. CASE l = <<>>
  <2>1. ToSet(r) = {}
    BY <1>1, <1>5 DEF ToSet
  <2>2. r = <<>>
    <3>1. r # <<>> => 1 \in DOMAIN r
      BY <1>1
    <3> QED  BY <2>1, <3>1 DEF ToSet
  <2> QED  BY <1>2, <1>5, <2>2 DEF NextDue, r
<1>6. CASE l # <<>> /\ Head(l) # t
  <2>1. 1 \in DOMAIN l /\ Head(l) = l[1] /\ l[1] \in ToSet(r)
    <3>1. 1 \in DOMAIN l /\ Head(l) = l[1]
      BY <1>0, <1>6
    <3>2. l[1] \in ToSet(l)
      BY <3>1 DEF ToSet
    <3> QED  BY <1>1, <1>6, <3>1, <3>2
  <2>2. PICK a \in DOMAIN r : r[a] = l[1]
    BY <2>1 DEF ToSet
  <2>3. DOMAIN r = 1..Len(r) /\ Len(r) \in Nat
    BY <1>1
  <2>4. 1 \in 1..a /\ 1 \in DOMAIN r /\ r # <<>>
    BY <2>2, <2>3
  <2>5. PICK x \in DOMAIN l : \E y \in 1..x : r[a] = l[x] /\ r[1] = l[y]
    BY <1>1, <2>4
  <2>6. x = 1
    BY <2>1, <2>2, <2>5 DEF IsInjective
  <2>7. r[1] = l[1]
    BY <2>5, <2>6
  <2>8. Head(r) = Head(l)
    BY <1>1, <2>1, <2>4, <2>7
  <2> QED  BY <1>2, <1>3, <1>6, <2>4, <2>8 DEF NextDue, r
<1> QED  BY <1>4, <1>5, <1>6

----------------------------------------------------------------------------
(* The invariant holds at first, and every step keeps it. *)

\* At first there is no timer.
LEMMA InitIInv == Init => IInv
<1> SUFFICES ASSUME Init PROVE IInv
  OBVIOUS
<1>1. list \in Seq(Timers) /\ deferred \in Seq(Timers) /\ ToSet(list) = {} /\ ToSet(deferred) = {}
  BY DEF Init, ToSet
<1>2. TypeOK
  BY <1>1, TimerAssumptions DEF Init, TypeOK, PCs
<1>3. Order
  BY DEF Init, Order, IsInjective, Ordered, NextDue
<1>4. Calls /\ Frames /\ Pending
  BY <1>1 DEF Init, Calls, Frames, Pending
<1> QED  BY <1>2, <1>3, <1>4 DEF IInv

\* deferred_call_execute_pending: nothing executes when it is done, and who has
\* timed out had a call there.
LEMMA Executed ==
    ASSUME IInv, NEW calls \in Seq(Timers), ExecuteDeferred(calls, ToSet(calls))
    PROVE  /\ deferred' \in Seq(Timers) /\ ToSet(deferred') = {}
           /\ m_timers_executing' = {}
           /\ timeout_unblocked' \subseteq timeout_unblocked \cup (Threads \cap ToSet(calls))
           /\ m_blocker' \subseteq Threads
<1>1. deferred' = <<>>
  BY DEF ExecuteDeferred
<1>2. deferred' \in Seq(Timers) /\ ToSet(deferred') = {}
  BY <1>1 DEF ToSet
<1>3. m_timers_executing' = {}
  BY DEF ExecuteDeferred
<1>4. timeout_unblocked' \subseteq timeout_unblocked \cup (Threads \cap ToSet(calls))
  BY DEF ExecuteDeferred, IInv, TypeOK
<1>5. m_blocker' \subseteq Threads
  BY DEF ExecuteDeferred, IInv, TypeOK
<1> QED  BY <1>2, <1>3, <1>4, <1>5

\* The end of block()'s critical section runs the calls that were left.
LEMMA LeaveStep ==
    ASSUME IInv, NEW t \in Threads, Leave(t)
    PROVE  IInv'
<1> USE DEF IInv
<1>0. /\ ExecuteDeferred(deferred, ToSet(deferred)) /\ deferred \in Seq(Timers)
      /\ UNCHANGED queueVars /\ pc' \in [Threads -> PCs]
      /\ \A u \in Threads : Past(u)' = Past(u)
  BY DEF Leave, Calls, TypeOK, PCs, Past
<1>1. /\ deferred' \in Seq(Timers) /\ ToSet(deferred') = {}
      /\ m_timers_executing' = {}
      /\ timeout_unblocked' \subseteq timeout_unblocked \cup (Threads \cap ToSet(deferred))
      /\ m_blocker' \subseteq Threads
  BY <1>0, Executed
<1>2. TypeOK'
  BY <1>0, <1>1 DEF TypeOK, queueVars, Leave
<1>3. Order'
  BY <1>0 DEF Order, queueVars
<1>4. Calls' /\ Pending'
  BY <1>0, <1>1 DEF Calls, Pending, queueVars
<1>5. Frames'
  BY <1>0, <1>1 DEF Frames, Calls, queueVars
<1> QED  BY <1>2, <1>3, <1>4, <1>5

\* Steps that leave the timers alone.
LEMMA ThreadStep ==
    ASSUME IInv, NEW t \in Threads, Schedule(t) \/ Preempt(t) \/ Wake(t) \/ Resume(t)
    PROVE  IInv'
<1> USE DEF IInv, queueVars
<1>1. TypeOK'
  BY DEF TypeOK, PCs, Schedule, Preempt, Wake, Resume
<1>2. Order' /\ Calls'
  BY DEF Order, Calls, Schedule, Preempt, Wake, Resume
<1>3. \A u \in Threads : Past(u)' = Past(u)
  BY DEF TypeOK, Past, Schedule, Preempt, Wake, Resume
<1>4. Frames'
  BY <1>3 DEF Frames, Schedule, Preempt, Wake, Resume
<1>5. Pending'
  <2>1. CASE Schedule(t) \/ Preempt(t)
    BY <2>1, TimerAssumptions DEF Pending, Schedule, Preempt, TypeOK
  <2>2. CASE Wake(t) \/ Resume(t)
    BY <2>2 DEF Pending, Wake, Resume, TypeOK
  <2> QED  BY <2>1, <2>2
<1> QED  BY <1>1, <1>2, <1>4, <1>5

\* block() sets its timer.
LEMMA BlockStep ==
    ASSUME IInv, NEW t \in Threads, NEW d \in Delays, Block(t, d)
    PROVE  IInv'
<1> USE DEF IInv
<1>0. t \in Timers /\ d \in Int /\ d \in 0..MaxDelay /\ m_expires \in [Timers -> Int]
  BY TimerAssumptions DEF Timers, Delays, TypeOK
<1>1. t \notin ToSet(list) \cup ToSet(deferred) \cup timeout_unblocked
  BY DEF Block, Frames, Past
<1>2. /\ m_expires' = [m_expires EXCEPT ![t] = d] /\ m_expires'[t] = d
      /\ m_expires' \in [Timers -> 0..MaxDelay] /\ m_expires' \in [Timers -> Int]
  BY <1>0 DEF Block, TypeOK
<1>3. /\ list \in Seq(Timers) /\ IsInjective(list) /\ Ordered(list, m_expires)
      /\ \A u \in ToSet(list) : m_expires'[u] = m_expires[u]
  BY <1>1, <1>2 DEF TypeOK, ToSet, Order
<1>4. list' = AddTimer(list, m_expires, t, d)
  BY DEF Block
<1>5. /\ list' \in Seq(Timers) /\ IsInjective(list') /\ ToSet(list') = ToSet(list) \cup {t}
      /\ Ordered(list', m_expires') /\ next_timer_due' = NextDue(list', m_expires')
  <2> DEFINE f == m_expires'
  <2>1. t \notin ToSet(list)
    BY <1>1
  <2>2. f \in [Timers -> Int] /\ f[t] = d /\ \A u \in ToSet(list) : f[u] = m_expires[u]
    BY <1>2, <1>3
  <2>3. list \in Seq(Timers) /\ IsInjective(list) /\ Ordered(list, m_expires)
    BY <1>3
  <2> HIDE DEF f
  <2>4. t \in Timers /\ d \in Int /\ m_expires \in [Timers -> Int]
    BY <1>0
  <2>5. Addable(list, m_expires, t, d, f)
    BY <2>1, <2>2, <2>3, <2>4 DEF Addable
  <2>6. Added(list', list, t, f)
    BY <1>4, <2>5, AddedTimer
  <2>7. AddedDue(list, m_expires, NextDue(list, m_expires), d) = NextDue(list', f)
    BY <1>4, <2>5, AddedDueIsNext
  <2>8. next_timer_due' = AddedDue(list, m_expires, NextDue(list, m_expires), d)
    BY DEF Block, Order
  <2> QED  BY <2>6, <2>7, <2>8 DEF Added, f
<1>6. TypeOK'
  <2>1. next_timer_due' \in 0..MaxDelay
    BY <1>2, <1>5, DueTyping
  <2> QED  BY <1>2, <1>5, <2>1 DEF Block, TypeOK, PCs
<1>7. Order'
  BY <1>5 DEF Block, Order
<1>8. Calls' /\ Pending'
  BY <1>1, <1>5 DEF Block, Calls, Pending
<1>9. Frames'
  BY <1>1, <1>5 DEF Block, Frames, TypeOK, Past
<1> QED  BY <1>6, <1>7, <1>8, <1>9

\* block() takes its timer back, or waits for its callback.
LEMMA EndBlockStep ==
    ASSUME IInv, NEW t \in Threads, EndBlock(t)
    PROVE  IInv'
<1> USE DEF IInv
<1>1. CASE t \notin timeout_unblocked /\ MustWait(t)
  <2>1. TypeOK'
    BY <1>1 DEF EndBlock, TypeOK, PCs, queueVars
  <2>2. Order' /\ Calls' /\ Pending'
    BY <1>1 DEF EndBlock, Order, Calls, Pending, TypeOK, queueVars
  <2>3. Frames'
    BY <1>1 DEF EndBlock, Frames, TypeOK, queueVars, Past
  <2> QED  BY <2>1, <2>2, <2>3
<1>2. CASE ~(t \notin timeout_unblocked /\ MustWait(t))
  <2>1. /\ list' = RemoveFirst(list, t)
        /\ m_expires' = [m_expires EXCEPT ![t] = 0]
        /\ next_timer_due' = RemovedDue(list, m_expires, next_timer_due, t)
        /\ cur = t /\ pc' = [pc EXCEPT ![t] = "leaving"]
        /\ timeout_unblocked' = timeout_unblocked \ {t}
        /\ UNCHANGED <<m_timers_executing, deferred, cur, m_blocker>>
    BY <1>2 DEF EndBlock, RemoveTimer
  <2>2. /\ m_expires' \in [Timers -> 0..MaxDelay]
        /\ \A u \in ToSet(list) \ {t} : m_expires'[u] = m_expires[u]
    <3>1. t \in Timers /\ 0 \in 0..MaxDelay
      BY TimerAssumptions DEF Timers
    <3>2. ToSet(list) \subseteq Timers
      BY DEF TypeOK, ToSet
    <3> QED  BY <2>1, <3>1, <3>2 DEF TypeOK
  <2>3. list \in Seq(Timers) /\ IsInjective(list) /\ Ordered(list, m_expires)
    BY DEF TypeOK, Order
  <2>4. /\ list' \in Seq(Timers) /\ IsInjective(list') /\ ToSet(list') = ToSet(list) \ {t}
        /\ Ordered(list', m_expires')
    BY <2>1, <2>2, <2>3, RemovedTimer
  <2>10. next_timer_due' = NextDue(list', m_expires')
    <3> DEFINE f == m_expires'
    <3>1. \A u \in ToSet(list) \ {t} : f[u] = m_expires[u]
      BY <2>2
    <3>2. next_timer_due' = RemovedDue(list, m_expires, NextDue(list, m_expires), t)
      BY <2>1 DEF Order
    <3> HIDE DEF f
    <3>3. RemovedDue(list, m_expires, NextDue(list, m_expires), t) = NextDue(RemoveFirst(list, t), f)
      BY <2>3, <3>1, RemovedDueIsNext
    <3> QED  BY <2>1, <3>2, <3>3 DEF f
  <2>5. t \notin ToSet(deferred)
    BY <1>2 DEF MustWait, Calls, Frames
  <2>6. TypeOK'
    <3>1. next_timer_due' \in 0..MaxDelay
      BY <2>10, <2>2, <2>4, DueTyping
    <3> QED  BY <2>1, <2>2, <2>4, <3>1 DEF TypeOK, PCs
  <2>7. Order'
    BY <2>10, <2>4 DEF Order
  <2>8. Calls' /\ Pending'
    BY <2>1, <2>4 DEF Calls, Pending, TypeOK
  <2>9. Frames'
    BY <2>1, <2>4, <2>5 DEF Frames, TypeOK, Past
  <2> QED  BY <2>6, <2>7, <2>8, <2>9
<1> QED  BY <1>1, <1>2

\* sys$alarm takes the old alarm back, and sets a new one.
LEMMA SetAlarmStep ==
    ASSUME IInv, NEW t \in Threads, NEW d \in Delays \cup {0}, SetAlarm(t, d)
    PROVE  IInv'
<1> USE DEF IInv
<1> DEFINE rest == RemoveFirst(list, Alarm)
           expires == [m_expires EXCEPT ![Alarm] = d]
<1>0. Alarm \in Timers /\ d \in Int /\ d \in 0..MaxDelay
  BY TimerAssumptions DEF Timers, Delays
<1>1. /\ list' = IF d = 0 THEN rest ELSE AddTimer(rest, expires, Alarm, d)
      /\ m_expires' = expires
      /\ next_timer_due' = LET due == RemovedDue(list, m_expires, next_timer_due, Alarm)
                           IN  IF d = 0 THEN due ELSE AddedDue(rest, expires, due, d)
      /\ UNCHANGED <<m_timers_executing, deferred, cur, m_blocker, timeout_unblocked, pc>>
  BY DEF SetAlarm
<1>2. /\ expires \in [Timers -> 0..MaxDelay] /\ expires \in [Timers -> Int] /\ expires[Alarm] = d
      /\ \A u \in ToSet(list) \ {Alarm} : expires[u] = m_expires[u]
  BY <1>0 DEF TypeOK, ToSet
<1>3. list \in Seq(Timers) /\ IsInjective(list) /\ Ordered(list, m_expires)
  BY DEF TypeOK, Order
<1> HIDE DEF expires, rest
<1>4. /\ rest \in Seq(Timers) /\ IsInjective(rest) /\ ToSet(rest) = ToSet(list) \ {Alarm}
      /\ Ordered(rest, expires)
  BY <1>2, <1>3, RemovedTimer DEF rest
<1>11. RemovedDue(list, m_expires, next_timer_due, Alarm) = NextDue(rest, expires)
  <2>1. next_timer_due = NextDue(list, m_expires)
    BY DEF Order
  <2> QED  BY <1>2, <1>3, <2>1, RemovedDueIsNext DEF rest
<1>5. /\ list' \in Seq(Timers) /\ IsInjective(list') /\ Ordered(list', m_expires')
      /\ ToSet(list') \subseteq ToSet(list) \cup {Alarm}
      /\ next_timer_due' = NextDue(list', m_expires')
  <2>1. CASE d = 0
    BY <1>1, <1>4, <1>11, <2>1
  <2>2. CASE d # 0
    <3>1. list' = AddTimer(rest, expires, Alarm, d) /\ Alarm \notin ToSet(rest)
      BY <1>1, <1>4, <2>2
    <3>2. rest \in Seq(Timers) /\ IsInjective(rest) /\ Ordered(rest, expires)
      BY <1>4
    <3>3. /\ Alarm \in Timers /\ d \in Int /\ expires \in [Timers -> Int]
          /\ expires[Alarm] = d /\ Alarm \notin ToSet(rest)
          /\ \A u \in ToSet(rest) : expires[u] = expires[u]
      BY <1>0, <1>2, <3>1
    <3>4. Addable(rest, expires, Alarm, d, expires)
      BY <3>2, <3>3 DEF Addable
    <3>5. Added(list', rest, Alarm, expires)
      BY <3>1, <3>4, AddedTimer
    <3>6. AddedDue(rest, expires, NextDue(rest, expires), d) = NextDue(list', expires)
      BY <3>1, <3>4, AddedDueIsNext
    <3>7. next_timer_due' = AddedDue(rest, expires, NextDue(rest, expires), d)
      BY <1>1, <1>11, <2>2
    <3> QED  BY <1>1, <1>4, <3>5, <3>6, <3>7 DEF Added
  <2> QED  BY <2>1, <2>2
<1>6. ToSet(deferred) = {}
  BY DEF SetAlarm, Pending
<1>7. TypeOK'
  <2>1. next_timer_due' \in 0..MaxDelay
    BY <1>1, <1>2, <1>5, DueTyping
  <2> QED  BY <1>1, <1>2, <1>5, <2>1 DEF TypeOK
<1>8. Order'
  BY <1>5 DEF Order
<1>9. Calls' /\ Pending'
  BY <1>1, <1>6 DEF Calls, Pending
<1>10. Frames'
  BY <1>1, <1>5, <1>6, TimerAssumptions DEF Frames, Past
<1> QED  BY <1>7, <1>8, <1>9, <1>10

\* What is left of a list when its first n timers are taken.
LEMMA Suffix ==
    ASSUME NEW T, NEW l \in Seq(T), NEW n \in 0..Len(l)
    PROVE  /\ SubSeq(l, n + 1, Len(l)) \in Seq(T)
           /\ Len(SubSeq(l, n + 1, Len(l))) = Len(l) - n
           /\ DOMAIN SubSeq(l, n + 1, Len(l)) = 1..(Len(l) - n)
           /\ \A i \in 1..(Len(l) - n) : SubSeq(l, n + 1, Len(l))[i] = l[n + i]
OBVIOUS

\* fire() takes a prefix of the list: what has expired, and nothing else.
LEMMA FiredPrefix ==
    ASSUME IInv, Tick
    PROVE  \E n \in 0..Len(list) :
             /\ \A i \in 1..Len(list) : i > n => m_expires[list[i]] > 0
             /\ list' = SubSeq(list, n + 1, Len(list))
             /\ m_expires' = [t \in Timers |->
                                IF t \in ToSet(SubSeq(list, 1, n)) THEN 0
                                ELSE IF t \in ToSet(list) THEN m_expires[t] - 1 ELSE 0]
             /\ next_timer_due' = IF n > 0 THEN NextDue(list', m_expires')
                                  ELSE IF list # <<>> THEN next_timer_due - 1 ELSE next_timer_due
             /\ ExitTrap(deferred \o SubSeq(list, 1, n),
                         m_timers_executing \cup ToSet(SubSeq(list, 1, n)))
<1> USE DEF IInv
<1> DEFINE passed == [t \in Timers |-> IF t \in ToSet(list) THEN m_expires[t] - 1 ELSE 0]
           Stop(k) == k < Len(list) => ~HasExpired(passed[list[k + 1]])
           stops == {k \in 0..Len(list) : Stop(k)}
           P(k) == /\ \A i \in 1..k : HasExpired(passed[list[i]])
                   /\ Stop(k)
           n == CHOOSE k \in 0..Len(list) : P(k)
<1>0. list \in Seq(Timers) /\ Len(list) \in Nat /\ DOMAIN list = 1..Len(list)
  BY DEF TypeOK
<1>1. stops # {} /\ stops \subseteq Nat
  BY <1>0
<1>2. PICK k \in stops : \A j \in stops : k <= j
  BY <1>1, LeastNumber
<1>3. P(k)
  <2>1. ASSUME NEW i \in 1..k PROVE HasExpired(passed[list[i]])
    <3>1. i - 1 \in 0..Len(list) /\ i - 1 \notin stops /\ (i - 1) + 1 = i /\ i - 1 < Len(list)
      <4>1. k \in Nat /\ k <= Len(list) /\ i \in Nat /\ i >= 1 /\ i <= k
        BY <1>0, <1>2
      <4>2. i - 1 \in 0..Len(list) /\ ~(k <= i - 1) /\ (i - 1) + 1 = i /\ i - 1 < Len(list)
        BY <1>0, <4>1
      <4> HIDE DEF stops
      <4> QED  BY <1>2, <4>2
    <3> QED  BY <3>1
  <2> QED  BY <1>2, <2>1
<1>4. n \in 0..Len(list) /\ P(n)
  BY <1>2, <1>3
<1>5. /\ list' = SubSeq(list, n + 1, Len(list))
      /\ m_expires' = [t \in Timers |-> IF t \in ToSet(SubSeq(list, 1, n)) THEN 0 ELSE passed[t]]
      /\ next_timer_due' = IF n > 0 THEN NextDue(list', m_expires')
                           ELSE IF list # <<>> THEN next_timer_due - 1 ELSE next_timer_due
      /\ ExitTrap(deferred \o SubSeq(list, 1, n),
                  m_timers_executing \cup ToSet(SubSeq(list, 1, n)))
  BY DEF Tick
<1> HIDE DEF n
<1>6. m_expires' = [t \in Timers |->
                      IF t \in ToSet(SubSeq(list, 1, n)) THEN 0
                      ELSE IF t \in ToSet(list) THEN m_expires[t] - 1 ELSE 0]
  BY <1>5
<1>7. ASSUME NEW i \in 1..Len(list), i > n PROVE m_expires[list[i]] > 0
  <2>1. n + 1 \in 1..Len(list) /\ n + 1 \in 1..i /\ n < Len(list)
    BY <1>0, <1>4, <1>7
  <2>2. \A j \in 1..Len(list) : /\ list[j] \in ToSet(list) /\ list[j] \in Timers
                                /\ m_expires[list[j]] \in Nat
    <3>1. \A j \in 1..Len(list) : list[j] \in ToSet(list) /\ list[j] \in Timers
      BY <1>0 DEF ToSet
    <3>2. \A u \in Timers : m_expires[u] \in Nat
      BY TimerAssumptions DEF TypeOK
    <3> QED  BY <3>1, <3>2
  <2>3. ~(m_expires[list[n + 1]] - 1 < 0)
    BY <1>4, <2>1, <2>2 DEF HasExpired
  <2>4. m_expires[list[n + 1]] <= m_expires[list[i]]
    BY <1>0, <2>1 DEF Order, Ordered
  <2> QED  BY <2>1, <2>2, <2>3, <2>4
<1> QED  BY <1>4, <1>5, <1>6, <1>7

\* The timer interrupt.
LEMMA TickStep ==
    ASSUME IInv, Tick
    PROVE  IInv'
<1> USE DEF IInv
<1>1. PICK n \in 0..Len(list) :
             /\ \A i \in 1..Len(list) : i > n => m_expires[list[i]] > 0
             /\ list' = SubSeq(list, n + 1, Len(list))
             /\ m_expires' = [t \in Timers |->
                                IF t \in ToSet(SubSeq(list, 1, n)) THEN 0
                                ELSE IF t \in ToSet(list) THEN m_expires[t] - 1 ELSE 0]
             /\ next_timer_due' = IF n > 0 THEN NextDue(list', m_expires')
                                  ELSE IF list # <<>> THEN next_timer_due - 1 ELSE next_timer_due
             /\ ExitTrap(deferred \o SubSeq(list, 1, n),
                         m_timers_executing \cup ToSet(SubSeq(list, 1, n)))
  BY FiredPrefix
<1> DEFINE fired == SubSeq(list, 1, n)
<1>0. /\ list \in Seq(Timers) /\ Len(list) \in Nat /\ n \in Nat /\ n <= Len(list)
      /\ DOMAIN list = 1..Len(list)
  BY DEF TypeOK
<1>2. /\ fired \in Seq(Timers) /\ Len(fired) = n /\ DOMAIN fired = 1..n
      /\ \A i \in 1..n : fired[i] = list[i]
  BY <1>0
<1>3. /\ list' \in Seq(Timers) /\ Len(list') = Len(list) - n /\ DOMAIN list' = 1..(Len(list) - n)
      /\ \A i \in 1..(Len(list) - n) : list'[i] = list[n + i]
  <2>1. list' = SubSeq(list, n + 1, Len(list))
    BY <1>1
  <2>2. list \in Seq(Timers) /\ n \in 0..Len(list)
    BY <1>0
  <2> QED  BY <2>1, <2>2, Suffix
<1> HIDE DEF fired
<1>4. /\ \A t : t \in ToSet(list) <=> \E i \in 1..Len(list) : list[i] = t
      /\ \A t : t \in ToSet(fired) <=> \E i \in 1..n : list[i] = t
      /\ \A t : t \in ToSet(list') <=> \E i \in 1..(Len(list) - n) : list[n + i] = t
  <2>1. \A t : t \in ToSet(list) <=> \E i \in 1..Len(list) : list[i] = t
    BY <1>0 DEF ToSet
  <2>2. \A t : t \in ToSet(fired) <=> \E i \in 1..n : list[i] = t
    BY <1>2 DEF ToSet
  <2>3. \A t : t \in ToSet(list') <=> \E i \in 1..(Len(list) - n) : list[n + i] = t
    BY <1>3 DEF ToSet
  <2> QED  BY <2>1, <2>2, <2>3
<1>5. \A i, j \in 1..Len(list) : list[i] = list[j] => i = j
  BY <1>0 DEF Order, IsInjective
<1>6. /\ ToSet(fired) \subseteq ToSet(list) /\ ToSet(list') \subseteq ToSet(list)
      /\ ToSet(fired) \cap ToSet(list') = {}
  <2>1. \A i \in 1..n : i \in 1..Len(list)
    BY <1>0
  <2>2. \A i \in 1..(Len(list) - n) : n + i \in 1..Len(list) /\ n + i \notin 1..n
    BY <1>0
  <2> QED  BY <1>4, <1>5, <2>1, <2>2
<1>7. \A u \in ToSet(list) : u \in ToSet(fired) \/ u \in ToSet(list')
  <2> TAKE u \in ToSet(list)
  <2>1. PICK i \in 1..Len(list) : list[i] = u
    BY <1>4
  <2>2. CASE i <= n
    <3>1. i \in 1..n
      BY <2>2
    <3> QED  BY <1>4, <2>1, <3>1
  <2>3. CASE i > n
    <3>1. i - n \in 1..(Len(list) - n) /\ n + (i - n) = i
      BY <1>0, <2>3
    <3> QED  BY <1>4, <2>1, <3>1
  <2> QED  BY <1>0, <2>2, <2>3
<1>8. \A u \in ToSet(list') : /\ m_expires[u] > 0 /\ u \in Timers
                              /\ m_expires'[u] = m_expires[u] - 1
  <2> TAKE u \in ToSet(list')
  <2>1. PICK i \in 1..(Len(list) - n) : list[n + i] = u
    BY <1>4
  <2>2. n + i \in 1..Len(list) /\ n + i > n
    BY <1>0
  <2>3. m_expires[u] > 0 /\ u \in Timers
    BY <1>0, <1>1, <2>1, <2>2
  <2>4. u \notin ToSet(fired) /\ u \in ToSet(list)
    BY <1>6
  <2> QED  BY <1>1, <2>3, <2>4 DEF fired
<1>9. m_expires' \in [Timers -> 0..MaxDelay]
  <2>1. \A u \in Timers : m_expires[u] \in 0..MaxDelay
    BY DEF TypeOK
  <2>2. ASSUME NEW u \in Timers PROVE m_expires'[u] \in 0..MaxDelay
    <3>1. CASE u \in ToSet(list')
      BY <1>8, <2>1, <3>1, TimerAssumptions
    <3>2. CASE u \notin ToSet(list')
      BY <1>1, <1>7, <3>2, TimerAssumptions DEF fired
    <3> QED  BY <3>1, <3>2
  <2> QED  BY <1>1, <2>2
<1>10. IsInjective(list')
  BY <1>0, <1>3, <1>5 DEF IsInjective
<1>11. Ordered(list', m_expires')
  <2> SUFFICES ASSUME NEW i \in DOMAIN list', NEW j \in 1..i
               PROVE  m_expires'[list'[j]] <= m_expires'[list'[i]]
    BY DEF Ordered
  <2>1. j \in DOMAIN list' /\ n + i \in DOMAIN list /\ n + j \in 1..(n + i)
    BY <1>0, <1>3
  <2>2. list'[i] = list[n + i] /\ list'[j] = list[n + j]
    BY <1>3, <2>1
  <2>3. m_expires[list'[j]] <= m_expires[list'[i]]
    BY <2>1, <2>2 DEF Order, Ordered
  <2>4. list'[i] \in ToSet(list') /\ list'[j] \in ToSet(list')
    BY <2>1 DEF ToSet
  <2>5. \A u \in Timers : m_expires[u] \in Int
    BY TimerAssumptions DEF TypeOK
  <2> QED  BY <1>8, <2>3, <2>4, <2>5
<1>12. next_timer_due' = NextDue(list', m_expires')
  <2>1. CASE n > 0
    BY <1>1, <2>1
  <2>2. CASE n = 0 /\ list = <<>>
    <3>1. list' = <<>>
      BY <1>1, <2>2
    <3> QED  BY <1>1, <2>2, <3>1 DEF Order, NextDue
  <2>3. CASE n = 0 /\ list # <<>>
    <3>1. next_timer_due = m_expires[Head(list)] /\ next_timer_due' = next_timer_due - 1
      BY <1>1, <2>3 DEF Order, NextDue
    <3>2. Len(list) - n >= 1 /\ 1 \in 1..(Len(list) - n) /\ n + 1 = 1
      BY <1>0, <2>3
    <3>3. list' # <<>> /\ Head(list') = list'[1] /\ Head(list) = list[1] /\ list'[1] = list[1]
      BY <1>0, <1>3, <2>3, <3>2
    <3>4. list'[1] \in ToSet(list')
      BY <1>3, <3>2 DEF ToSet
    <3> QED  BY <1>8, <3>1, <3>3, <3>4 DEF NextDue
  <2> QED  BY <1>0, <2>1, <2>2, <2>3
<1> DEFINE calls == deferred \o fired
<1>13. calls \in Seq(Timers) /\ ToSet(calls) = ToSet(deferred) \cup ToSet(fired)
  <2>1. deferred \in Seq(Timers)
    BY DEF TypeOK
  <2> QED  BY <1>2, <2>1, ConcatMembers
<1>14. ExitTrap(calls, ToSet(calls)) /\ UNCHANGED <<cur, pc>>
  BY <1>1, <1>13 DEF Calls, Tick, fired
<1>15. Order' /\ next_timer_due' \in 0..MaxDelay
  BY <1>3, <1>9, <1>10, <1>11, <1>12, DueTyping DEF Order
<1>16. ToSet(list') \cap ToSet(calls) = {}
  BY <1>6, <1>13 DEF Calls
<1> HIDE DEF calls
<1>17. \A t \in Threads : Past(t)' = Past(t)
  BY <1>14 DEF Past
<1>18. CASE cur \in Threads /\ pc[cur] = "restoring"
  <2>1. /\ deferred' = calls /\ m_timers_executing' = ToSet(calls)
        /\ UNCHANGED <<m_blocker, timeout_unblocked>>
    BY <1>14, <1>18 DEF ExitTrap
  <2>2. ToSet(calls) \subseteq Timers
    BY <1>13 DEF ToSet
  <2>3. TypeOK'
    BY <1>3, <1>9, <1>13, <1>14, <1>15, <2>1, <2>2 DEF TypeOK
  <2>4. Calls' /\ Pending'
    BY <1>14, <1>16, <1>18, <2>1 DEF Calls, Pending
  <2>5. Frames'
    BY <1>6, <1>13, <1>17, <2>1 DEF Frames
  <2> QED  BY <1>15, <2>3, <2>4, <2>5
<1>19. CASE ~(cur \in Threads /\ pc[cur] = "restoring")
  <2>0. ExecuteDeferred(calls, ToSet(calls))
    BY <1>14, <1>19 DEF ExitTrap
  <2>1. /\ deferred' \in Seq(Timers) /\ ToSet(deferred') = {}
        /\ m_timers_executing' = {}
        /\ timeout_unblocked' \subseteq timeout_unblocked \cup (Threads \cap ToSet(calls))
        /\ m_blocker' \subseteq Threads
    BY <1>13, <2>0, Executed
  <2>2. TypeOK'
    BY <1>3, <1>9, <1>14, <1>15, <2>1 DEF TypeOK
  <2>3. Calls' /\ Pending'
    BY <2>1 DEF Calls, Pending
  <2>4. Frames'
    BY <1>6, <1>13, <1>16, <1>17, <2>1 DEF Frames
  <2> QED  BY <1>15, <2>2, <2>3, <2>4
<1> QED  BY <1>18, <1>19

\* Every step keeps the invariant.
LEMMA NextIInv == IInv /\ [Next]_vars => IInv'
<1> SUFFICES ASSUME IInv, [Next]_vars PROVE IInv'
  OBVIOUS
<1>1. CASE UNCHANGED vars
  BY <1>1 DEF IInv, vars, TypeOK, Order, Calls, Frames, Pending, Past
<1>2. CASE Next
  <2>1. ASSUME NEW t \in Threads, KernelStep(t) \/ Schedule(t) \/ Preempt(t) \/ Wake(t)
        PROVE  IInv'
    BY <2>1, ThreadStep, EndBlockStep, LeaveStep DEF KernelStep
  <2>2. ASSUME NEW t \in Threads, NEW d \in Delays, Block(t, d)
        PROVE  IInv'
    BY <2>2, BlockStep
  <2>3. ASSUME NEW t \in Threads, NEW d \in Delays \cup {0}, SetAlarm(t, d)
        PROVE  IInv'
    BY <2>3, SetAlarmStep
  <2>4. CASE Tick
    BY <2>4, TickStep
  <2> QED  BY <1>2, <2>1, <2>2, <2>3, <2>4 DEF Next
<1> QED  BY <1>1, <1>2

\* Whatever is added, cancelled and fired, the list is ordered and a timer is in
\* at most one place.
THEOREM Invariance == Spec => []IInv
<1> QED  BY InitIInv, NextIInv, PTL DEF Spec

\* The VERIFY of fire() holds: the head of the list is what is due next, though that
\* is set only in some branches of adding and removing, and no timer that has expired
\* stays behind one that has not.
THEOREM DueIsTheHead == Spec => []DueIsHead
<1>1. IInv => DueIsHead
  BY DEF IInv, DueIsHead, HeadIsDue, Order, Ordered, NextDue
<1> QED  BY <1>1, Invariance, PTL

\* No callback is left to run on the stack frame of a block() that is past cancel_timer,
\* also if the timer interrupt came in restore_critical.
THEOREM NoCallbackStrays == Spec => []NoStrayCallback
<1>1. IInv => NoStrayCallback
  BY DEF IInv, NoStrayCallback, Calls, Frames, Past
<1> QED  BY <1>1, Invariance, PTL

=============================================================================
