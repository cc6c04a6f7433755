--------------------------- MODULE WaitQueueProofs ---------------------------
(***************************************************************************)
(* What the operations of a WaitQueue return, preserve and remove, for     *)
(* every queue, and what holds of every list: the lemmas that the proofs   *)
(* about their users rest on.                                              *)
(***************************************************************************)
EXTENDS WaitQueue, SequenceTheorems, WellFoundedInduction, TLAPS

(* Lists of any kind. *)

\* A nonempty set of numbers has a least one.
LEMMA LeastNumber ==
    ASSUME NEW T, T \subseteq Nat, T # {}
    PROVE  \E x \in T : \A y \in T : x <= y
<1> DEFINE R == OpToRel(<, Nat)
<1>1. IsWellFoundedOn(R, Nat)
  BY NatLessThanWellFounded
<1>2. \A x, y \in Nat : <<y, x>> \in R <=> y < x
  BY DEF OpToRel
<1> HIDE DEF R
<1>3. PICK x \in T : \A y \in T : ~(<<y, x>> \in R)
  BY <1>1, WFMin
<1>4. \A y \in T : ~(y < x) /\ x \in Nat /\ y \in Nat
  BY <1>2, <1>3
<1>5. \A y \in T : x <= y
  BY <1>4
<1> QED  BY <1>5

\* A sequence without its i-th element.
LEMMA RemoveAtProperties ==
    ASSUME NEW T, NEW s \in Seq(T), NEW i \in 1..Len(s)
    PROVE  /\ Len(RemoveAt(s, i)) = Len(s) - 1
           /\ DOMAIN RemoveAt(s, i) = 1..(Len(s) - 1)
           /\ \A j \in 1..(Len(s) - 1) :
                 RemoveAt(s, i)[j] = IF j < i THEN s[j] ELSE s[j + 1]
<1> DEFINE a == SubSeq(s, 1, i - 1)
           b == SubSeq(s, i + 1, Len(s))
<1>1. /\ a \in Seq(T) /\ Len(a) = i - 1
      /\ \A j \in 1..(i - 1) : a[j] = s[j]
  OBVIOUS
<1>2. /\ b \in Seq(T) /\ Len(b) = Len(s) - i
      /\ \A j \in 1..(Len(s) - i) : b[j] = s[i + j]
  OBVIOUS
<1>3. Len(s) \in Nat /\ i \in Nat /\ i >= 1 /\ i <= Len(s)
  OBVIOUS
<1>4. RemoveAt(s, i) = a \o b
  BY DEF RemoveAt
<1> HIDE DEF a, b
<1>5. /\ Len(a \o b) = Len(a) + Len(b)
      /\ DOMAIN (a \o b) = 1..(Len(a) + Len(b))
      /\ \A j \in 1..(Len(a) + Len(b)) :
            (a \o b)[j] = IF j <= Len(a) THEN a[j] ELSE b[j - Len(a)]
  <2>1. a \o b \in Seq(T) /\ Len(a \o b) = Len(a) + Len(b)
    BY <1>1, <1>2, ConcatProperties
  <2>2. \A j \in 1..(Len(a) + Len(b)) :
            (a \o b)[j] = IF j <= Len(a) THEN a[j] ELSE b[j - Len(a)]
    BY <1>1, <1>2, ConcatProperties
  <2>3. DOMAIN (a \o b) = 1..Len(a \o b)
    BY <2>1
  <2> QED  BY <2>1, <2>2, <2>3
<1> QED  BY <1>1, <1>2, <1>3, <1>4, <1>5

\* A list without an element it holds once: the others stay in their order.
LEMMA RemovedFirst ==
    ASSUME NEW T, NEW l \in Seq(T), IsInjective(l), NEW t,
           NEW r, r = RemoveFirst(l, t)
    PROVE  /\ r \in Seq(T) /\ IsInjective(r) /\ ToSet(r) = ToSet(l) \ {t}
           /\ \A a \in DOMAIN r : \A b \in 1..a : \E x \in DOMAIN l : \E y \in 1..x :
                 r[a] = l[x] /\ r[b] = l[y]
<1>0. DOMAIN l = 1..Len(l) /\ Len(l) \in Nat
  OBVIOUS
<1>1. CASE t \notin ToSet(l)
  <2>1. r = l
    BY <1>1 DEF RemoveFirst, ToSet
  <2> QED  BY <1>0, <1>1, <2>1
<1>2. CASE t \in ToSet(l)
  <2> DEFINE I == {i \in 1..Len(l) : l[i] = t}
  <2>1. I # {} /\ I \subseteq Nat
    BY <1>0, <1>2 DEF ToSet
  <2>2. \E x \in I : \A y \in I : x <= y
    BY <2>1, LeastNumber
  <2>3. Min(I) \in I
    BY <2>2 DEF Min
  <2>4. SelectInSeq(l, LAMBDA v : v = t) = Min(I)
    BY <2>1 DEF SelectInSeq
  <2>5. PICK i \in 1..Len(l) : l[i] = t /\ r = RemoveAt(l, i)
    BY <2>1, <2>3, <2>4 DEF RemoveFirst
  <2> HIDE DEF I
  <2>6. r \in Seq(T)
    BY <2>5 DEF RemoveAt
  <2>7. /\ DOMAIN r = 1..(Len(l) - 1)
        /\ \A j \in 1..(Len(l) - 1) : r[j] = IF j < i THEN l[j] ELSE l[j + 1]
    BY <2>5, RemoveAtProperties
  <2>8. \A j \in DOMAIN r : \E k \in 1..Len(l) :
           k # i /\ r[j] = l[k] /\ k = (IF j < i THEN j ELSE j + 1)
    BY <1>0, <2>7
  <2>9. \A k \in 1..Len(l) : k # i => \E j \in DOMAIN r : r[j] = l[k]
    <3> TAKE k \in 1..Len(l)
    <3> HAVE k # i
    <3>1. CASE k < i
      BY <1>0, <2>7, <3>1
    <3>2. CASE k > i
      <4>1. k - 1 \in DOMAIN r /\ r[k - 1] = l[k]
        BY <1>0, <2>7, <3>2
      <4> QED  BY <4>1
    <3> QED  BY <3>1, <3>2
  <2>10. ToSet(r) = ToSet(l) \ {t}
    <3>1. \A k \in 1..Len(l) : l[k] = t <=> k = i
      BY <1>0, <2>5 DEF IsInjective
    <3> QED  BY <1>0, <2>8, <2>9, <3>1 DEF ToSet
  <2>11. IsInjective(r)
    BY <1>0, <2>7, <2>8 DEF IsInjective
  <2>12. ASSUME NEW a \in DOMAIN r, NEW b \in 1..a
         PROVE  \E x \in DOMAIN l : \E y \in 1..x : r[a] = l[x] /\ r[b] = l[y]
    <3>1. PICK x \in 1..Len(l) : x # i /\ r[a] = l[x] /\ x = (IF a < i THEN a ELSE a + 1)
      BY <2>8
    <3>2. b \in DOMAIN r
      BY <1>0, <2>7
    <3>3. PICK y \in 1..Len(l) : y # i /\ r[b] = l[y] /\ y = (IF b < i THEN b ELSE b + 1)
      BY <2>8, <3>2
    <3>4. y \in 1..x
      BY <1>0, <2>7, <3>1, <3>3
    <3> QED  BY <1>0, <3>1, <3>3, <3>4
  <2> QED  BY <2>6, <2>10, <2>11, <2>12
<1> QED  BY <1>1, <1>2

\* The elements of two lists.
LEMMA ConcatMembers ==
    ASSUME NEW T, NEW a \in Seq(T), NEW b \in Seq(T)
    PROVE  a \o b \in Seq(T) /\ ToSet(a \o b) = ToSet(a) \cup ToSet(b)
<1>1. /\ a \o b \in Seq(T) /\ Len(a \o b) = Len(a) + Len(b)
      /\ \A i \in 1..(Len(a) + Len(b)) :
            (a \o b)[i] = IF i <= Len(a) THEN a[i] ELSE b[i - Len(a)]
  BY ConcatProperties
<1>2. Len(a) \in Nat /\ Len(b) \in Nat /\ DOMAIN (a \o b) = 1..(Len(a) + Len(b))
  BY <1>1
<1>3. ToSet(a \o b) \subseteq ToSet(a) \cup ToSet(b)
  <2>1. \A i \in 1..(Len(a) + Len(b)) :
           (a \o b)[i] \in ToSet(a) \/ (a \o b)[i] \in ToSet(b)
    BY <1>1, <1>2 DEF ToSet
  <2> QED  BY <1>2, <2>1 DEF ToSet
<1>4. ToSet(a) \subseteq ToSet(a \o b)
  BY <1>1, <1>2 DEF ToSet
<1>5. ToSet(b) \subseteq ToSet(a \o b)
  <2>1. ASSUME NEW i \in 1..Len(b) PROVE b[i] \in ToSet(a \o b)
    <3>1. Len(a) + i \in DOMAIN (a \o b) /\ (a \o b)[Len(a) + i] = b[i]
      BY <1>1, <1>2
    <3> QED  BY <3>1 DEF ToSet
  <2> QED  BY <2>1 DEF ToSet
<1> QED  BY <1>1, <1>3, <1>4, <1>5

----------------------------------------------------------------------------
(* Wait queues. *)

\* Every operation gives a queue of the same threads.
LEMMA QueueTyping ==
    ASSUME NEW T, NEW q \in Queues(T), NEW t \in T
    PROVE  /\ AddBlocker(q, t) \in Queues(T)
           /\ RemoveBlocker(q, t) \in Queues(T)
           /\ SetShouldBlock(q, TRUE) \in Queues(T)
           /\ SetShouldBlock(q, FALSE) \in Queues(T)
           /\ WakeOne(q) \in Queues(T)
           /\ WakeAll(q) \in Queues(T)
<1> USE DEF Queues, Queue
<1>1. AddBlocker(q, t) \in Queues(T)
  BY DEF AddBlocker, ShouldAddBlocker
<1>2. RemoveBlocker(q, t) \in Queues(T)
  <2>1. CASE t \notin Members(q)
    BY <2>1 DEF RemoveBlocker
  <2>2. CASE t \in Members(q)
    <3> DEFINE i == CHOOSE i \in DOMAIN q.m_blockers : q.m_blockers[i] = t
    <3>1. i \in DOMAIN q.m_blockers
      BY <2>2 DEF Members, ToSet
    <3> HIDE DEF i
    <3>2. i \in 1..Len(q.m_blockers)
      BY <3>1
    <3>3. RemoveAt(q.m_blockers, i) \in Seq(T)
      BY <3>2 DEF RemoveAt
    <3>4. RemoveBlocker(q, t) = Queue(RemoveAt(q.m_blockers, i), q.m_wake_requested, q.m_should_block)
      BY <2>2 DEF RemoveBlocker, i
    <3> QED  BY <3>3, <3>4
  <2> QED  BY <2>1, <2>2
<1>3. SetShouldBlock(q, TRUE) \in Queues(T) /\ SetShouldBlock(q, FALSE) \in Queues(T)
  BY DEF SetShouldBlock
<1>4. WakeOne(q) \in Queues(T)
  BY DEF WakeOne
<1>5. WakeAll(q) \in Queues(T)
  BY DEF WakeAll
<1> QED  BY <1>1, <1>2, <1>3, <1>4, <1>5

\* A thread's blocker is registered at most once.
Distinct(q) ==
    \A i, j \in 1..Len(q.m_blockers) : q.m_blockers[i] = q.m_blockers[j] => i = j

\* add_blocker registers its blocker or leaves the queue as it was.
LEMMA AddedMembers ==
    ASSUME NEW T, NEW q \in Queues(T), NEW t \in T, Distinct(q), t \notin Members(q)
    PROVE  /\ Distinct(AddBlocker(q, t))
           /\ Members(AddBlocker(q, t)) =
                 IF ShouldAddBlocker(q) THEN Members(q) \cup {t} ELSE Members(q)
<1> DEFINE s == q.m_blockers
<1>1. s \in Seq(T)
  BY DEF Queues
<1>2. CASE ~ShouldAddBlocker(q)
  <2>1. AddBlocker(q, t).m_blockers = s
    BY <1>2 DEF AddBlocker, Queue
  <2> QED  BY <1>2, <2>1 DEF Distinct, Members
<1>3. CASE ShouldAddBlocker(q)
  <2>1. AddBlocker(q, t).m_blockers = Append(s, t)
    BY <1>3 DEF AddBlocker, Queue
  <2>2. \A i \in 1..Len(s) : s[i] # t
    BY <1>1 DEF Members, ToSet
  <2>3. Members(q) = {s[i] : i \in 1..Len(s)}
    BY <1>1 DEF Members, ToSet
  <2>4. /\ Len(Append(s, t)) = Len(s) + 1
        /\ DOMAIN Append(s, t) = 1..(Len(s) + 1)
        /\ Append(s, t)[Len(s) + 1] = t
        /\ \A i \in 1..Len(s) : Append(s, t)[i] = s[i]
    BY <1>1
  <2>5. Len(s) \in Nat
    BY <1>1
  <2> HIDE DEF s
  <2>6. Distinct(AddBlocker(q, t))
    BY <2>1, <2>2, <2>4, <2>5 DEF Distinct, s
  <2>7. Members(AddBlocker(q, t)) = {Append(s, t)[i] : i \in 1..(Len(s) + 1)}
    BY <2>1, <2>4 DEF Members, ToSet
  <2>8. {Append(s, t)[i] : i \in 1..(Len(s) + 1)} = {s[i] : i \in 1..Len(s)} \cup {t}
    BY <2>4, <2>5
  <2> QED  BY <1>3, <2>3, <2>6, <2>7, <2>8
<1> QED  BY <1>2, <1>3

\* remove_blocker leaves no blocker of t behind, and all the others.
LEMMA RemovedMembers ==
    ASSUME NEW T, NEW q \in Queues(T), NEW t \in T, Distinct(q)
    PROVE  /\ Distinct(RemoveBlocker(q, t))
           /\ Members(RemoveBlocker(q, t)) = Members(q) \ {t}
<1> DEFINE s == q.m_blockers
<1>1. s \in Seq(T)
  BY DEF Queues
<1>2. CASE t \notin Members(q)
  BY <1>2 DEF RemoveBlocker
<1>3. CASE t \in Members(q)
  <2> DEFINE i == CHOOSE i \in DOMAIN s : s[i] = t
             r == RemoveAt(s, i)
  <2>1. i \in DOMAIN s /\ s[i] = t
    BY <1>3 DEF Members, ToSet
  <2>2. RemoveBlocker(q, t).m_blockers = r
    BY <1>3 DEF RemoveBlocker, Queue
  <2> HIDE DEF i
  <2>3. i \in 1..Len(s) /\ Len(s) \in Nat
    BY <1>1, <2>1
  <2>4. /\ Len(r) = Len(s) - 1
        /\ DOMAIN r = 1..(Len(s) - 1)
        /\ \A j \in 1..(Len(s) - 1) : r[j] = IF j < i THEN s[j] ELSE s[j + 1]
    BY <1>1, <2>3, RemoveAtProperties
  <2>5. \A j, k \in 1..Len(s) : s[j] = s[k] => j = k
    BY DEF Distinct
  <2> HIDE DEF r, s
  <2>6. Distinct(RemoveBlocker(q, t))
    <3> SUFFICES ASSUME NEW j \in 1..(Len(s) - 1), NEW k \in 1..(Len(s) - 1), r[j] = r[k]
                 PROVE  j = k
      BY <2>2, <2>4 DEF Distinct
    <3> QED  BY <2>3, <2>4, <2>5
  <2>7. Members(RemoveBlocker(q, t)) = {r[j] : j \in 1..(Len(s) - 1)}
    BY <2>2, <2>4 DEF Members, ToSet
  <2>8. Members(q) = {s[j] : j \in 1..Len(s)}
    BY <1>1 DEF Members, ToSet, s
  <2>9. ASSUME NEW u \in Members(q) \ {t} PROVE u \in Members(RemoveBlocker(q, t))
    <3>1. PICK j \in 1..Len(s) : s[j] = u
      BY <2>8
    <3>2. j # i
      BY <2>1, <3>1
    <3>3. CASE j < i
      BY <2>3, <2>4, <2>7, <3>1, <3>3
    <3>4. CASE j > i
      <4>1. j - 1 \in 1..(Len(s) - 1) /\ r[j - 1] = s[j]
        BY <2>3, <2>4, <3>4
      <4> QED  BY <2>7, <3>1, <4>1
    <3> QED  BY <2>3, <3>1, <3>2, <3>3, <3>4
  <2>10. ASSUME NEW u \in Members(RemoveBlocker(q, t)) PROVE u \in Members(q) \ {t}
    <3>1. PICK j \in 1..(Len(s) - 1) : r[j] = u
      BY <2>7
    <3>2. PICK k \in 1..Len(s) : s[k] = u /\ k # i
      BY <2>3, <2>4, <3>1
    <3> QED  BY <2>1, <2>3, <2>5, <2>8, <3>2
  <2> QED  BY <2>6, <2>9, <2>10
<1> QED  BY <1>2, <1>3

\* wake_one takes out whom it wakes, and somebody if there is anybody.
LEMMA WokenMembers ==
    ASSUME NEW T, NEW q \in Queues(T), Distinct(q)
    PROVE  /\ Distinct(WakeOne(q))
           /\ Members(WakeOne(q)) = Members(q) \ WokenByOne(q)
           /\ WokenByOne(q) \subseteq Members(q)
           /\ Members(q) # {} => WokenByOne(q) # {}
           /\ Distinct(WakeAll(q)) /\ Members(WakeAll(q)) = {}
<1> DEFINE s == q.m_blockers
<1>1. s \in Seq(T)
  BY DEF Queues
<1>2. Members(q) = {s[i] : i \in 1..Len(s)}
  BY <1>1 DEF Members, ToSet
<1>3. Distinct(WakeAll(q)) /\ Members(WakeAll(q)) = {}
  BY DEF WakeAll, Queue, Distinct, Members, ToSet
<1>4. CASE s = <<>>
  <2>1. WakeOne(q).m_blockers = <<>> /\ WokenByOne(q) = {}
    BY <1>4 DEF WakeOne, WokenByOne, Queue
  <2>2. Distinct(WakeOne(q)) /\ Members(WakeOne(q)) = {}
    BY <2>1 DEF Distinct, Members, ToSet
  <2>3. Members(q) = {}
    BY <1>4 DEF Members, ToSet
  <2> QED  BY <1>3, <2>1, <2>2, <2>3
<1>5. CASE s # <<>>
  <2>1. WakeOne(q).m_blockers = Tail(s) /\ WokenByOne(q) = {s[1]}
    BY <1>1, <1>5 DEF WakeOne, WokenByOne, Queue
  <2>2. /\ Len(s) \in Nat /\ Len(s) > 0
        /\ Len(Tail(s)) = Len(s) - 1
        /\ DOMAIN Tail(s) = 1..(Len(s) - 1)
        /\ \A i \in 1..(Len(s) - 1) : Tail(s)[i] = s[i + 1]
    BY <1>1, <1>5
  <2>3. \A i, j \in 1..Len(s) : s[i] = s[j] => i = j
    BY DEF Distinct
  <2> HIDE DEF s
  <2>4. Distinct(WakeOne(q))
    BY <2>1, <2>2, <2>3 DEF Distinct
  <2>5. Members(WakeOne(q)) = {Tail(s)[i] : i \in 1..(Len(s) - 1)}
    BY <2>1, <2>2 DEF Members, ToSet
  <2>6. ASSUME NEW u \in Members(q) \ {s[1]} PROVE u \in Members(WakeOne(q))
    <3>1. PICK i \in 1..Len(s) : s[i] = u /\ i # 1
      BY <1>2
    <3>2. i - 1 \in 1..(Len(s) - 1) /\ Tail(s)[i - 1] = u
      BY <2>2, <3>1
    <3> QED  BY <2>5, <3>2
  <2>7. ASSUME NEW u \in Members(WakeOne(q)) PROVE u \in Members(q) \ {s[1]}
    <3>1. PICK i \in 1..(Len(s) - 1) : Tail(s)[i] = u
      BY <2>5
    <3>2. i + 1 \in 1..Len(s) /\ s[i + 1] = u /\ 1 \in 1..Len(s)
      BY <2>2, <3>1
    <3> QED  BY <1>2, <2>2, <2>3, <3>1, <3>2
  <2>8. s[1] \in Members(q)
    BY <1>2, <2>2
  <2> QED  BY <1>3, <2>1, <2>4, <2>6, <2>7, <2>8
<1> QED  BY <1>4, <1>5

\* should_block() moves nobody.
LEMMA SwitchMembers ==
    ASSUME NEW q, NEW b
    PROVE  /\ Members(SetShouldBlock(q, b)) = Members(q)
           /\ Distinct(SetShouldBlock(q, b)) <=> Distinct(q)
           /\ SetShouldBlock(q, b).m_should_block = b
BY DEF SetShouldBlock, Queue, Members, Distinct
=============================================================================
