--------------------------- MODULE DiskCacheProofs ---------------------------
(***************************************************************************)
(* Proofs about DiskCache, for any number of blocks and entries, whatever  *)
(* a block holds: the lists and m_hash describe the same entries, and the  *)
(* cache implements BlockStore.                                            *)
(***************************************************************************)
EXTENDS DiskCache, WaitQueueProofs, FiniteSetTheorems, TLAPS

(* Lists. *)

\* The recursion of Filter has a solution, and Filter is its last value.
LEMMA FilterSteps ==
    ASSUME NEW S, NEW s \in Seq(S), NEW T
    PROVE  \E f : /\ \A n \in 0..Len(s) :
                       f[n] = IF n = 0 THEN <<>>
                              ELSE IF s[n] \in T THEN Append(f[n - 1], s[n]) ELSE f[n - 1]
                  /\ Filter(s, T) = f[Len(s)]
<1> DEFINE N == Len(s)
           E(g, n) == IF n = 0 THEN <<>>
                      ELSE IF s[n] \in T THEN Append(g[n - 1], s[n]) ELSE g[n - 1]
           Solved(n) == \E g : g = [m \in 0..n |-> E(g, m)]
           bad == {n \in 0..N : ~Solved(n)}
<1>0. N \in Nat
  OBVIOUS
<1> HIDE DEF Solved
<1>1. bad = {}
  <2> SUFFICES ASSUME bad # {} PROVE FALSE
    OBVIOUS
  <2>1. PICK n \in bad : \A m \in bad : n <= m
    <3>1. bad \subseteq Nat
      BY <1>0
    <3> QED  BY <3>1, LeastNumber
  <2>2. n \in 0..N /\ n \in Nat /\ ~Solved(n)
    BY <1>0, <2>1
  <2>3. CASE n = 0
    <3>1. [m \in 0..0 |-> <<>>] = [m \in 0..0 |-> E([k \in 0..0 |-> <<>>], m)]
      OBVIOUS
    <3> QED  BY <2>2, <2>3, <3>1 DEF Solved
  <2>4. CASE n # 0
    <3>1. n - 1 \in 0..N /\ n - 1 \notin bad /\ n - 1 \in Nat
      BY <1>0, <2>1, <2>2, <2>4
    <3>2. PICK g : g = [m \in 0..(n - 1) |-> E(g, m)]
      BY <3>1 DEF Solved
    <3> DEFINE h == [m \in 0..n |-> IF m = n THEN E(g, n) ELSE g[m]]
    <3>3. \A m \in 0..n : h[m] = E(h, m)
      <4> TAKE m \in 0..n
      <4>1. m \in Nat /\ (m # 0 => m - 1 \in 0..(n - 1) /\ m - 1 \in 0..n /\ m - 1 # n)
        BY <2>2, <2>4
      <4>2. m # 0 => h[m - 1] = g[m - 1]
        BY <4>1
      <4>3. E(h, m) = E(g, m)
        BY <4>2
      <4>4. CASE m = n
        BY <4>3, <4>4
      <4>5. CASE m # n
        <5>1. m \in 0..(n - 1)
          BY <2>2, <4>5
        <5>2. g[m] = E(g, m)
          BY <3>2, <5>1
        <5> QED  BY <4>3, <4>5, <5>2
      <4> QED  BY <4>4, <4>5
    <3>4. h = [m \in 0..n |-> E(h, m)]
      BY <3>3
    <3> QED  BY <2>2, <3>4 DEF Solved
  <2> QED  BY <2>3, <2>4
<1>2. Solved(N)
  BY <1>0, <1>1
<1> DEFINE f == CHOOSE g : g = [n \in 0..N |-> E(g, n)]
<1>3. f = [n \in 0..N |-> E(f, n)]
  BY <1>2 DEF Solved
<1>4. Filter(s, T) = f[N]
  BY DEF Filter
<1> QED  BY <1>3, <1>4

\* One more element.
LEMMA Appended ==
    ASSUME NEW S, NEW s \in Seq(S), NEW x \in S
    PROVE  /\ Append(s, x) \in Seq(S) /\ ToSet(Append(s, x)) = ToSet(s) \cup {x}
           /\ IsInjective(s) /\ x \notin ToSet(s) => IsInjective(Append(s, x))
<1> DEFINE r == Append(s, x)
<1>1. /\ Len(s) \in Nat /\ DOMAIN s = 1..Len(s)
      /\ r \in Seq(S) /\ DOMAIN r = 1..(Len(s) + 1) /\ r[Len(s) + 1] = x
      /\ \A i \in 1..Len(s) : r[i] = s[i]
  OBVIOUS
<1> HIDE DEF r
<1>2. \A i : i \in 1..(Len(s) + 1) <=> i \in 1..Len(s) \/ i = Len(s) + 1
  BY <1>1
<1>3. ToSet(r) = ToSet(s) \cup {x}
  BY <1>1, <1>2 DEF ToSet
<1>4. IsInjective(s) /\ x \notin ToSet(s) => IsInjective(r)
  BY <1>1, <1>2 DEF ToSet, IsInjective
<1> QED  BY <1>1, <1>3, <1>4 DEF r

\* A list backwards.
LEMMA Reversed ==
    ASSUME NEW S, NEW s \in Seq(S)
    PROVE  /\ Reverse(s) \in Seq(S) /\ ToSet(Reverse(s)) = ToSet(s)
           /\ IsInjective(s) => IsInjective(Reverse(s))
<1> DEFINE r == Reverse(s)
<1>1. /\ Len(s) \in Nat /\ DOMAIN s = 1..Len(s) /\ DOMAIN r = 1..Len(s)
      /\ \A i \in 1..Len(s) : r[i] = s[(Len(s) - i) + 1] /\ s[i] \in S
  BY DEF Reverse
<1>2. \A i \in 1..Len(s) : /\ (Len(s) - i) + 1 \in 1..Len(s)
                           /\ (Len(s) - ((Len(s) - i) + 1)) + 1 = i
  BY <1>1
<1>3. r \in Seq(S)
  <2>1. r = [i \in 1..Len(s) |-> s[(Len(s) - i) + 1]]
    BY DEF Reverse
  <2>2. \A i \in 1..Len(s) : s[(Len(s) - i) + 1] \in S
    BY <1>1, <1>2
  <2> QED  BY <1>1, <2>1, <2>2
<1> HIDE DEF r
<1>4. ToSet(r) = ToSet(s)
  <2>1. \A i \in 1..Len(s) : s[i] = r[(Len(s) - i) + 1]
    BY <1>1, <1>2
  <2> QED  BY <1>1, <1>2, <2>1 DEF ToSet
<1>5. IsInjective(s) => IsInjective(r)
  <2> SUFFICES ASSUME IsInjective(s), NEW i \in 1..Len(s), NEW j \in 1..Len(s), r[i] = r[j]
               PROVE  i = j
    BY <1>1 DEF IsInjective
  <2>1. s[(Len(s) - i) + 1] = s[(Len(s) - j) + 1]
    BY <1>1
  <2>2. (Len(s) - i) + 1 = (Len(s) - j) + 1
    BY <1>1, <1>2, <2>1 DEF IsInjective
  <2> QED  BY <1>1, <2>2
<1> QED  BY <1>3, <1>4, <1>5 DEF r

\* Two lists with no element in common.
LEMMA ConcatInjective ==
    ASSUME NEW S, NEW a \in Seq(S), NEW b \in Seq(S), IsInjective(a), IsInjective(b),
           ToSet(a) \cap ToSet(b) = {}
    PROVE  IsInjective(a \o b)
<1> DEFINE r == a \o b
<1>1. /\ Len(r) = Len(a) + Len(b) /\ r \in Seq(S)
      /\ \A i \in 1..(Len(a) + Len(b)) : r[i] = IF i <= Len(a) THEN a[i] ELSE b[i - Len(a)]
  BY ConcatProperties
<1>2. /\ Len(a) \in Nat /\ Len(b) \in Nat /\ DOMAIN r = 1..(Len(a) + Len(b))
      /\ DOMAIN a = 1..Len(a) /\ DOMAIN b = 1..Len(b)
  BY <1>1
<1> HIDE DEF r
<1>3. \A i \in DOMAIN r : \/ i \in DOMAIN a /\ r[i] = a[i]
                          \/ i > Len(a) /\ i - Len(a) \in DOMAIN b /\ r[i] = b[i - Len(a)]
  BY <1>1, <1>2
<1>4. \A i \in DOMAIN a, j \in DOMAIN b : a[i] # b[j]
  BY DEF ToSet
<1> SUFFICES ASSUME NEW i \in DOMAIN r, NEW j \in DOMAIN r, r[i] = r[j]
             PROVE  i = j
  BY DEF IsInjective, r
<1>5. CASE i \in DOMAIN a /\ r[i] = a[i] /\ j \in DOMAIN a /\ r[j] = a[j]
  BY <1>5 DEF IsInjective
<1>6. CASE /\ i > Len(a) /\ i - Len(a) \in DOMAIN b /\ r[i] = b[i - Len(a)]
           /\ j > Len(a) /\ j - Len(a) \in DOMAIN b /\ r[j] = b[j - Len(a)]
  <2>1. i - Len(a) = j - Len(a)
    BY <1>6 DEF IsInjective
  <2> QED  BY <1>2, <2>1
<1> QED  BY <1>3, <1>4, <1>5, <1>6

\* Prepending to an intrusive list.
LEMMA Prepended ==
    ASSUME NEW S, NEW s \in Seq(S), IsInjective(s), NEW x \in S
    PROVE  /\ Prepend(s, x) \in Seq(S) /\ IsInjective(Prepend(s, x))
           /\ ToSet(Prepend(s, x)) = ToSet(s) \cup {x}
<1> DEFINE r == RemoveFirst(s, x)
           one == <<x>>
<1>1. r \in Seq(S) /\ IsInjective(r) /\ ToSet(r) = ToSet(s) \ {x}
  BY RemovedFirst
<1>2. one \in Seq(S) /\ IsInjective(one) /\ ToSet(one) = {x}
  BY DEF IsInjective, ToSet
<1>3. Prepend(s, x) = one \o r
  BY DEF Prepend
<1> HIDE DEF r, one
<1>4. one \o r \in Seq(S) /\ ToSet(one \o r) = ToSet(one) \cup ToSet(r)
  BY <1>1, <1>2, ConcatMembers
<1>5. IsInjective(one \o r)
  BY <1>1, <1>2, ConcatInjective
<1> QED  BY <1>1, <1>2, <1>3, <1>4, <1>5

\* Filter keeps the elements of a set and nothing else, each once if the list had it
\* once.
LEMMA FilterProperties ==
    ASSUME NEW S, NEW s \in Seq(S), NEW T
    PROVE  /\ Filter(s, T) \in Seq(S)
           /\ ToSet(Filter(s, T)) = ToSet(s) \cap T
           /\ IsInjective(s) => IsInjective(Filter(s, T))
<1> DEFINE N == Len(s)
<1>0. N \in Nat /\ DOMAIN s = 1..N /\ \A i \in 1..N : s[i] \in S
  OBVIOUS
<1>1. PICK f : /\ \A n \in 0..N :
                    f[n] = IF n = 0 THEN <<>>
                           ELSE IF s[n] \in T THEN Append(f[n - 1], s[n]) ELSE f[n - 1]
               /\ Filter(s, T) = f[N]
  BY FilterSteps
<1> DEFINE Kept(n) == {s[i] : i \in 1..n} \cap T
           Right(n) == /\ f[n] \in Seq(S) /\ ToSet(f[n]) = Kept(n)
                       /\ IsInjective(s) => IsInjective(f[n])
           bad == {n \in 0..N : ~Right(n)}
<1> HIDE DEF Right
<1>2. bad = {}
  <2> SUFFICES ASSUME bad # {} PROVE FALSE
    OBVIOUS
  <2>1. PICK n \in bad : \A m \in bad : n <= m
    <3>1. bad \subseteq Nat
      BY <1>0
    <3> QED  BY <3>1, LeastNumber
  <2>2. n \in 0..N /\ n \in Nat /\ ~Right(n)
    BY <1>0, <2>1
  <2>3. CASE n = 0
    <3>1. f[0] = <<>>
      BY <1>0, <1>1
    <3>2. ToSet(<<>>) = {} /\ Kept(0) = {} /\ IsInjective(<<>>)
      BY DEF ToSet, IsInjective
    <3>3. <<>> \in Seq(S)
      OBVIOUS
    <3>4. Right(0)
      BY <3>1, <3>2, <3>3 DEF Right
    <3> QED  BY <2>2, <2>3, <3>4
  <2>4. CASE n # 0
    <3>1. n - 1 \in 0..N /\ n - 1 \notin bad /\ n - 1 \in Nat /\ n \in 1..N
      BY <1>0, <2>1, <2>2, <2>4
    <3>2. /\ f[n - 1] \in Seq(S) /\ ToSet(f[n - 1]) = Kept(n - 1)
          /\ IsInjective(s) => IsInjective(f[n - 1])
      BY <3>1 DEF Right
    <3>3. f[n] = IF s[n] \in T THEN Append(f[n - 1], s[n]) ELSE f[n - 1]
      BY <1>1, <2>2, <2>4
    <3>4. Kept(n) = Kept(n - 1) \cup ({s[n]} \cap T)
      <4>1. \A i : i \in 1..n <=> i \in 1..(n - 1) \/ i = n
        BY <2>2, <2>4
      <4> QED  BY <4>1
    <3>5. CASE s[n] \in T
      <4>1. f[n] = Append(f[n - 1], s[n]) /\ s[n] \in S
        BY <1>0, <3>1, <3>3, <3>5
      <4>2. /\ f[n] \in Seq(S) /\ ToSet(f[n]) = ToSet(f[n - 1]) \cup {s[n]}
            /\ IsInjective(f[n - 1]) /\ s[n] \notin ToSet(f[n - 1]) => IsInjective(f[n])
        BY <3>2, <4>1, Appended
      <4>3. IsInjective(s) => s[n] \notin Kept(n - 1)
        <5>1. \A i \in 1..(n - 1) : i \in 1..N /\ i # n
          BY <1>0, <2>2
        <5> QED  BY <1>0, <3>1, <5>1 DEF IsInjective
      <4>4. ToSet(f[n]) = Kept(n)
        BY <3>2, <3>4, <3>5, <4>2
      <4>5. IsInjective(s) => IsInjective(f[n])
        BY <3>2, <4>2, <4>3
      <4>6. Right(n)
        BY <4>2, <4>4, <4>5 DEF Right
      <4> QED  BY <2>2, <4>6
    <3>6. CASE s[n] \notin T
      <4>1. f[n] = f[n - 1] /\ Kept(n) = Kept(n - 1)
        BY <3>3, <3>4, <3>6
      <4>2. Right(n)
        BY <3>2, <4>1 DEF Right
      <4> QED  BY <2>2, <4>2
    <3> QED  BY <3>5, <3>6
  <2> QED  BY <2>3, <2>4
<1>3. Right(N)
  BY <1>0, <1>2
<1>4. Kept(N) = ToSet(s) \cap T
  BY <1>0 DEF ToSet
<1> QED  BY <1>1, <1>3, <1>4 DEF Right

----------------------------------------------------------------------------
(* The inductive invariant, of a cache c above a device that holds d, where  *)
(* the blocks dm are damaged.                                                *)

Caches ==
    [ block_index  : [Entries -> Blocks \cup {BlockZero}],
      data         : [Entries -> [Cells -> Values \cup {Fresh}]],
      has_data     : [Entries -> BOOLEAN],
      m_clean_list : Seq(Entries),
      m_dirty_list : Seq(Entries),
      m_hash       : [Blocks -> Entries \cup {NoEntry}],
      m_dirty      : BOOLEAN ]

\* Every entry is on one of the two lists, once.
Listed(clean, dirty) ==
    /\ IsInjective(clean) /\ IsInjective(dirty)
    /\ ToSet(clean) \cap ToSet(dirty) = {}
    /\ ToSet(clean) \cup ToSet(dirty) = Entries

\* m_hash and the numbers the entries carry agree.
Hashed(hash, index) ==
    /\ \A b \in Blocks : hash[b] # NoEntry => index[hash[b]] = b
    /\ \A e \in Entries : index[e] # BlockZero => hash[index[e]] = e

\* A dirty entry has a block and data, and m_dirty is set as long as there is one.
Dirty(c) ==
    \A e \in ToSet(c.m_dirty_list) : c.m_dirty /\ c.has_data[e] /\ c.block_index[e] # BlockZero

\* A clean entry that has data holds what the device does.
Coherent(c, d, dm) ==
    \A e \in Entries : c.has_data[e] =>
        /\ c.data[e] \in Data
        /\ e \in ToSet(c.m_dirty_list) \/ c.block_index[e] \in dm \cup {BlockZero}
             \/ c.data[e] = d[c.block_index[e]]

Good(c, d, dm) ==
    /\ c \in Caches /\ d \in [Blocks -> Data] /\ dm \subseteq Blocks
    /\ Listed(c.m_clean_list, c.m_dirty_list)
    /\ Hashed(c.m_hash, c.block_index)
    /\ Dirty(c)
    /\ Coherent(c, d, dm)

IInv == Good(cache, disk, damaged)

\* What a read of b through c returns.
Shows(c, d, b) ==
    IF c.m_hash[b] = NoEntry THEN d[b]
    ELSE IF c.has_data[c.m_hash[b]] THEN c.data[c.m_hash[b]] ELSE d[b]

\* The blocks outside dm are not seen to change when c and d become c2 and d2.
SameContent(c, d, c2, d2, dm) ==
    \A x \in Blocks \ dm : Shows(c2, d2, x) = Shows(c, d, x)

----------------------------------------------------------------------------
(* Writing back. *)

\* Writing entries of the dirty list back changes their blocks and no others.
LEMMA WrittenBack ==
    ASSUME NEW c, NEW d, NEW dm, Good(c, d, dm), NoEntry \notin Entries,
           NEW es \in Seq(Entries), IsInjective(es), ToSet(es) \subseteq ToSet(c.m_dirty_list),
           NEW bad
    PROVE  /\ Written(c, d, es, bad) \in [Blocks -> Data]
           /\ \A x \in Blocks :
                 Written(c, d, es, bad)[x] =
                    IF c.m_hash[x] \in ToSet(es) \ bad THEN c.data[c.m_hash[x]] ELSE d[x]
<1> DEFINE hits(x) == {i \in DOMAIN es : c.block_index[es[i]] = x /\ es[i] \notin bad}
<1>0. /\ c.m_hash \in [Blocks -> Entries \cup {NoEntry}] /\ d \in [Blocks -> Data]
      /\ ToSet(es) \subseteq Entries
      /\ \A e \in ToSet(es) : /\ c.has_data[e] /\ c.block_index[e] # BlockZero
                              /\ c.m_hash[c.block_index[e]] = e /\ c.data[e] \in Data
      /\ \A x \in Blocks : c.m_hash[x] # NoEntry => c.block_index[c.m_hash[x]] = x
  <2>1. c.m_hash \in [Blocks -> Entries \cup {NoEntry}] /\ d \in [Blocks -> Data]
    BY DEF Good, Caches
  <2>2. ToSet(es) \subseteq Entries
    BY DEF ToSet
  <2>3. \A e \in ToSet(es) : c.has_data[e] /\ c.block_index[e] # BlockZero
    BY DEF Good, Dirty
  <2>4. \A e \in ToSet(es) : c.m_hash[c.block_index[e]] = e /\ c.data[e] \in Data
    BY <2>2, <2>3 DEF Good, Hashed, Coherent
  <2> QED  BY <2>1, <2>2, <2>3, <2>4 DEF Good, Hashed
<1>1. ASSUME NEW x \in Blocks
      PROVE  (IF hits(x) = {} THEN d[x] ELSE c.data[es[Max(hits(x))]]) =
               IF c.m_hash[x] \in ToSet(es) \ bad THEN c.data[c.m_hash[x]] ELSE d[x]
  <2>1. CASE c.m_hash[x] \in ToSet(es) \ bad
    <3>1. PICK i \in DOMAIN es : es[i] = c.m_hash[x]
      BY <2>1 DEF ToSet
    <3>2. \A j \in DOMAIN es : c.block_index[es[j]] = x => j = i
      <4> SUFFICES ASSUME NEW j \in DOMAIN es, c.block_index[es[j]] = x
                   PROVE  j = i
        OBVIOUS
      <4>1. es[j] \in ToSet(es)
        BY DEF ToSet
      <4>2. es[j] = es[i]
        BY <1>0, <3>1, <4>1
      <4> QED  BY <4>2 DEF IsInjective
    <3>3. c.block_index[es[i]] = x /\ es[i] \notin bad
      BY <1>0, <2>1, <3>1
    <3>4. hits(x) = {i}
      BY <3>2, <3>3
    <3>5. Max({i}) = i
      BY DEF Max
    <3> QED  BY <2>1, <3>1, <3>4, <3>5
  <2>2. CASE c.m_hash[x] \notin ToSet(es) \ bad
    <3>1. hits(x) = {}
      <4> SUFFICES ASSUME NEW i \in DOMAIN es, c.block_index[es[i]] = x, es[i] \notin bad
                   PROVE  FALSE
        OBVIOUS
      <4>1. es[i] \in ToSet(es)
        BY DEF ToSet
      <4>2. c.m_hash[x] = es[i]
        BY <1>0, <4>1
      <4> QED  BY <2>2, <4>1, <4>2
    <3> QED  BY <2>2, <3>1
  <2> QED  BY <2>1, <2>2
<1>2. Written(c, d, es, bad) =
        [x \in Blocks |-> IF hits(x) = {} THEN d[x] ELSE c.data[es[Max(hits(x))]]]
  BY DEF Written
<1> HIDE DEF hits
<1>3. \A x \in Blocks : Written(c, d, es, bad)[x] =
                    IF c.m_hash[x] \in ToSet(es) \ bad THEN c.data[c.m_hash[x]] ELSE d[x]
  BY <1>1, <1>2
<1>4. \A x \in Blocks : Written(c, d, es, bad)[x] \in Data
  BY <1>0, <1>3
<1> QED  BY <1>2, <1>3, <1>4

\* Writing nothing back.
LEMMA NothingWritten ==
    ASSUME NEW c, NEW d, NEW dm, Good(c, d, dm), NEW bad
    PROVE  Written(c, d, <<>>, bad) = d
BY DEF Written, Good

\* r is c with the entries es marked clean.
Marked(c, r, es) ==
    /\ r \in Caches
    /\ r.block_index = c.block_index /\ r.data = c.data /\ r.has_data = c.has_data
    /\ r.m_hash = c.m_hash
    /\ r.m_clean_list = Reverse(es) \o c.m_clean_list
    /\ r.m_dirty_list = Filter(c.m_dirty_list, Entries \ ToSet(es))

\* mark_clean and mark_all_clean.
LEMMA MarkedClean ==
    ASSUME NEW c \in Caches, NEW es \in Seq(Entries)
    PROVE  /\ Marked(c, MarkClean(c, es), es) /\ MarkClean(c, es).m_dirty = c.m_dirty
           /\ es = c.m_dirty_list => Marked(c, MarkAllClean(c), es)
<1> DEFINE r == MarkClean(c, es)
           clean == Reverse(es) \o c.m_clean_list
           dirty == Filter(c.m_dirty_list, Entries \ ToSet(es))
<1>1. clean \in Seq(Entries) /\ dirty \in Seq(Entries)
  <2>1. c.m_clean_list \in Seq(Entries) /\ c.m_dirty_list \in Seq(Entries)
    BY DEF Caches
  <2>2. Reverse(es) \in Seq(Entries)
    BY Reversed
  <2>3. dirty \in Seq(Entries)
    BY <2>1, FilterProperties
  <2> QED  BY <2>1, <2>2, <2>3, ConcatMembers
<1>2. r = [c EXCEPT !.m_clean_list = clean, !.m_dirty_list = dirty]
  BY DEF MarkClean
<1>3. es = c.m_dirty_list => MarkAllClean(c) = [r EXCEPT !.m_dirty = FALSE]
  BY DEF MarkAllClean
<1> HIDE DEF r, clean, dirty
<1>4. /\ r.block_index = c.block_index /\ r.data = c.data /\ r.has_data = c.has_data
      /\ r.m_hash = c.m_hash /\ r.m_dirty = c.m_dirty
      /\ r.m_clean_list = clean /\ r.m_dirty_list = dirty
  BY <1>2 DEF Caches
<1>5. r \in Caches
  BY <1>1, <1>2 DEF Caches
<1> DEFINE s == [r EXCEPT !.m_dirty = FALSE]
<1>6. /\ s \in Caches
      /\ s.block_index = c.block_index /\ s.data = c.data /\ s.has_data = c.has_data
      /\ s.m_hash = c.m_hash
      /\ s.m_clean_list = clean /\ s.m_dirty_list = dirty
  BY <1>4, <1>5 DEF Caches
<1> QED  BY <1>3, <1>4, <1>5, <1>6 DEF Marked, r, clean, dirty

\* Entries of the dirty list are written back, those of bad with an error, and all are
\* marked clean: c and d become r and w, the blocks hit are damaged.
Flushed(c, d, dm, es, bad, r, w, hit) ==
    /\ Good(c, d, dm)
    /\ es \in Seq(Entries) /\ IsInjective(es) /\ ToSet(es) \subseteq ToSet(c.m_dirty_list)
    /\ bad \subseteq ToSet(es)
    /\ Marked(c, r, es) /\ (r.m_dirty = c.m_dirty \/ es = c.m_dirty_list)
    /\ w = Written(c, d, es, bad) /\ hit = {c.block_index[e] : e \in bad}

\* Nothing but the blocks of failed writes is seen to change.
LEMMA WroteBack ==
    ASSUME NoEntry \notin Entries, BlockZero \notin Blocks,
           NEW c, NEW d, NEW dm, NEW es, NEW bad, NEW r, NEW w, NEW hit,
           Flushed(c, d, dm, es, bad, r, w, hit)
    PROVE  /\ Good(r, w, dm \cup hit)
           /\ SameContent(c, d, r, w, dm \cup hit)
           /\ \A x \in Blocks \ (dm \cup hit) : w[x] \in {d[x], Shows(c, d, x)}
           /\ \A x \in Blocks : c.m_hash[x] \notin ToSet(es) => w[x] = d[x] /\ x \notin hit
           /\ es = c.m_dirty_list =>
                 \A x \in Blocks \ (dm \cup hit) : w[x] = Shows(c, d, x)
<1> USE DEF Flushed
<1>0. /\ c \in Caches /\ d \in [Blocks -> Data] /\ dm \subseteq Blocks
      /\ Listed(c.m_clean_list, c.m_dirty_list) /\ Hashed(c.m_hash, c.block_index)
      /\ Dirty(c) /\ Coherent(c, d, dm)
  BY DEF Good
<1>1. /\ c.m_hash \in [Blocks -> Entries \cup {NoEntry}]
      /\ c.block_index \in [Entries -> Blocks \cup {BlockZero}]
      /\ c.m_clean_list \in Seq(Entries) /\ c.m_dirty_list \in Seq(Entries)
  BY <1>0 DEF Caches
<1>2. ToSet(es) \subseteq Entries
  BY DEF ToSet
<1>3. /\ w \in [Blocks -> Data]
      /\ \A x \in Blocks :
            w[x] = IF c.m_hash[x] \in ToSet(es) \ bad THEN c.data[c.m_hash[x]] ELSE d[x]
  BY WrittenBack
<1>4. \A e \in ToSet(es) : /\ c.block_index[e] \in Blocks /\ c.has_data[e]
                           /\ c.m_hash[c.block_index[e]] = e
  BY <1>0, <1>1, <1>2 DEF Dirty, Hashed
<1>5. hit \subseteq Blocks
  BY <1>4
<1>6. /\ ToSet(r.m_dirty_list) = ToSet(c.m_dirty_list) \ ToSet(es)
      /\ IsInjective(r.m_dirty_list)
  <2>1. /\ ToSet(Filter(c.m_dirty_list, Entries \ ToSet(es)))
              = ToSet(c.m_dirty_list) \cap (Entries \ ToSet(es))
        /\ IsInjective(c.m_dirty_list) => IsInjective(Filter(c.m_dirty_list, Entries \ ToSet(es)))
    BY <1>1, FilterProperties
  <2>2. ToSet(c.m_dirty_list) \subseteq Entries
    BY <1>0 DEF Listed
  <2> QED  BY <1>0, <2>1, <2>2 DEF Marked, Listed
<1>7. /\ ToSet(r.m_clean_list) = ToSet(c.m_clean_list) \cup ToSet(es)
      /\ IsInjective(r.m_clean_list)
  <2>1. /\ Reverse(es) \in Seq(Entries) /\ ToSet(Reverse(es)) = ToSet(es)
        /\ IsInjective(Reverse(es))
    BY Reversed
  <2>2. /\ IsInjective(c.m_clean_list) /\ ToSet(Reverse(es)) \cap ToSet(c.m_clean_list) = {}
    BY <1>0, <2>1 DEF Listed
  <2>3. IsInjective(Reverse(es) \o c.m_clean_list)
    BY <1>1, <2>1, <2>2, ConcatInjective
  <2>4. ToSet(Reverse(es) \o c.m_clean_list) = ToSet(Reverse(es)) \cup ToSet(c.m_clean_list)
    BY <1>1, <2>1, ConcatMembers
  <2> QED  BY <2>1, <2>3, <2>4 DEF Marked
<1>8. Listed(r.m_clean_list, r.m_dirty_list)
  BY <1>0, <1>6, <1>7 DEF Listed
<1>9. Hashed(r.m_hash, r.block_index)
  BY <1>0 DEF Marked
<1>10. Dirty(r)
  <2>1. CASE r.m_dirty = c.m_dirty
    BY <1>0, <1>6, <2>1 DEF Dirty, Marked
  <2>2. CASE es = c.m_dirty_list
    BY <1>6, <2>2 DEF Dirty
  <2> QED  BY <2>1, <2>2
<1>11. Coherent(r, w, dm \cup hit)
  <2> SUFFICES ASSUME NEW e \in Entries, c.has_data[e]
               PROVE  /\ c.data[e] \in Data
                      /\ \/ e \in ToSet(r.m_dirty_list)
                         \/ c.block_index[e] \in dm \cup hit \cup {BlockZero}
                         \/ c.data[e] = w[c.block_index[e]]
    BY DEF Coherent, Marked
  <2>1. c.data[e] \in Data
    BY <1>0 DEF Coherent
  <2>2. CASE e \in ToSet(es)
    <3>1. e \in bad => c.block_index[e] \in hit
      OBVIOUS
    <3>2. e \notin bad => w[c.block_index[e]] = c.data[e]
      BY <1>3, <1>4, <2>2
    <3> QED  BY <2>1, <3>1, <3>2
  <2>3. CASE e \notin ToSet(es) /\ c.block_index[e] # BlockZero
    <3>1. c.block_index[e] \in Blocks /\ c.m_hash[c.block_index[e]] = e
      BY <1>0, <1>1, <2>3 DEF Hashed
    <3>2. w[c.block_index[e]] = d[c.block_index[e]]
      BY <1>3, <2>3, <3>1
    <3> QED  BY <1>0, <1>6, <2>1, <2>3, <3>2 DEF Coherent
  <2> QED  BY <2>1, <2>2, <2>3
<1>12. Good(r, w, dm \cup hit)
  BY <1>0, <1>3, <1>5, <1>8, <1>9, <1>10, <1>11 DEF Good, Marked
<1>13. \A x \in Blocks : c.m_hash[x] \notin ToSet(es) => w[x] = d[x] /\ x \notin hit
  BY <1>3, <1>4
<1>14. ASSUME NEW x \in Blocks \ (dm \cup hit)
       PROVE  /\ Shows(r, w, x) = Shows(c, d, x)
              /\ w[x] \in {d[x], Shows(c, d, x)}
              /\ es = c.m_dirty_list => w[x] = Shows(c, d, x)
  <2>1. CASE c.m_hash[x] \in ToSet(es)
    <3>1. c.m_hash[x] \in Entries /\ c.block_index[c.m_hash[x]] = x
      BY <1>0, <1>2, <2>1 DEF Hashed
    <3>2. c.m_hash[x] \notin bad
      BY <1>14, <3>1
    <3>3. w[x] = c.data[c.m_hash[x]] /\ c.has_data[c.m_hash[x]] /\ c.m_hash[x] # NoEntry
      BY <1>3, <1>4, <2>1, <3>1, <3>2
    <3> QED  BY <3>3 DEF Shows, Marked
  <2>2. CASE c.m_hash[x] \notin ToSet(es)
    <3>1. w[x] = d[x]
      BY <1>13, <2>2
    <3>2. es = c.m_dirty_list => Shows(c, d, x) = d[x]
      <4>1. CASE c.m_hash[x] = NoEntry
        BY <4>1 DEF Shows
      <4>2. CASE c.m_hash[x] # NoEntry
        <5>1. c.m_hash[x] \in Entries /\ c.block_index[c.m_hash[x]] = x
          BY <1>0, <1>1, <4>2 DEF Hashed
        <5>2. es = c.m_dirty_list /\ c.has_data[c.m_hash[x]] => c.data[c.m_hash[x]] = d[x]
          BY <1>0, <1>14, <2>2, <5>1 DEF Coherent
        <5> QED  BY <5>2 DEF Shows
      <4> QED  BY <4>1, <4>2
    <3> QED  BY <3>1, <3>2 DEF Shows, Marked
  <2> QED  BY <2>1, <2>2
<1> QED  BY <1>12, <1>13, <1>14 DEF SameContent

----------------------------------------------------------------------------
(* The steps a call is made of. *)

\* The last entry of a list.
LEMMA LastOf ==
    ASSUME NEW S, NEW s \in Seq(S), s # <<>>
    PROVE  Last(s) \in ToSet(s)
<1>1. Len(s) \in DOMAIN s
  OBVIOUS
<1> QED  BY <1>1 DEF Last, ToSet

\* get() gives the last clean entry to block b: the block the entry had is read from
\* the device from then on, where its content is.
LEMMA Claimed ==
    ASSUME NoEntry \notin Entries, BlockZero \notin Blocks,
           NEW c, NEW d, NEW dm, Good(c, d, dm),
           NEW b \in Blocks, c.m_hash[b] = NoEntry, c.m_clean_list # <<>>
    PROVE  /\ Good(Claim(c, b), d, dm) /\ SameContent(c, d, Claim(c, b), d, dm)
           /\ Claim(c, b).m_hash[b] \in Entries
<1> DEFINE e == Last(c.m_clean_list)
           r == Claim(c, b)
           clean == Prepend(c.m_clean_list, e)
           old == c.block_index[e]
<1>0. /\ c \in Caches /\ d \in [Blocks -> Data] /\ dm \subseteq Blocks
      /\ Listed(c.m_clean_list, c.m_dirty_list) /\ Hashed(c.m_hash, c.block_index)
      /\ Dirty(c) /\ Coherent(c, d, dm)
  BY DEF Good
<1>1. /\ c.m_hash \in [Blocks -> Entries \cup {NoEntry}]
      /\ c.block_index \in [Entries -> Blocks \cup {BlockZero}]
      /\ c.has_data \in [Entries -> BOOLEAN]
      /\ c.m_clean_list \in Seq(Entries) /\ c.m_dirty_list \in Seq(Entries)
  BY <1>0 DEF Caches
<1>2. e \in ToSet(c.m_clean_list) /\ e \in Entries /\ e \notin ToSet(c.m_dirty_list)
  <2>1. e \in ToSet(c.m_clean_list)
    BY <1>1, LastOf
  <2> QED  BY <1>0, <2>1 DEF Listed
<1>3. clean \in Seq(Entries) /\ IsInjective(clean) /\ ToSet(clean) = ToSet(c.m_clean_list)
  <2>1. IsInjective(c.m_clean_list)
    BY <1>0 DEF Listed
  <2>2. /\ clean \in Seq(Entries) /\ IsInjective(clean)
        /\ ToSet(clean) = ToSet(c.m_clean_list) \cup {e}
    BY <1>1, <1>2, <2>1, Prepended
  <2> QED  BY <1>2, <2>2
<1> HIDE DEF e, clean
<1>4. /\ r.m_clean_list = clean /\ r.m_dirty_list = c.m_dirty_list /\ r.m_dirty = c.m_dirty
      /\ r.data = c.data
      /\ r.block_index = [c.block_index EXCEPT ![e] = b]
      /\ r.has_data = [c.has_data EXCEPT ![e] = FALSE]
      /\ r.m_hash = [x \in Blocks |-> IF x = b THEN e
                                      ELSE IF x = old THEN NoEntry ELSE c.m_hash[x]]
  BY <1>0 DEF Claim, Caches, e, clean
<1>5. r \in Caches
  BY <1>0, <1>1, <1>2, <1>3 DEF Claim, Caches, e, clean
<1> HIDE DEF r
<1>6. Listed(r.m_clean_list, r.m_dirty_list)
  BY <1>0, <1>3, <1>4 DEF Listed
<1>7. old # b
  BY <1>0, <1>2 DEF Hashed
<1>8. \A x \in Blocks : c.m_hash[x] = e => x = old
  BY <1>0, <1>1, <1>2 DEF Hashed
<1>9. Hashed(r.m_hash, r.block_index)
  <2>1. ASSUME NEW x \in Blocks, r.m_hash[x] # NoEntry PROVE r.block_index[r.m_hash[x]] = x
    <3>1. CASE x = b
      BY <1>1, <1>2, <1>4, <3>1
    <3>2. CASE x # b
      <4>1. x # old /\ r.m_hash[x] = c.m_hash[x] /\ c.m_hash[x] \in Entries
        BY <1>1, <1>4, <2>1, <3>2
      <4>2. c.m_hash[x] # e /\ c.block_index[c.m_hash[x]] = x
        BY <1>0, <1>8, <2>1, <4>1 DEF Hashed
      <4> QED  BY <1>1, <1>4, <4>1, <4>2
    <3> QED  BY <3>1, <3>2
  <2>2. ASSUME NEW f \in Entries, r.block_index[f] # BlockZero
        PROVE  r.m_hash[r.block_index[f]] = f
    <3>1. CASE f = e
      BY <1>1, <1>4, <3>1
    <3>2. CASE f # e
      <4>1. r.block_index[f] = c.block_index[f] /\ c.block_index[f] \in Blocks
        BY <1>1, <1>4, <2>2, <3>2
      <4>2. c.m_hash[c.block_index[f]] = f
        BY <1>0, <2>2, <4>1 DEF Hashed
      <4>3. c.block_index[f] # b
        BY <4>2
      <4>4. c.block_index[f] # old
        BY <1>0, <1>2, <2>2, <3>2, <4>1, <4>2 DEF Hashed
      <4> QED  BY <1>4, <4>1, <4>2, <4>3, <4>4
    <3> QED  BY <3>1, <3>2
  <2> QED  BY <2>1, <2>2 DEF Hashed
<1>10. \A f \in Entries : f # e => /\ r.has_data[f] = c.has_data[f]
                                   /\ r.block_index[f] = c.block_index[f]
  BY <1>1, <1>4
<1>11. Dirty(r)
  <2>1. ToSet(c.m_dirty_list) \subseteq Entries
    BY <1>0 DEF Listed
  <2> QED  BY <1>0, <1>2, <1>4, <1>10, <2>1 DEF Dirty
<1>12. Coherent(r, d, dm)
  <2>1. ~r.has_data[e]
    BY <1>1, <1>2, <1>4
  <2> QED  BY <1>0, <1>4, <1>10, <2>1 DEF Coherent
<1>13. ASSUME NEW x \in Blocks \ dm PROVE Shows(r, d, x) = Shows(c, d, x)
  <2>1. CASE x = b
    <3>1. r.m_hash[x] = e /\ ~r.has_data[e]
      BY <1>1, <1>2, <1>4, <2>1
    <3> QED  BY <2>1, <3>1 DEF Shows
  <2>2. CASE x = old
    <3>1. r.m_hash[x] = NoEntry
      BY <1>4, <1>7, <2>2
    <3>2. c.m_hash[x] = e /\ (c.has_data[e] => c.data[e] = d[x])
      BY <1>0, <1>2, <2>2 DEF Hashed, Coherent
    <3> QED  BY <3>1, <3>2 DEF Shows
  <2>3. CASE x # b /\ x # old
    <3>1. r.m_hash[x] = c.m_hash[x] /\ c.m_hash[x] # e
      BY <1>4, <1>8, <2>3
    <3> QED  BY <1>1, <1>4, <1>10, <3>1 DEF Shows
  <2> QED  BY <2>1, <2>2, <2>3
<1>14. r.m_hash[b] \in Entries
  BY <1>2, <1>4
<1> QED  BY <1>0, <1>5, <1>6, <1>9, <1>11, <1>12, <1>13, <1>14 DEF Good, SameContent, r

\* A read that misses fills the entry: nothing is seen to change.
LEMMA Filled ==
    ASSUME NoEntry \notin Entries, BlockZero \notin Blocks,
           NEW c, NEW d, NEW dm, Good(c, d, dm),
           NEW b \in Blocks, NEW e \in Entries, c.m_hash[b] = e
    PROVE  /\ Good(Fill(c, e, d[b]), d, dm) /\ SameContent(c, d, Fill(c, e, d[b]), d, {})
           /\ Fill(c, e, d[b]).m_hash = c.m_hash
           /\ Fill(c, e, d[b]).has_data[e]
           /\ Fill(c, e, d[b]).data[e] = Shows(c, d, b) /\ Shows(c, d, b) \in Data
<1> DEFINE r == Fill(c, e, d[b])
<1>0. /\ c \in Caches /\ d \in [Blocks -> Data] /\ dm \subseteq Blocks
      /\ Listed(c.m_clean_list, c.m_dirty_list) /\ Hashed(c.m_hash, c.block_index)
      /\ Dirty(c) /\ Coherent(c, d, dm) /\ d[b] \in Data
  BY DEF Good
<1>1. /\ c.has_data \in [Entries -> BOOLEAN]
      /\ c.data \in [Entries -> [Cells -> Values \cup {Fresh}]]
  BY <1>0 DEF Caches
<1>2. c.block_index[e] = b /\ e # NoEntry
  BY <1>0 DEF Hashed
<1>3. CASE c.has_data[e]
  <2>1. r = c
    BY <1>3 DEF Fill
  <2>2. c.data[e] = Shows(c, d, b) /\ c.data[e] \in Data
    BY <1>0, <1>2, <1>3 DEF Shows, Coherent
  <2> QED  BY <1>3, <2>1, <2>2 DEF SameContent
<1>4. CASE ~c.has_data[e]
  <2>1. r = [c EXCEPT !.data = [@ EXCEPT ![e] = d[b]], !.has_data = [@ EXCEPT ![e] = TRUE]]
    BY <1>4 DEF Fill
  <2> HIDE DEF r
  <2>2. /\ r.m_clean_list = c.m_clean_list /\ r.m_dirty_list = c.m_dirty_list
        /\ r.m_dirty = c.m_dirty /\ r.block_index = c.block_index /\ r.m_hash = c.m_hash
        /\ r.data = [c.data EXCEPT ![e] = d[b]] /\ r.has_data = [c.has_data EXCEPT ![e] = TRUE]
    BY <1>0, <2>1 DEF Caches
  <2>3. d[b] \in [Cells -> Values \cup {Fresh}]
    BY <1>0 DEF Data
  <2>4. r \in Caches
    BY <1>0, <1>1, <2>1, <2>3 DEF Caches
  <2>5. /\ r.has_data[e] /\ r.data[e] = d[b]
        /\ \A f \in Entries : f # e => r.has_data[f] = c.has_data[f] /\ r.data[f] = c.data[f]
    BY <1>1, <2>2
  <2>6. Dirty(r)
    <3>1. ToSet(c.m_dirty_list) \subseteq Entries
      BY <1>0 DEF Listed
    <3> QED  BY <1>0, <1>4, <2>2, <2>5, <3>1 DEF Dirty
  <2>7. Coherent(r, d, dm)
    BY <1>0, <1>2, <2>2, <2>5 DEF Coherent
  <2>8. Shows(c, d, b) = d[b]
    BY <1>4 DEF Shows
  <2>9. ASSUME NEW x \in Blocks PROVE Shows(r, d, x) = Shows(c, d, x)
    <3>1. CASE x = b
      BY <1>2, <2>2, <2>5, <2>8, <3>1 DEF Shows
    <3>2. CASE x # b
      <4>1. c.m_hash[x] # e /\ c.m_hash[x] \in Entries \cup {NoEntry}
        BY <1>0, <1>2, <3>2 DEF Hashed, Caches
      <4> QED  BY <2>2, <2>5, <4>1 DEF Shows
    <3> QED  BY <3>1, <3>2
  <2> QED  BY <1>0, <2>2, <2>4, <2>5, <2>6, <2>7, <2>8, <2>9 DEF Good, SameContent, r
<1> QED  BY <1>3, <1>4

\* write_block makes the entry of its block dirty: the block then reads as written and
\* no other is seen to change; a write of the whole block heals it.
LEMMA Put ==
    ASSUME NoEntry \notin Entries, BlockZero \notin Blocks,
           NEW c, NEW d, NEW dm, Good(c, d, dm),
           NEW b \in Blocks, NEW e \in Entries, c.m_hash[b] = e, NEW v \in Data,
           NEW dm2, dm2 \subseteq Blocks, dm \subseteq dm2 \cup {b}
    PROVE  /\ Good(PutEntry(c, e, v), d, dm2)
           /\ SameContent(c, d, PutEntry(c, e, v), d, {b})
           /\ Shows(PutEntry(c, e, v), d, b) = v
<1> DEFINE clean == RemoveFirst(c.m_clean_list, e)
           dirty == Prepend(c.m_dirty_list, e)
           r == PutEntry(c, e, v)
<1>0. /\ c \in Caches /\ d \in [Blocks -> Data]
      /\ Listed(c.m_clean_list, c.m_dirty_list) /\ Hashed(c.m_hash, c.block_index)
      /\ Dirty(c) /\ Coherent(c, d, dm)
  BY DEF Good
<1>1. /\ c.has_data \in [Entries -> BOOLEAN]
      /\ c.data \in [Entries -> [Cells -> Values \cup {Fresh}]]
      /\ c.m_clean_list \in Seq(Entries) /\ c.m_dirty_list \in Seq(Entries)
      /\ v \in [Cells -> Values \cup {Fresh}]
  BY <1>0 DEF Caches, Data
<1>2. c.block_index[e] = b /\ e # NoEntry /\ b # BlockZero
  BY <1>0 DEF Hashed
<1>3. /\ IsInjective(c.m_clean_list) /\ IsInjective(c.m_dirty_list)
      /\ ToSet(c.m_dirty_list) \subseteq Entries
  BY <1>0 DEF Listed
<1>4. /\ clean \in Seq(Entries) /\ IsInjective(clean)
      /\ ToSet(clean) = ToSet(c.m_clean_list) \ {e}
  BY <1>1, <1>3, RemovedFirst
<1>5. /\ dirty \in Seq(Entries) /\ IsInjective(dirty)
      /\ ToSet(dirty) = ToSet(c.m_dirty_list) \cup {e}
  BY <1>1, <1>3, Prepended
<1> HIDE DEF clean, dirty
<1>6. /\ r.m_clean_list = clean /\ r.m_dirty_list = dirty
      /\ r.m_dirty = TRUE /\ r.block_index = c.block_index /\ r.m_hash = c.m_hash
      /\ r.data = [c.data EXCEPT ![e] = v] /\ r.has_data = [c.has_data EXCEPT ![e] = TRUE]
  BY <1>0 DEF PutEntry, MarkDirty, Caches, clean, dirty
<1>7. r \in Caches
  BY <1>0, <1>1, <1>4, <1>5 DEF PutEntry, MarkDirty, Caches, clean, dirty
<1> HIDE DEF r
<1>8. /\ r.has_data[e] /\ r.data[e] = v
      /\ \A f \in Entries : f # e => r.has_data[f] = c.has_data[f] /\ r.data[f] = c.data[f]
  BY <1>1, <1>6
<1>9. Listed(r.m_clean_list, r.m_dirty_list)
  BY <1>0, <1>4, <1>5, <1>6 DEF Listed
<1>10. Dirty(r)
  BY <1>0, <1>2, <1>3, <1>5, <1>6, <1>8 DEF Dirty
<1>11. \A f \in Entries : f # e => c.block_index[f] # b
  BY <1>0, <1>2 DEF Hashed
<1>12. Coherent(r, d, dm2)
  <2> SUFFICES ASSUME NEW f \in Entries, r.has_data[f]
               PROVE  /\ r.data[f] \in Data
                      /\ f \in ToSet(r.m_dirty_list) \/ r.block_index[f] \in dm2 \cup {BlockZero}
                           \/ r.data[f] = d[r.block_index[f]]
    BY DEF Coherent
  <2>1. CASE f = e
    BY <1>5, <1>6, <1>8, <2>1
  <2>2. CASE f # e
    BY <1>0, <1>5, <1>6, <1>8, <1>11, <2>2 DEF Coherent
  <2> QED  BY <2>1, <2>2
<1>13. Shows(r, d, b) = v
  BY <1>2, <1>6, <1>8 DEF Shows
<1>14. ASSUME NEW x \in Blocks \ {b} PROVE Shows(r, d, x) = Shows(c, d, x)
  <2>1. c.m_hash[x] # e /\ c.m_hash[x] \in Entries \cup {NoEntry}
    BY <1>0, <1>2 DEF Hashed, Caches
  <2> QED  BY <1>6, <1>8, <2>1 DEF Shows
<1> QED  BY <1>0, <1>6, <1>7, <1>9, <1>10, <1>12, <1>13, <1>14 DEF Good, SameContent, r

\* A copy that stops part of the way leaves v in the entry of its block: the block is
\* damaged if the entry had data and v is not that.
LEMMA Spoiled ==
    ASSUME NoEntry \notin Entries, BlockZero \notin Blocks,
           NEW c, NEW d, NEW dm, Good(c, d, dm),
           NEW b \in Blocks, NEW e \in Entries, c.m_hash[b] = e,
           NEW v \in [Cells -> Values \cup {Fresh}],
           NEW dm2, dm2 \subseteq Blocks, dm \subseteq dm2,
           c.has_data[e] => v \in Data /\ (b \in dm2 \/ v = c.data[e]),
           NEW r, r = Overwrite(c, e, v)
    PROVE  Good(r, d, dm2) /\ SameContent(c, d, r, d, dm2)
<1>0. /\ c \in Caches /\ d \in [Blocks -> Data]
      /\ Listed(c.m_clean_list, c.m_dirty_list) /\ Hashed(c.m_hash, c.block_index)
      /\ Dirty(c) /\ Coherent(c, d, dm)
  BY DEF Good
<1>1. /\ c.has_data \in [Entries -> BOOLEAN]
      /\ c.data \in [Entries -> [Cells -> Values \cup {Fresh}]]
  BY <1>0 DEF Caches
<1>2. c.block_index[e] = b /\ e # NoEntry
  BY <1>0 DEF Hashed
<1>3. /\ r.m_clean_list = c.m_clean_list /\ r.m_dirty_list = c.m_dirty_list
      /\ r.m_dirty = c.m_dirty /\ r.block_index = c.block_index /\ r.m_hash = c.m_hash
      /\ r.data = [c.data EXCEPT ![e] = v] /\ r.has_data = c.has_data
  BY <1>0 DEF Overwrite, Caches
<1>4. r \in Caches
  BY <1>0, <1>1 DEF Overwrite, Caches
<1>5. r.data[e] = v /\ \A f \in Entries : f # e => r.data[f] = c.data[f]
  BY <1>1, <1>3
<1>6. Dirty(r)
  BY <1>0, <1>3 DEF Dirty
<1>7. Coherent(r, d, dm2)
  <2> SUFFICES ASSUME NEW f \in Entries, c.has_data[f]
               PROVE  /\ r.data[f] \in Data
                      /\ \/ f \in ToSet(c.m_dirty_list) \/ c.block_index[f] \in dm2 \cup {BlockZero}
                         \/ r.data[f] = d[c.block_index[f]]
    BY <1>3 DEF Coherent
  <2>1. /\ c.data[f] \in Data
        /\ f \in ToSet(c.m_dirty_list) \/ c.block_index[f] \in dm \cup {BlockZero}
             \/ c.data[f] = d[c.block_index[f]]
    BY <1>0 DEF Coherent
  <2>2. CASE f = e
    BY <1>2, <1>5, <2>1, <2>2
  <2>3. CASE f # e
    BY <1>5, <2>1, <2>3
  <2> QED  BY <2>2, <2>3
<1>8. ASSUME NEW x \in Blocks \ dm2 PROVE Shows(r, d, x) = Shows(c, d, x)
  <2>1. CASE x = b
    BY <1>2, <1>3, <1>5, <2>1 DEF Shows
  <2>2. CASE x # b
    <3>1. c.m_hash[x] # e /\ c.m_hash[x] \in Entries \cup {NoEntry}
      BY <1>0, <1>2, <2>2 DEF Hashed, Caches
    <3> QED  BY <1>3, <1>5, <3>1 DEF Shows
  <2> QED  BY <2>1, <2>2
<1> QED  BY <1>0, <1>3, <1>4, <1>6, <1>7, <1>8 DEF Good, SameContent

\* A write that goes past the cache: v becomes the content of b on the device, which then
\* holds w.  It damages b if the cache has an entry for it, and may heal b if not: dm2 are
\* the damaged blocks after it.
Around(c, d, dm, b, v, w, dm2) ==
    /\ Good(c, d, dm) /\ v \in Data /\ w = [d EXCEPT ![b] = v]
    /\ dm2 \subseteq Blocks
    /\ \/ c.m_hash[b] = NoEntry /\ dm \subseteq dm2 \cup {b}
       \/ dm \cup {b} \subseteq dm2

\* Such a write.
LEMMA WroteAround ==
    ASSUME NoEntry \notin Entries, BlockZero \notin Blocks,
           NEW c, NEW d, NEW dm, NEW b \in Blocks, NEW v, NEW w, NEW dm2,
           Around(c, d, dm, b, v, w, dm2)
    PROVE  /\ Good(c, w, dm2) /\ SameContent(c, d, c, w, {b})
           /\ c.m_hash[b] = NoEntry => Shows(c, w, b) = v
<1> USE DEF Around
<1>0. /\ c \in Caches /\ d \in [Blocks -> Data]
      /\ Listed(c.m_clean_list, c.m_dirty_list) /\ Hashed(c.m_hash, c.block_index)
      /\ Dirty(c) /\ Coherent(c, d, dm) /\ c.block_index \in [Entries -> Blocks \cup {BlockZero}]
  BY DEF Good, Caches
<1>1. w \in [Blocks -> Data] /\ w[b] = v /\ \A x \in Blocks : x # b => w[x] = d[x]
  BY <1>0
<1>2. Coherent(c, w, dm2)
  <2> SUFFICES ASSUME NEW f \in Entries, c.has_data[f]
               PROVE  /\ c.data[f] \in Data
                      /\ \/ f \in ToSet(c.m_dirty_list) \/ c.block_index[f] \in dm2 \cup {BlockZero}
                         \/ c.data[f] = w[c.block_index[f]]
    BY DEF Coherent
  <2>1. /\ c.data[f] \in Data
        /\ f \in ToSet(c.m_dirty_list) \/ c.block_index[f] \in dm \cup {BlockZero}
             \/ c.data[f] = d[c.block_index[f]]
    BY <1>0 DEF Coherent
  <2>2. CASE c.block_index[f] # b
    BY <1>0, <1>1, <2>1, <2>2
  <2>3. CASE c.block_index[f] = b
    <3>1. c.m_hash[b] = f
      BY <1>0, <2>3 DEF Hashed
    <3>2. CASE c.m_hash[b] = NoEntry
      BY <3>1, <3>2
    <3> QED  BY <2>1, <2>3, <3>2
  <2> QED  BY <2>2, <2>3
<1>3. \A x \in Blocks \ {b} : Shows(c, w, x) = Shows(c, d, x)
  BY <1>1 DEF Shows
<1>4. c.m_hash[b] = NoEntry => Shows(c, w, b) = v
  BY <1>1 DEF Shows
<1> QED  BY <1>0, <1>1, <1>2, <1>3, <1>4 DEF Good, SameContent

----------------------------------------------------------------------------
(* The calls. *)

\* Block x is not touched when c, d and dm become c2, d2 and dm2: it may become durable
\* or be damaged.
Quiet(c, d, dm, c2, d2, dm2, x) ==
    x \notin dm2 => /\ x \notin dm /\ Shows(c2, d2, x) = Shows(c, d, x)
                    /\ d2[x] \in {d[x], Shows(c, d, x)}

\* What get(b) leaves: a good cache that has an entry for b.
Gotten(b, bad) ==
    LET dm == damaged \cup Damages(bad)
    IN  /\ Good(GetCache(b), GetDisk(b, bad), dm)
        /\ GetCache(b).m_hash[b] \in Entries
        /\ \A x \in Blocks :
              Quiet(cache, disk, damaged, GetCache(b), GetDisk(b, bad), dm, x)
        /\ GetDisk(b, bad)[b] = disk[b] /\ b \notin Damages(bad)

\* get(b), with the flush it needs when no entry is clean.
LEMMA Got ==
    ASSUME IInv, CacheAssumptions, BlockZero \notin Blocks,
           NEW b \in Blocks, NEW bad \in MayFail(GetFlushes(b))
    PROVE  Gotten(b, bad)
<1> DEFINE es == GetFlushes(b)
           hit == Damages(bad)
           c == IF MustFlush(b) THEN MarkAllClean(cache) ELSE cache
           w == GetDisk(b, bad)
           dm == damaged \cup hit
<1>0. /\ Good(cache, disk, damaged) /\ cache \in Caches /\ NoEntry \notin Entries
      /\ Listed(cache.m_clean_list, cache.m_dirty_list)
      /\ cache.m_hash \in [Blocks -> Entries \cup {NoEntry}]
      /\ cache.m_clean_list \in Seq(Entries) /\ cache.m_dirty_list \in Seq(Entries)
  BY DEF IInv, Good, Caches, CacheAssumptions
<1>1. /\ es \in Seq(Entries) /\ IsInjective(es) /\ ToSet(es) \subseteq ToSet(cache.m_dirty_list)
      /\ cache.m_hash[b] \notin ToSet(es) /\ bad \subseteq ToSet(es)
  <2>1. CASE MustFlush(b)
    <3>1. es = cache.m_dirty_list /\ cache.m_hash[b] = NoEntry
      BY <2>1 DEF GetFlushes, MustFlush
    <3>2. IsInjective(cache.m_dirty_list) /\ ToSet(cache.m_dirty_list) \subseteq Entries
      BY <1>0 DEF Listed
    <3> QED  BY <1>0, <3>1, <3>2 DEF MayFail
  <2>2. CASE ~MustFlush(b)
    <3>1. es = <<>>
      BY <2>2 DEF GetFlushes
    <3>2. ToSet(<<>>) = {} /\ IsInjective(<<>>) /\ <<>> \in Seq(Entries)
      BY DEF ToSet, IsInjective
    <3> QED  BY <3>1, <3>2 DEF MayFail
  <2> QED  BY <2>1, <2>2
<1>2. w = Written(cache, disk, es, bad) /\ hit = {cache.block_index[e] : e \in bad}
  BY DEF GetDisk, Damages
<1>3. /\ Good(c, w, dm) /\ c.m_hash = cache.m_hash
      /\ \A x \in Blocks : Quiet(cache, disk, damaged, c, w, dm, x)
      /\ w[b] = disk[b] /\ b \notin hit
      /\ c.m_hash[b] = NoEntry => c.m_clean_list # <<>>
  <2>1. CASE MustFlush(b)
    <3> DEFINE r == MarkAllClean(cache)
    <3>1. c = r /\ es = cache.m_dirty_list
      BY <2>1 DEF GetFlushes
    <3>2. Marked(cache, r, es)
      BY <1>0, <1>1, <3>1, MarkedClean
    <3> HIDE DEF r, es, w, hit, c
    <3>3. /\ Good(r, w, dm) /\ SameContent(cache, disk, r, w, dm)
          /\ \A x \in Blocks \ dm : w[x] \in {disk[x], Shows(cache, disk, x)}
          /\ \A x \in Blocks : cache.m_hash[x] \notin ToSet(es) => w[x] = disk[x] /\ x \notin hit
      <4>1. Flushed(cache, disk, damaged, es, bad, r, w, hit)
        BY <1>0, <1>1, <1>2, <3>1, <3>2 DEF Flushed
      <4> QED  BY <1>0, <4>1, WroteBack
    <3>4. r.m_clean_list # <<>>
      <4>1. ToSet(r.m_dirty_list) = ToSet(es) \cap (Entries \ ToSet(es))
        BY <1>0, <3>1, <3>2, FilterProperties DEF Marked
      <4>2. ToSet(r.m_clean_list) = Entries
        BY <3>3, <4>1 DEF Good, Listed
      <4>3. ToSet(<<>>) = {}
        BY DEF ToSet
      <4> QED  BY <4>2, <4>3 DEF CacheAssumptions
    <3>5. r.m_hash = cache.m_hash
      BY <3>2 DEF Marked
    <3>6. \A x \in Blocks : Quiet(cache, disk, damaged, r, w, dm, x)
      BY <3>3 DEF Quiet, SameContent
    <3> QED  BY <1>1, <3>1, <3>3, <3>4, <3>5, <3>6
  <2>2. CASE ~MustFlush(b)
    <3>1. c = cache /\ es = <<>>
      BY <2>2 DEF GetFlushes
    <3>2. bad = {} /\ hit = {}
      <4>1. ToSet(<<>>) = {}
        BY DEF ToSet
      <4> QED  BY <1>1, <1>2, <3>1, <4>1
    <3>3. w = disk
      BY <1>0, <1>2, <3>1, NothingWritten
    <3> QED  BY <1>0, <2>2, <3>1, <3>2, <3>3 DEF Quiet, MustFlush
  <2> QED  BY <2>1, <2>2
<1>4. GetCache(b) = IF c.m_hash[b] # NoEntry THEN c ELSE Claim(c, b)
  BY DEF GetCache
<1> HIDE DEF c, w, hit
<1>5. CASE c.m_hash[b] # NoEntry
  <2>1. c.m_hash[b] \in Entries
    BY <1>0, <1>3, <1>5
  <2> QED  BY <1>3, <1>4, <1>5, <2>1 DEF Gotten, w, hit
<1>6. CASE c.m_hash[b] = NoEntry
  <2> DEFINE r == Claim(c, b)
  <2>1. GetCache(b) = r
    BY <1>4, <1>6
  <2>2. Good(r, w, dm) /\ SameContent(c, w, r, w, dm) /\ r.m_hash[b] \in Entries
    BY <1>0, <1>3, <1>6, Claimed
  <2> HIDE DEF r
  <2>3. \A x \in Blocks : Quiet(cache, disk, damaged, r, w, dm, x)
    BY <1>3, <2>2 DEF Quiet, SameContent
  <2> QED  BY <1>3, <2>1, <2>2, <2>3 DEF Gotten, w, hit
<1> QED  BY <1>5, <1>6

\* A block that is not touched here is not touched in the abstract store.
LEMMA QuietIsUntouched ==
    ASSUME NEW x \in Blocks, Quiet(cache, disk, damaged, cache', disk', damaged', x)
    PROVE  Abstract!Untouched(x)
BY DEF Quiet, Shows, Content, Abstract!Untouched

\* The content of a block in the abstract store.
LEMMA Stored ==
    ASSUME NEW x \in Blocks
    PROVE  /\ [b \in Blocks |-> IF b \in damaged THEN Unknown ELSE Content(b)][x]
                = IF x \in damaged THEN Unknown ELSE Shows(cache, disk, x)
           /\ ([b \in Blocks |-> IF b \in damaged THEN Unknown ELSE Content(b)][x])'
                = IF x \in damaged' THEN Unknown ELSE Shows(cache', disk', x)
BY DEF Shows, Content

\* A read is one of the abstract store.
LEMMA ReadBlockStep ==
    ASSUME IInv, BlockZero \notin Blocks, NEW b \in Blocks, ReadBlock(b)
    PROVE  IInv' /\ Abstract!Next
<1>1. PICK bad \in MayFail(GetFlushes(b)) :
        LET c == GetCache(b)
            e == c.m_hash[b]
            d == GetDisk(b, bad)
            filled == Fill(c, e, d[b])
        IN  /\ disk' = d
            /\ DamagedBy(Damages(bad), {})
            /\ \/ /\ cache' = filled
                  /\ reply' = [kind |-> "read", block |-> b, data |-> filled.data[e]]
               \/ /\ cache' \in {c, filled}
                  /\ reply' = [kind |-> "error"]
  BY DEF ReadBlock
<1> DEFINE c == GetCache(b)
           e == c.m_hash[b]
           d == GetDisk(b, bad)
           filled == Fill(c, e, d[b])
           dm == damaged \cup Damages(bad)
<1>2. disk' = d /\ damaged' = dm /\ cache' \in {c, filled}
  BY <1>1 DEF DamagedBy
<1>3. /\ Good(c, d, dm) /\ e \in Entries
      /\ \A x \in Blocks : Quiet(cache, disk, damaged, c, d, dm, x)
  BY CacheAssumptions, Got DEF Gotten
<1>4. \/ cache' = filled /\ reply' = [kind |-> "read", block |-> b, data |-> filled.data[e]]
      \/ reply' = [kind |-> "error"]
  BY <1>1
<1> HIDE DEF c, e, d, dm
<1>5. /\ Good(filled, d, dm) /\ SameContent(c, d, filled, d, {})
      /\ filled.m_hash = c.m_hash /\ filled.has_data[e]
      /\ filled.data[e] = Shows(c, d, b) /\ Shows(c, d, b) \in Data
  BY <1>3, CacheAssumptions, Filled DEF CacheAssumptions, e
<1> HIDE DEF filled
<1>6. IInv'
  BY <1>2, <1>3, <1>5 DEF IInv
<1>7. \A x \in Blocks : Quiet(cache, disk, damaged, cache', disk', damaged', x)
  BY <1>2, <1>3, <1>5 DEF Quiet, SameContent
<1>8. \A x \in Blocks : Abstract!Untouched(x)
  BY <1>7, QuietIsUntouched
<1>9. CASE cache' = filled /\ reply' = [kind |-> "read", block |-> b, data |-> filled.data[e]]
  <2>1. Shows(cache', disk', b) = filled.data[e]
    BY <1>2, <1>5, <1>9 DEF SameContent
  <2>2. PICK v \in Abstract!Data : v = filled.data[e]
    BY <1>5 DEF Data, Abstract!Data
  <2>3. Abstract!Read(b, v)
    BY <1>8, <1>9, <2>1, <2>2, Stored DEF Abstract!Read
  <2> QED  BY <1>6, <2>3 DEF Abstract!Next
<1>10. CASE reply' = [kind |-> "error"]
  BY <1>6, <1>8, <1>10 DEF Abstract!Next, Abstract!Fail
<1> QED  BY <1>4, <1>9, <1>10

\* What a write has to do to be one of the abstract store.
AsWritten(b, cs, v) ==
    LET old == Shows(cache, disk, b)
        new == Shows(cache', disk', b)
    IN  /\ reply' = WroteReply(b, cs, v)
        /\ \A x \in Blocks \ {b} : Quiet(cache, disk, damaged, cache', disk', damaged', x)
        /\ \/ b \notin damaged' /\ new = [x \in Cells |-> v] /\ cs = Cells
           \/ b \notin damaged \cup damaged' /\ old \in Data /\ new = Merge(old, cs, v)
           \/ b \in damaged \cap damaged'
        /\ b \notin damaged => b \notin damaged' /\ disk'[b] \in {disk[b], new}

\* Such a write is one.
LEMMA WriteIsWrite ==
    ASSUME NEW b \in Blocks, NEW cs \in SUBSET Cells, NEW v \in Values, AsWritten(b, cs, v)
    PROVE  Abstract!Next
<1> DEFINE old == Shows(cache, disk, b)
           new == Shows(cache', disk', b)
           store == [x \in Blocks |-> IF x \in damaged THEN Unknown ELSE Content(x)]
           durable == [x \in Blocks |-> IF x \in damaged THEN Unknown ELSE disk[x]]
<1>1. /\ store[b] = IF b \in damaged THEN Unknown ELSE old
      /\ (store[b])' = IF b \in damaged' THEN Unknown ELSE new
  BY Stored
<1>2. /\ durable[b] = IF b \in damaged THEN Unknown ELSE disk[b]
      /\ (durable[b])' = IF b \in damaged' THEN Unknown ELSE disk'[b]
  OBVIOUS
<1>3. reply' = [kind |-> "written", block |-> b, cells |-> cs, value |-> v]
  BY DEF AsWritten, WroteReply
<1>4. \A x \in Blocks \ {b} : Abstract!Untouched(x)
  BY QuietIsUntouched DEF AsWritten
<1>5. \/ (store[b])' = [x \in Cells |-> v] /\ cs = Cells
      \/ store[b] # Unknown /\ (store[b])' = Abstract!Merge(store[b], cs, v)
      \/ Unknown \in {store[b], (durable[b])'} /\ (store[b])' = Unknown
  <2>1. Merge(old, cs, v) = Abstract!Merge(old, cs, v)
    BY DEF Merge, Abstract!Merge
  <2> HIDE DEF store, durable, old, new
  <2>2. \/ b \notin damaged' /\ new = [x \in Cells |-> v] /\ cs = Cells
        \/ b \notin damaged \cup damaged' /\ old \in Data /\ new = Merge(old, cs, v)
        \/ b \in damaged \cap damaged'
    BY DEF AsWritten, old, new
  <2> QED  BY <1>1, <1>2, <2>1, <2>2, CacheAssumptions DEF CacheAssumptions
<1>6. (durable[b])' \in {durable[b], store[b], (store[b])'} \/ durable[b] = Unknown
  <2>1. b \notin damaged => b \notin damaged' /\ disk'[b] \in {disk[b], new}
    BY DEF AsWritten
  <2> HIDE DEF store, durable, old, new
  <2> QED  BY <1>1, <1>2, <2>1
<1>7. Abstract!Write(b, cs, v)
  BY <1>3, <1>4, <1>5, <1>6 DEF Abstract!Write
<1> QED  BY <1>7 DEF Abstract!Next

\* A write through the cache is one of the abstract store, or it fails.
LEMMA WriteBlockStep ==
    ASSUME IInv, BlockZero \notin Blocks,
           NEW b \in Blocks, NEW cs \in Parts, NEW new \in Values, WriteBlock(b, cs, new)
    PROVE  IInv' /\ Abstract!Next
<1>1. PICK bad \in MayFail(GetFlushes(b)) :
        LET c == GetCache(b)
            e == c.m_hash[b]
            d == GetDisk(b, bad)
            ready == IF cs = Cells THEN c ELSE Fill(c, e, d[b])
        IN  /\ disk' = d
            /\ \/ /\ cache' = PutEntry(ready, e, Merge(ready.data[e], cs, new))
                  /\ DamagedBy(Damages(bad), IF cs = Cells THEN {b} ELSE {})
                  /\ reply' = WroteReply(b, cs, new)
               \/ /\ cache' = c
                  /\ cs # Cells /\ ~c.has_data[e]
                  /\ DamagedBy(Damages(bad), {})
                  /\ reply' = [kind |-> "error"]
               \/ \E torn \in SUBSET cs :
                     /\ torn # cs
                     /\ cache' = Overwrite(ready, e, Merge(ready.data[e], torn, new))
                     /\ LET spoils == torn # {} /\ ready.has_data[e]
                        IN  DamagedBy(Damages(bad) \cup (IF spoils THEN {b} ELSE {}), {})
                     /\ reply' = [kind |-> "error"]
  BY DEF WriteBlock
<1> DEFINE c == GetCache(b)
           e == c.m_hash[b]
           d == GetDisk(b, bad)
           ready == IF cs = Cells THEN c ELSE Fill(c, e, d[b])
           hit == Damages(bad)
           dm == damaged \cup hit
<1>2. disk' = d
  BY <1>1
<1>3. \/ /\ cache' = PutEntry(ready, e, Merge(ready.data[e], cs, new))
         /\ damaged' = dm \ (IF cs = Cells THEN {b} ELSE {})
         /\ reply' = WroteReply(b, cs, new)
      \/ cache' = c /\ damaged' = dm /\ reply' = [kind |-> "error"]
      \/ \E torn \in SUBSET cs :
            /\ cache' = Overwrite(ready, e, Merge(ready.data[e], torn, new))
            /\ damaged' = dm \cup (IF torn # {} /\ ready.has_data[e] THEN {b} ELSE {})
            /\ reply' = [kind |-> "error"]
  BY <1>1 DEF DamagedBy
<1>4. /\ Good(c, d, dm) /\ e \in Entries /\ d[b] = disk[b] /\ b \notin hit
      /\ \A x \in Blocks : Quiet(cache, disk, damaged, c, d, dm, x)
  BY CacheAssumptions, Got DEF Gotten
<1> HIDE DEF c, d, hit
<1>5. /\ Good(ready, d, dm) /\ SameContent(c, d, ready, d, {}) /\ ready.m_hash[b] = e
      /\ cs # Cells => /\ ready.has_data[e] /\ ready.data[e] = Shows(c, d, b)
                       /\ Shows(c, d, b) \in Data
  <2>1. CASE cs = Cells
    BY <1>4, <2>1 DEF SameContent
  <2>2. CASE cs # Cells
    <3> DEFINE f == Fill(c, e, d[b])
    <3>1. ready = f
      BY <2>2
    <3>2. /\ Good(f, d, dm) /\ SameContent(c, d, f, d, {}) /\ f.m_hash = c.m_hash
          /\ f.has_data[e] /\ f.data[e] = Shows(c, d, b) /\ Shows(c, d, b) \in Data
      BY <1>4, CacheAssumptions, Filled DEF CacheAssumptions
    <3> HIDE DEF f
    <3> QED  BY <3>1, <3>2
  <2> QED  BY <2>1, <2>2
<1>6. \A x \in Blocks : Quiet(cache, disk, damaged, ready, d, dm, x)
  BY <1>4, <1>5 DEF Quiet, SameContent
<1>7. ready.data[e] \in [Cells -> Values \cup {Fresh}] /\ cs \subseteq Cells
  <2>1. ready.data \in [Entries -> [Cells -> Values \cup {Fresh}]]
    BY <1>5 DEF Good, Caches
  <2> QED  BY <1>4, <2>1 DEF Parts
<1> HIDE DEF e, ready
<1>8. CASE /\ cache' = PutEntry(ready, e, Merge(ready.data[e], cs, new))
           /\ damaged' = dm \ (IF cs = Cells THEN {b} ELSE {})
           /\ reply' = WroteReply(b, cs, new)
  <2> DEFINE v == Merge(ready.data[e], cs, new)
  <2>1. v \in Data /\ (cs = Cells => v = [x \in Cells |-> new])
    <3>1. CASE cs = Cells
      BY <3>1 DEF Merge, Data
    <3>2. CASE cs # Cells
      BY <1>5, <3>2 DEF Merge, Data
    <3> QED  BY <3>1, <3>2
  <2>2. damaged' \subseteq Blocks /\ dm \subseteq damaged' \cup {b}
    BY <1>4, <1>8 DEF Good
  <2> DEFINE r == PutEntry(ready, e, v)
  <2>3. cache' = r
    BY <1>8
  <2>4. v = Merge(ready.data[e], cs, new)
    OBVIOUS
  <2> HIDE DEF v
  <2>5. /\ Good(r, d, damaged') /\ SameContent(ready, d, r, d, {b}) /\ Shows(r, d, b) = v
    BY <1>4, <1>5, <2>1, <2>2, CacheAssumptions, Put DEF CacheAssumptions
  <2> HIDE DEF r
  <2>6. \A x \in Blocks \ {b} : Quiet(cache, disk, damaged, cache', disk', damaged', x)
    <3>1. \A x \in Blocks \ {b} : x \notin damaged' => x \notin dm
      BY <2>2
    <3> QED  BY <1>2, <1>6, <2>3, <2>5, <3>1 DEF Quiet, SameContent
  <2>7. Shows(cache', disk', b) = v /\ disk'[b] = disk[b]
    BY <1>2, <1>4, <2>3, <2>5
  <2>8. ASSUME cs = Cells PROVE AsWritten(b, cs, new)
    <3>1. b \notin damaged'
      BY <1>8, <2>8
    <3> QED  BY <1>8, <2>1, <2>6, <2>7, <2>8, <3>1 DEF AsWritten
  <2>9. ASSUME cs # Cells PROVE AsWritten(b, cs, new)
    <3>1. damaged' = dm /\ (b \in dm <=> b \in damaged)
      BY <1>4, <1>8, <2>9
    <3>2. b \notin damaged => Shows(c, d, b) = Shows(cache, disk, b)
      BY <1>4, <3>1 DEF Quiet
    <3>3. b \notin damaged => /\ Shows(cache, disk, b) \in Data
                              /\ v = Merge(Shows(cache, disk, b), cs, new)
      BY <1>5, <2>4, <2>9, <3>2
    <3> QED  BY <1>8, <2>6, <2>7, <3>1, <3>3 DEF AsWritten
  <2>10. Abstract!Next
    BY <1>7, <2>8, <2>9, WriteIsWrite
  <2> QED  BY <1>2, <2>3, <2>5, <2>10 DEF IInv
<1>9. CASE cache' = c /\ damaged' = dm /\ reply' = [kind |-> "error"]
  <2>1. \A x \in Blocks : Abstract!Untouched(x)
    BY <1>2, <1>4, <1>9, QuietIsUntouched
  <2> QED  BY <1>2, <1>4, <1>9, <2>1 DEF IInv, Abstract!Next, Abstract!Fail
<1>10. ASSUME NEW torn \in SUBSET cs,
              cache' = Overwrite(ready, e, Merge(ready.data[e], torn, new)),
              damaged' = dm \cup (IF torn # {} /\ ready.has_data[e] THEN {b} ELSE {}),
              reply' = [kind |-> "error"]
       PROVE  IInv' /\ Abstract!Next
  <2> DEFINE v == Merge(ready.data[e], torn, new)
  <2>1. v \in [Cells -> Values \cup {Fresh}]
    BY <1>7 DEF Merge
  <2>2. damaged' \subseteq Blocks /\ dm \subseteq damaged'
    BY <1>4, <1>10 DEF Good
  <2>3. ready.has_data[e] => v \in Data /\ (b \in damaged' \/ v = ready.data[e])
    <3>1. ready.has_data[e] => ready.data[e] \in Data
      BY <1>4, <1>5 DEF Good, Coherent
    <3>2. ready.has_data[e] => v \in Data
      BY <3>1 DEF Merge, Data
    <3>3. torn = {} => v = ready.data[e]
      BY <1>7 DEF Merge
    <3> QED  BY <1>10, <3>2, <3>3
  <2>4. cache' = Overwrite(ready, e, v)
    BY <1>10
  <2> HIDE DEF v
  <2>5. Good(cache', d, damaged') /\ SameContent(ready, d, cache', d, damaged')
    BY <1>4, <1>5, <2>1, <2>2, <2>3, <2>4, CacheAssumptions, Spoiled DEF CacheAssumptions
  <2>6. \A x \in Blocks : Quiet(cache, disk, damaged, cache', disk', damaged', x)
    <3>1. \A x \in Blocks : x \notin damaged' => x \notin dm
      BY <2>2
    <3> QED  BY <1>2, <1>6, <2>5, <3>1 DEF Quiet, SameContent
  <2>7. \A x \in Blocks : Abstract!Untouched(x)
    BY <2>6, QuietIsUntouched
  <2> QED  BY <1>2, <1>10, <2>5, <2>7 DEF IInv, Abstract!Next, Abstract!Fail
<1> QED  BY <1>3, <1>8, <1>9, <1>10

\* flush_specific_block_if_needed before direct access to b: every dirty block but b is
\* written back.
LEMMA FlushedOthers ==
    ASSUME IInv, BlockZero \notin Blocks, NEW b \in Blocks, NEW bad \in MayFail(Cleaned(b)),
           NEW es, es = Cleaned(b),
           NEW w, w = Written(cache, disk, es, bad),
           NEW dm, dm = damaged \cup Damages(bad)
    PROVE  /\ Good(MarkClean(cache, es), w, dm)
           /\ \A x \in Blocks : Quiet(cache, disk, damaged, MarkClean(cache, es), w, dm, x)
           /\ w[b] = disk[b] /\ b \notin Damages(bad)
           /\ MarkClean(cache, es).m_hash = cache.m_hash
<1> DEFINE r == MarkClean(cache, es)
           hit == Damages(bad)
<1>0. /\ Good(cache, disk, damaged) /\ cache \in Caches /\ cache.m_dirty_list \in Seq(Entries)
      /\ cache.m_hash \in [Blocks -> Entries \cup {NoEntry}]
      /\ IsInjective(cache.m_dirty_list) /\ Hashed(cache.m_hash, cache.block_index)
  BY DEF IInv, Good, Caches, Listed
<1>1. /\ es \in Seq(Entries) /\ IsInjective(es) /\ ToSet(es) \subseteq ToSet(cache.m_dirty_list)
      /\ \A e \in ToSet(es) : e \in Entries /\ cache.block_index[e] # b
  <2>1. CASE cache.m_dirty
    <3> DEFINE T == {e \in Entries : cache.block_index[e] # b}
    <3>1. es = Filter(cache.m_dirty_list, T)
      BY <2>1 DEF Cleaned
    <3>2. \A e \in T : e \in Entries /\ cache.block_index[e] # b
      OBVIOUS
    <3> HIDE DEF T
    <3>3. /\ es \in Seq(Entries) /\ ToSet(es) = ToSet(cache.m_dirty_list) \cap T
          /\ IsInjective(es)
      BY <1>0, <3>1, FilterProperties
    <3> QED  BY <3>2, <3>3
  <2>2. CASE ~cache.m_dirty
    <3>1. es = <<>>
      BY <2>2 DEF Cleaned
    <3>2. ToSet(<<>>) = {} /\ IsInjective(<<>>) /\ <<>> \in Seq(Entries)
      BY DEF ToSet, IsInjective
    <3> QED  BY <3>1, <3>2
  <2> QED  BY <2>1, <2>2
<1>2. bad \subseteq ToSet(es) /\ hit = {cache.block_index[e] : e \in bad}
  BY DEF MayFail, Damages
<1>3. Marked(cache, r, es) /\ r.m_dirty = cache.m_dirty
  BY <1>0, <1>1, MarkedClean
<1> HIDE DEF r, hit
<1>4. Flushed(cache, disk, damaged, es, bad, r, w, hit)
  BY <1>0, <1>1, <1>2, <1>3 DEF Flushed
<1>5. /\ Good(r, w, damaged \cup hit) /\ SameContent(cache, disk, r, w, damaged \cup hit)
      /\ \A x \in Blocks \ (damaged \cup hit) : w[x] \in {disk[x], Shows(cache, disk, x)}
      /\ \A x \in Blocks : cache.m_hash[x] \notin ToSet(es) => w[x] = disk[x] /\ x \notin hit
  BY <1>4, CacheAssumptions, WroteBack DEF CacheAssumptions
<1>6. cache.m_hash[b] \notin ToSet(es)
  BY <1>0, <1>1, CacheAssumptions DEF Hashed, CacheAssumptions
<1>7. \A x \in Blocks : Quiet(cache, disk, damaged, r, w, dm, x)
  BY <1>5 DEF Quiet, SameContent, hit
<1> QED  BY <1>3, <1>5, <1>6, <1>7 DEF Marked, r, hit

\* A direct read returns what is on the medium.
LEMMA DirectReadStep ==
    ASSUME IInv, BlockZero \notin Blocks, NEW b \in Blocks, DirectRead(b)
    PROVE  IInv' /\ Abstract!Next
<1>1. PICK bad \in MayFail(Cleaned(b)) :
        LET es == Cleaned(b)
            d == Written(cache, disk, es, bad)
        IN  /\ disk' = d
            /\ cache' = MarkClean(cache, es)
            /\ DamagedBy(Damages(bad), {})
            /\ \/ reply' = [kind |-> "direct", block |-> b, data |-> d[b]]
               \/ reply' = [kind |-> "error"]
  BY DEF DirectRead
<1> DEFINE es == Cleaned(b)
           d == Written(cache, disk, es, bad)
           dm == damaged \cup Damages(bad)
<1>2. disk' = d /\ cache' = MarkClean(cache, es) /\ damaged' = dm
  BY <1>1 DEF DamagedBy
<1>3. \/ reply' = [kind |-> "direct", block |-> b, data |-> d[b]]
      \/ reply' = [kind |-> "error"]
  BY <1>1
<1>4. /\ Good(MarkClean(cache, es), d, dm)
      /\ \A x \in Blocks : Quiet(cache, disk, damaged, MarkClean(cache, es), d, dm, x)
  BY FlushedOthers
<1> HIDE DEF es, d, dm
<1>5. IInv'
  BY <1>2, <1>4 DEF IInv
<1>6. \A x \in Blocks : Abstract!Untouched(x)
  BY <1>2, <1>4, QuietIsUntouched
<1>7. CASE reply' = [kind |-> "direct", block |-> b, data |-> d[b]]
  <2>1. PICK v \in Abstract!Data : v = d[b]
    BY <1>4 DEF Good, Data, Abstract!Data
  <2>2. Abstract!DirectRead(b, v)
    BY <1>2, <1>6, <1>7, <2>1 DEF Abstract!DirectRead
  <2> QED  BY <1>5, <2>2 DEF Abstract!Next
<1>8. CASE reply' = [kind |-> "error"]
  BY <1>5, <1>6, <1>8 DEF Abstract!Next, Abstract!Fail
<1> QED  BY <1>3, <1>7, <1>8

\* A write of part of a block that has data leaves data.
LEMMA MergeIsData ==
    ASSUME NEW old \in Data, NEW cs, NEW v \in Values
    PROVE  Merge(old, cs, v) \in Data /\ Merge(old, Cells, v) = [x \in Cells |-> v]
BY DEF Merge, Data

\* A direct write is one of the abstract store when the cache has no entry for the block,
\* and damages the block when it has one.
LEMMA WroteAroundStep ==
    ASSUME IInv, BlockZero \notin Blocks,
           NEW b \in Blocks, NEW cs \in SUBSET Cells, NEW new \in Values,
           NEW c, NEW d, NEW dm, Good(c, d, dm),
           \A x \in Blocks : Quiet(cache, disk, damaged, c, d, dm, x),
           d[b] = disk[b], b \in dm <=> b \in damaged, c.m_hash = cache.m_hash,
           cache' = c, disk' = [d EXCEPT ![b] = Merge(@, cs, new)],
           IF cache.m_hash[b] # NoEntry THEN damaged' = dm \cup {b}
           ELSE damaged' = dm \ (IF cs = Cells THEN {b} ELSE {}),
           reply' = WroteReply(b, cs, new)
    PROVE  IInv' /\ Abstract!Next
<1> DEFINE v == Merge(d[b], cs, new)
           w == [d EXCEPT ![b] = v]
<1>1. d \in [Blocks -> Data] /\ dm \subseteq Blocks
  BY DEF Good
<1>2. v \in Data /\ (cs = Cells => v = [x \in Cells |-> new])
  BY <1>1, MergeIsData
<1>3. disk' = w
  OBVIOUS
<1>4. v = Merge(disk[b], cs, new) /\ disk[b] \in Data
  BY <1>1
<1> HIDE DEF v
<1>5. w[b] = v
  BY <1>1
<1>6. /\ damaged' \subseteq Blocks
      /\ \/ c.m_hash[b] = NoEntry /\ dm \subseteq damaged' \cup {b}
         \/ dm \cup {b} \subseteq damaged'
  BY <1>1
<1>7. Around(c, d, dm, b, v, w, damaged')
  BY <1>2, <1>6 DEF Around
<1>8. \A x \in Blocks \ {b} : w[x] = d[x]
  BY <1>1
<1> HIDE DEF w
<1>9. /\ Good(c, w, damaged') /\ SameContent(c, d, c, w, {b})
      /\ c.m_hash[b] = NoEntry => Shows(c, w, b) = v
  BY <1>7, CacheAssumptions, WroteAround DEF CacheAssumptions
<1>10. IInv'
  BY <1>3, <1>9 DEF IInv
<1>11. \A x \in Blocks \ {b} : Quiet(cache, disk, damaged, cache', disk', damaged', x)
  <2>1. \A x \in Blocks \ {b} : x \notin damaged' => x \notin dm
    BY <1>6
  <2> QED  BY <1>3, <1>8, <1>9, <2>1 DEF Quiet, SameContent
<1>12. CASE cache.m_hash[b] # NoEntry
  <2>1. \A x \in Blocks \ {b} : Abstract!Untouched(x)
    BY <1>11, QuietIsUntouched
  <2>2. b \in damaged'
    BY <1>12
  <2>3. Abstract!DirectWrite(b, cs, new)
    BY <2>1, <2>2 DEF Abstract!DirectWrite, WroteReply
  <2> QED  BY <1>10, <2>3 DEF Abstract!Next
<1>13. CASE cache.m_hash[b] = NoEntry
  <2>1. Shows(cache, disk, b) = disk[b] /\ Shows(cache', disk', b) = v /\ disk'[b] = v
    BY <1>3, <1>5, <1>9, <1>13 DEF Shows
  <2>2. ASSUME cs = Cells PROVE AsWritten(b, cs, new)
    <3>1. b \notin damaged'
      BY <1>13, <2>2
    <3> QED  BY <1>2, <1>11, <2>1, <2>2, <3>1 DEF AsWritten
  <2>3. ASSUME cs # Cells PROVE AsWritten(b, cs, new)
    <3>1. b \in damaged' <=> b \in damaged
      BY <1>13, <2>3
    <3> QED  BY <1>4, <1>11, <2>1, <3>1 DEF AsWritten
  <2> QED  BY <1>10, <2>2, <2>3, WriteIsWrite
<1> QED  BY <1>12, <1>13

\* A direct write, after the flush of the others.
LEMMA DirectWriteStep ==
    ASSUME IInv, BlockZero \notin Blocks,
           NEW b \in Blocks, NEW cs \in Parts, NEW new \in Values, DirectWrite(b, cs, new)
    PROVE  IInv' /\ Abstract!Next
<1>1. PICK bad \in MayFail(Cleaned(b)) :
        LET es == Cleaned(b)
            d == Written(cache, disk, es, bad)
        IN  /\ cache' = MarkClean(cache, es)
            /\ \/ /\ disk' = [d EXCEPT ![b] = Merge(@, cs, new)]
                  /\ IF cache.m_hash[b] # NoEntry THEN DamagedBy(Damages(bad) \cup {b}, {})
                     ELSE DamagedBy(Damages(bad), IF cs = Cells THEN {b} ELSE {})
                  /\ reply' = WroteReply(b, cs, new)
               \/ /\ disk' = d
                  /\ DamagedBy(Damages(bad), {})
                  /\ reply' = [kind |-> "error"]
  BY DEF DirectWrite
<1>2. PICK c, d, dm : /\ c = MarkClean(cache, Cleaned(b))
                      /\ d = Written(cache, disk, Cleaned(b), bad)
                      /\ dm = damaged \cup Damages(bad)
  OBVIOUS
<1>3. cache' = c
  BY <1>1, <1>2
<1>4. \/ /\ disk' = [d EXCEPT ![b] = Merge(@, cs, new)]
         /\ IF cache.m_hash[b] # NoEntry THEN damaged' = dm \cup {b}
            ELSE damaged' = dm \ (IF cs = Cells THEN {b} ELSE {})
         /\ reply' = WroteReply(b, cs, new)
      \/ disk' = d /\ damaged' = dm /\ reply' = [kind |-> "error"]
  BY <1>1, <1>2 DEF DamagedBy
<1>5. /\ Good(c, d, dm) /\ \A x \in Blocks : Quiet(cache, disk, damaged, c, d, dm, x)
      /\ d[b] = disk[b] /\ b \notin Damages(bad) /\ c.m_hash = cache.m_hash
  BY <1>2, FlushedOthers
<1>6. CASE /\ disk' = [d EXCEPT ![b] = Merge(@, cs, new)]
           /\ IF cache.m_hash[b] # NoEntry THEN damaged' = dm \cup {b}
              ELSE damaged' = dm \ (IF cs = Cells THEN {b} ELSE {})
           /\ reply' = WroteReply(b, cs, new)
  <2>1. cs \in SUBSET Cells /\ (b \in dm <=> b \in damaged)
    BY <1>2, <1>5 DEF Parts
  <2> QED  BY <1>3, <1>5, <1>6, <2>1, WroteAroundStep
<1>7. CASE disk' = d /\ damaged' = dm /\ reply' = [kind |-> "error"]
  <2>1. \A x \in Blocks : Abstract!Untouched(x)
    BY <1>3, <1>5, <1>7, QuietIsUntouched
  <2> QED  BY <1>3, <1>5, <1>7, <2>1 DEF IInv, Abstract!Next, Abstract!Fail
<1> QED  BY <1>4, <1>6, <1>7

\* A state in which nothing happens.
LEMMA StaysQuiet ==
    ASSUME NEW x \in Blocks
    PROVE  Quiet(cache, disk, damaged, cache, disk, damaged, x)
BY DEF Quiet

\* raw_read goes to the device at once.
LEMMA RawReadStep ==
    ASSUME IInv, BlockZero \notin Blocks, NEW b \in Blocks, RawRead(b)
    PROVE  IInv' /\ Abstract!Next
<1>1. IInv'
  BY DEF RawRead, IInv
<1>2. \A x \in Blocks : Abstract!Untouched(x)
  BY StaysQuiet, QuietIsUntouched DEF RawRead
<1>3. PICK v \in Abstract!Data : v = disk[b]
  BY DEF IInv, Good, Data, Abstract!Data
<1>4. Abstract!DirectRead(b, v)
  BY <1>2, <1>3 DEF RawRead, Abstract!DirectRead
<1> QED  BY <1>1, <1>4 DEF Abstract!Next

\* So does raw_write.
LEMMA RawWriteStep ==
    ASSUME IInv, BlockZero \notin Blocks, NEW b \in Blocks, NEW new \in Values, RawWrite(b, new)
    PROVE  IInv' /\ Abstract!Next
<1>1. PICK c, d, dm : c = cache /\ d = disk /\ dm = damaged
  OBVIOUS
<1>2. /\ Good(c, d, dm) /\ \A x \in Blocks : Quiet(cache, disk, damaged, c, d, dm, x)
      /\ d[b] = disk[b] /\ (b \in dm <=> b \in damaged) /\ c.m_hash = cache.m_hash
  BY <1>1, StaysQuiet DEF IInv
<1>3. /\ cache' = c /\ disk' = [d EXCEPT ![b] = Merge(@, Cells, new)]
      /\ IF cache.m_hash[b] # NoEntry THEN damaged' = dm \cup {b}
         ELSE damaged' = dm \ (IF Cells = Cells THEN {b} ELSE {})
      /\ reply' = WroteReply(b, Cells, new)
  BY <1>1 DEF RawWrite, DamagedBy
<1>4. Cells \in SUBSET Cells
  OBVIOUS
<1> QED  BY <1>2, <1>3, <1>4, WroteAroundStep

\* flush_writes makes everything that was written durable.
LEMMA FlushWritesStep ==
    ASSUME IInv, BlockZero \notin Blocks, FlushWrites
    PROVE  IInv' /\ Abstract!Next
<1> DEFINE es == IF cache.m_dirty THEN cache.m_dirty_list ELSE <<>>
<1>1. PICK bad \in MayFail(es) :
        /\ disk' = Written(cache, disk, es, bad)
        /\ cache' = IF cache.m_dirty THEN MarkAllClean(cache) ELSE cache
        /\ DamagedBy(Damages(bad), {})
        /\ reply' = [kind |-> "synced"]
  BY DEF FlushWrites
<1> DEFINE hit == Damages(bad)
<1>2. damaged' = damaged \cup hit /\ hit = {cache.block_index[e] : e \in bad}
  BY <1>1 DEF DamagedBy, Damages
<1>3. /\ Good(cache, disk, damaged) /\ cache \in Caches /\ cache.m_dirty_list \in Seq(Entries)
      /\ IsInjective(cache.m_dirty_list)
  BY DEF IInv, Good, Caches, Listed
<1>4. /\ IInv'
      /\ \A x \in Blocks \ damaged' : /\ x \notin damaged
                                      /\ Shows(cache', disk', x) = Shows(cache, disk, x)
                                      /\ disk'[x] = Shows(cache', disk', x)
  <2>1. CASE cache.m_dirty
    <3> DEFINE r == MarkAllClean(cache)
    <3>1. es = cache.m_dirty_list /\ cache' = r /\ bad \subseteq ToSet(es)
      BY <1>1, <2>1 DEF MayFail
    <3>2. Marked(cache, r, es)
      BY <1>3, <3>1, MarkedClean
    <3>3. PICK w : w = disk' /\ w = Written(cache, disk, es, bad)
      BY <1>1
    <3> HIDE DEF r, es, hit
    <3>4. Flushed(cache, disk, damaged, es, bad, r, w, hit)
      BY <1>2, <1>3, <3>1, <3>2, <3>3 DEF Flushed
    <3>5. /\ Good(r, w, damaged \cup hit) /\ SameContent(cache, disk, r, w, damaged \cup hit)
          /\ \A x \in Blocks \ (damaged \cup hit) : w[x] = Shows(cache, disk, x)
      BY <3>1, <3>4, CacheAssumptions, WroteBack DEF CacheAssumptions
    <3> QED  BY <1>2, <3>1, <3>3, <3>5 DEF IInv, SameContent
  <2>2. CASE ~cache.m_dirty
    <3>1. es = <<>> /\ cache' = cache /\ bad = {} /\ disk' = Written(cache, disk, <<>>, {})
      <4>1. es = <<>> /\ cache' = cache
        BY <1>1, <2>2
      <4>2. ToSet(<<>>) = {}
        BY DEF ToSet
      <4>3. bad = {}
        BY <4>1, <4>2 DEF MayFail
      <4> QED  BY <1>1, <4>1, <4>3
    <3>2. damaged' = damaged
      BY <1>2, <3>1
    <3>3. disk' = disk
      BY <1>3, <3>1, NothingWritten
    <3>4. ASSUME NEW x \in Blocks \ damaged PROVE Shows(cache, disk, x) = disk[x]
      <4>1. cache.m_hash[x] # NoEntry => /\ cache.m_hash[x] \in Entries
                                         /\ cache.block_index[cache.m_hash[x]] = x
        BY <1>3 DEF Good, Caches, Hashed
      <4>2. \A e \in ToSet(cache.m_dirty_list) : FALSE
        BY <1>3, <2>2 DEF Good, Dirty
      <4>3. cache.m_hash[x] # NoEntry /\ cache.has_data[cache.m_hash[x]]
              => cache.data[cache.m_hash[x]] = disk[x]
        BY <1>3, <3>4, <4>1, <4>2 DEF Good, Coherent
      <4> QED  BY <4>3 DEF Shows
    <3> QED  BY <1>3, <3>1, <3>2, <3>3, <3>4 DEF IInv
  <2> QED  BY <2>1, <2>2
<1>5. Abstract!Sync
  <2> SUFFICES ASSUME NEW x \in Blocks
               PROVE  LET store == [b \in Blocks |-> IF b \in damaged THEN Unknown ELSE Content(b)]
                          durable == [b \in Blocks |-> IF b \in damaged THEN Unknown ELSE disk[b]]
                      IN  (store[x])' \in {store[x], Unknown} /\ (durable[x])' = (store[x])'
    BY <1>1 DEF Abstract!Sync
  <2> QED  BY <1>4, Stored
<1> QED  BY <1>4, <1>5 DEF Abstract!Next

\* The cache at boot holds nothing.
LEMMA NewIsGood ==
    ASSUME BlockZero \notin Blocks, NEW order \in Orders, NEW d \in [Blocks -> Data]
    PROVE  /\ Good(NewCache(order), d, {})
           /\ \A x \in Blocks : Shows(NewCache(order), d, x) = d[x]
<1> DEFINE c == NewCache(order)
           N == Cardinality(Entries)
<1>1. N \in Nat
  BY CacheAssumptions, FS_CardinalityType DEF CacheAssumptions
<1>2. order \in [1..N -> Entries] /\ \A i, j \in 1..N : i # j => order[i] # order[j]
  BY DEF Orders, SetToSeqs
<1>3. order \in Seq(Entries) /\ DOMAIN order = 1..N /\ IsInjective(order)
  BY <1>1, <1>2 DEF IsInjective
<1>4. ToSet(order) = Entries
  <2>1. order \in Injection(1..N, Entries)
    BY <1>2 DEF Injection, IsInjective
  <2>2. Cardinality(1..N) = N
    BY <1>1, FS_Interval
  <2>3. order \in Surjection(1..N, Entries)
    BY <2>1, <2>2, CacheAssumptions, FS_Injection DEF CacheAssumptions
  <2> QED  BY <1>2, <2>3 DEF Surjection, ToSet
<1>5. /\ c.m_clean_list = order /\ c.m_dirty_list = <<>> /\ c.m_dirty = FALSE
      /\ c.block_index = [e \in Entries |-> BlockZero]
      /\ c.has_data = [e \in Entries |-> FALSE] /\ c.m_hash = [b \in Blocks |-> NoEntry]
  BY DEF NewCache
<1>6. c \in Caches
  BY <1>3 DEF NewCache, Caches
<1> HIDE DEF c
<1>7. ToSet(<<>>) = {} /\ IsInjective(<<>>)
  BY DEF ToSet, IsInjective
<1>8. Listed(c.m_clean_list, c.m_dirty_list)
  BY <1>3, <1>4, <1>5, <1>7 DEF Listed
<1>9. Hashed(c.m_hash, c.block_index)
  BY <1>5 DEF Hashed
<1>10. Dirty(c)
  BY <1>5, <1>7 DEF Dirty
<1>11. Coherent(c, d, {})
  BY <1>5 DEF Coherent
<1>12. \A x \in Blocks : Shows(c, d, x) = d[x]
  BY <1>5 DEF Shows
<1> QED  BY <1>6, <1>8, <1>9, <1>10, <1>11, <1>12 DEF Good, c

\* A crash loses what is not on the device and nothing else.
LEMMA CrashStep ==
    ASSUME IInv, BlockZero \notin Blocks, Crash
    PROVE  IInv' /\ Abstract!Next
<1>1. PICK order \in Orders : cache' = NewCache(order)
  BY DEF Crash
<1>2. disk' = disk /\ damaged' = {} /\ disk \in [Blocks -> Data]
  BY DEF Crash, IInv, Good
<1>3. Good(cache', disk', damaged') /\ \A x \in Blocks : Shows(cache', disk', x) = disk[x]
  BY <1>1, <1>2, NewIsGood
<1>4. Abstract!Crash
  <2>1. reply' = [kind |-> "none"]
    BY DEF Crash
  <2>2. [b \in Blocks |-> IF b \in damaged' THEN Unknown ELSE disk'[b]]
          = [b \in Blocks |-> IF b \in damaged THEN Unknown ELSE Content(b)]'
    <3>1. \A b \in Blocks : Content(b)' = disk[b]
      BY <1>3 DEF Content, Shows
    <3> QED  BY <1>2, <3>1
  <2>3. ASSUME NEW x \in Blocks
        PROVE  [b \in Blocks |-> IF b \in damaged THEN Unknown ELSE disk[b]][x] \in
                 {([b \in Blocks |-> IF b \in damaged THEN Unknown ELSE Content(b)][x])', Unknown}
    BY <1>2, <1>3, Stored
  <2> QED  BY <2>1, <2>2, <2>3 DEF Abstract!Crash
<1> QED  BY <1>3, <1>4 DEF IInv, Abstract!Next

----------------------------------------------------------------------------
(* The theorems. *)

\* The invariant holds at boot, where the cache shows what the device holds.
LEMMA Boot ==
    ASSUME BlockZero \notin Blocks, Init
    PROVE  IInv /\ Abstract!Init
<1>1. PICK d \in Data : disk = [b \in Blocks |-> d]
  BY DEF Init
<1>2. PICK order \in Orders : cache = NewCache(order)
  BY DEF Init
<1>3. disk \in [Blocks -> Data] /\ damaged = {} /\ reply = [kind |-> "none"]
  BY <1>1 DEF Init
<1>4. Good(cache, disk, {}) /\ \A x \in Blocks : Shows(cache, disk, x) = disk[x]
  BY <1>2, <1>3, NewIsGood
<1>5. [b \in Blocks |-> IF b \in damaged THEN Unknown ELSE Content(b)] = disk
  <2>1. \A b \in Blocks : Content(b) = disk[b]
    BY <1>4 DEF Content, Shows
  <2> QED  BY <1>3, <2>1
<1>6. [b \in Blocks |-> IF b \in damaged THEN Unknown ELSE disk[b]] = disk
  BY <1>3
<1>7. disk \in [Blocks -> Abstract!Data]
  BY <1>3 DEF Data, Abstract!Data
<1> QED  BY <1>3, <1>4, <1>5, <1>6, <1>7 DEF IInv, Abstract!Init

\* Every step keeps the invariant and is a step of the abstract store, or none.
LEMMA CacheStep ==
    ASSUME IInv, BlockZero \notin Blocks, [Next]_vars
    PROVE  IInv' /\ [Abstract!Next]_Abstract!vars
<1>1. CASE UNCHANGED vars
  <2>1. UNCHANGED Abstract!vars
    BY <1>1 DEF vars, Abstract!vars, Content
  <2> QED  BY <1>1, <2>1 DEF vars, IInv
<1>2. ASSUME NEW b \in Blocks, ReadBlock(b) PROVE IInv' /\ Abstract!Next
  BY <1>2, ReadBlockStep
<1>3. ASSUME NEW b \in Blocks, NEW cs \in Parts, NEW v \in Values, WriteBlock(b, cs, v)
      PROVE  IInv' /\ Abstract!Next
  BY <1>3, WriteBlockStep
<1>4. ASSUME NEW b \in Blocks, DirectRead(b) PROVE IInv' /\ Abstract!Next
  BY <1>4, DirectReadStep
<1>5. ASSUME NEW b \in Blocks, NEW cs \in Parts, NEW v \in Values, DirectWrite(b, cs, v)
      PROVE  IInv' /\ Abstract!Next
  BY <1>5, DirectWriteStep
<1>6. ASSUME NEW b \in Blocks, RawRead(b) PROVE IInv' /\ Abstract!Next
  BY <1>6, RawReadStep
<1>7. ASSUME NEW b \in Blocks, NEW v \in Values, RawWrite(b, v) PROVE IInv' /\ Abstract!Next
  BY <1>7, RawWriteStep
<1>8. CASE FlushWrites
  BY <1>8, FlushWritesStep
<1>9. CASE Crash
  BY <1>9, CrashStep
<1> QED  BY <1>1, <1>2, <1>3, <1>4, <1>5, <1>6, <1>7, <1>8, <1>9 DEF Next

\* The invariant says what EntriesAgree does.
LEMMA GoodAgrees ==
    ASSUME IInv
    PROVE  EntriesAgree
<1> DEFINE all == cache.m_clean_list \o cache.m_dirty_list
<1>1. /\ cache.m_clean_list \in Seq(Entries) /\ cache.m_dirty_list \in Seq(Entries)
      /\ Listed(cache.m_clean_list, cache.m_dirty_list)
  BY DEF IInv, Good, Caches
<1>2. ToSet(all) = ToSet(cache.m_clean_list) \cup ToSet(cache.m_dirty_list)
  BY <1>1, ConcatMembers
<1>3. IsInjective(all)
  BY <1>1, ConcatInjective DEF Listed
<1>4. ToSet(all) = Entries
  BY <1>1, <1>2 DEF Listed
<1>5. TypeOK
  BY DEF IInv, Good, Caches, TypeOK
<1> QED  BY <1>3, <1>4, <1>5 DEF EntriesAgree, IInv, Good, Hashed, Dirty

\* The cache's lists, its hash and its entries agree in every state, for any number of
\* blocks and entries, as long as block 0 is not read through the cache: get() finds the
\* entry of a block by its number, and a new entry carries the number 0.
THEOREM CacheEntriesAgree ==
    ASSUME BlockZero \notin Blocks
    PROVE  Spec => []EntriesAgree
<1>1. Init => IInv
  BY Boot
<1>2. IInv /\ [Next]_vars => IInv'
  BY CacheStep
<1>3. IInv => EntriesAgree
  BY GoodAgrees
<1> QED  BY <1>1, <1>2, <1>3, PTL DEF Spec

\* The cache is invisible, for any number of blocks and entries, whatever is evicted,
\* written back, refused by the device or lost in a crash: reads and writes through it
\* are those of an array of blocks.
THEOREM CacheRefinement ==
    ASSUME BlockZero \notin Blocks
    PROVE  Spec => ImplementsBlockStore
<1>1. Init => IInv /\ Abstract!Init
  BY Boot
<1>2. IInv /\ [Next]_vars => IInv' /\ [Abstract!Next]_Abstract!vars
  BY CacheStep
<1> QED  BY <1>1, <1>2, PTL DEF Spec, ImplementsBlockStore, Abstract!Spec
=============================================================================
