--------------------------- MODULE MemHeapProofs -----------------------------
(***************************************************************************)
(* Memory heaps: the ring, the free list, the owners and the lock stay     *)
(* whole, and MemHeap implements ResizePromise, for any pool, sizes and    *)
(* threads.                                                                *)
(***************************************************************************)
EXTENDS MemHeap, ListTheorems, FiniteSetTheorems

LEMMA SizesOK ==
  /\ Hdr \in Nat /\ Hdr > 0 /\ MinAlloc \in Nat /\ MinAlloc > 0
  /\ PoolSize \in Nat /\ End \in Nat /\ End > Hdr /\ PoolSize = End + Hdr
BY MemHeapAssumption DEF End

\* Sums of multiples are multiples.
LEMMA SumOK ==
  ASSUME NEW x \in Nat, NEW y \in Nat, x % Unit = 0, y % Unit = 0
  PROVE  (x + y) % Unit = 0
<1> DEFINE U == Unit
           a == x \div U
           b == y \div U
<1>0. U \in Nat \ {0}
  BY MemHeapAssumption
<1>1. a \in Nat /\ b \in Nat /\ x = U * a /\ y = U * b
  BY <1>0
<1>2. a + b \in Nat /\ x + y = U * (a + b)
  BY <1>0, <1>1
<1> HIDE DEF a, b, U
<1>3. \A k \in Nat : (U * k) % U = 0
  BY <1>0
<1> QED BY <1>2, <1>3 DEF U

LEMMA DifferenceOK ==
  ASSUME NEW x \in Nat, NEW y \in Nat, y % Unit = 0, (x + y) % Unit = 0
  PROVE  x % Unit = 0 /\ 0 % Unit = 0
<1> DEFINE U == Unit
           a == (x + y) \div U
           b == y \div U
<1>0. U \in Nat \ {0}
  BY MemHeapAssumption
<1>1. a \in Nat /\ b \in Nat /\ x + y = U * a /\ y = U * b
  BY <1>0
<1>2. a - b \in Int /\ x = U * (a - b)
  BY <1>0, <1>1
<1>3. a - b >= 0
  <2> SUFFICES ASSUME a - b < 0 PROVE FALSE
    BY <1>2
  <2>1. b - a >= 1 /\ b - a \in Int
    BY <1>1
  <2> HIDE DEF a, b, U
  <2>2. \A k \in Int : k >= 1 => U * k > 0
    BY <1>0
  <2>3. U * (b - a) = U * b - U * a
    BY <1>0, <1>1
  <2> QED BY <1>1, <2>1, <2>2, <2>3
<1> HIDE DEF a, b, U
<1>4. \A k \in Nat : (U * k) % U = 0
  BY <1>0
<1>5. a - b \in Nat /\ U * 0 = 0
  BY <1>0, <1>2, <1>3
<1> QED BY <1>2, <1>4, <1>5 DEF U

LEMMA GrantedOK == \A n \in Granted : n \in Nat /\ n > 0 /\ n % Unit = 0
<1> SUFFICES ASSUME NEW n \in Sizes
             PROVE  Norm(n) \in Nat /\ Norm(n) > 0 /\ Norm(n) % Unit = 0
  BY DEF Granted
<1>1. /\ Unit \in Nat \ {0} /\ n \in Nat
      /\ MinAlloc \in Nat \ {0} /\ MinAlloc % Unit = 0
  BY MemHeapAssumption
<1> DEFINE k == (n + Unit - 1) \div Unit
           m == k * Unit
<1>2. k \in Nat
  BY <1>1
<1>3. m \in Nat /\ m % Unit = 0
  <2> HIDE DEF k
  <2> QED BY <1>1, <1>2
<1>4. Norm(n) = IF m < MinAlloc THEN MinAlloc ELSE m
  BY DEF Norm
<1> HIDE DEF m
<1> QED BY <1>1, <1>3, <1>4

-----------------------------------------------------------------------------
(* Rings of headers. *)

Header == [used : BOOLEAN, next : 0..End, prev : 0..End]

Typed(h) == h \in [DOMAIN h -> Header] /\ DOMAIN h \subseteq 0..End

\* What Merge makes of a ring: q is gone, p reaches further.
Merged(h, p, q, g) ==
  /\ Typed(g) /\ Ring(g) /\ DOMAIN g = DOMAIN h \ {q}
  /\ p < q /\ q \in DOMAIN h /\ q < h[q].next
  /\ \A x \in DOMAIN h \ {q} : g[x].used = h[x].used
  /\ \A x \in DOMAIN h \ {p, q} : g[x].next = h[x].next
  /\ g[p].next = h[q].next

LEMMA MergeOK ==
  ASSUME NEW h, Typed(h), Ring(h), NEW p \in DOMAIN h \ {End},
         NEW q, q = h[p].next, q # End
  PROVE  Merged(h, p, q, Merge(h, p))
<1> DEFINE g == Merge(h, p)
           r == h[q].next
<1> USE SizesOK
<1>1. /\ q \in DOMAIN h /\ p \in 0..End /\ q \in 0..End /\ r \in 0..End
      /\ p < q /\ q < r /\ r \in DOMAIN h /\ q # 0 /\ r # 0
      /\ p + Hdr <= q /\ q + Hdr <= r
      /\ h[q].prev = p /\ h[r].prev = q
      /\ \A y \in DOMAIN h : p < y => q <= y
      /\ \A y \in DOMAIN h : q < y => r <= y
  <2>1. /\ \A x \in DOMAIN h : x \in 0..End /\ h[x] \in Header
        /\ q \in DOMAIN h /\ h[q].prev = p
    BY DEF Typed, Ring
  <2>2. r \in DOMAIN h /\ h[r].prev = q
    BY <2>1 DEF Ring
  <2>3. /\ p + Hdr <= q
        /\ \A y \in DOMAIN h : p < y => q <= y
    BY DEF Ring
  <2>4. /\ q + Hdr <= r
        /\ \A y \in DOMAIN h : q < y => r <= y
    BY <2>1 DEF Ring
  <2>5. p \in 0..End /\ q \in 0..End /\ r \in 0..End
    BY <2>1, <2>2
  <2> QED BY <2>1, <2>2, <2>3, <2>4, <2>5
<1>2. DOMAIN g = DOMAIN h \ {q}
  BY DEF Merge
<1>3. /\ g[p] = [h[p] EXCEPT !.next = r]
      /\ g[r] = [h[r] EXCEPT !.prev = p]
      /\ \A x \in DOMAIN g \ {p, r} : g[x] = h[x]
  BY <1>1, <1>2 DEF Merge
<1>4. \A x \in DOMAIN h : h[x] \in Header /\ x \in 0..End
  BY DEF Typed
<1>5. /\ g[p].used = h[p].used /\ g[p].prev = h[p].prev /\ g[p].next = r
      /\ g[r].used = h[r].used /\ g[r].next = h[r].next /\ g[r].prev = p
      /\ g[p] \in Header /\ g[r] \in Header
  BY <1>1, <1>3, <1>4 DEF Header
<1>6. g = [x \in DOMAIN g |-> g[x]]
  BY <1>2 DEF Merge
<1> HIDE DEF g
<1>7. /\ \A x \in DOMAIN g : g[x].used = h[x].used
      /\ \A x \in DOMAIN g \ {p} : g[x].next = h[x].next
      /\ \A x \in DOMAIN g \ {r} : g[x].prev = h[x].prev
  BY <1>3, <1>5
<1>8. Typed(g)
  <2>1. \A x \in DOMAIN g : g[x] \in Header
    BY <1>2, <1>3, <1>4, <1>5
  <2> QED BY <2>1, <1>2, <1>4, <1>6 DEF Typed
<1>9. Ring(g)
  <2>1. {0, End} \subseteq DOMAIN g /\ g[End].used /\ g[End].next = 0
    <3>1. 0 \in DOMAIN h /\ End \in DOMAIN h /\ h[End].used /\ h[End].next = 0
      BY DEF Ring
    <3> QED BY <3>1, <1>1, <1>2, <1>7
  <2>2. ASSUME NEW x \in DOMAIN g
        PROVE  /\ g[x].next \in DOMAIN g /\ g[g[x].next].prev = x
               /\ g[x].prev \in DOMAIN g /\ g[g[x].prev].next = x
    <3>1. /\ x \in DOMAIN h /\ x # q
          /\ h[x].next \in DOMAIN h /\ h[h[x].next].prev = x
          /\ h[x].prev \in DOMAIN h /\ h[h[x].prev].next = x
      BY <1>2 DEF Ring
    <3>2. g[x].next \in DOMAIN g /\ g[g[x].next].prev = x
      <4>1. CASE x = p
        BY <4>1, <1>1, <1>2, <1>5
      <4>2. CASE x # p
        <5>1. g[x].next = h[x].next /\ h[x].next # q /\ h[x].next # r
          BY <4>2, <3>1, <1>1, <1>7
        <5> QED BY <5>1, <3>1, <1>2, <1>7
      <4> QED BY <4>1, <4>2
    <3>3. g[x].prev \in DOMAIN g /\ g[g[x].prev].next = x
      <4>1. CASE x = r
        BY <4>1, <1>1, <1>2, <1>5
      <4>2. CASE x # r
        <5>1. g[x].prev = h[x].prev /\ h[x].prev # q /\ h[x].prev # p
          BY <4>2, <3>1, <1>1, <1>7
        <5> QED BY <5>1, <3>1, <1>2, <1>7
      <4> QED BY <4>1, <4>2
    <3> QED BY <3>2, <3>3
  <2>3. ASSUME NEW x \in DOMAIN g \ {End}
        PROVE  x + Hdr <= g[x].next /\ \A y \in DOMAIN g : x < y => g[x].next <= y
    <3>1. /\ x \in DOMAIN h \ {End} /\ x # q /\ x + Hdr <= h[x].next
          /\ \A y \in DOMAIN h : x < y => h[x].next <= y
      BY <1>2 DEF Ring
    <3>2. CASE x = p
      <4>1. x + Hdr <= r
        BY <3>2, <1>1
      <4>2. ASSUME NEW y \in DOMAIN g, x < y PROVE r <= y
        <5>1. y \in DOMAIN h /\ y # q /\ q <= y /\ y \in 0..End
          BY <4>2, <3>2, <1>1, <1>2, <1>4
        <5> QED BY <5>1, <1>1
      <4> QED BY <4>1, <4>2, <3>2, <1>5
    <3>3. CASE x # p
      BY <3>1, <3>3, <1>2, <1>7
    <3> QED BY <3>2, <3>3
  <2> QED BY <2>1, <2>2, <2>3 DEF Ring
<1> QED BY <1>1, <1>2, <1>5, <1>7, <1>8, <1>9 DEF g, Merged

\* What Cut makes of a ring: a free block behind the one it shortens.
IsCut(h, p, q, g) ==
  /\ Typed(g) /\ Ring(g) /\ DOMAIN g = DOMAIN h \cup {q}
  /\ q \notin DOMAIN h /\ p < q /\ q \in 0..End /\ q # End
  /\ g[p].used = h[p].used /\ g[p].next = q
  /\ ~g[q].used /\ g[q].next = h[p].next
  /\ \A x \in DOMAIN h \ {p} : g[x].used = h[x].used /\ g[x].next = h[x].next

LEMMA CutOK ==
  ASSUME NEW h, Typed(h), Ring(h), NEW p \in DOMAIN h \ {End}, NEW q \in Nat,
         p + Hdr <= q, q + Hdr <= h[p].next
  PROVE  IsCut(h, p, q, Cut(h, p, q))
<1> DEFINE g == Cut(h, p, q)
           r == h[p].next
<1> USE SizesOK
<1>1. /\ \A x \in DOMAIN h : h[x] \in Header /\ x \in 0..End
      /\ r \in DOMAIN h /\ r \in 0..End /\ p \in 0..End
      /\ \A x \in DOMAIN h : p < x => r <= x
      /\ h[r].prev = p
  BY DEF Typed, Ring, Header
<1>2. p < q /\ q < r /\ q \in 0..End /\ q # End /\ r # 0
  BY <1>1
<1>3. q \notin DOMAIN h /\ r # p /\ r # q /\ q # p
  BY <1>1, <1>2
<1>4. DOMAIN g = DOMAIN h \cup {q}
  BY DEF Cut
<1>5. /\ g[p] = [h[p] EXCEPT !.next = q]
      /\ g[q] = [used |-> FALSE, next |-> r, prev |-> p]
      /\ g[r] = [h[r] EXCEPT !.prev = q]
      /\ \A x \in DOMAIN h \ {p, r} : g[x] = h[x]
  BY <1>1, <1>3, <1>4 DEF Cut
<1>6. g = [x \in DOMAIN g |-> g[x]]
  BY <1>4 DEF Cut
<1> HIDE DEF g
<1>7. /\ g[p].used = h[p].used /\ g[p].next = q /\ g[p].prev = h[p].prev
      /\ ~g[q].used /\ g[q].next = r /\ g[q].prev = p
      /\ g[r].used = h[r].used /\ g[r].next = h[r].next /\ g[r].prev = q
      /\ g[p] \in Header /\ g[q] \in Header /\ g[r] \in Header
  BY <1>1, <1>2, <1>5 DEF Header
<1>8. /\ \A x \in DOMAIN h : g[x].used = h[x].used
      /\ \A x \in DOMAIN h \ {p} : g[x].next = h[x].next
      /\ \A x \in DOMAIN h \ {r} : g[x].prev = h[x].prev
  BY <1>5, <1>7
<1>9. Typed(g)
  <2>1. \A x \in DOMAIN g : g[x] \in Header
    BY <1>1, <1>4, <1>5, <1>7
  <2> QED BY <2>1, <1>1, <1>2, <1>4, <1>6 DEF Typed
<1>10. Ring(g)
  <2>1. {0, End} \subseteq DOMAIN g /\ g[End].used /\ g[End].next = 0
    <3>1. 0 \in DOMAIN h /\ End \in DOMAIN h /\ h[End].used /\ h[End].next = 0
      BY DEF Ring
    <3> QED BY <3>1, <1>4, <1>8
  <2>2. ASSUME NEW x \in DOMAIN h
        PROVE  /\ g[x].next \in DOMAIN g /\ g[g[x].next].prev = x
               /\ g[x].prev \in DOMAIN g /\ g[g[x].prev].next = x
    <3>1. /\ h[x].next \in DOMAIN h /\ h[h[x].next].prev = x
          /\ h[x].prev \in DOMAIN h /\ h[h[x].prev].next = x
      BY DEF Ring
    <3>2. g[x].next \in DOMAIN g /\ g[g[x].next].prev = x
      <4>1. CASE x = p
        BY <4>1, <1>4, <1>7
      <4>2. CASE x # p
        <5>1. g[x].next = h[x].next /\ h[x].next # r
          BY <4>2, <3>1, <1>1, <1>8
        <5> QED BY <5>1, <3>1, <1>4, <1>8
      <4> QED BY <4>1, <4>2
    <3>3. g[x].prev \in DOMAIN g /\ g[g[x].prev].next = x
      <4>1. CASE x = r
        BY <4>1, <1>4, <1>7
      <4>2. CASE x # r
        <5>1. g[x].prev = h[x].prev /\ h[x].prev # p
          BY <4>2, <3>1, <1>1, <1>8
        <5> QED BY <5>1, <3>1, <1>4, <1>8
      <4> QED BY <4>1, <4>2
    <3> QED BY <3>2, <3>3
  <2>3. /\ g[q].next \in DOMAIN g /\ g[g[q].next].prev = q
        /\ g[q].prev \in DOMAIN g /\ g[g[q].prev].next = q
    BY <1>1, <1>4, <1>7
  <2>4. ASSUME NEW x \in DOMAIN g \ {End}
        PROVE  x + Hdr <= g[x].next /\ \A y \in DOMAIN g : x < y => g[x].next <= y
    <3>1. CASE x = p
      <4>1. ASSUME NEW y \in DOMAIN g, x < y PROVE q <= y
        BY <4>1, <3>1, <1>1, <1>2, <1>4
      <4> QED BY <4>1, <3>1, <1>7
    <3>2. CASE x = q
      <4>1. ASSUME NEW y \in DOMAIN g, x < y PROVE r <= y
        BY <4>1, <3>2, <1>1, <1>2, <1>4
      <4> QED BY <4>1, <3>2, <1>7
    <3>3. CASE x \in DOMAIN h \ {p, q}
      <4>1. /\ x + Hdr <= h[x].next /\ g[x].next = h[x].next
            /\ \A y \in DOMAIN h : x < y => h[x].next <= y
        BY <3>3, <1>8 DEF Ring
      <4>2. x < q => h[x].next <= q
        <5>1. x \in 0..End /\ h[x].next \in 0..End
          BY <3>3, <1>1 DEF Header
        <5>2. x < p \/ p < x
          BY <5>1, <3>3, <1>1
        <5>3. x < p => h[x].next <= p
          BY <4>1
        <5>4. p < x => r <= x
          BY <3>3, <1>1
        <5> QED BY <5>1, <5>2, <5>3, <5>4, <1>1, <1>2
      <4> QED BY <4>1, <4>2, <1>4
    <3> QED BY <3>1, <3>2, <3>3, <1>4
  <2> QED BY <2>1, <2>2, <2>3, <2>4, <1>4 DEF Ring
<1> QED BY <1>2, <1>3, <1>4, <1>7, <1>8, <1>9, <1>10 DEF g, IsCut

\* A block's used flag changes.
Mark(h, p, b) == [h EXCEPT ![p].used = b]

Marked(h, p, b, g) ==
  /\ Typed(g) /\ Ring(g) /\ DOMAIN g = DOMAIN h /\ g[p].used = b
  /\ \A x \in DOMAIN h \ {p} : g[x].used = h[x].used
  /\ \A x \in DOMAIN h : g[x].next = h[x].next /\ g[x].prev = h[x].prev

LEMMA MarkOK ==
  ASSUME NEW h, Typed(h), Ring(h), NEW p \in DOMAIN h \ {End}, NEW b \in BOOLEAN
  PROVE  Marked(h, p, b, Mark(h, p, b))
<1> DEFINE g == Mark(h, p, b)
<1>1. \A x \in DOMAIN h : h[x] \in Header
  BY DEF Typed
<1>2. /\ DOMAIN g = DOMAIN h /\ g[p] = [h[p] EXCEPT !.used = b]
      /\ \A x \in DOMAIN h \ {p} : g[x] = h[x]
      /\ g = [x \in DOMAIN h |-> g[x]]
  BY DEF Mark
<1> HIDE DEF g
<1>3. g[p].used = b /\ g[p].next = h[p].next /\ g[p].prev = h[p].prev /\ g[p] \in Header
  BY <1>1, <1>2 DEF Header
<1>4. \A x \in DOMAIN h : g[x].next = h[x].next /\ g[x].prev = h[x].prev
  BY <1>2, <1>3
<1>5. Typed(g)
  <2>1. \A x \in DOMAIN g : g[x] \in Header
    BY <1>1, <1>2, <1>3
  <2> QED BY <2>1, <1>2 DEF Typed
<1>6. Ring(g)
  <2>1. h[End].used /\ End \in DOMAIN h \ {p}
    BY DEF Ring
  <2>2. {0, End} \subseteq DOMAIN g /\ g[End].used /\ g[End].next = 0
    BY <2>1, <1>2, <1>4 DEF Ring
  <2>3. ASSUME NEW x \in DOMAIN g
        PROVE  /\ g[x].next \in DOMAIN g /\ g[g[x].next].prev = x
               /\ g[x].prev \in DOMAIN g /\ g[g[x].prev].next = x
    <3>1. /\ h[x].next \in DOMAIN h /\ h[h[x].next].prev = x
          /\ h[x].prev \in DOMAIN h /\ h[h[x].prev].next = x
      BY <2>3, <1>2 DEF Ring
    <3> QED BY <3>1, <2>3, <1>2, <1>4
  <2>4. ASSUME NEW x \in DOMAIN g \ {End}
        PROVE  x + Hdr <= g[x].next /\ \A y \in DOMAIN g : x < y => g[x].next <= y
    BY <2>4, <1>2, <1>4 DEF Ring
  <2> QED BY <2>2, <2>3, <2>4 DEF Ring
<1> QED BY <1>2, <1>3, <1>4, <1>5, <1>6 DEF g, Marked

-----------------------------------------------------------------------------
(* The free list. *)

\* r is s with x in front.
Prepended(S, s, x, r) ==
  r \in Seq(S) /\ Once(r) /\ ToSet(r) = ToSet(s) \cup {x}

\* rt_memheap links a block in behind free_header: in front of the list.
LEMMA PrependOK ==
  ASSUME NEW S, NEW s \in Seq(S), NEW x \in S, Once(s), x \notin ToSet(s)
  PROVE  Prepended(S, s, x, <<x>> \o s)
<1> DEFINE n == Len(s)
           r == <<x>> \o s
<1>1. n \in Nat /\ DOMAIN s = 1..n
  BY LenProperties
<1>2. /\ r \in Seq(S) /\ Len(r) = n + 1 /\ r[1] = x
      /\ \A i \in 1..n : r[i + 1] = s[i]
  BY <1>1
<1>3. DOMAIN r = 1..(n + 1)
  BY <1>2, LenProperties
<1> HIDE DEF r, n
<1>4. \A i \in 2..(n + 1) : i - 1 \in 1..n /\ r[i] = s[i - 1]
  <2> SUFFICES ASSUME NEW i \in 2..(n + 1)
               PROVE  i - 1 \in 1..n /\ r[i] = s[i - 1]
    OBVIOUS
  <2>1. i - 1 \in 1..n /\ (i - 1) + 1 = i
    BY <1>1
  <2> QED BY <2>1, <1>2
<1>5. \A i \in 1..(n + 1) : i = 1 \/ i \in 2..(n + 1)
  BY <1>1
<1>6. \A i \in 1..n : s[i] # x
  BY <1>1 DEF ToSet
<1>7. Once(r)
  <2> SUFFICES ASSUME NEW i \in 1..(n + 1), NEW j \in 1..(n + 1), r[i] = r[j]
               PROVE  i = j
    BY <1>3 DEF Once
  <2>1. CASE i = 1 \/ j = 1
    BY <2>1, <1>2, <1>4, <1>5, <1>6
  <2>2. CASE i # 1 /\ j # 1
    <3>1. i - 1 \in 1..n /\ j - 1 \in 1..n /\ s[i - 1] = s[j - 1]
      BY <2>2, <1>4, <1>5
    <3>2. i - 1 = j - 1
      BY <3>1, <1>1 DEF Once
    <3> QED BY <3>2
  <2> QED BY <2>1, <2>2
<1>8. ToSet(r) = ToSet(s) \cup {x}
  <2>1. ASSUME NEW i \in 1..(n + 1) PROVE r[i] \in ToSet(s) \cup {x}
    BY <1>1, <1>2, <1>4, <1>5 DEF ToSet
  <2>2. ASSUME NEW i \in 1..n PROVE s[i] \in ToSet(r)
    <3>1. i + 1 \in 1..(n + 1) /\ r[i + 1] = s[i]
      BY <1>1, <1>2
    <3> QED BY <3>1, <1>3 DEF ToSet
  <2>3. x \in ToSet(r)
    <3>1. 1 \in DOMAIN r /\ r[1] = x
      BY <1>1, <1>2, <1>3
    <3> QED BY <3>1 DEF ToSet
  <2> QED BY <2>1, <2>2, <2>3, <1>1, <1>3 DEF ToSet
<1> QED BY <1>2, <1>7, <1>8 DEF r, Prepended

Exchanged(S, s, old, x, r) ==
  r \in Seq(S) /\ Once(r) /\ ToSet(r) = (ToSet(s) \ {old}) \cup {x}

LEMMA LinkFirstOK ==
  ASSUME NEW S, NEW s \in Seq(S), NEW x \in S, NEW old, Once(s), x \notin ToSet(s) \ {old}
  PROVE  Exchanged(S, s, old, x, LinkFirst(s, old, x))
<1>1. /\ Without(s, old) \in Seq(S) /\ Once(Without(s, old))
      /\ ToSet(Without(s, old)) = ToSet(s) \ {old}
  BY WithoutOK
<1>2. x \notin ToSet(Without(s, old))
  BY <1>1
<1>3. Prepended(S, Without(s, old), x, <<x>> \o Without(s, old))
  BY <1>1, <1>2, PrependOK
<1> QED BY <1>1, <1>3 DEF LinkFirst, Exchanged, Prepended

\* The search finds a block with room, or there is none in the list.
LEMMA FirstFitOK ==
  ASSUME freeList \in Seq(0..End), NEW n
  PROVE  /\ FirstFit(n) # 0 => /\ FirstFit(n) \in DOMAIN freeList
                               /\ Room(freeList[FirstFit(n)]) >= n
         /\ FirstFit(n) = 0 => \A p \in ToSet(freeList) : ~(Room(p) >= n)
<1> DEFINE I == {i \in 1..Len(freeList) : Room(freeList[i]) >= n}
<1>1. DOMAIN freeList = 1..Len(freeList) /\ I \in SUBSET Nat
  BY LenProperties
<1>2. FirstFit(n) = IF I # {} THEN Min(I) ELSE 0
  BY DEF FirstFit, SelectInSeq
<1>3. CASE I = {}
  <2>1. \A i \in DOMAIN freeList : ~(Room(freeList[i]) >= n)
    BY <1>1, <1>3
  <2> QED BY <2>1, <1>2, <1>3 DEF ToSet
<1>4. CASE I # {}
  <2>1. Least(I) \in I /\ \A i \in I : Least(I) <= i
    BY <1>1, <1>4, LeastOK
  <2>2. Min(I) \in I
    <3>1. \E i \in I : \A k \in I : i <= k
      BY <2>1
    <3> HIDE DEF I
    <3> QED BY <3>1 DEF Min
  <2>3. FirstFit(n) \in I /\ FirstFit(n) # 0
    BY <2>2, <1>1, <1>2, <1>4
  <2> QED BY <2>3, <1>1
<1> QED BY <1>3, <1>4

-----------------------------------------------------------------------------
(* Sums of the blocks in a list. *)

\* The bytes a caller can have of each block.
Rooms(h) == [p \in DOMAIN h |-> h[p].next - (p + Hdr)]

\* Blocks of a ring weigh something.
LEMMA RoomsOK ==
  ASSUME NEW h, Typed(h), Ring(h)
  PROVE  \A p \in DOMAIN h \ {End} :
           /\ Rooms(h)[p] = h[p].next - (p + Hdr) /\ Rooms(h)[p] \in Nat
           /\ p \in 0..End /\ h[p].next \in 0..End
<1> SUFFICES ASSUME NEW p \in DOMAIN h \ {End}
             PROVE  /\ Rooms(h)[p] = h[p].next - (p + Hdr) /\ Rooms(h)[p] \in Nat
                    /\ p \in 0..End /\ h[p].next \in 0..End
  OBVIOUS
<1>1. p \in 0..End /\ h[p].next \in 0..End /\ p + Hdr <= h[p].next
  BY DEF Typed, Header, Ring
<1>2. Rooms(h)[p] = h[p].next - (p + Hdr)
  BY DEF Rooms
<1> QED BY <1>1, <1>2, SizesOK

\* A list of blocks, none of them the tailer.
Listed(h, s) == s \in Seq(0..End) /\ ToSet(s) \subseteq DOMAIN h \ {End}

LEMMA ListedOK ==
  ASSUME NEW h, Typed(h), Ring(h), NEW s, Listed(h, s)
  PROVE  /\ Len(s) \in Nat /\ Weighs(Rooms(h), s)
         /\ \A i \in 1..Len(s) : s[i] \in ToSet(s)
<1>1. Len(s) \in Nat /\ DOMAIN s = 1..Len(s)
  BY LenProperties DEF Listed
<1>2. \A i \in 1..Len(s) : s[i] \in ToSet(s)
  BY <1>1 DEF ToSet
<1>3. \A i \in 1..Len(s) : s[i] \in DOMAIN h \ {End}
  BY <1>2 DEF Listed
<1>4. \A i \in 1..Len(s) : Rooms(h)[s[i]] \in Int
  BY <1>3, RoomsOK
<1> QED BY <1>1, <1>2, <1>4 DEF Weighs

\* A block leaves the list.
LEMMA ListedWithout ==
  ASSUME NEW h, NEW s, Listed(h, s), Once(s), NEW x \in ToSet(s)
  PROVE  /\ Listed(h, Without(s, x)) /\ Once(Without(s, x))
         /\ ToSet(Without(s, x)) = ToSet(s) \ {x}
         /\ Len(Without(s, x)) = Len(s) - 1 /\ Len(s) \in Nat
<1>1. s \in Seq(0..End) /\ Len(s) \in Nat /\ DOMAIN s = 1..Len(s)
  BY LenProperties DEF Listed
<1>2. /\ Without(s, x) \in Seq(0..End) /\ Once(Without(s, x))
      /\ ToSet(Without(s, x)) = ToSet(s) \ {x}
  BY <1>1, WithoutOK
<1>3. Len(Without(s, x)) = Len(s) - 1
  <2> DEFINE k == CHOOSE i \in DOMAIN s : s[i] = x
  <2>1. \E i \in DOMAIN s : s[i] = x
    BY DEF ToSet
  <2>2. k \in 1..Len(s) /\ Without(s, x) = RemoveAt(s, k)
    BY <2>1, <1>1 DEF Without
  <2> HIDE DEF k
  <2>3. s \in Seq(0..End) /\ k \in 1..Len(s)
    BY <1>1, <2>2
  <2>4. Len(RemoveAt(s, k)) = Len(s) - 1
    BY ONLY <2>3, RemoveAtOK
  <2> QED BY <2>2, <2>4
<1> QED BY <1>1, <1>2, <1>3 DEF Listed

\* Blocks that end by m have no more than m bytes between them.
LEMMA TotalBelow ==
  ASSUME NEW h, Typed(h), Ring(h), NEW N \in Nat
  PROVE  \A s : \A m \in 0..End :
           Listed(h, s) /\ Once(s) /\ Len(s) = N /\ (\A x \in ToSet(s) : h[x].next <= m)
             => Total(Rooms(h), s) \in 0..m
<1> DEFINE w == Rooms(h)
           Below(n) == \A s : \A m \in 0..End :
             Listed(h, s) /\ Once(s) /\ Len(s) = n /\ (\A x \in ToSet(s) : h[x].next <= m)
               => Total(w, s) \in 0..m
           T == {n \in 0..N : Below(n)}
<1> HIDE DEF w
<1>1. 0 \in T
  <2> SUFFICES ASSUME NEW s, NEW m \in 0..End, Listed(h, s), Len(s) = 0
               PROVE  Total(w, s) \in 0..m
    BY SizesOK
  <2>1. s = <<>>
    BY EmptySeq DEF Listed
  <2> QED BY <2>1, TotalEmpty, SizesOK
<1>2. ASSUME NEW n \in 0..(N - 1), n \in T PROVE n + 1 \in T
  <2> SUFFICES ASSUME NEW s, NEW m \in 0..End, Listed(h, s), Once(s), Len(s) = n + 1,
                      \A x \in ToSet(s) : h[x].next <= m
               PROVE  Total(w, s) \in 0..m
    <3>1. n + 1 \in 0..N
      OBVIOUS
    <3> QED BY <3>1
  <2>1. /\ ToSet(s) # {} /\ ToSet(s) \subseteq DOMAIN h \ {End}
    <3>1. s[1] \in ToSet(s)
      BY ListedOK
    <3> QED BY <3>1 DEF Listed
  <2>2. PICK x \in ToSet(s) : \A y \in ToSet(s) : y <= x
    <3> DEFINE D == {End - y : y \in ToSet(s)}
    <3>1. \A y \in ToSet(s) : y \in 0..End
      BY <2>1, RoomsOK
    <3>2. D \in SUBSET Nat /\ D # {}
      BY <3>1, <2>1, SizesOK
    <3>3. Least(D) \in D /\ \A d \in D : Least(D) <= d
      BY <3>2, LeastOK
    <3>4. PICK x \in ToSet(s) : \A y \in ToSet(s) : End - x <= End - y
      BY <3>3
    <3> QED BY <3>1, <3>4, SizesOK
  <2> DEFINE r == Without(s, x)
  <2>3. /\ Listed(h, r) /\ Once(r) /\ ToSet(r) = ToSet(s) \ {x} /\ Len(r) = n
    BY ListedWithout
  <2>4. /\ x \in DOMAIN h \ {End} /\ x \in 0..End /\ h[x].next \in 0..End
        /\ w[x] = h[x].next - (x + Hdr) /\ w[x] \in Nat
    BY <2>1, RoomsOK DEF w
  <2>5. \A y \in ToSet(r) : h[y].next <= x
    <3> SUFFICES ASSUME NEW y \in ToSet(r) PROVE h[y].next <= x
      OBVIOUS
    <3>1. y \in DOMAIN h \ {End} /\ y # x /\ y <= x /\ y \in 0..End
      BY <2>1, <2>2, <2>3, RoomsOK
    <3>2. y < x
      BY <3>1, <2>4
    <3> QED BY <3>1, <3>2, <2>4 DEF Ring
  <2>6. Total(w, s) = Total(w, r) + w[x]
    <3>1. Weighs(w, s) /\ Weighs(w, r) /\ s \in Seq(0..End) /\ Len(s) \in Nat /\ Len(r) \in Nat
      BY <2>3, ListedOK DEF Listed, w
    <3>2. Total(w, r) = Total(w, s) - w[x]
      BY <3>1, TotalWithout
    <3>3. Total(w, s) \in Int
      BY <3>1, TotalOK
    <3> HIDE DEF r
    <3> QED BY <3>2, <3>3, <2>4
  <2> HIDE DEF r
  <2>7. Below(n)
    BY <1>2
  <2>8. Total(w, r) \in 0..x
    BY <2>3, <2>4, <2>5, <2>7
  <2>9. h[x].next <= m
    OBVIOUS
  <2> DEFINE a == Total(w, s)
             c == Total(w, r)
  <2>10. /\ a = c + (h[x].next - (x + Hdr)) /\ c \in 0..x /\ h[x].next <= m
         /\ h[x].next - (x + Hdr) \in Nat
    BY <2>4, <2>6, <2>8, <2>9
  <2> HIDE DEF a, c
  <2>11. a \in 0..m
    BY ONLY <2>10, <2>4, m \in 0..End, SizesOK
  <2> QED BY <2>11 DEF a
<1> HIDE DEF T
<1>3. T \in SUBSET (0..N)
  BY DEF T
<1>4. T = 0..N
  BY <1>1, <1>2, <1>3, UpTo
<1>5. N \in T
  BY <1>4
<1> QED BY <1>5 DEF T, w

\* Listed blocks that keep their ends have the same sum.
LEMMA SumKept ==
  ASSUME NEW h, Typed(h), Ring(h), NEW g, NEW s, Listed(h, s),
         \A x \in ToSet(s) : x \in DOMAIN g /\ g[x].next = h[x].next
  PROVE  Total(Rooms(g), s) = Total(Rooms(h), s)
<1>1. /\ Len(s) \in Nat /\ Weighs(Rooms(h), s)
      /\ \A i \in 1..Len(s) : s[i] \in ToSet(s)
  BY ListedOK
<1>2. \A x \in ToSet(s) : Rooms(g)[x] = Rooms(h)[x]
  BY DEF Rooms, Listed
<1> QED BY <1>1, <1>2, TotalSame

\* One more block, of a ring g that has the others as they were.
LEMMA SumLink ==
  ASSUME NEW h, Typed(h), Ring(h), NEW s, Listed(h, s), NEW g, Typed(g), Ring(g),
         \A x \in ToSet(s) : x \in DOMAIN g /\ g[x].next = h[x].next,
         NEW q \in DOMAIN g \ {End}
  PROVE  Total(Rooms(g), <<q>> \o s) = g[q].next - (q + Hdr) + Total(Rooms(h), s)
<1>1. /\ q \in 0..End /\ Rooms(g)[q] \in Int /\ Rooms(g)[q] = g[q].next - (q + Hdr)
  BY RoomsOK
<1>2. Listed(g, s)
  BY DEF Listed
<1>3. Weighs(Rooms(g), s) /\ s \in Seq(0..End)
  BY <1>2, ListedOK DEF Listed
<1>4. Total(Rooms(g), s) = Total(Rooms(h), s)
  BY SumKept
<1>5. Total(Rooms(g), <<q>> \o s) = Rooms(g)[q] + Total(Rooms(g), s)
  BY <1>1, <1>3, TotalPrepend
<1> QED BY <1>1, <1>4, <1>5

\* One block less.
LEMMA SumWithout ==
  ASSUME NEW h, Typed(h), Ring(h), NEW s, Listed(h, s), NEW x \in ToSet(s)
  PROVE  Total(Rooms(h), Without(s, x)) = Total(Rooms(h), s) - (h[x].next - (x + Hdr))
<1>1. Rooms(h)[x] = h[x].next - (x + Hdr)
  BY RoomsOK DEF Listed
<1>2. Weighs(Rooms(h), s) /\ s \in Seq(0..End)
  BY ListedOK DEF Listed
<1> QED BY <1>1, <1>2, TotalWithout

LEMMA SumDrop ==
  ASSUME NEW h, Typed(h), Ring(h), NEW s, Listed(h, s), Once(s), NEW old \in ToSet(s),
         NEW g,
         \A x \in ToSet(s) \ {old} : x \in DOMAIN g /\ g[x].next = h[x].next
  PROVE  Total(Rooms(g), Without(s, old))
           = Total(Rooms(h), s) - (h[old].next - (old + Hdr))
<1>1. Listed(h, Without(s, old)) /\ ToSet(Without(s, old)) = ToSet(s) \ {old}
  BY ListedWithout
<1>2. Total(Rooms(g), Without(s, old)) = Total(Rooms(h), Without(s, old))
  BY <1>1, SumKept
<1> QED BY <1>2, SumWithout

\* One less and another more, as LinkFirst does it.
LEMMA SumSwap ==
  ASSUME NEW h, Typed(h), Ring(h), NEW s, Listed(h, s), Once(s), NEW old \in ToSet(s),
         NEW g, Typed(g), Ring(g), NEW q \in DOMAIN g \ {End},
         \A x \in ToSet(s) \ {old} : x \in DOMAIN g /\ g[x].next = h[x].next
  PROVE  Total(Rooms(g), LinkFirst(s, old, q))
           = g[q].next - (q + Hdr)
             + (Total(Rooms(h), s) - (h[old].next - (old + Hdr)))
<1>1. Listed(h, Without(s, old)) /\ ToSet(Without(s, old)) = ToSet(s) \ {old}
  BY ListedWithout
<1>2. Total(Rooms(g), <<q>> \o Without(s, old))
        = g[q].next - (q + Hdr) + Total(Rooms(h), Without(s, old))
  BY <1>1, SumLink
<1> QED BY <1>2, SumWithout DEF LinkFirst

\* A block of the list gets another end.
LEMMA SumChange ==
  ASSUME NEW h, Typed(h), Ring(h), NEW s, Listed(h, s), Once(s), NEW k \in ToSet(s),
         NEW g, Typed(g), Ring(g), k \in DOMAIN g,
         \A x \in ToSet(s) \ {k} : x \in DOMAIN g /\ g[x].next = h[x].next
  PROVE  Total(Rooms(g), s) = Total(Rooms(h), s) + (g[k].next - h[k].next)
<1>1. Listed(g, s)
  BY DEF Listed
<1>2. /\ k \in 0..End /\ h[k].next \in 0..End /\ g[k].next \in 0..End
  BY RoomsOK DEF Listed
<1> DEFINE r == Without(s, k)
           a == Total(Rooms(g), s)
           c == Total(Rooms(h), s)
<1>3. Total(Rooms(g), r) = a - (g[k].next - (k + Hdr))
  BY <1>1, SumWithout
<1>4. Total(Rooms(g), r) = c - (h[k].next - (k + Hdr))
  BY SumDrop
<1>5. a \in Int /\ c \in Int
  BY <1>1, ListedOK, TotalOK
<1> HIDE DEF a, c, r
<1>6. a = c + (g[k].next - h[k].next)
  BY <1>2, <1>3, <1>4, <1>5, SizesOK
<1> QED BY <1>6 DEF a, c

\* A list of blocks has no more bytes than the pool.
LEMMA SumBounded ==
  ASSUME NEW h, Typed(h), Ring(h), NEW s, Listed(h, s), Once(s)
  PROVE  Total(Rooms(h), s) \in 0..PoolSize
<1>1. Len(s) \in Nat /\ End \in 0..End
  BY ListedOK, SizesOK
<1>2. \A x \in ToSet(s) : h[x].next <= End
  BY RoomsOK DEF Listed
<1>3. Total(Rooms(h), s) \in 0..End
  BY <1>1, <1>2, TotalBelow
<1> QED BY <1>3, SizesOK

-----------------------------------------------------------------------------
(* The lock. *)

Place == {"out", "wait", "in", "move", "copy", "shrunk", "adds"}

Holding == {"in", "shrunk", "adds"}

Inside(t) == stage[t] \in Holding \/ t \in given[lock]

\* The one token is free, or exactly one thread is inside; a thread that
\* waits stands in the queue once or was given the token.
SemOK ==
  /\ stage \in [Thread -> Place]
  /\ free \in [{lock} -> {0, 1}]
  /\ queue \in [{lock} -> Seq(Thread)]
  /\ given \in [{lock} -> SUBSET Thread]
  /\ Once(queue[lock])
  /\ \A t \in Thread :
       stage[t] = "wait" <=> t \in ToSet(queue[lock]) \/ t \in given[lock]
  /\ \A t \in given[lock] : t \notin ToSet(queue[lock])
  /\ \A t, u \in Thread : Inside(t) /\ Inside(u) => t = u
  /\ free[lock] = 1 <=> \A t \in Thread : ~Inside(t)
  /\ free[lock] = 1 => queue[lock] = <<>>

\* A step with the lock, or before it is asked for, leaves it alone.
LEMMA InnerSem ==
  ASSUME SemOK, NEW t \in Thread, NEW q \in Place, stage[t] # "wait", q # "wait",
         stage[t] \in Holding <=> q \in Holding,
         stage' = [stage EXCEPT ![t] = q], UNCHANGED semVars
  PROVE  SemOK'
<1>1. \A u \in Thread : stage'[u] \in Place /\ (Inside(u)' <=> Inside(u))
                        /\ (stage'[u] = "wait" <=> stage[u] = "wait")
  BY DEF SemOK, Inside, semVars
<1>2. stage' \in [Thread -> Place]
  BY <1>1 DEF SemOK
<1>3. free' = free /\ queue' = queue /\ given' = given
  BY DEF semVars
<1> QED BY <1>1, <1>2, <1>3 DEF SemOK

\* A thread asks for the lock: it has the token, or stands in the queue.
LEMMA TakeSem ==
  ASSUME SemOK, NEW t \in Thread, NEW j, TakeLock(t, j),
         stage[t] \in {"out", "move", "copy"}
  PROVE  /\ SemOK' /\ stage'[t] \in {"in", "wait"}
         /\ \A u \in Thread \ {t} : stage'[u] = stage[u]
         /\ job' = [job EXCEPT ![t] = j]
<1> USE DEF SemOK
<1>1. t \notin given[lock] /\ t \notin ToSet(queue[lock]) /\ stage[t] \notin Holding
  BY DEF Holding
<1>2. CASE Lock!Take(lock) /\ stage' = [stage EXCEPT ![t] = "in"]
  <2>1. /\ free[lock] = 1 /\ free' = [free EXCEPT ![lock] = 0]
        /\ queue' = queue /\ given' = given
    <3>1. free[lock] = 1
      BY <1>2 DEF Lock!Take
    <3> QED BY <1>2, <3>1 DEF Lock!Take
  <2>2. \A u \in Thread : ~Inside(u)
    BY <2>1
  <2>3. stage' \in [Thread -> Place] /\ stage'[t] = "in"
    BY <1>2 DEF Place
  <2>4. \A u \in Thread : Inside(u)' <=> u = t
    BY <1>2, <2>1, <2>2, <2>3 DEF Inside, Holding
  <2>5. \A u \in Thread : stage'[u] = "wait" <=> stage[u] = "wait"
    BY <1>1, <1>2
  <2>6. free' \in [{lock} -> {0, 1}] /\ free'[lock] = 0
    BY <2>1
  <2>7. SemOK'
    BY <2>1, <2>3, <2>4, <2>5, <2>6
  <2> QED BY <1>2, <2>3, <2>7 DEF TakeLock
<1>3. CASE Lock!Wait(t, lock) /\ stage' = [stage EXCEPT ![t] = "wait"]
  <2> DEFINE s == queue[lock]
             r == Append(s, t)
  <2>1. /\ free[lock] = 0 /\ free' = free /\ given' = given
        /\ queue' = [queue EXCEPT ![lock] = r]
    BY <1>3 DEF Lock!Wait
  <2>2. /\ r \in Seq(Thread) /\ Once(r) /\ ToSet(r) = ToSet(s) \cup {t}
    BY <1>1, AppendOK
  <2> HIDE DEF r
  <2>3. queue'[lock] = r /\ queue' \in [{lock} -> Seq(Thread)]
    BY <2>1, <2>2
  <2>4. stage' \in [Thread -> Place] /\ stage'[t] = "wait"
    BY <1>3 DEF Place
  <2>5. \A u \in Thread : Inside(u)' <=> Inside(u)
    BY <1>1, <1>3, <2>1, <2>4 DEF Inside, Holding
  <2>6. \A u \in Thread : stage'[u] = "wait" <=> stage[u] = "wait" \/ u = t
    BY <1>3, <2>4
  <2>7. SemOK'
    BY <1>1, <2>1, <2>2, <2>3, <2>4, <2>5, <2>6
  <2> QED BY <1>3, <2>4, <2>7 DEF TakeLock
<1> QED BY <1>2, <1>3 DEF TakeLock

\* A thread that was given the token goes in.
LEMMA ResumeSem ==
  ASSUME SemOK, NEW t \in Thread, Resume(t)
  PROVE  /\ SemOK' /\ stage[t] = "wait" /\ stage'[t] = "in"
         /\ \A u \in Thread \ {t} : stage'[u] = stage[u]
<1> USE DEF SemOK
<1>1. /\ t \in given[lock] /\ free' = free /\ queue' = queue
      /\ given' = [given EXCEPT ![lock] = @ \ {t}]
      /\ stage[t] = "wait" /\ stage' = [stage EXCEPT ![t] = "in"]
  BY DEF Resume, Lock!Succeed
<1>2. \A u \in Thread : Inside(u) <=> u = t
  BY <1>1 DEF Inside
<1>3. given[lock] = {t} /\ given'[lock] = {}
  BY <1>1, <1>2 DEF Inside
<1>4. stage' \in [Thread -> Place] /\ stage'[t] = "in"
  BY <1>1 DEF Place
<1>5. \A u \in Thread : Inside(u)' <=> u = t
  BY <1>1, <1>2, <1>3, <1>4 DEF Inside, Holding
<1>6. \A u \in Thread : stage'[u] = "wait" <=> stage[u] = "wait" /\ u # t
  BY <1>1
<1>7. given' \in [{lock} -> SUBSET Thread]
  BY <1>1
<1>8. ToSet(queue'[lock]) = ToSet(queue[lock]) /\ t \notin ToSet(queue[lock])
  BY <1>1
<1>9. \A u \in Thread :
        stage'[u] = "wait" <=> u \in ToSet(queue'[lock]) \/ u \in given'[lock]
  <2>1. \A u \in Thread :
          stage[u] = "wait" <=> u \in ToSet(queue[lock]) \/ u = t
    BY <1>3
  <2>2. \A u \in Thread :
          /\ u \in ToSet(queue'[lock]) <=> u \in ToSet(queue[lock])
          /\ u \notin given'[lock]
    BY <1>3, <1>8
  <2> QED BY ONLY <2>1, <2>2, <1>6, <1>8
<1>10. SemOK'
  BY <1>1, <1>2, <1>3, <1>4, <1>5, <1>7, <1>9
<1> QED BY <1>1, <1>10

\* A thread gives the lock back: the token is free, or the first waiter's.
LEMMA UnlockSem ==
  ASSUME SemOK, NEW t \in Thread, stage[t] \in Holding, Unlock,
         NEW q \in {"out", "move", "copy"}, stage' = [stage EXCEPT ![t] = q]
  PROVE  SemOK'
<1> USE DEF SemOK
<1> DEFINE s == queue[lock]
<1>1. \A u \in Thread : Inside(u) <=> u = t
  BY DEF Inside
<1>2. free[lock] = 0 /\ given[lock] = {}
  <2>1. given[lock] \subseteq {t} /\ free[lock] # 1
    BY <1>1 DEF Inside
  <2>2. stage[t] # "wait"
    BY DEF Holding
  <2> QED BY <2>1, <2>2
<1>3. stage' \in [Thread -> Place] /\ stage'[t] = q /\ q \notin Holding
  BY DEF Place, Holding
<1>4. \A u \in Thread \ {t} : stage'[u] = stage[u] /\ stage'[u] \notin Holding
  BY <1>1 DEF Inside
<1>5. \A u \in Thread : stage'[u] = "wait" <=> stage[u] = "wait"
  BY <1>3, <1>4 DEF Holding
<1>6. CASE Lock!Release(lock)
  <2>1. /\ s = <<>> /\ free' = [free EXCEPT ![lock] = 1]
        /\ queue' = queue /\ given' = given
    BY <1>6, <1>2 DEF Lock!Release
  <2>2. \A u \in Thread : ~Inside(u)'
    BY <2>1, <1>2, <1>3, <1>4 DEF Inside
  <2>3. free' \in [{lock} -> {0, 1}] /\ free'[lock] = 1
    BY <2>1
  <2> QED BY <2>1, <2>2, <2>3, <1>3, <1>5
<1>7. CASE Lock!Grant(lock)
  <2> DEFINE w == Head(s)
             r == Tail(s)
  <2>1. /\ s # <<>> /\ free' = free
        /\ queue' = [queue EXCEPT ![lock] = r]
        /\ given' = [given EXCEPT ![lock] = {w}]
    BY <1>7, <1>2 DEF Lock!Grant
  <2>2. /\ w \in Thread /\ w \in ToSet(s) /\ r \in Seq(Thread) /\ Once(r)
        /\ ToSet(r) = ToSet(s) \ {w}
    BY <2>1, TailOK
  <2> HIDE DEF w, r
  <2>3. /\ queue'[lock] = r /\ queue' \in [{lock} -> Seq(Thread)]
        /\ given'[lock] = {w} /\ given' \in [{lock} -> SUBSET Thread]
    BY <2>1, <2>2
  <2>4. stage[w] = "wait" /\ w # t
    BY <2>2 DEF Holding
  <2>5. \A u \in Thread : Inside(u)' <=> u = w
    BY <2>3, <2>4, <1>3, <1>4 DEF Inside
  <2>6. free'[lock] = 0 /\ free' \in [{lock} -> {0, 1}]
    BY <2>1, <1>2
  <2>7. \A u \in Thread :
          stage'[u] = "wait" <=> u \in ToSet(r) \/ u \in {w}
    BY <2>2, <1>2, <1>5
  <2>8. ~(\A u \in Thread : ~Inside(u)')
    BY <2>5, <2>2
  <2> QED BY <2>2, <2>3, <2>5, <2>6, <2>7, <2>8, <1>3
<1> QED BY <1>6, <1>7 DEF Unlock

-----------------------------------------------------------------------------
(* The invariant. *)

\* Block p is some caller's region.
Has(L, p) == \E r \in L : r.at = p + Hdr

Working == {"move", "grow", "shrink"}

JobType == [fn : {"none", "alloc", "free"} \cup Working,
            size : Granted \cup {0}, at : 0..End, new : 0..End]

\* A call j, the place s its thread is at, the blocks and the regions agree.
JobFits(s, j, h, L) ==
  /\ j \in JobType
  /\ s \in {"out", "adds"} => j = NoJob
  /\ s \in {"wait", "in"} => j.fn # "none"
  /\ s = "move" => j.fn = "grow"
  /\ s = "copy" => j.fn = "move"
  /\ s = "shrunk" => j.fn = "shrink"
  /\ j.fn \in {"alloc"} \cup Working => j.size \in Granted
  /\ j.fn = "alloc" => j.at = End
  /\ j.fn \in Working => j.at \in DOMAIN h \ {End} /\ Has(L, j.at)
  /\ j.fn = "free" => j.at \in DOMAIN h \ {End} /\ h[j.at].used /\ ~Has(L, j.at)
  /\ j.fn = "shrink" /\ s # "shrunk" =>
       h[j.at].next - (j.at + Hdr) >= j.size + Hdr + MinAlloc
  /\ s \notin {"copy", "shrunk"} => j.new = End
  /\ s = "copy" => j.new \in DOMAIN h \ {End} /\ j.new # j.at /\ Has(L, j.new)
  /\ s = "shrunk" => j.new \in DOMAIN h \ {End} /\ j.new # j.at /\ ~h[j.new].used

Claims(j) == {j.at, j.new} \ {End}

\* No two calls work on one block.
JobsOK ==
  /\ job \in [Thread -> JobType]
  /\ \A t \in Thread : JobFits(stage[t], job[t], hdr, live)
  /\ \A t, u \in Thread : t # u => Claims(job[t]) \cap Claims(job[u]) = {}

\* Region r has a block in use for itself.
RegionOK(L, h, r) ==
  /\ r \in [at : Hdr..End, size : Granted]
  /\ r.at - Hdr \in DOMAIN h \ {End} /\ h[r.at - Hdr].used
  /\ r.size <= h[r.at - Hdr].next - r.at
  /\ \A s \in L : s.at = r.at => s = r

RegionsOK == \A r \in live : RegionOK(live, hdr, r)

OwnedOK ==
  \A p \in Blocks \ {End} : hdr[p].used => \/ Has(live, p)
                                           \/ \E t \in Thread : Owner(p, t)

\* What a shrinking realloc has not linked yet is missing from available_size.
HighOK ==
  /\ available \in Int /\ maxUsed \in Int
  /\ (\A t \in Thread : stage[t] # "shrunk") => maxUsed >= PoolSize - available
  /\ \A t \in Thread : stage[t] = "shrunk" =>
       maxUsed >= PoolSize - available - Room(job[t].new)

\* The blocks are a ring, aligned, and no two free ones are neighbours.
Shape(h) ==
  /\ Typed(h) /\ Ring(h)
  /\ \A p \in DOMAIN h : p % Unit = 0
  /\ \A p \in DOMAIN h \ {End} : ~h[p].used => h[h[p].next].used

FreeOK == freeList \in Seq(0..End) /\ FreeListExact

\* Headers are left to add while a thread adds them.
OwedOK ==
  /\ owed \in {0, Hdr, 2 * Hdr}
  /\ owed = 0 <=> \A t \in Thread : stage[t] # "adds"

\* available_size is what the free list has, but for those headers.
Sized ==
  /\ available + owed = Total(Rooms(hdr), freeList) /\ maxUsed \in 0..PoolSize
  /\ OwedOK

IInv ==
  /\ Shape(hdr) /\ FreeOK /\ HighOK /\ Sized
  /\ SemOK /\ JobsOK /\ RegionsOK /\ OwnedOK

LEMMA NoJobOK == /\ NoJob \in JobType /\ Claims(NoJob) = {}
                 /\ NoJob.size = 0 /\ NoJob.at = End /\ NoJob.new = End
BY SizesOK DEF NoJob, JobType, Claims

LEMMA NoJobFits ==
  \A h, L : JobFits("out", NoJob, h, L) /\ JobFits("adds", NoJob, h, L)
BY NoJobOK DEF JobFits, NoJob, Working

\* A region's block is in use.
LEMMA HasUsed ==
  ASSUME RegionsOK, NEW p \in 0..End, Has(live, p)
  PROVE  p \in Blocks \ {End} /\ hdr[p].used
<1>1. PICK r \in live : r.at = p + Hdr
  BY DEF Has
<1>2. r.at - Hdr = p
  BY <1>1, SizesOK
<1> QED BY <1>1, <1>2 DEF RegionsOK, RegionOK, Blocks

\* So is the block a call works on, but for the one that was cut off.
LEMMA ClaimUsed ==
  ASSUME JobsOK, RegionsOK, NEW u \in Thread, stage[u] # "shrunk",
         stage[u] \in Place, NEW x \in Claims(job[u])
  PROVE  x \in Blocks \ {End} /\ hdr[x].used
<1> DEFINE j == job[u]
           s == stage[u]
<1>1. JobFits(s, j, hdr, live) /\ j \in JobType
  BY DEF JobsOK
<1>2. x \in 0..End /\ x # End /\ (x = j.at \/ x = j.new)
  BY <1>1 DEF Claims, JobType
<1>3. CASE x = j.new
  <2>1. s = "copy"
    BY <1>1, <1>2, <1>3 DEF JobFits
  <2> QED BY <2>1, <1>1, <1>2, <1>3, HasUsed DEF JobFits
<1>4. CASE x = j.at
  <2>1. j.fn # "none" /\ j.fn # "alloc"
    <3>1. s \in {"out", "adds"} => x = End
      BY <1>1, <1>4 DEF JobFits, NoJob
    <3>2. s \notin {"out", "adds"} => j.fn # "none"
      BY <1>1 DEF JobFits, Place
    <3> QED BY <3>1, <3>2, <1>1, <1>2, <1>4 DEF JobFits
  <2>2. j.fn \in Working \/ j.fn = "free"
    BY <2>1, <1>1 DEF JobType
  <2>3. CASE j.fn = "free"
    BY <2>3, <1>1, <1>4 DEF JobFits, Blocks
  <2>4. CASE j.fn \in Working
    BY <2>4, <1>1, <1>2, <1>4, HasUsed DEF JobFits
  <2> QED BY <2>2, <2>3, <2>4
<1> QED BY <1>2, <1>3, <1>4

\* A step of thread t touches one block, p, or none, which is p = End: who has
\* other blocks has them still.
LEMMA OthersOK ==
  ASSUME IInv, NEW t \in Thread, NEW p \in 0..End,
         \A x \in Blocks \ {End, p} : hdr[x].used =>
           x \in Blocks' /\ hdr'[x].used /\ hdr'[x].next = hdr[x].next,
         \A x \in Blocks' \ {End, p} : hdr'[x].used => x \in Blocks /\ hdr[x].used,
         hdr' = hdr \/ \A u \in Thread \ {t} : stage[u] # "shrunk",
         \A u \in Thread \ {t} : /\ stage'[u] = stage[u] /\ job'[u] = job[u]
                                 /\ p \notin Claims(job[u]),
         \A r \in live \cup live' : r.at # p + Hdr => (r \in live' <=> r \in live),
         job' \in [Thread -> JobType],
         JobFits(stage'[t], job'[t], hdr', live'),
         \A x \in Claims(job'[t]) :
           x \in Claims(job[t]) \/ x = p \/ x \notin Blocks,
         \A r \in live' : r.at = p + Hdr => RegionOK(live', hdr', r),
         p \in Blocks' \ {End} /\ hdr'[p].used => Has(live', p) \/ Owner(p, t)',
         \A x \in Blocks : x # p /\ Owner(x, t) => Owner(x, t)'
  PROVE  JobsOK' /\ RegionsOK' /\ OwnedOK'
<1> USE SizesOK
<1>1. /\ JobsOK /\ RegionsOK /\ OwnedOK /\ stage \in [Thread -> Place]
      /\ Blocks = DOMAIN hdr /\ Blocks' = DOMAIN hdr' /\ Blocks \subseteq 0..End
  BY DEF IInv, SemOK, Shape, Typed, Blocks
<1>2. \A x \in 0..End : x # p => (Has(live', x) <=> Has(live, x))
  <2> SUFFICES ASSUME NEW x \in 0..End, x # p
               PROVE  Has(live', x) <=> Has(live, x)
    OBVIOUS
  <2>1. x + Hdr # p + Hdr
    OBVIOUS
  <2> QED BY <2>1 DEF Has
<1>3. ASSUME NEW u \in Thread \ {t}
      PROVE  JobFits(stage[u], job[u], hdr', live')
  <2> DEFINE j == job[u]
             s == stage[u]
  <2>1. JobFits(s, j, hdr, live) /\ j \in JobType /\ s \in Place
    BY <1>1, <1>3 DEF JobsOK
  <2>2. j.at \in 0..End /\ j.new \in 0..End
    BY <2>1 DEF JobType
  <2>3. ASSUME NEW x \in {j.at, j.new}, x # End, s # "shrunk"
        PROVE  /\ x \in Blocks' \ {End} /\ hdr'[x].used
               /\ hdr'[x].next = hdr[x].next
               /\ Has(live', x) <=> Has(live, x)
    <3>1. x \in Claims(j) /\ x # p
      BY <2>3, <1>3 DEF Claims
    <3>2. x \in Blocks \ {End, p} /\ hdr[x].used
      BY <3>1, <2>3, <1>1, <1>3, ClaimUsed
    <3> QED BY <3>2, <1>1, <1>2
  <2>4. CASE s # "shrunk"
    <3>1. j.fn \in Working \cup {"free"} => j.at # End
      BY <2>1 DEF JobFits
    <3>2. s = "copy" => j.new # End
      BY <2>1 DEF JobFits
    <3>3. /\ j.fn \in Working => j.at \in DOMAIN hdr' \ {End} /\ Has(live', j.at)
          /\ j.fn = "free" => /\ j.at \in DOMAIN hdr' \ {End}
                              /\ hdr'[j.at].used /\ ~Has(live', j.at)
          /\ j.fn = "shrink" =>
               hdr'[j.at].next - (j.at + Hdr) >= j.size + Hdr + MinAlloc
      <4>1. CASE j.fn \in Working \cup {"free"}
        <5>1. /\ j.at \in DOMAIN hdr' \ {End} /\ hdr'[j.at].used
              /\ hdr'[j.at].next = hdr[j.at].next
              /\ Has(live', j.at) <=> Has(live, j.at)
          BY <4>1, <3>1, <2>3, <2>4, <1>1
        <5>2. /\ j.fn \in Working => Has(live, j.at)
              /\ j.fn = "free" => ~Has(live, j.at)
              /\ j.fn = "shrink" =>
                   hdr[j.at].next - (j.at + Hdr) >= j.size + Hdr + MinAlloc
          BY <2>1, <2>4 DEF JobFits
        <5> QED BY <5>1, <5>2
      <4>2. CASE j.fn \notin Working \cup {"free"}
        BY <4>2 DEF Working
      <4> QED BY <4>1, <4>2
    <3>4. s = "copy" => /\ j.new \in DOMAIN hdr' \ {End} /\ j.new # j.at
                        /\ Has(live', j.new)
      <4>1. s = "copy" => j.new # j.at /\ Has(live, j.new)
        BY <2>1 DEF JobFits
      <4> QED BY <4>1, <3>2, <2>3, <2>4, <1>1
    <3> QED BY <3>3, <3>4, <2>1, <2>4 DEF JobFits
  <2>5. CASE s = "shrunk"
    <3>1. hdr' = hdr /\ j.fn = "shrink" /\ j.at # End /\ j.at # p
      <4>1. j.fn = "shrink" /\ j.at # End
        BY <2>1, <2>5 DEF JobFits, Working
      <4> QED BY <4>1, <2>5, <1>3 DEF Claims
    <3>2. Has(live', j.at)
      <4>1. Has(live, j.at)
        BY <2>1, <3>1 DEF JobFits, Working
      <4> QED BY <4>1, <3>1, <2>2, <1>2
    <3> QED BY <3>1, <3>2, <2>1, <2>5 DEF JobFits, Working
  <2> QED BY <2>4, <2>5
<1>4. ASSUME NEW u \in Thread \ {t}
      PROVE  Claims(job'[t]) \cap Claims(job[u]) = {}
  <2> SUFFICES ASSUME NEW x \in Claims(job'[t]), x \in Claims(job[u])
               PROVE  FALSE
    OBVIOUS
  <2>1. x # p /\ x \notin Claims(job[t])
    BY <1>1, <1>4 DEF JobsOK
  <2>2. x \notin Blocks
    BY <2>1
  <2>3. stage[u] = "shrunk"
    BY <2>2, <1>1, <1>4, ClaimUsed
  <2>4. JobFits(stage[u], job[u], hdr, live) /\ x \in {job[u].at, job[u].new}
    BY <1>1, <1>4 DEF JobsOK, Claims
  <2> QED BY <2>2, <2>3, <2>4, <1>1 DEF JobFits, Working
<1>5. JobsOK'
  <2>1. \A u \in Thread : JobFits(stage'[u], job'[u], hdr', live')
    BY <1>3
  <2>2. \A u, v \in Thread : u # v => Claims(job'[u]) \cap Claims(job'[v]) = {}
    <3> SUFFICES ASSUME NEW u \in Thread, NEW v \in Thread, u # v
                 PROVE  Claims(job'[u]) \cap Claims(job'[v]) = {}
      OBVIOUS
    <3>1. CASE u = t
      BY <3>1, <1>4
    <3>2. CASE v = t
      BY <3>2, <1>4
    <3>3. CASE u # t /\ v # t
      BY <3>3, <1>1 DEF JobsOK
    <3> QED BY <3>1, <3>2, <3>3
  <2> QED BY <2>1, <2>2 DEF JobsOK
<1>6. RegionsOK'
  <2> SUFFICES ASSUME NEW r \in live' PROVE RegionOK(live', hdr', r)
    BY DEF RegionsOK
  <2>1. CASE r.at = p + Hdr
    BY <2>1
  <2>2. CASE r.at # p + Hdr
    <3>1. r \in live /\ RegionOK(live, hdr, r)
      BY <2>2, <1>1 DEF RegionsOK
    <3>2. r.at \in Hdr..End /\ r.at - Hdr \in Blocks \ {End} /\ hdr[r.at - Hdr].used
      BY <3>1, <1>1 DEF RegionOK
    <3>3. r.at - Hdr # p
      BY <3>2, <2>2
    <3>4. /\ r.at - Hdr \in Blocks' /\ hdr'[r.at - Hdr].used
          /\ hdr'[r.at - Hdr].next = hdr[r.at - Hdr].next
      BY <3>2, <3>3
    <3>5. \A s \in live' : s.at = r.at => s = r
      BY <3>1, <2>2 DEF RegionOK
    <3> QED BY <3>1, <3>2, <3>4, <3>5, <1>1 DEF RegionOK
  <2> QED BY <2>1, <2>2
<1>7. OwnedOK'
  <2> SUFFICES ASSUME NEW x \in Blocks', x # End, hdr'[x].used
               PROVE  Has(live', x) \/ \E u \in Thread : Owner(x, u)'
    BY DEF OwnedOK, End
  <2>1. CASE x = p
    BY <2>1
  <2>2. CASE x # p
    <3>1. x \in Blocks \ {End} /\ hdr[x].used /\ x \in 0..End
      BY <2>2, <1>1
    <3>2. CASE Has(live, x)
      BY <3>1, <3>2, <2>2, <1>2
    <3>3. CASE \E u \in Thread : Owner(x, u)
      <4>1. PICK u \in Thread : Owner(x, u)
        BY <3>3
      <4>2. Owner(x, u)'
        <5>1. CASE u = t
          BY <5>1, <4>1, <3>1, <2>2
        <5>2. CASE u # t
          BY <5>2, <4>1 DEF Owner
        <5> QED BY <5>1, <5>2
      <4> QED BY <4>2
    <3> QED BY <3>1, <3>2, <3>3, <1>1 DEF OwnedOK
  <2> QED BY <2>1, <2>2
<1> QED BY <1>5, <1>6, <1>7

\* The beginning: one free block and the tailer.
LEMMA InitOK == PoolInit => IInv
<1> SUFFICES ASSUME PoolInit PROVE IInv
  OBVIOUS
<1> USE SizesOK
<1>1. /\ hdr = [p \in {0, End} |-> [used |-> p = End, next |-> End - p,
                                    prev |-> End - p]]
      /\ freeList = <<0>> /\ live = {}
      /\ available = PoolSize - 2 * Hdr /\ maxUsed = 2 * Hdr
      /\ stage = [t \in Thread |-> "out"] /\ job = [t \in Thread |-> NoJob]
  BY DEF PoolInit
<1>2. /\ Blocks = {0, End} /\ DOMAIN hdr = {0, End} /\ 0 # End
      /\ ~hdr[0].used /\ hdr[0].next = End /\ hdr[0].prev = End
      /\ hdr[End].used /\ hdr[End].next = 0 /\ hdr[End].prev = 0
  <2>1. 0 # End /\ DOMAIN hdr = {0, End}
    BY <1>1
  <2>2. /\ hdr[0] = [used |-> 0 = End, next |-> End - 0, prev |-> End - 0]
        /\ hdr[End] = [used |-> End = End, next |-> End - End, prev |-> End - End]
    BY <1>1
  <2>3. (0 = End) = FALSE /\ (End = End) = TRUE /\ End - 0 = End /\ End - End = 0
    BY <2>1
  <2>4. /\ hdr[0] = [used |-> FALSE, next |-> End, prev |-> End]
        /\ hdr[End] = [used |-> TRUE, next |-> 0, prev |-> 0]
    BY <2>2, <2>3, Zenon
  <2> QED BY <2>1, <2>4 DEF Blocks
<1>3. Shape(hdr)
  <2>1. Typed(hdr)
    <3>1. \A x \in {0, End} : [used |-> x = End, next |-> End - x,
                               prev |-> End - x] \in Header
      BY DEF Header
    <3> QED BY <3>1, <1>1 DEF Typed
  <2>2. Ring(hdr)
    BY <1>2 DEF Ring
  <2>3. 0 % Unit = 0 /\ End % Unit = 0
    <3>1. /\ Unit \in Nat \ {0} /\ Hdr % Unit = 0 /\ PoolSize % Unit = 0
          /\ Hdr \in Nat /\ PoolSize \in Nat /\ End \in Nat /\ PoolSize = End + Hdr
      BY MemHeapAssumption
    <3> QED BY ONLY <3>1, DifferenceOK
  <2> QED BY <2>1, <2>2, <2>3, <1>2 DEF Shape
<1>4. FreeOK
  <2>1. Unlinked = {}
    BY <1>1 DEF Unlinked
  <2>2. {p \in Blocks : ~hdr[p].used} = {0} /\ ToSet(freeList) = {0}
    BY <1>1, <1>2 DEF ToSet
  <2>3. freeList \in Seq(0..End) /\ Once(freeList)
    BY <1>1 DEF Once
  <2> QED BY <2>1, <2>2, <2>3 DEF FreeOK, FreeListExact
<1>5. HighOK
  BY <1>1 DEF HighOK
<1>8. Sized
  <2> DEFINE w == Rooms(hdr)
  <2>1. w[0] = End - Hdr /\ w[0] \in Int
    BY <1>2 DEF Rooms
  <2>2. Weighs(w, <<>>) /\ <<>> \in Seq(0..End) /\ 0 \in 0..End
    BY DEF Weighs
  <2>3. Total(w, <<0>> \o <<>>) = w[0] + Total(w, <<>>)
    BY <2>1, <2>2, TotalPrepend
  <2>4. <<0>> \o <<>> = freeList
    BY <1>1
  <2> HIDE DEF w
  <2>5. Total(w, freeList) = available
    BY <2>1, <2>3, <2>4, <1>1, TotalEmpty
  <2>6. 2 * Hdr \in 0..PoolSize
    BY MemHeapAssumption
  <2>7. OwedOK /\ owed = 0 /\ available \in Int
    BY <1>1 DEF OwedOK, PoolInit
  <2> QED BY <2>5, <2>6, <2>7, <1>1 DEF Sized, w
<1>6. SemOK
  <2>1. /\ free = [s \in {lock} |-> 1] /\ queue = [s \in {lock} |-> <<>>]
        /\ given = [s \in {lock} |-> {}]
    BY DEF PoolInit, Lock!Init
  <2> QED BY <2>1, <1>1 DEF SemOK, Inside, Holding, Place, Once, ToSet
<1>7. JobsOK
  <2>1. JobFits("out", NoJob, hdr, live)
    BY NoJobFits
  <2> QED BY <2>1, <1>1, NoJobOK DEF JobsOK
<1> QED BY <1>1, <1>2, <1>3, <1>4, <1>5, <1>6, <1>7, <1>8
        DEF IInv, RegionsOK, OwnedOK

-----------------------------------------------------------------------------
(* Steps that leave the blocks alone. *)

LEMMA JobStep ==
  ASSUME JobsOK, NEW t \in Thread, NEW j \in JobType, job' = [job EXCEPT ![t] = j]
  PROVE  /\ job' \in [Thread -> JobType] /\ job'[t] = j
         /\ \A u \in Thread \ {t} : job'[u] = job[u]
BY DEF JobsOK

LEMMA DoneOK ==
  ASSUME IInv, NEW t \in Thread, Done(t)
  PROVE  /\ job' \in [Thread -> JobType] /\ job'[t] = NoJob /\ stage'[t] = "out"
         /\ stage' = [stage EXCEPT ![t] = "out"]
         /\ \A u \in Thread \ {t} : stage'[u] = stage[u] /\ job'[u] = job[u]
BY JobStep, NoJobOK DEF Done, IInv, SemOK

\* One thread has the lock.
LEMMA OneHolds ==
  ASSUME SemOK, NEW t \in Thread, stage[t] \in Holding
  PROVE  \A u \in Thread \ {t} : stage[u] \notin Holding
BY DEF SemOK, Inside

\* Then it has no headers to add, unless it is adding them.
LEMMA NoneOwed ==
  ASSUME IInv, NEW t \in Thread, stage[t] \in {"in", "shrunk"}
  PROVE  owed = 0
<1>1. \A u \in Thread : stage[u] # "adds"
  BY OneHolds DEF IInv, Holding
<1> QED BY <1>1 DEF IInv, Sized, OwedOK

\* A step of a thread that adds none.
LEMMA OwedKept ==
  ASSUME IInv, NEW t \in Thread, owed' = owed,
         stage[t] # "adds", stage'[t] # "adds",
         \A u \in Thread \ {t} : stage'[u] = stage[u]
  PROVE  OwedOK'
<1>1. \A u \in Thread : stage'[u] = "adds" <=> stage[u] = "adds"
  OBVIOUS
<1> QED BY <1>1 DEF IInv, Sized, OwedOK

LEMMA QuietOK ==
  ASSUME IInv, NEW t \in Thread, UNCHANGED heapVars,
         stage[t] \notin {"shrunk", "adds"}, stage'[t] \notin {"shrunk", "adds"},
         \A u \in Thread \ {t} : stage'[u] = stage[u] /\ job'[u] = job[u]
  PROVE  Shape(hdr)' /\ FreeOK' /\ HighOK' /\ Sized'
<1>1. /\ hdr' = hdr /\ freeList' = freeList /\ available' = available
      /\ maxUsed' = maxUsed /\ Blocks' = Blocks
  BY DEF heapVars, Blocks
<1>2. \A u \in Thread : stage'[u] = "shrunk" <=> stage[u] = "shrunk"
  OBVIOUS
<1>3. Unlinked' = Unlinked
  BY DEF Unlinked
<1>4. FreeOK'
  BY <1>1, <1>3 DEF IInv, FreeOK, FreeListExact, End
<1>5. HighOK'
  <2>1. \A u \in Thread : stage[u] = "shrunk" => job'[u] = job[u]
    OBVIOUS
  <2> QED BY <1>1, <1>2, <2>1 DEF IInv, HighOK, Room
<1>6. Sized'
  <2>1. owed' = owed
    BY DEF heapVars
  <2>2. OwedOK'
    BY <2>1, OwedKept
  <2> QED BY <2>1, <2>2, <1>1 DEF IInv, Sized
<1> QED BY <1>1, <1>4, <1>5, <1>6 DEF IInv

\* Nobody's block changes.
LEMMA SameOK ==
  ASSUME IInv, NEW t \in Thread, hdr' = hdr, live' = live,
         \A u \in Thread \ {t} : stage'[u] = stage[u] /\ job'[u] = job[u],
         job' \in [Thread -> JobType],
         JobFits(stage'[t], job'[t], hdr, live),
         Claims(job'[t]) \subseteq Claims(job[t]),
         \A x \in Blocks : Owner(x, t) => Owner(x, t)'
  PROVE  JobsOK' /\ RegionsOK' /\ OwnedOK'
<1>1. End \in 0..End /\ Blocks' = Blocks
  BY SizesOK DEF Blocks
<1>2. \A u \in Thread : End \notin Claims(job[u])
  BY DEF Claims
<1>3. \A r \in live' : r.at = End + Hdr => RegionOK(live', hdr', r)
  <2>1. \A r \in live : r.at \in Hdr..End
    BY DEF IInv, RegionsOK, RegionOK
  <2> QED BY <2>1, SizesOK
<1> QED BY <1>1, <1>2, <1>3, OthersOK

LEMMA ResumeStep ==
  ASSUME IInv, NEW t \in Thread, Resume(t)
  PROVE  IInv'
<1>1. /\ SemOK' /\ stage[t] = "wait" /\ stage'[t] = "in"
      /\ \A u \in Thread \ {t} : stage'[u] = stage[u]
  BY ResumeSem DEF IInv
<1>2. UNCHANGED heapVars /\ hdr' = hdr /\ job' = job /\ live' = live
  BY DEF Resume, heapVars
<1>3. Shape(hdr)' /\ FreeOK' /\ HighOK' /\ Sized'
  BY <1>1, <1>2, QuietOK
<1>4. JobFits("in", job[t], hdr, live)
  <2>1. JobFits("wait", job[t], hdr, live)
    BY <1>1 DEF IInv, JobsOK
  <2> QED BY <2>1 DEF JobFits
<1>5. job' \in [Thread -> JobType] /\ \A x \in Blocks : Owner(x, t) => Owner(x, t)'
  BY <1>1, <1>2 DEF IInv, JobsOK, Owner
<1>6. JobsOK' /\ RegionsOK' /\ OwnedOK'
  BY <1>1, <1>2, <1>4, <1>5, SameOK
<1> QED BY <1>1, <1>3, <1>6 DEF IInv

\* A call that asks for the lock and changes nothing else.
LEMMA EnterStep ==
  ASSUME IInv, NEW t \in Thread, NEW j \in JobType, TakeLock(t, j),
         stage[t] \in {"out", "move"}, UNCHANGED <<heapVars, live>>,
         JobFits("in", j, hdr, live), Claims(j) \subseteq Claims(job[t])
  PROVE  IInv'
<1>1. /\ SemOK' /\ stage'[t] \in {"in", "wait"}
      /\ \A u \in Thread \ {t} : stage'[u] = stage[u]
      /\ job' = [job EXCEPT ![t] = j]
  BY TakeSem DEF IInv
<1>2. UNCHANGED heapVars /\ hdr' = hdr /\ live' = live
  BY DEF heapVars
<1>3. /\ job' \in [Thread -> JobType] /\ job'[t] = j
      /\ \A u \in Thread \ {t} : job'[u] = job[u]
  BY <1>1, JobStep DEF IInv
<1>4. Shape(hdr)' /\ FreeOK' /\ HighOK' /\ Sized'
  BY <1>1, <1>2, <1>3, QuietOK
<1>5. JobFits(stage'[t], j, hdr, live)
  BY <1>1 DEF JobFits
<1>6. \A x \in Blocks : ~Owner(x, t)
  <2>1. JobFits(stage[t], job[t], hdr, live)
    BY DEF IInv, JobsOK
  <2>2. job[t].fn # "free" \/ stage[t] = "out"
    BY <2>1 DEF JobFits
  <2> QED BY <2>2 DEF Owner
<1>7. JobsOK' /\ RegionsOK' /\ OwnedOK'
  BY <1>2, <1>1, <1>3, <1>5, <1>6, SameOK
<1> QED BY <1>1, <1>4, <1>7 DEF IInv

LEMMA AllocStep ==
  ASSUME IInv, NEW t \in Thread, NEW n \in Sizes, Alloc(t, n)
  PROVE  IInv'
<1> DEFINE j == [NoJob EXCEPT !.fn = "alloc", !.size = Norm(n)]
<1>1. /\ stage[t] = "out" /\ TakeLock(t, j) /\ UNCHANGED <<heapVars, live>>
  BY DEF Alloc
<1>2. /\ j \in JobType /\ j.fn = "alloc" /\ j.size = Norm(n)
      /\ j.at = End /\ j.new = End
  <2>1. Norm(n) \in Granted
    BY DEF Granted
  <2> QED BY <2>1, NoJobOK DEF JobType
<1>3. j \in JobType /\ Claims(j) = {}
  BY <1>2 DEF Claims
<1>4. JobFits("in", j, hdr, live)
  BY <1>2, <1>3 DEF JobFits, Working, Granted
<1> HIDE DEF j
<1> QED BY <1>1, <1>3, <1>4, EnterStep

\* A caller gives up region r, whose block is p, and no one works on it.
LEMMA GiveUpStep ==
  ASSUME IInv, NEW t \in Thread, NEW p \in 0..End, Has(live, p),
         stage[t] \in {"out", "copy"}, UNCHANGED heapVars,
         TakeLock(t, [NoJob EXCEPT !.fn = "free", !.at = p]),
         live' = {s \in live : s.at # p + Hdr},
         \A u \in Thread \ {t} : p \notin Claims(job[u])
  PROVE  IInv'
<1> DEFINE j == [NoJob EXCEPT !.fn = "free", !.at = p]
<1>1. j \in JobType /\ j.fn = "free" /\ j.size = 0 /\ j.at = p /\ j.new = End
  BY NoJobOK DEF JobType
<1>2. /\ SemOK' /\ stage'[t] \in {"in", "wait"}
      /\ \A u \in Thread \ {t} : stage'[u] = stage[u]
      /\ job' = [job EXCEPT ![t] = j]
  BY TakeSem DEF IInv
<1>3. p \in Blocks \ {End} /\ hdr[p].used
  BY HasUsed DEF IInv
<1>4. hdr' = hdr /\ Blocks' = Blocks
  BY DEF heapVars, Blocks
<1>5. j \in JobType
  BY <1>1
<1>6. /\ job' \in [Thread -> JobType] /\ job'[t] = j
      /\ \A u \in Thread \ {t} : job'[u] = job[u]
  BY <1>2, <1>5, JobStep DEF IInv
<1>7. JobFits(stage'[t], j, hdr', live')
  <2>1. ~Has(live', p)
    BY DEF Has
  <2> QED BY <2>1, <1>1, <1>2, <1>3, <1>4, <1>5 DEF JobFits, Working, Blocks
<1>8. Owner(p, t)' /\ \A x \in Claims(j) : x = p
  BY <1>1, <1>2, <1>6 DEF Owner, Claims
<1>9. \A x \in Blocks : ~Owner(x, t)
  <2>1. JobFits(stage[t], job[t], hdr, live)
    BY DEF IInv, JobsOK
  <2>2. job[t].fn # "free" \/ stage[t] = "out"
    BY <2>1 DEF JobFits
  <2> QED BY <2>2 DEF Owner
<1> HIDE DEF j
<1>10. Shape(hdr)' /\ FreeOK' /\ HighOK' /\ Sized'
  BY <1>2, <1>6, QuietOK
<1>11. JobsOK' /\ RegionsOK' /\ OwnedOK'
  BY <1>2, <1>3, <1>4, <1>6, <1>7, <1>8, <1>9, OthersOK
<1> QED BY <1>2, <1>10, <1>11 DEF IInv

\* A region, its block, and no call that works on it.
LEMMA RegionBlock ==
  ASSUME IInv, NEW r \in live, NEW p, p = r.at - Hdr
  PROVE  /\ p \in 0..End /\ p \in Blocks \ {End} /\ hdr[p].used
         /\ r.at = p + Hdr /\ Has(live, p) /\ r.size \in Granted
         /\ \A s \in live : s.at = p + Hdr => s = r
         /\ r.size <= Room(p)
<1>1. RegionOK(live, hdr, r) /\ Blocks \subseteq 0..End
  BY DEF IInv, RegionsOK, Shape, Typed, Blocks
<1>2. p \in Blocks \ {End} /\ hdr[p].used /\ r.at \in Hdr..End /\ r.size \in Granted
  BY <1>1 DEF RegionOK, Blocks
<1>3. r.at = p + Hdr
  BY <1>2, SizesOK
<1> QED BY <1>1, <1>2, <1>3 DEF Has, RegionOK, Room

LEMMA FreeStep ==
  ASSUME IInv, NEW t \in Thread, NEW r \in live, Free(t, r)
  PROVE  IInv'
<1> DEFINE p == r.at - Hdr
<1>1. /\ p \in 0..End /\ r.at = p + Hdr /\ Has(live, p)
      /\ \A s \in live : s.at = p + Hdr => s = r
  BY RegionBlock
<1>2. \A u \in Thread : p \notin Claims(job[u])
  BY DEF Free, Busy, Claims
<1>3. /\ stage[t] = "out" /\ UNCHANGED heapVars /\ live' = live \ {r}
      /\ TakeLock(t, [NoJob EXCEPT !.fn = "free", !.at = p])
  BY DEF Free
<1> HIDE DEF p
<1>4. live' = {s \in live : s.at # p + Hdr}
  BY <1>1, <1>3
<1> QED BY <1>1, <1>2, <1>3, <1>4, GiveUpStep

LEMMA CopyStep ==
  ASSUME IInv, NEW t \in Thread, Copy(t)
  PROVE  IInv'
<1> DEFINE p == job[t].at
<1>1. /\ stage[t] = "copy" /\ UNCHANGED heapVars
      /\ live' = {r \in live : r.at # p + Hdr}
      /\ TakeLock(t, [NoJob EXCEPT !.fn = "free", !.at = p])
  BY DEF Copy
<1>2. p \in 0..End /\ p # End /\ Has(live, p)
  <2>1. JobFits("copy", job[t], hdr, live)
    BY <1>1 DEF IInv, JobsOK
  <2> QED BY <2>1 DEF JobFits, JobType, Working
<1>3. \A u \in Thread \ {t} : p \notin Claims(job[u])
  <2>1. p \in Claims(job[t])
    BY <1>2 DEF Claims
  <2> QED BY <2>1 DEF IInv, JobsOK
<1> HIDE DEF p
<1> QED BY <1>1, <1>2, <1>3, GiveUpStep

\* A caller's region r has n bytes from now on, where it stands.
LEMMA ResizeInPlace ==
  ASSUME IInv, NEW r \in live, NEW n \in Granted,
         live' = (live \ {r}) \cup {[r EXCEPT !.size = n]},
         NEW h, r.at - Hdr \in DOMAIN h \ {End}, h[r.at - Hdr].used,
         n <= h[r.at - Hdr].next - r.at
  PROVE  /\ \A s \in live' : s.at = r.at => RegionOK(live', h, s)
         /\ Has(live', r.at - Hdr)
         /\ \A s \in live \cup live' : s.at # r.at => (s \in live' <=> s \in live)
         /\ \A x : Has(live, x) => Has(live', x)
<1> DEFINE s == [r EXCEPT !.size = n]
<1>1. /\ r \in [at : Hdr..End, size : Granted]
      /\ \A v \in live : v.at = r.at => v = r
  BY DEF IInv, RegionsOK, RegionOK
<1>2. s \in [at : Hdr..End, size : Granted] /\ s.at = r.at /\ s.size = n
  BY <1>1
<1>3. s \in live' /\ \A v \in live' : v = s \/ (v \in live /\ v.at # r.at)
  BY <1>1
<1> HIDE DEF s
<1>4. RegionOK(live', h, s) /\ \A v \in live' : v.at = r.at => v = s
  BY <1>2, <1>3 DEF RegionOK
<1>5. (r.at - Hdr) + Hdr = r.at
  BY <1>1, SizesOK
<1>6. \A v \in live : v # r => v \in live'
  OBVIOUS
<1>7. \A x : Has(live, x) => Has(live', x)
  BY <1>2, <1>3, <1>6 DEF Has
<1>8. \A v \in live \cup live' : v.at # r.at => (v \in live' <=> v \in live)
  BY <1>2, <1>3, <1>6
<1>9. Has(live', r.at - Hdr)
  BY <1>2, <1>3, <1>5 DEF Has
<1> QED BY <1>4, <1>7, <1>8, <1>9

LEMMA ReallocStep ==
  ASSUME IInv, NEW t \in Thread, NEW r \in live, NEW n \in Sizes, Realloc(t, r, n)
  PROVE  IInv'
<1> DEFINE p == r.at - Hdr
           m == Norm(n)
           j(fn) == [NoJob EXCEPT !.fn = fn, !.at = p, !.size = m]
<1>1. /\ p \in 0..End /\ p \in Blocks \ {End} /\ hdr[p].used /\ r.at = p + Hdr
      /\ Has(live, p) /\ r.size \in Granted
  BY RegionBlock
<1>2. /\ stage[t] = "out" /\ UNCHANGED heapVars /\ hdr' = hdr
      /\ \A u \in Thread : p \notin Claims(job[u])
  BY DEF Realloc, Busy, Claims, heapVars
<1>3. m \in Granted
  BY DEF Granted
<1>4. m \in Nat /\ m > 0 /\ hdr[p].next \in 0..End
  BY <1>1, <1>3, GrantedOK DEF IInv, Shape, Typed, Header, Blocks
<1>5. \/ /\ m > Room(p) /\ TakeLock(t, j("grow")) /\ live' = live
      \/ /\ m + Hdr + MinAlloc < Room(p)
         /\ TakeLock(t, j("shrink")) /\ live' = live
      \/ /\ m <= Room(p)
         /\ live' = (live \ {r}) \cup {[r EXCEPT !.size = m]}
         /\ UNCHANGED <<stage, job, semVars>>
  BY DEF Realloc
<1> HIDE DEF m
<1>6. ASSUME NEW fn \in {"grow", "shrink"}, TakeLock(t, j(fn)), live' = live,
             fn = "shrink" => m + Hdr + MinAlloc < Room(p)
      PROVE  IInv'
  <2>1. /\ j(fn) \in JobType /\ j(fn).fn = fn /\ j(fn).size = m
        /\ j(fn).at = p /\ j(fn).new = End
    BY <1>1, <1>3, NoJobOK DEF JobType, Working
  <2>2. j(fn) \in JobType
    BY <2>1
  <2>3. JobFits("in", j(fn), hdr, live)
    <3>1. fn = "shrink" => hdr[p].next - (p + Hdr) >= m + Hdr + MinAlloc
      BY <1>1, <1>4, <1>6, SizesOK DEF Room
    <3> QED BY <3>1, <2>1, <2>2, <1>1, <1>3 DEF JobFits, Working, Blocks
  <2>4. Claims(j(fn)) = {p}
    BY <2>1, <1>1 DEF Claims
  <2> DEFINE k == j(fn)
  <2>5. /\ SemOK' /\ stage'[t] \in {"in", "wait"}
        /\ \A u \in Thread \ {t} : stage'[u] = stage[u]
        /\ job' = [job EXCEPT ![t] = k]
    BY <1>2, <1>6, TakeSem DEF IInv
  <2> HIDE DEF k
  <2>6. /\ job' \in [Thread -> JobType] /\ job'[t] = k
        /\ \A u \in Thread \ {t} : job'[u] = job[u]
    BY <2>2, <2>5, JobStep DEF IInv, k
  <2>7. Shape(hdr)' /\ FreeOK' /\ HighOK' /\ Sized'
    BY <1>2, <2>5, <2>6, QuietOK
  <2>8. JobFits(stage'[t], k, hdr', live')
    BY <1>2, <1>6, <2>3, <2>5 DEF JobFits, k
  <2>9. \A x \in Blocks : ~Owner(x, t)
    BY <1>2 DEF Owner
  <2>10. \A s \in live' : s.at = p + Hdr => RegionOK(live', hdr', s)
    BY <1>2, <1>6 DEF IInv, RegionsOK
  <2>11. Blocks' = Blocks /\ \A x \in Claims(k) : x = p
    BY <1>2, <2>4 DEF Blocks, k
  <2> HIDE DEF p
  <2>12. JobsOK' /\ RegionsOK' /\ OwnedOK'
    BY <1>1, <1>2, <1>6, <2>5, <2>6, <2>8, <2>9, <2>10, <2>11, OthersOK
  <2> QED BY <2>5, <2>7, <2>12 DEF IInv
<1>7. ASSUME m <= Room(p), live' = (live \ {r}) \cup {[r EXCEPT !.size = m]},
             UNCHANGED <<stage, job, semVars>>
      PROVE  IInv'
  <2>1. SemOK'
    BY <1>7 DEF IInv, SemOK, semVars, Inside
  <2>2. Shape(hdr)' /\ FreeOK' /\ HighOK' /\ Sized'
    BY <1>2, <1>7, QuietOK
  <2>3. /\ \A s \in live' : s.at = p + Hdr => RegionOK(live', hdr', s)
        /\ Has(live', p)
        /\ \A s \in live \cup live' : s.at # p + Hdr => (s \in live' <=> s \in live)
    BY <1>1, <1>2, <1>3, <1>7, ResizeInPlace DEF Room, Blocks
  <2>4. JobFits(stage'[t], job'[t], hdr', live') /\ job' \in [Thread -> JobType]
    <3>1. JobFits("out", job[t], hdr, live) /\ job \in [Thread -> JobType]
      BY <1>2 DEF IInv, JobsOK
    <3>2. job[t] = NoJob
      BY <3>1 DEF JobFits
    <3> QED BY <3>1, <3>2, <1>2, <1>7, NoJobFits
  <2>5. /\ \A x \in Blocks : ~Owner(x, t)
        /\ stage' = stage /\ job' = job /\ Blocks' = Blocks
    BY <1>2, <1>7 DEF Owner, Blocks
  <2> HIDE DEF p
  <2>6. JobsOK' /\ RegionsOK' /\ OwnedOK'
    BY <1>1, <1>2, <2>3, <2>4, <2>5, OthersOK
  <2> QED BY <2>1, <2>2, <2>6 DEF IInv
<1> QED BY <1>5, <1>6, <1>7

LEMMA NoRoomStep ==
  ASSUME IInv, NEW t \in Thread, NoRoom(t)
  PROVE  IInv'
<1>1. /\ stage[t] = "in" /\ job[t].fn \in {"alloc", "move"} /\ Done(t) /\ Unlock
      /\ UNCHANGED heapVars /\ hdr' = hdr /\ live' = live
  BY DEF NoRoom, Searches, At, heapVars
<1>2. /\ job' \in [Thread -> JobType] /\ job'[t] = NoJob /\ stage'[t] = "out"
      /\ stage' = [stage EXCEPT ![t] = "out"]
      /\ \A u \in Thread \ {t} : stage'[u] = stage[u] /\ job'[u] = job[u]
  BY <1>1, DoneOK
<1>3. SemOK'
  BY <1>1, <1>2, UnlockSem DEF IInv, Holding
<1>4. Shape(hdr)' /\ FreeOK' /\ HighOK' /\ Sized'
  BY <1>1, <1>2, QuietOK
<1>5. JobsOK' /\ RegionsOK' /\ OwnedOK'
  BY <1>1, <1>2, NoJobOK, NoJobFits, SameOK DEF Owner
<1> QED BY <1>3, <1>4, <1>5 DEF IInv

LEMMA LeaveStep ==
  ASSUME IInv, NEW t \in Thread, Leave(t)
  PROVE  IInv'
<1>1. /\ stage[t] = "in" /\ job[t].fn = "grow" /\ Unlock /\ job' = job
      /\ stage' = [stage EXCEPT ![t] = "move"]
      /\ UNCHANGED heapVars /\ hdr' = hdr /\ live' = live
  BY DEF Leave, At, heapVars
<1>2. /\ stage'[t] = "move" /\ \A u \in Thread \ {t} : stage'[u] = stage[u]
      /\ job \in [Thread -> JobType]
  BY <1>1 DEF IInv, SemOK, JobsOK
<1>3. SemOK'
  BY <1>1, UnlockSem DEF IInv, Holding
<1>4. Shape(hdr)' /\ FreeOK' /\ HighOK' /\ Sized'
  BY <1>1, <1>2, QuietOK
<1>5. JobFits("move", job[t], hdr, live)
  <2>1. JobFits("in", job[t], hdr, live)
    BY <1>1 DEF IInv, JobsOK
  <2> QED BY <2>1, <1>1 DEF JobFits
<1>6. JobsOK' /\ RegionsOK' /\ OwnedOK'
  BY <1>1, <1>2, <1>5, SameOK DEF Owner
<1> QED BY <1>3, <1>4, <1>6 DEF IInv

LEMMA MoveStep ==
  ASSUME IInv, NEW t \in Thread, Move(t)
  PROVE  IInv'
<1>1. /\ stage[t] = "move" /\ UNCHANGED <<heapVars, live>>
      /\ UNCHANGED heapVars /\ hdr' = hdr /\ live' = live
  BY DEF Move, heapVars
<1>2. JobFits("move", job[t], hdr, live) /\ job[t] \in JobType
  BY <1>1 DEF IInv, JobsOK
<1>3. CASE TakeLock(t, [job[t] EXCEPT !.fn = "move"])
  <2> DEFINE j == [job[t] EXCEPT !.fn = "move"]
  <2>1. /\ j \in JobType /\ j.fn = "move" /\ j.size = job[t].size
        /\ j.at = job[t].at /\ j.new = job[t].new
    BY <1>2 DEF JobType, Working
  <2> HIDE DEF j
  <2>2. JobFits("in", j, hdr, live) /\ Claims(j) = Claims(job[t])
    BY <1>2, <2>1 DEF JobFits, Working, Claims
  <2> QED BY <1>1, <1>3, <2>1, <2>2, EnterStep DEF j
<1>4. CASE Done(t) /\ UNCHANGED semVars
  <2>1. /\ job' \in [Thread -> JobType] /\ job'[t] = NoJob /\ stage'[t] = "out"
        /\ stage' = [stage EXCEPT ![t] = "out"]
        /\ \A u \in Thread \ {t} : stage'[u] = stage[u] /\ job'[u] = job[u]
    BY <1>4, DoneOK
  <2>2. SemOK'
    BY <1>1, <1>4, <2>1, InnerSem DEF IInv, Holding, Place
  <2>3. Shape(hdr)' /\ FreeOK' /\ HighOK' /\ Sized'
    BY <1>1, <2>1, QuietOK
  <2>4. \A x \in Blocks : ~Owner(x, t)
    BY <1>1, <1>2 DEF JobFits, Owner
  <2>5. JobsOK' /\ RegionsOK' /\ OwnedOK'
    BY <1>1, <2>1, <2>4, NoJobOK, NoJobFits, SameOK
  <2> QED BY <2>2, <2>3, <2>5 DEF IInv
<1> QED BY <1>3, <1>4 DEF Move

-----------------------------------------------------------------------------
(* What the steps that change blocks do to the ring. *)

\* rt_memheap_alloc takes free block p whole.
TakenWhole(h, p, g) ==
  /\ Shape(g) /\ DOMAIN g = DOMAIN h /\ g[p].used
  /\ \A x \in DOMAIN h \ {p} : g[x].used = h[x].used
  /\ \A x \in DOMAIN h : g[x].next = h[x].next

LEMMA TakenRing ==
  ASSUME NEW h, Shape(h), NEW p \in DOMAIN h \ {End}, ~h[p].used
  PROVE  TakenWhole(h, p, Mark(h, p, TRUE))
<1> DEFINE g == Mark(h, p, TRUE)
<1>1. /\ Typed(g) /\ Ring(g) /\ DOMAIN g = DOMAIN h /\ g[p].used = TRUE
      /\ \A x \in DOMAIN h \ {p} : g[x].used = h[x].used
      /\ \A x \in DOMAIN h : g[x].next = h[x].next
  <2>1. Typed(h) /\ Ring(h) /\ p \in DOMAIN h \ {End} /\ TRUE \in BOOLEAN
    BY DEF Shape
  <2>2. Marked(h, p, TRUE, g)
    BY ONLY <2>1, MarkOK DEF g
  <2> QED BY <2>2 DEF Marked
<1> HIDE DEF g
<1>2. ASSUME NEW x \in DOMAIN g \ {End}, ~g[x].used PROVE g[g[x].next].used
  <2>1. x \in DOMAIN h \ {End, p} /\ ~h[x].used /\ g[x].next = h[x].next
    BY <1>1, <1>2
  <2>2. h[x].next \in DOMAIN h /\ h[h[x].next].used
    BY <2>1 DEF Shape, Ring
  <2> QED BY <2>1, <2>2, <1>1
<1>3. Shape(g)
  BY <1>1, <1>2 DEF Shape
<1> QED BY <1>1, <1>3 DEF g, TakenWhole

\* Or its front, and what is left becomes a free block at q.
SplitIn(h, p, q, g) ==
  /\ Shape(g) /\ DOMAIN g = DOMAIN h \cup {q} /\ q \in 0..End
  /\ q \notin DOMAIN h /\ q # End /\ p # q
  /\ g[p].used /\ g[p].next = q /\ ~g[q].used /\ g[q].next = h[p].next
  /\ \A x \in DOMAIN h \ {p} : g[x].used = h[x].used /\ g[x].next = h[x].next

LEMMA SplitRing ==
  ASSUME NEW h, Shape(h), NEW p \in DOMAIN h \ {End}, ~h[p].used, NEW q \in Nat,
         p + Hdr <= q, q + Hdr <= h[p].next, q % Unit = 0,
         NEW g, g = Mark(Cut(h, p, q), p, TRUE)
  PROVE  SplitIn(h, p, q, g)
<1> DEFINE c == Cut(h, p, q)
<1>1. /\ Typed(c) /\ Ring(c) /\ DOMAIN c = DOMAIN h \cup {q} /\ q \notin DOMAIN h
      /\ p < q /\ q \in 0..End /\ q # End /\ c[p].next = q
      /\ ~c[q].used /\ c[q].next = h[p].next
      /\ \A x \in DOMAIN h \ {p} : c[x].used = h[x].used /\ c[x].next = h[x].next
  <2>1. /\ Typed(h) /\ Ring(h) /\ p \in DOMAIN h \ {End} /\ q \in Nat
        /\ p + Hdr <= q /\ q + Hdr <= h[p].next
    BY DEF Shape
  <2>2. IsCut(h, p, q, c)
    BY ONLY <2>1, CutOK DEF c
  <2> HIDE DEF c
  <2> QED BY <2>2 DEF IsCut
<1> HIDE DEF c
<1>2. p # q /\ p \in DOMAIN c \ {End}
  BY <1>1 DEF Shape, Typed
<1>3. /\ Typed(g) /\ Ring(g) /\ DOMAIN g = DOMAIN c /\ g[p].used = TRUE
      /\ \A x \in DOMAIN c \ {p} : g[x].used = c[x].used
      /\ \A x \in DOMAIN c : g[x].next = c[x].next
  <2>1. Typed(c) /\ Ring(c) /\ p \in DOMAIN c \ {End} /\ TRUE \in BOOLEAN
    BY <1>1, <1>2
  <2>2. g = Mark(c, p, TRUE)
    BY DEF c
  <2>3. Marked(c, p, TRUE, g)
    BY ONLY <2>1, <2>2, MarkOK
  <2> QED BY <2>3 DEF Marked
<1>4. /\ ~g[q].used /\ g[q].next = h[p].next
      /\ \A x \in DOMAIN h \ {p} : g[x].used = h[x].used /\ g[x].next = h[x].next
  <2>1. q \in DOMAIN c \ {p} /\ DOMAIN h \ {p} \subseteq DOMAIN c \ {p}
    BY <1>1, <1>2
  <2>2. g[q].used = c[q].used /\ g[q].next = c[q].next
    BY <2>1, <1>3
  <2>3. \A x \in DOMAIN h \ {p} : g[x].used = c[x].used /\ g[x].next = c[x].next
    BY <2>1, <1>3
  <2> QED BY <2>2, <2>3, <1>1
<1>5. ASSUME NEW x \in DOMAIN g \ {End}, ~g[x].used PROVE g[g[x].next].used
  <2> DEFINE o == IF x = q THEN p ELSE x
  <2>1. o \in DOMAIN h \ {End} /\ ~h[o].used /\ g[x].next = h[o].next
    BY <1>1, <1>3, <1>4, <1>5
  <2>2. h[o].next \in DOMAIN h /\ h[h[o].next].used
    BY <2>1 DEF Shape, Ring
  <2> QED BY <2>1, <2>2, <1>3, <1>4
<1>6. \A x \in DOMAIN g : x % Unit = 0
  BY <1>1, <1>3 DEF Shape
<1>7. Shape(g)
  BY <1>3, <1>5, <1>6 DEF Shape
<1> QED BY <1>1, <1>2, <1>3, <1>4, <1>7 DEF SplitIn

\* rt_memheap_realloc moves the border between block p and the free one, b.
Expanded(h, p, b, q, g) ==
  /\ Shape(g) /\ DOMAIN g = (DOMAIN h \ {b}) \cup {q} /\ q \in 0..End
  /\ q \notin DOMAIN h \ {b} /\ q # End /\ b \in DOMAIN h
  /\ p # q /\ p # b
  /\ g[p].used /\ g[p].next = q /\ ~g[q].used /\ g[q].next = h[b].next
  /\ \A x \in DOMAIN h \ {p, b} : g[x].used = h[x].used /\ g[x].next = h[x].next

LEMMA ExpandedRing ==
  ASSUME NEW h, Shape(h), NEW p \in DOMAIN h \ {End}, h[p].used,
         NEW b, b = h[p].next, ~h[b].used, NEW q \in Nat,
         p + Hdr <= q, q + Hdr <= h[b].next, q % Unit = 0,
         NEW g, g = Cut(Merge(h, p), p, q)
  PROVE  Expanded(h, p, b, q, g)
<1> DEFINE m == Merge(h, p)
<1>1. b # End /\ Typed(h) /\ Ring(h)
  BY DEF Shape, Ring
<1>2. /\ Typed(m) /\ Ring(m) /\ DOMAIN m = DOMAIN h \ {b}
      /\ p < b /\ b \in DOMAIN h /\ b < h[b].next
      /\ \A x \in DOMAIN h \ {b} : m[x].used = h[x].used
      /\ \A x \in DOMAIN h \ {p, b} : m[x].next = h[x].next
      /\ m[p].next = h[b].next
  <2>1. /\ Typed(h) /\ Ring(h) /\ p \in DOMAIN h \ {End}
        /\ b = h[p].next /\ b # End
    BY <1>1
  <2>2. Merged(h, p, b, m)
    BY ONLY <2>1, MergeOK DEF m
  <2> HIDE DEF m
  <2> QED BY <2>2 DEF Merged
<1> HIDE DEF m
<1>3. p # b /\ p \in DOMAIN m \ {End} /\ \A x \in DOMAIN h : x \in 0..End
  BY <1>1, <1>2 DEF Typed
<1>4. /\ Typed(g) /\ Ring(g) /\ DOMAIN g = DOMAIN m \cup {q} /\ q \notin DOMAIN m
      /\ p < q /\ q \in 0..End /\ q # End
      /\ g[p].used = m[p].used /\ g[p].next = q
      /\ ~g[q].used /\ g[q].next = m[p].next
      /\ \A x \in DOMAIN m \ {p} : g[x].used = m[x].used /\ g[x].next = m[x].next
  <2>1. /\ Typed(m) /\ Ring(m) /\ p \in DOMAIN m \ {End} /\ q \in Nat
        /\ p + Hdr <= q /\ q + Hdr <= m[p].next
    BY <1>2, <1>3
  <2>2. g = Cut(m, p, q)
    BY DEF m
  <2>3. IsCut(m, p, q, g)
    BY ONLY <2>1, <2>2, CutOK
  <2> QED BY <2>3 DEF IsCut
<1>5. p # q
  BY <1>3, <1>4
<1>6. /\ g[p].used /\ g[q].next = h[b].next
      /\ \A x \in DOMAIN h \ {p, b} : g[x].used = h[x].used /\ g[x].next = h[x].next
  BY <1>2, <1>3, <1>4
<1>7. h[b].next \in DOMAIN h /\ h[h[b].next].used
  BY <1>1, <1>2 DEF Shape, Ring
<1>8. ASSUME NEW x \in DOMAIN g \ {End}, ~g[x].used PROVE g[g[x].next].used
  <2> DEFINE o == IF x = q THEN b ELSE x
  <2>1. o \in DOMAIN h \ {End} /\ ~h[o].used /\ g[x].next = h[o].next
    BY <1>1, <1>2, <1>4, <1>6, <1>8
  <2>2. h[o].next \in DOMAIN h /\ h[h[o].next].used
    BY <2>1 DEF Shape, Ring
  <2>3. h[o].next # b /\ g[h[o].next].used
    BY <2>2, <1>6
  <2> QED BY <2>1, <2>3
<1>9. \A x \in DOMAIN g : x % Unit = 0
  BY <1>2, <1>4 DEF Shape
<1>10. Shape(g)
  BY <1>4, <1>8, <1>9 DEF Shape
<1> QED BY <1>1, <1>2, <1>3, <1>4, <1>5, <1>6, <1>10 DEF Expanded

\* rt_memheap_realloc cuts the end off block p, and a free block behind joins.
ShrunkIn(h, p, b, q, g) ==
  /\ Shape(g) /\ q \in 0..End /\ q \notin DOMAIN h /\ q # End /\ p # q
  /\ b \in DOMAIN h /\ p # b /\ q < b
  /\ DOMAIN g = (IF h[b].used THEN DOMAIN h ELSE DOMAIN h \ {b}) \cup {q}
  /\ g[p].used /\ g[p].next = q /\ ~g[q].used
  /\ g[q].next = IF h[b].used THEN b ELSE h[b].next
  /\ \A x \in DOMAIN g \ {p, q} : g[x].used = h[x].used /\ g[x].next = h[x].next

LEMMA ShrunkRing ==
  ASSUME NEW h, Shape(h), NEW p \in DOMAIN h \ {End}, h[p].used,
         NEW b, b = h[p].next, NEW q \in Nat,
         p + Hdr <= q, q + Hdr <= h[p].next, q % Unit = 0,
         NEW g, g = IF h[b].used THEN Cut(h, p, q) ELSE Merge(Cut(h, p, q), q)
  PROVE  ShrunkIn(h, p, b, q, g)
<1> DEFINE c == Cut(h, p, q)
<1>1. /\ Typed(c) /\ Ring(c) /\ DOMAIN c = DOMAIN h \cup {q} /\ q \notin DOMAIN h
      /\ p < q /\ q \in 0..End /\ q # End
      /\ c[p].used /\ c[p].next = q /\ ~c[q].used /\ c[q].next = b
      /\ \A x \in DOMAIN h \ {p} : c[x].used = h[x].used /\ c[x].next = h[x].next
  <2>1. /\ Typed(h) /\ Ring(h) /\ p \in DOMAIN h \ {End} /\ q \in Nat
        /\ p + Hdr <= q /\ q + Hdr <= h[p].next
    BY DEF Shape
  <2>2. IsCut(h, p, q, c)
    BY ONLY <2>1, CutOK DEF c
  <2> HIDE DEF c
  <2> QED BY <2>2 DEF IsCut
<1> HIDE DEF c
<1>2. /\ b \in DOMAIN h /\ p \in 0..End /\ b \in 0..End /\ b # q
      /\ \A x \in DOMAIN h : x # p /\ ~h[x].used /\ x # End =>
           h[x].next \in DOMAIN h /\ h[h[x].next].used
  <2>1. Typed(h) /\ Ring(h)
    BY DEF Shape
  <2>2. \A x \in DOMAIN h : x \in 0..End /\ h[x].next \in DOMAIN h
    BY <2>1 DEF Typed, Ring
  <2>3. b \in DOMAIN h /\ b # q
    BY <2>2, <1>1
  <2> QED BY <2>2, <2>3 DEF Shape
<1>3. q < b
  BY <1>1, <1>2, SizesOK
<1>4. p # q /\ p # b
  BY <1>1, <1>2, <1>3
<1>5. /\ Typed(g) /\ Ring(g)
      /\ DOMAIN g = (IF h[b].used THEN DOMAIN h ELSE DOMAIN h \ {b}) \cup {q}
      /\ g[p].used /\ g[p].next = q /\ ~g[q].used
      /\ g[q].next = IF h[b].used THEN b ELSE h[b].next
      /\ \A x \in DOMAIN g \ {p, q} : g[x].used = h[x].used /\ g[x].next = h[x].next
  <2>1. CASE h[b].used
    <3>1. g = c
      BY <2>1 DEF c
    <3> QED BY <3>1, <2>1, <1>1
  <2>2. CASE ~h[b].used
    <3>1. g = Merge(c, q) /\ b # End
      BY <2>2 DEF c, Shape, Ring
    <3>2. q \in DOMAIN c \ {End} /\ b = c[q].next
      BY <1>1
    <3>3. /\ Typed(g) /\ Ring(g) /\ DOMAIN g = DOMAIN c \ {b}
          /\ \A x \in DOMAIN c \ {b} : g[x].used = c[x].used
          /\ \A x \in DOMAIN c \ {q, b} : g[x].next = c[x].next
          /\ g[q].next = c[b].next
      <4>1. /\ Typed(c) /\ Ring(c) /\ q \in DOMAIN c \ {End}
            /\ b = c[q].next /\ b # End
        BY <3>1, <3>2, <1>1
      <4>2. Merged(c, q, b, g)
        BY ONLY <3>1, <4>1, MergeOK
      <4> QED BY <4>2 DEF Merged
    <3>4. c[b].next = h[b].next
      BY <1>1, <1>2, <1>4
    <3>5. DOMAIN g = (DOMAIN h \ {b}) \cup {q}
      BY <3>3, <1>1, <1>2
    <3> QED BY <3>3, <3>4, <3>5, <2>2, <1>1, <1>2, <1>4
  <2> QED BY <2>1, <2>2
<1>6. ASSUME NEW x \in DOMAIN g \ {End}, ~g[x].used PROVE g[g[x].next].used
  <2>1. CASE x = q
    <3>1. CASE h[b].used
      <4>1. b \in DOMAIN g \ {p, q}
        BY <3>1, <1>2, <1>4, <1>5
      <4> QED BY <4>1, <3>1, <2>1, <1>5
    <3>2. CASE ~h[b].used
      <4>1. b # End
        BY <3>2 DEF Shape, Ring
      <4>2. h[b].next \in DOMAIN h /\ h[h[b].next].used /\ h[b].next \in 0..End
        BY <4>1, <3>2, <1>2, <1>4 DEF Shape, Typed
      <4>3. b < h[b].next
        <5>1. b + Hdr <= h[b].next
          BY <4>1, <1>2 DEF Shape, Ring
        <5> QED BY <5>1, <4>2, <1>2, SizesOK
      <4>4. h[b].next \in DOMAIN g \ {p, q}
        BY <4>2, <4>3, <3>2, <1>1, <1>2, <1>3, <1>5
      <4> QED BY <4>2, <4>4, <3>2, <2>1, <1>5
    <3> QED BY <3>1, <3>2
  <2>2. CASE x # q
    <3>1. x \in DOMAIN h \ {End, p} /\ ~h[x].used /\ g[x].next = h[x].next
      BY <2>2, <1>5, <1>6
    <3>2. h[x].next \in DOMAIN h /\ h[h[x].next].used
      BY <3>1, <1>2
    <3>3. h[x].next \in DOMAIN g \ {q}
      BY <3>2, <1>1, <1>5
    <3> QED BY <3>1, <3>2, <3>3, <1>5
  <2> QED BY <2>1, <2>2
<1>7. \A x \in DOMAIN g : x % Unit = 0
  BY <1>5 DEF Shape
<1>8. Shape(g)
  BY <1>5, <1>6, <1>7 DEF Shape
<1> QED BY <1>1, <1>2, <1>3, <1>4, <1>5, <1>8 DEF ShrunkIn

\* rt_memheap_free: block p becomes free and joins the free blocks around it.
FreedLeft(h, p) ==
  IF h[h[p].prev].used THEN Mark(h, p, FALSE)
  ELSE Merge(Mark(h, p, FALSE), h[p].prev)

Keeper(h, p) == IF h[h[p].prev].used THEN p ELSE h[p].prev

Freed(h, p) ==
  LET g == FreedLeft(h, p)
      k == Keeper(h, p)
  IN  IF NextFree(g, k) THEN Merge(g, k) ELSE g

FreedIn(h, p, b, k, g) ==
  /\ Shape(g) /\ b \in DOMAIN h /\ p # b
  /\ k \in DOMAIN h /\ (k = p \/ ~h[k].used)
  /\ DOMAIN g = (DOMAIN h \ (IF k = p THEN {} ELSE {p}))
                  \ (IF h[b].used THEN {} ELSE {b})
  /\ k = p => ~g[p].used
  /\ k = p <=> h[h[p].prev].used
  /\ FreedLeft(h, p)[k].next = b
  /\ NextFree(FreedLeft(h, p), k) <=> ~h[b].used
  /\ \A x \in DOMAIN g \ {p} : g[x].used = h[x].used
  /\ \A x \in DOMAIN g \ {k} : g[x].next = h[x].next
  /\ g[k].next = IF h[b].used THEN b ELSE h[b].next

LEMMA FreedRing ==
  ASSUME NEW h, Shape(h), NEW p \in DOMAIN h \ {End}, h[p].used,
         NEW b, b = h[p].next, NEW k, k = Keeper(h, p), NEW g, g = Freed(h, p)
  PROVE  FreedIn(h, p, b, k, g)
<1> DEFINE l == h[p].prev
           m == Mark(h, p, FALSE)
           f == FreedLeft(h, p)
<1>1. /\ \A x \in DOMAIN h : x \in 0..End /\ h[x].next \in DOMAIN h
      /\ l \in DOMAIN h /\ h[l].next = p /\ b \in DOMAIN h /\ h[b].prev = p
      /\ h[End].used /\ Typed(h) /\ Ring(h)
      /\ \A x \in DOMAIN h \ {End} : ~h[x].used => h[h[x].next].used
      /\ \A x \in DOMAIN h \ {End} : x < h[x].next
      /\ \A x \in DOMAIN h : h[h[x].next].prev = x
  <2>1. Typed(h) /\ Ring(h)
    BY DEF Shape
  <2>2. \A x \in DOMAIN h : x \in 0..End /\ h[x].next \in DOMAIN h
    BY <2>1 DEF Typed, Ring
  <2>3. \A x \in DOMAIN h \ {End} : x < h[x].next
    <3> SUFFICES ASSUME NEW x \in DOMAIN h \ {End} PROVE x < h[x].next
      OBVIOUS
    <3>1. x + Hdr <= h[x].next
      BY <2>1 DEF Ring
    <3>2. x \in 0..End /\ h[x].next \in 0..End
      BY <2>2
    <3> QED BY <3>1, <3>2, SizesOK
  <2>4. /\ l \in DOMAIN h /\ h[l].next = p /\ b \in DOMAIN h /\ h[b].prev = p
        /\ h[End].used
        /\ \A x \in DOMAIN h : h[h[x].next].prev = x
    BY <2>1 DEF Ring
  <2> QED BY <2>1, <2>2, <2>3, <2>4 DEF Shape
<1>2. p # b /\ p \in 0..End /\ b \in 0..End /\ p < b
  BY <1>1
<1>3. /\ Typed(m) /\ Ring(m) /\ DOMAIN m = DOMAIN h /\ m[p].used = FALSE
      /\ \A x \in DOMAIN h \ {p} : m[x].used = h[x].used
      /\ \A x \in DOMAIN h : m[x].next = h[x].next
  <2>1. Typed(h) /\ Ring(h) /\ p \in DOMAIN h \ {End} /\ FALSE \in BOOLEAN
    BY <1>1
  <2>2. Marked(h, p, FALSE, m)
    BY ONLY <2>1, MarkOK DEF m
  <2> HIDE DEF m
  <2> QED BY <2>2 DEF Marked
<1> HIDE DEF m
<1>4. /\ k \in DOMAIN h /\ k # End /\ (k = p \/ ~h[k].used)
      /\ k = p <=> h[l].used
      /\ k # p => k = l
  BY <1>1 DEF Keeper
<1>5. /\ Typed(f) /\ Ring(f)
      /\ DOMAIN f = DOMAIN h \ (IF k = p THEN {} ELSE {p})
      /\ \A x \in DOMAIN f : f[x].used = m[x].used
      /\ \A x \in DOMAIN f \ {k} : f[x].next = h[x].next
      /\ f[k].next = b
  <2>1. CASE k = p
    <3>1. f = m
      BY <2>1, <1>4 DEF FreedLeft, m
    <3> QED BY <3>1, <2>1, <1>3
  <2>2. CASE k # p
    <3>1. f = Merge(m, k) /\ k = l /\ m[k].next = p
      <4>1. k = l /\ ~h[l].used
        BY <2>2, <1>4
      <4>2. f = Merge(m, l)
        BY <4>1 DEF FreedLeft, m
      <4> QED BY <4>1, <4>2, <1>1, <1>3
    <3>2. k \in DOMAIN m \ {End} /\ p # End
      BY <1>3, <1>4
    <3>3. /\ Typed(f) /\ Ring(f) /\ DOMAIN f = DOMAIN m \ {p}
          /\ \A x \in DOMAIN m \ {p} : f[x].used = m[x].used
          /\ \A x \in DOMAIN m \ {k, p} : f[x].next = m[x].next
          /\ f[k].next = m[p].next
      <4>1. /\ Typed(m) /\ Ring(m) /\ k \in DOMAIN m \ {End}
            /\ p = m[k].next /\ p # End
        BY <3>1, <3>2, <1>3
      <4>2. Merged(m, k, p, f)
        BY ONLY <3>1, <4>1, MergeOK
      <4> HIDE DEF f
      <4> QED BY <4>2 DEF Merged
    <3> QED BY <3>3, <2>2, <1>3
  <2> QED BY <2>1, <2>2
<1>6. /\ b \in DOMAIN f /\ k \in DOMAIN f \ {End}
      /\ f[b].used = h[b].used
  BY <1>1, <1>2, <1>3, <1>4, <1>5
<1>7. NextFree(f, k) <=> ~h[b].used
  BY <1>5, <1>6 DEF NextFree
<1>8. g = IF ~h[b].used THEN Merge(f, k) ELSE f
  BY <1>7 DEF Freed
<1> HIDE DEF f
<1>9. /\ Typed(g) /\ Ring(g)
      /\ DOMAIN g = DOMAIN f \ (IF h[b].used THEN {} ELSE {b})
      /\ \A x \in DOMAIN g : g[x].used = m[x].used
      /\ \A x \in DOMAIN g \ {k} : g[x].next = h[x].next
      /\ g[k].next = IF h[b].used THEN b ELSE h[b].next
  <2>1. CASE h[b].used
    BY <2>1, <1>5, <1>8
  <2>2. CASE ~h[b].used
    <3>1. g = Merge(f, k) /\ b # End
      BY <2>2, <1>1, <1>8
    <3>2. /\ Typed(g) /\ Ring(g) /\ DOMAIN g = DOMAIN f \ {b}
          /\ k < b
          /\ \A x \in DOMAIN f \ {b} : g[x].used = f[x].used
          /\ \A x \in DOMAIN f \ {k, b} : g[x].next = f[x].next
          /\ g[k].next = f[b].next
      <4>1. /\ Typed(f) /\ Ring(f) /\ k \in DOMAIN f \ {End}
            /\ b = f[k].next /\ b # End
        BY <3>1, <1>5, <1>6
      <4>2. Merged(f, k, b, g)
        BY ONLY <3>1, <4>1, MergeOK
      <4> QED BY <4>2 DEF Merged
    <3>3. k # b /\ f[b].next = h[b].next
      BY <3>2, <1>1, <1>4, <1>5, <1>6
    <3> QED BY <3>2, <3>3, <2>2, <1>5
  <2> QED BY <2>1, <2>2
<1>10. /\ DOMAIN g = (DOMAIN h \ (IF k = p THEN {} ELSE {p}))
                       \ (IF h[b].used THEN {} ELSE {b})
       /\ k = p => ~g[p].used
       /\ \A x \in DOMAIN g \ {p} : g[x].used = h[x].used
  <2>1. k = p => p \in DOMAIN g
    BY <1>2, <1>5, <1>9
  <2> QED BY <2>1, <1>3, <1>5, <1>9
<1>11. ASSUME NEW x \in DOMAIN g \ {End}, ~g[x].used PROVE g[g[x].next].used
  <2>1. CASE x = k
    <3>1. CASE h[b].used
      <4>1. b \in DOMAIN g \ {p} /\ g[k].next = b
        BY <3>1, <1>1, <1>2, <1>9, <1>10
      <4> QED BY <4>1, <3>1, <2>1, <1>10
    <3>2. CASE ~h[b].used
      <4>1. b # End /\ h[b].next \in DOMAIN h /\ h[h[b].next].used /\ b < h[b].next
        BY <3>2, <1>1
      <4>2. h[b].next # p /\ h[b].next # b /\ h[b].next \in 0..End
        BY <4>1, <1>1, <1>2
      <4>3. h[b].next \in DOMAIN g \ {p}
        BY <4>1, <4>2, <1>10
      <4> QED BY <4>1, <4>3, <3>2, <2>1, <1>9, <1>10
    <3> QED BY <3>1, <3>2
  <2>2. CASE x # k
    <3>1. x \in DOMAIN h \ {End, p} /\ ~h[x].used /\ g[x].next = h[x].next
      BY <2>2, <1>9, <1>10, <1>11
    <3>2. h[x].next \in DOMAIN h /\ h[h[x].next].used
      BY <3>1, <1>1
    <3>3. h[x].next # p
      <4>1. h[x].next = p => x = l
        BY <3>1, <1>1
      <4>2. x # l
        BY <3>1, <2>2, <1>4
      <4> QED BY <4>1, <4>2
    <3>4. h[x].next \in DOMAIN g \ {p}
      BY <3>2, <3>3, <1>10
    <3> QED BY <3>1, <3>2, <3>4, <1>10
  <2> QED BY <2>1, <2>2
<1>12. \A x \in DOMAIN g : x % Unit = 0
  BY <1>10 DEF Shape
<1>13. Shape(g)
  BY <1>9, <1>11, <1>12 DEF Shape
<1> QED BY <1>1, <1>2, <1>4, <1>9, <1>10, <1>13, <1>5, <1>7 DEF f, FreedIn

-----------------------------------------------------------------------------
(* Steps that change blocks. *)

\* The free list, for the thread that has the lock.
LEMMA HeldList ==
  ASSUME IInv, NEW t \in Thread, stage[t] \in Holding
  PROVE  /\ \A u \in Thread \ {t} : stage[u] # "shrunk"
         /\ freeList \in Seq(0..End) /\ Once(freeList)
         /\ stage[t] = "in" => ToSet(freeList) = {x \in Blocks : ~hdr[x].used}
         /\ stage[t] = "shrunk" =>
              ToSet(freeList) = {x \in Blocks : ~hdr[x].used} \ {job[t].new}
<1>1. \A u \in Thread \ {t} : stage[u] # "shrunk"
  BY OneHolds DEF IInv, Holding
<1>2. stage[t] = "in" => Unlinked = {}
  BY <1>1 DEF Unlinked
<1>3. stage[t] = "shrunk" => Unlinked = {job[t].new}
  BY <1>1 DEF Unlinked
<1> QED BY <1>1, <1>2, <1>3 DEF IInv, FreeOK, FreeListExact

\* The free list is one, and available_size is its sum.
LEMMA FreeListed ==
  ASSUME IInv
  PROVE  /\ Typed(hdr) /\ Ring(hdr) /\ Listed(hdr, freeList) /\ Once(freeList)
         /\ available + owed = Total(Rooms(hdr), freeList)
         /\ available \in 0..PoolSize /\ maxUsed \in 0..PoolSize
<1>1. /\ Typed(hdr) /\ Ring(hdr) /\ freeList \in Seq(0..End) /\ Once(freeList)
      /\ ToSet(freeList) \subseteq {x \in DOMAIN hdr : ~hdr[x].used}
  BY DEF IInv, Shape, FreeOK, FreeListExact, Blocks
<1>2. hdr[End].used
  BY <1>1 DEF Ring
<1>3. Listed(hdr, freeList)
  BY <1>1, <1>2 DEF Listed
<1>4. /\ available \in Int /\ maxUsed \in 0..PoolSize /\ owed \in {0, Hdr, 2 * Hdr}
      /\ available + owed = Total(Rooms(hdr), freeList)
  BY DEF IInv, HighOK, Sized, OwedOK
<1>5. Total(Rooms(hdr), freeList) \in 0..PoolSize
  BY <1>1, <1>3, SumBounded
<1>6. owed # 0 => maxUsed >= PoolSize - available
  <2> SUFFICES ASSUME owed # 0 PROVE maxUsed >= PoolSize - available
    OBVIOUS
  <2>1. PICK u \in Thread : stage[u] = "adds"
    BY DEF IInv, Sized, OwedOK
  <2>2. \A v \in Thread : stage[v] # "shrunk"
    BY <2>1, OneHolds DEF IInv, Holding
  <2> QED BY <2>2 DEF IInv, HighOK
<1>7. available \in 0..PoolSize
  <2>1. PoolSize \in Nat /\ Hdr \in Nat
    BY SizesOK
  <2> QED BY ONLY <2>1, <1>4, <1>5, <1>6
<1> QED BY <1>1, <1>3, <1>4, <1>7

\* The list is what it shall be again, when no block is left out of it.
LEMMA LinkedOK ==
  ASSUME NEW t \in Thread, stage'[t] # "shrunk",
         \A u \in Thread \ {t} : stage[u] # "shrunk" /\ stage'[u] = stage[u],
         freeList' \in Seq(0..End), Once(freeList'),
         ToSet(freeList') = {x \in DOMAIN hdr' : ~hdr'[x].used}
  PROVE  FreeOK' /\ \A u \in Thread : stage'[u] # "shrunk"
<1>1. Unlinked' = {} /\ \A u \in Thread : stage'[u] # "shrunk"
  BY DEF Unlinked
<1> QED BY <1>1 DEF FreeOK, FreeListExact, Blocks, End

\* The sizes after a block was taken out of the list.
LEMMA SizedAfter ==
  ASSUME IInv, Typed(hdr)', Ring(hdr)', Listed(hdr', freeList'), Once(freeList'),
         available' = Total(Rooms(hdr'), freeList'), maxUsed' = Used(available'),
         NEW t \in Thread, stage[t] = "in", stage'[t] # "adds", owed' = owed,
         \A u \in Thread \ {t} : stage'[u] = stage[u]
  PROVE  Sized'
<1>1. available' \in 0..PoolSize
  BY SumBounded
<1>2. maxUsed \in 0..PoolSize
  BY DEF IInv, Sized
<1>3. maxUsed' \in 0..PoolSize
  BY <1>1, <1>2, SizesOK DEF Used
<1>4. OwedOK' /\ owed' = 0
  BY NoneOwed, OwedKept
<1>5. available' + owed' = Total(Rooms(hdr'), freeList')
  BY <1>1, <1>4
<1> QED BY <1>3, <1>4, <1>5 DEF Sized

\* The sizes, when more is free, or as much as is new in max_used_size.
LEMMA HighAfter ==
  ASSUME \A u \in Thread : stage'[u] # "shrunk", NEW a \in Int, available' = a,
         available \in Int, maxUsed \in Int,
         \/ maxUsed' = Used(a)
         \/ maxUsed' = maxUsed /\ a >= available /\ maxUsed >= PoolSize - available
  PROVE  HighOK'
<1>1. maxUsed' \in Int /\ maxUsed' >= PoolSize - a
  BY SizesOK DEF Used
<1> QED BY <1>1 DEF HighOK

LEMMA ShrunkStep ==
  ASSUME IInv, NEW t \in Thread, Shrunk(t)
  PROVE  IInv'
<1> DEFINE q == job[t].new
<1>1. /\ stage[t] = "shrunk" /\ freeList' = <<q>> \o freeList
      /\ available' = available + Room(q) /\ Done(t) /\ Unlock
      /\ hdr' = hdr /\ maxUsed' = maxUsed /\ live' = live /\ Blocks' = Blocks
      /\ owed' = owed
  BY DEF Shrunk, Blocks
<1>2. /\ job' \in [Thread -> JobType] /\ job'[t] = NoJob /\ stage'[t] = "out"
      /\ stage' = [stage EXCEPT ![t] = "out"]
      /\ \A u \in Thread \ {t} : stage'[u] = stage[u] /\ job'[u] = job[u]
  BY <1>1, DoneOK
<1>3. SemOK'
  BY <1>1, <1>2, UnlockSem DEF IInv, Holding
<1>4. JobFits("shrunk", job[t], hdr, live)
  BY <1>1 DEF IInv, JobsOK
<1>5. q \in Blocks \ {End} /\ ~hdr[q].used /\ q \in 0..End /\ job[t].fn = "shrink"
  BY <1>4 DEF JobFits, Blocks, IInv, Shape, Typed
<1>6. /\ \A u \in Thread \ {t} : stage[u] # "shrunk"
      /\ freeList \in Seq(0..End) /\ Once(freeList)
      /\ ToSet(freeList) = {x \in Blocks : ~hdr[x].used} \ {q}
  BY <1>1, HeldList DEF Holding
<1>7. q \notin ToSet(freeList)
  BY <1>6
<1>8. /\ freeList' \in Seq(0..End) /\ Once(freeList')
      /\ ToSet(freeList') = ToSet(freeList) \cup {q}
  <2>1. freeList \in Seq(0..End) /\ q \in 0..End /\ Once(freeList) /\ q \notin ToSet(freeList)
    BY <1>5, <1>6, <1>7
  <2>2. Prepended(0..End, freeList, q, <<q>> \o freeList)
    BY ONLY <2>1, PrependOK
  <2> QED BY <2>2, <1>1 DEF Prepended
<1>9. ToSet(freeList') = {x \in DOMAIN hdr' : ~hdr'[x].used}
  BY <1>1, <1>5, <1>6, <1>8 DEF Blocks
<1>10. FreeOK' /\ \A u \in Thread : stage'[u] # "shrunk"
  BY <1>2, <1>6, <1>8, <1>9, LinkedOK
<1>11. HighOK'
  <2>1. /\ available \in Int /\ maxUsed \in Int
        /\ maxUsed >= PoolSize - available - Room(q)
    BY <1>1 DEF IInv, HighOK
  <2>2. Room(q) \in Int
    <3>1. hdr[q].next \in 0..End
      BY <1>5 DEF IInv, Shape, Typed, Header, Blocks
    <3> QED BY <3>1, <1>5, SizesOK DEF Room
  <2> HIDE DEF q
  <2>3. maxUsed' \in Int /\ available' \in Int /\ maxUsed' >= PoolSize - available'
    BY <2>1, <2>2, <1>1, SizesOK
  <2> QED BY <2>3, <1>10 DEF HighOK
<1>12. Shape(hdr)'
  BY <1>1 DEF IInv
<1>13. JobsOK' /\ RegionsOK' /\ OwnedOK'
  BY <1>1, <1>2, <1>5, NoJobOK, NoJobFits, SameOK DEF Owner
<1>14. Sized'
  <2>1. /\ Typed(hdr) /\ Ring(hdr) /\ Listed(hdr, freeList) /\ Once(freeList)
        /\ available = Total(Rooms(hdr), freeList) /\ maxUsed \in 0..PoolSize
        /\ available \in 0..PoolSize /\ owed = 0
    BY <1>1, FreeListed, NoneOwed
  <2>2. \A x \in ToSet(freeList) : x \in DOMAIN hdr /\ hdr[x].next = hdr[x].next
    BY <2>1 DEF Listed
  <2>3. q \in DOMAIN hdr \ {End}
    BY <1>5 DEF Blocks
  <2>4. Total(Rooms(hdr), <<q>> \o freeList)
          = hdr[q].next - (q + Hdr) + Total(Rooms(hdr), freeList)
    BY <2>1, <2>2, <2>3, SumLink
  <2>5. Room(q) = hdr[q].next - (q + Hdr) /\ Room(q) \in Int
    BY <2>1, <2>3, RoomsOK, SizesOK DEF Room
  <2>6. available' \in Int /\ available' = Total(Rooms(hdr), freeList')
    BY <1>1, <2>1, <2>4, <2>5
  <2>7. OwedOK' /\ available' + owed' = available'
    BY <1>1, <1>2, <2>1, <2>6, OwedKept
  <2> QED BY <1>1, <2>1, <2>6, <2>7 DEF Sized
<1> QED BY <1>3, <1>10, <1>11, <1>12, <1>13, <1>14 DEF IInv

\* The block rt_memheap_alloc found, and what the ring is after.
LEMMA Found ==
  ASSUME IInv, NEW t \in Thread, Carve(t),
         NEW n, n = job[t].size, NEW p, p = freeList[FirstFit(n)]
  PROVE  /\ n \in Granted /\ n \in Nat /\ n % Unit = 0
         /\ p \in Blocks \ {End} /\ p \in 0..End /\ p \in ToSet(freeList)
         /\ ~hdr[p].used /\ Room(p) >= n /\ stage[t] = "in"
         /\ p % Unit = 0 /\ hdr[p].next \in 0..End
         /\ ToSet(freeList) = {x \in Blocks : ~hdr[x].used}
<1>1. stage[t] = "in" /\ job[t].fn \in {"alloc", "move"} /\ FirstFit(n) # 0
  BY DEF Carve, Searches, At
<1>2. n \in Granted
  <2>1. JobFits("in", job[t], hdr, live)
    BY <1>1 DEF IInv, JobsOK
  <2> QED BY <2>1, <1>1 DEF JobFits, Working
<1>3. /\ freeList \in Seq(0..End)
      /\ ToSet(freeList) = {x \in Blocks : ~hdr[x].used}
  BY <1>1, HeldList DEF Holding
<1>4. FirstFit(n) \in DOMAIN freeList /\ Room(freeList[FirstFit(n)]) >= n
  BY <1>1, <1>3, FirstFitOK
<1>5. p \in ToSet(freeList) /\ Room(p) >= n
  BY <1>4 DEF ToSet
<1>6. p \in Blocks \ {End} /\ ~hdr[p].used
  <2>1. hdr[End].used
    BY DEF IInv, Shape, Ring
  <2> QED BY <2>1, <1>3, <1>5
<1>7. p \in 0..End /\ p % Unit = 0 /\ hdr[p].next \in 0..End
  BY <1>6 DEF IInv, Shape, Typed, Header, Blocks
<1> QED BY <1>1, <1>2, <1>3, <1>5, <1>6, <1>7, GrantedOK

\* Block p is in use, and the others are as they were.
TakenIn(h, p, n, g, fl) ==
  /\ Shape(g) /\ p \in DOMAIN g /\ g[p].used /\ n <= g[p].next - (p + Hdr)
  /\ \A x \in DOMAIN h \ {p} : x \in DOMAIN g /\ g[x].used = h[x].used
                               /\ g[x].next = h[x].next
  /\ \A x \in DOMAIN g \ {p} : g[x].used => x \in DOMAIN h /\ h[x].used
  /\ fl \in Seq(0..End) /\ Once(fl)
  /\ ToSet(fl) = {x \in DOMAIN g : ~g[x].used}

LEMMA CarveBlocks ==
  ASSUME IInv, NEW t \in Thread, Carve(t),
         NEW n, n = job[t].size, NEW p, p = freeList[FirstFit(n)]
  PROVE  /\ TakenIn(hdr, p, n, hdr', freeList')
         /\ available' = Total(Rooms(hdr'), freeList')
         /\ \E a \in Int : available' = a /\ maxUsed' = Used(a)
<1>1. /\ n \in Granted /\ n \in Nat /\ n % Unit = 0
      /\ p \in Blocks \ {End} /\ p \in 0..End /\ p \in ToSet(freeList)
      /\ ~hdr[p].used /\ Room(p) >= n /\ stage[t] = "in"
      /\ p % Unit = 0 /\ hdr[p].next \in 0..End
      /\ ToSet(freeList) = {x \in Blocks : ~hdr[x].used}
  BY Found
<1> DEFINE q == p + Hdr + n
<1>2. /\ freeList \in Seq(0..End) /\ Once(freeList) /\ Shape(hdr)
      /\ available \in Int /\ Room(p) \in Int
  <2>1. freeList \in Seq(0..End) /\ Once(freeList)
    BY <1>1, HeldList DEF Holding
  <2>2. Shape(hdr) /\ available \in Int
    BY DEF IInv, HighOK
  <2>3. Room(p) \in Int
    BY <1>1, SizesOK DEF Room
  <2> QED BY <2>1, <2>2, <2>3
<1>3. /\ hdr' = [(IF Splits(p, n) THEN Cut(hdr, p, q) ELSE hdr) EXCEPT ![p].used = TRUE]
      /\ freeList' = IF Splits(p, n) THEN LinkFirst(freeList, p, q)
                     ELSE Without(freeList, p)
      /\ available' = IF Splits(p, n) THEN available - n - Hdr ELSE available - Room(p)
      /\ maxUsed' = Used(available')
  BY DEF Carve
<1>4. available' \in Int
  <2> DEFINE m == Room(p)
  <2>1. n \in Int /\ Hdr \in Int /\ m \in Int /\ available \in Int
    BY <1>1, <1>2, SizesOK
  <2> HIDE DEF m
  <2>2. available - n - Hdr \in Int /\ available - m \in Int
    BY ONLY <2>1
  <2> QED BY <2>2, <1>3 DEF m
<1>5. CASE Splits(p, n)
  <2>1. hdr' = Mark(Cut(hdr, p, q), p, TRUE) /\ freeList' = LinkFirst(freeList, p, q)
    BY <1>3, <1>5 DEF Mark
  <2>2. q \in Nat /\ p + Hdr <= q /\ q + Hdr <= hdr[p].next
    BY <1>1, <1>5, SizesOK DEF Splits, Room
  <2>3. q % Unit = 0
    <3>1. p + Hdr \in Nat /\ (p + Hdr) % Unit = 0
      BY <1>1, SizesOK, SumOK, MemHeapAssumption
    <3> QED BY <3>1, <1>1, SumOK
  <2> HIDE DEF q
  <2>4. SplitIn(hdr, p, q, hdr')
    <3>1. /\ Shape(hdr) /\ p \in DOMAIN hdr \ {End} /\ ~hdr[p].used /\ q \in Nat
          /\ p + Hdr <= q /\ q + Hdr <= hdr[p].next /\ q % Unit = 0
      BY <1>1, <1>2, <2>2, <2>3 DEF Blocks
    <3> QED BY ONLY <3>1, <2>1, SplitRing
  <2>5. /\ Shape(hdr') /\ DOMAIN hdr' = DOMAIN hdr \cup {q} /\ q \in 0..End
        /\ q \notin DOMAIN hdr /\ q # End /\ p # q
        /\ hdr'[p].used /\ hdr'[p].next = q /\ ~hdr'[q].used
        /\ \A x \in DOMAIN hdr \ {p} : hdr'[x].used = hdr[x].used
                                       /\ hdr'[x].next = hdr[x].next
    BY <2>4 DEF SplitIn
  <2>6. q \notin ToSet(freeList) \ {p}
    BY <2>5, <1>1 DEF Blocks
  <2>7. /\ freeList' \in Seq(0..End) /\ Once(freeList')
        /\ ToSet(freeList') = (ToSet(freeList) \ {p}) \cup {q}
    <3>1. /\ freeList \in Seq(0..End) /\ q \in 0..End /\ Once(freeList)
          /\ q \notin ToSet(freeList) \ {p}
      BY <2>5, <2>6, <1>2
    <3>2. Exchanged(0..End, freeList, p, q, LinkFirst(freeList, p, q))
      BY ONLY <3>1, LinkFirstOK
    <3> QED BY <3>2, <2>1 DEF Exchanged
  <2>8. ToSet(freeList') = {x \in DOMAIN hdr' : ~hdr'[x].used}
    BY <2>5, <2>7, <1>1 DEF Blocks
  <2>9. n <= hdr'[p].next - (p + Hdr)
    BY <2>5, <1>1, SizesOK DEF q
  <2>10. /\ p \in DOMAIN hdr'
         /\ \A x \in DOMAIN hdr' \ {p} : hdr'[x].used => x \in DOMAIN hdr /\ hdr[x].used
    BY <2>5, <1>1 DEF Blocks
  <2>11. available' = Total(Rooms(hdr'), freeList')
    <3>1. /\ Typed(hdr) /\ Ring(hdr) /\ Listed(hdr, freeList) /\ Once(freeList)
          /\ available = Total(Rooms(hdr), freeList) /\ p \in ToSet(freeList)
      BY FreeListed, NoneOwed, <1>1
    <3>2. /\ Typed(hdr') /\ Ring(hdr') /\ q \in DOMAIN hdr' \ {End}
          /\ \A x \in ToSet(freeList) \ {p} : x \in DOMAIN hdr' /\ hdr'[x].next = hdr[x].next
      BY <2>5, <1>1 DEF Shape, Blocks
    <3>3. Total(Rooms(hdr'), LinkFirst(freeList, p, q))
            = hdr'[q].next - (q + Hdr) + (available - (hdr[p].next - (p + Hdr)))
      BY <3>1, <3>2, SumSwap
    <3>4. hdr'[q].next = hdr[p].next /\ available' = available - n - Hdr
      BY <2>4, <1>3, <1>5 DEF SplitIn
    <3>5. hdr[p].next - (q + Hdr) + (available - (hdr[p].next - (p + Hdr)))
            = available - n - Hdr
      <4> DEFINE c == hdr[p].next
      <4>1. q = p + Hdr + n
        BY DEF q
      <4>2. p \in Int /\ n \in Int /\ Hdr \in Int /\ c \in Int /\ available \in Int
        BY <1>1, <1>2, SizesOK
      <4> HIDE DEF c
      <4>3. c - (q + Hdr) + (available - (c - (p + Hdr))) = available - n - Hdr
        BY ONLY <4>1, <4>2
      <4> QED BY <4>3 DEF c
    <3> QED BY <3>3, <3>4, <3>5, <2>1
  <2> QED BY <2>5, <2>7, <2>8, <2>9, <2>10, <2>11, <1>3, <1>4 DEF TakenIn
<1>6. CASE ~Splits(p, n)
  <2>1. hdr' = Mark(hdr, p, TRUE) /\ freeList' = Without(freeList, p)
    BY <1>3, <1>6 DEF Mark
  <2>2. TakenWhole(hdr, p, hdr')
    <3>1. Shape(hdr) /\ p \in DOMAIN hdr \ {End} /\ ~hdr[p].used
      BY <1>1, <1>2 DEF Blocks
    <3> QED BY ONLY <3>1, <2>1, TakenRing
  <2>3. /\ Shape(hdr') /\ DOMAIN hdr' = DOMAIN hdr /\ hdr'[p].used
        /\ \A x \in DOMAIN hdr \ {p} : hdr'[x].used = hdr[x].used
        /\ \A x \in DOMAIN hdr : hdr'[x].next = hdr[x].next
    BY <2>2 DEF TakenWhole
  <2>4. /\ freeList' \in Seq(0..End) /\ Once(freeList')
        /\ ToSet(freeList') = ToSet(freeList) \ {p}
    BY <2>1, <1>2, WithoutOK
  <2>5. ToSet(freeList') = {x \in DOMAIN hdr' : ~hdr'[x].used}
    BY <2>3, <2>4, <1>1 DEF Blocks
  <2>6. n <= hdr'[p].next - (p + Hdr)
    BY <2>3, <1>1 DEF Room, Blocks
  <2>7. available' = Total(Rooms(hdr'), freeList')
    <3>1. /\ Typed(hdr) /\ Ring(hdr) /\ Listed(hdr, freeList) /\ Once(freeList)
          /\ available = Total(Rooms(hdr), freeList) /\ p \in ToSet(freeList)
      BY FreeListed, NoneOwed, <1>1
    <3>2. \A x \in ToSet(freeList) \ {p} : x \in DOMAIN hdr' /\ hdr'[x].next = hdr[x].next
      BY <2>3, <1>1 DEF Blocks
    <3>3. Total(Rooms(hdr'), Without(freeList, p))
            = available - (hdr[p].next - (p + Hdr))
      BY <3>1, <3>2, SumDrop
    <3> QED BY <3>3, <2>1, <1>3, <1>6 DEF Room
  <2> QED BY <2>3, <2>4, <2>5, <2>6, <2>7, <1>1, <1>3, <1>4 DEF TakenIn, Blocks
<1> QED BY <1>5, <1>6

LEMMA CarveStep ==
  ASSUME IInv, NEW t \in Thread, Carve(t)
  PROVE  IInv'
<1> DEFINE n == job[t].size
           p == freeList[FirstFit(n)]
           r == [at |-> p + Hdr, size |-> n]
<1>1. /\ n \in Granted /\ n \in Nat
      /\ p \in Blocks \ {End} /\ p \in 0..End /\ ~hdr[p].used /\ stage[t] = "in"
      /\ hdr[p].next \in 0..End
  BY Found
<1>2. TakenIn(hdr, p, n, hdr', freeList')
  BY CarveBlocks
<1>3. \E a \in Int : available' = a /\ maxUsed' = Used(a)
  BY CarveBlocks
<1>4. /\ job[t].fn \in {"alloc", "move"} /\ live' = live \cup {r} /\ Unlock
      /\ \/ job[t].fn = "alloc" /\ Done(t)
         \/ /\ job[t].fn = "move" /\ stage' = [stage EXCEPT ![t] = "copy"]
            /\ job' = [job EXCEPT ![t].new = p]
  BY DEF Carve, Searches, At
<1>5. JobFits("in", job[t], hdr, live) /\ job[t] \in JobType /\ job \in [Thread -> JobType]
  BY <1>1 DEF IInv, JobsOK
<1> HIDE DEF p
<1>6. /\ job' \in [Thread -> JobType]
      /\ \A u \in Thread \ {t} : stage'[u] = stage[u] /\ job'[u] = job[u]
      /\ \/ job'[t] = NoJob /\ stage' = [stage EXCEPT ![t] = "out"] /\ stage'[t] = "out"
         \/ /\ stage' = [stage EXCEPT ![t] = "copy"] /\ stage'[t] = "copy"
            /\ job'[t] = [job[t] EXCEPT !.new = p] /\ job[t].fn = "move"
  <2>1. CASE job[t].fn = "alloc" /\ Done(t)
    BY <2>1, DoneOK
  <2>2. CASE /\ job[t].fn = "move" /\ stage' = [stage EXCEPT ![t] = "copy"]
             /\ job' = [job EXCEPT ![t].new = p]
    <3>1. [job[t] EXCEPT !.new = p] \in JobType
      BY <1>1, <1>5 DEF JobType
    <3>2. job' = [job EXCEPT ![t] = [job[t] EXCEPT !.new = p]]
      BY <2>2, <1>5
    <3>3. /\ job' \in [Thread -> JobType] /\ job'[t] = [job[t] EXCEPT !.new = p]
          /\ \A u \in Thread \ {t} : job'[u] = job[u]
      BY <3>1, <3>2, <1>5
    <3>4. stage'[t] = "copy" /\ \A u \in Thread \ {t} : stage'[u] = stage[u]
      BY <2>2 DEF IInv, SemOK
    <3> QED BY <2>2, <3>3, <3>4
  <2> QED BY <2>1, <2>2, <1>4
<1>7. SemOK'
  BY <1>1, <1>4, <1>6, UnlockSem DEF IInv, Holding
<1>8. \A u \in Thread \ {t} : stage[u] # "shrunk"
  BY <1>1, HeldList DEF Holding
<1>9. /\ Shape(hdr)' /\ p \in DOMAIN hdr' /\ hdr'[p].used /\ n <= hdr'[p].next - (p + Hdr)
      /\ freeList' \in Seq(0..End) /\ Once(freeList')
      /\ ToSet(freeList') = {x \in DOMAIN hdr' : ~hdr'[x].used}
      /\ \A x \in DOMAIN hdr \ {p} : x \in DOMAIN hdr' /\ hdr'[x].used = hdr[x].used
                                     /\ hdr'[x].next = hdr[x].next
      /\ \A x \in DOMAIN hdr' \ {p} : hdr'[x].used => x \in DOMAIN hdr /\ hdr[x].used
  BY <1>2 DEF TakenIn
<1>10. FreeOK' /\ \A u \in Thread : stage'[u] # "shrunk"
  BY <1>6, <1>8, <1>9, LinkedOK
<1>11. HighOK'
  <2>1. available \in Int /\ maxUsed \in Int
    BY DEF IInv, HighOK
  <2>2. PICK a \in Int : available' = a /\ maxUsed' = Used(a)
    BY <1>3
  <2> QED BY <2>1, <2>2, <1>10, HighAfter
<1>12. \A u \in Thread \ {t} : p \notin Claims(job[u])
  <2> SUFFICES ASSUME NEW u \in Thread \ {t}, p \in Claims(job[u]) PROVE FALSE
    OBVIOUS
  <2>1. hdr[p].used
    BY <1>8, ClaimUsed DEF IInv, SemOK
  <2> QED BY <2>1, <1>1
<1>13. ~Has(live, p)
  BY <1>1, HasUsed DEF IInv
<1>14. /\ r \in [at : Hdr..End, size : Granted] /\ r.at = p + Hdr /\ r.size = n
  <2>1. p + Hdr \in Hdr..End
    <3>1. p + Hdr <= hdr[p].next
      BY <1>1 DEF IInv, Shape, Ring, Blocks
    <3> QED BY <3>1, <1>1, SizesOK
  <2> QED BY <2>1, <1>1
<1> HIDE DEF r, n
<1>15. /\ \A s \in live' : s.at = p + Hdr => s = r
       /\ \A s \in live \cup live' : s.at # p + Hdr => (s \in live' <=> s \in live)
       /\ Has(live', p) /\ \A x : Has(live, x) => Has(live', x)
  BY <1>4, <1>13, <1>14 DEF Has
<1>16. \A s \in live' : s.at = p + Hdr => RegionOK(live', hdr', s)
  <2>1. RegionOK(live', hdr', r)
    <3>1. r.at - Hdr = p
      BY <1>1, <1>14, SizesOK
    <3> QED BY <3>1, <1>1, <1>9, <1>14, <1>15 DEF RegionOK
  <2> QED BY <2>1, <1>15
<1>17. /\ JobFits(stage'[t], job'[t], hdr', live')
       /\ \A x \in Claims(job'[t]) : x \in Claims(job[t]) \/ x = p
  <2>1. CASE job'[t] = NoJob /\ stage'[t] = "out"
    BY <2>1, NoJobOK, NoJobFits
  <2>2. CASE /\ stage'[t] = "copy" /\ job[t].fn = "move"
             /\ job'[t] = [job[t] EXCEPT !.new = p]
    <3> DEFINE j == job'[t]
    <3>1. /\ j \in JobType /\ j.fn = "move" /\ j.size = job[t].size
          /\ j.at = job[t].at /\ j.new = p
      BY <2>2, <1>1, <1>5, <1>6 DEF JobType
    <3> HIDE DEF j
    <3>2. j.at \in DOMAIN hdr \ {End} /\ Has(live, j.at) /\ j.at \in 0..End /\ j.size \in Granted
      BY <3>1, <2>2, <1>5 DEF JobFits, Working, JobType
    <3>3. j.at # p
      BY <3>2, <1>13
    <3>4. j.at \in DOMAIN hdr' \ {End} /\ Has(live', j.at)
      BY <3>2, <3>3, <1>9, <1>15
    <3>5. JobFits("copy", j, hdr', live')
      BY <3>1, <3>2, <3>3, <3>4, <1>1, <1>9, <1>15 DEF JobFits, Working
    <3>6. \A x \in Claims(j) : x \in Claims(job[t]) \/ x = p
      BY <3>1 DEF Claims
    <3> QED BY <2>2, <3>5, <3>6 DEF j
  <2> QED BY <2>1, <2>2, <1>6
<1>18. \A x \in Blocks : ~Owner(x, t)
  BY <1>4 DEF Owner
<1>19. JobsOK' /\ RegionsOK' /\ OwnedOK'
  <2>1. /\ \A x \in Blocks \ {End, p} : hdr[x].used =>
             x \in Blocks' /\ hdr'[x].used /\ hdr'[x].next = hdr[x].next
        /\ \A x \in Blocks' \ {End, p} : hdr'[x].used => x \in Blocks /\ hdr[x].used
    BY <1>9 DEF Blocks
  <2> QED BY <2>1, <1>1, <1>6, <1>8, <1>12, <1>15, <1>16, <1>17, <1>18, OthersOK
<1>20. Sized'
  <2>1. Typed(hdr)' /\ Ring(hdr)' /\ hdr'[End].used
    BY <1>9 DEF Shape, Ring, End
  <2>2. Listed(hdr', freeList')
    BY <1>9, <2>1 DEF Listed
  <2>3. available' = Total(Rooms(hdr'), freeList') /\ maxUsed' = Used(available')
    BY <1>3, CarveBlocks DEF n, p
  <2>4. owed' = owed /\ stage'[t] # "adds"
    BY <1>6 DEF Carve
  <2> QED BY <2>1, <2>2, <2>3, <2>4, <1>1, <1>6, <1>9, SizedAfter
<1> QED BY <1>7, <1>9, <1>10, <1>11, <1>19, <1>20 DEF IInv

\* A call that works on a caller's block, with the lock.
LEMMA WorkedOn ==
  ASSUME IInv, NEW t \in Thread, stage[t] = "in", job[t].fn \in {"grow", "shrink"},
         NEW p, p = job[t].at, NEW n, n = job[t].size
  PROVE  /\ n \in Granted /\ n \in Nat /\ n % Unit = 0
         /\ p \in Blocks \ {End} /\ p \in 0..End /\ hdr[p].used /\ Has(live, p)
         /\ p % Unit = 0 /\ hdr[p].next \in 0..End
         /\ p + Hdr + n \in Nat /\ (p + Hdr + n) % Unit = 0
         /\ \A u \in Thread \ {t} : p \notin Claims(job[u])
         /\ job[t].fn = "shrink" => Room(p) >= n + Hdr + MinAlloc
<1>1. JobFits("in", job[t], hdr, live)
  BY DEF IInv, JobsOK
<1>2. /\ n \in Granted /\ p \in 0..End /\ p # End /\ Has(live, p)
      /\ job[t].fn = "shrink" => hdr[p].next - (p + Hdr) >= n + Hdr + MinAlloc
  BY <1>1 DEF JobFits, Working, JobType
<1>3. n \in Nat /\ n % Unit = 0
  BY <1>2, GrantedOK
<1>4. p \in Blocks \ {End} /\ hdr[p].used
  BY <1>2, HasUsed DEF IInv
<1>5. p % Unit = 0 /\ hdr[p].next \in 0..End
  BY <1>4 DEF IInv, Shape, Typed, Header, Blocks
<1>6. p + Hdr + n \in Nat /\ (p + Hdr + n) % Unit = 0
  <2>1. p \in Nat /\ Hdr \in Nat /\ p % Unit = 0 /\ Hdr % Unit = 0
    BY <1>2, <1>5, SizesOK, MemHeapAssumption
  <2>2. (p + Hdr) % Unit = 0
    BY ONLY <2>1, SumOK
  <2>3. p + Hdr \in Nat /\ n \in Nat /\ n % Unit = 0
    BY <2>1, <1>3
  <2>4. (p + Hdr + n) % Unit = 0
    BY ONLY <2>2, <2>3, SumOK
  <2> QED BY <2>3, <2>4
<1>7. \A u \in Thread \ {t} : p \notin Claims(job[u])
  <2>1. p \in Claims(job[t])
    BY <1>2 DEF Claims
  <2> QED BY <2>1 DEF IInv, JobsOK
<1> QED BY <1>2, <1>3, <1>4, <1>5, <1>6, <1>7 DEF Room

\* The caller of such a call has n bytes where its region stands.
LEMMA ResizedOK ==
  ASSUME IInv, NEW t \in Thread, NEW p \in 0..End, p = job[t].at, Has(live, p),
         NEW n \in Granted, live' = Resized(t, n),
         NEW h, p \in DOMAIN h \ {End}, h[p].used, n <= h[p].next - (p + Hdr)
  PROVE  /\ \A s \in live' : s.at = p + Hdr => RegionOK(live', h, s)
         /\ Has(live', p)
         /\ \A s \in live \cup live' : s.at # p + Hdr => (s \in live' <=> s \in live)
         /\ \A x : Has(live, x) => Has(live', x)
<1>1. PICK r \in live : r.at = p + Hdr
  BY DEF Has
<1>2. r.at - Hdr = p /\ \A s \in live : s.at = p + Hdr => s = r
  <2>1. r.at - Hdr = p
    BY <1>1, SizesOK
  <2> QED BY <1>1, <2>1 DEF IInv, RegionsOK, RegionOK
<1>3. live' = (live \ {r}) \cup {[r EXCEPT !.size = n]}
  <2>1. live' = {IF s.at = p + Hdr THEN [s EXCEPT !.size = n] ELSE s : s \in live}
    BY DEF Resized
  <2>2. \A s \in live : (IF s.at = p + Hdr THEN [s EXCEPT !.size = n] ELSE s)
                          = (IF s = r THEN [r EXCEPT !.size = n] ELSE s)
    BY <1>1, <1>2
  <2>3. live' = {IF s = r THEN [r EXCEPT !.size = n] ELSE s : s \in live}
    BY <2>1, <2>2
  <2> QED BY <2>3
<1> QED BY <1>1, <1>2, <1>3, ResizeInPlace

LEMMA ExpandStep ==
  ASSUME IInv, NEW t \in Thread, Expand(t)
  PROVE  IInv'
<1> DEFINE n == job[t].size
           p == job[t].at
           b == hdr[p].next
           q == p + Hdr + n
           a == available - (n - Room(p))
<1>1. /\ stage[t] = "in" /\ job[t].fn = "grow" /\ Expands(p, n)
      /\ hdr' = Cut(Merge(hdr, p), p, q) /\ freeList' = LinkFirst(freeList, b, q)
      /\ available' = a /\ maxUsed' = Used(a) /\ live' = Resized(t, n)
      /\ Done(t) /\ Unlock /\ owed' = owed
  BY DEF Expand, At
<1>2. /\ n \in Granted /\ n \in Nat
      /\ p \in Blocks \ {End} /\ p \in 0..End /\ hdr[p].used /\ Has(live, p)
      /\ b \in 0..End /\ q \in Nat /\ q % Unit = 0
      /\ \A u \in Thread \ {t} : p \notin Claims(job[u])
  BY <1>1, WorkedOn
<1>3. /\ ~hdr[b].used /\ Room(b) + Room(p) > n + MinAlloc
      /\ b \in DOMAIN hdr /\ hdr[b].next \in 0..End
  <2>1. b \in DOMAIN hdr
    BY <1>2 DEF IInv, Shape, Ring, Blocks
  <2>2. hdr[b].next \in 0..End
    BY <2>1 DEF IInv, Shape, Typed, Header
  <2> QED BY <1>1, <2>1, <2>2 DEF Expands, NextFree
<1> HIDE DEF p, b, n
<1>4. p + Hdr <= q /\ q + Hdr <= hdr[b].next
  <2>1. Room(p) = b - (p + Hdr) /\ Room(b) = hdr[b].next - (b + Hdr)
    BY DEF Room, b
  <2> QED BY <2>1, <1>2, <1>3, SizesOK
<1>5. n <= q - (p + Hdr)
  BY <1>2, SizesOK
<1>6. Room(p) \in Int
  BY <1>2, SizesOK DEF Room, b
<1>7. a \in Int /\ available \in Int /\ maxUsed \in Int
  BY <1>2, <1>6 DEF IInv, HighOK
<1> HIDE DEF q, a
<1>8. Expanded(hdr, p, b, q, hdr')
  <2>1. /\ Shape(hdr) /\ p \in DOMAIN hdr \ {End} /\ hdr[p].used
        /\ b = hdr[p].next /\ ~hdr[b].used /\ q \in Nat
        /\ p + Hdr <= q /\ q + Hdr <= hdr[b].next /\ q % Unit = 0
    BY <1>2, <1>3, <1>4 DEF IInv, Blocks, b
  <2> QED BY ONLY <2>1, <1>1, ExpandedRing
<1>9. /\ Shape(hdr)' /\ DOMAIN hdr' = (DOMAIN hdr \ {b}) \cup {q} /\ q \in 0..End
      /\ q \notin DOMAIN hdr \ {b} /\ q # End /\ p # q /\ p # b
      /\ hdr'[p].used /\ hdr'[p].next = q /\ ~hdr'[q].used
      /\ \A x \in DOMAIN hdr \ {p, b} : hdr'[x].used = hdr[x].used
                                        /\ hdr'[x].next = hdr[x].next
  BY <1>8 DEF Expanded
<1>10. /\ \A u \in Thread \ {t} : stage[u] # "shrunk"
       /\ freeList \in Seq(0..End) /\ Once(freeList)
       /\ ToSet(freeList) = {x \in Blocks : ~hdr[x].used}
  BY <1>1, HeldList DEF Holding
<1>11. Exchanged(0..End, freeList, b, q, freeList')
  <2>1. /\ freeList \in Seq(0..End) /\ q \in 0..End /\ Once(freeList)
        /\ q \notin ToSet(freeList) \ {b}
    BY <1>9, <1>10 DEF Blocks
  <2> QED BY ONLY <2>1, <1>1, LinkFirstOK
<1>12. /\ freeList' \in Seq(0..End) /\ Once(freeList')
       /\ ToSet(freeList') = {x \in DOMAIN hdr' : ~hdr'[x].used}
  <2>1. /\ freeList' \in Seq(0..End) /\ Once(freeList')
        /\ ToSet(freeList') = (ToSet(freeList) \ {b}) \cup {q}
    BY <1>11 DEF Exchanged
  <2>2. \A x : x \in (ToSet(freeList) \ {b}) \cup {q} <=> x \in DOMAIN hdr' /\ ~hdr'[x].used
    BY <1>2, <1>9, <1>10 DEF Blocks
  <2> QED BY <2>1, <2>2
<1>13. /\ job' \in [Thread -> JobType] /\ job'[t] = NoJob /\ stage'[t] = "out"
       /\ stage' = [stage EXCEPT ![t] = "out"]
       /\ \A u \in Thread \ {t} : stage'[u] = stage[u] /\ job'[u] = job[u]
  BY <1>1, DoneOK
<1>14. SemOK'
  BY <1>1, <1>13, UnlockSem DEF IInv, Holding
<1>15. FreeOK' /\ \A u \in Thread : stage'[u] # "shrunk"
  BY <1>10, <1>12, <1>13, LinkedOK
<1>16. HighOK'
  BY <1>1, <1>7, <1>15, HighAfter
<1>17. /\ \A s \in live' : s.at = p + Hdr => RegionOK(live', hdr', s)
       /\ Has(live', p)
       /\ \A s \in live \cup live' : s.at # p + Hdr => (s \in live' <=> s \in live)
  <2>1. n <= hdr'[p].next - (p + Hdr) /\ p \in DOMAIN hdr' \ {End} /\ p = job[t].at
    BY <1>2, <1>5, <1>9 DEF Blocks, p
  <2> QED BY <2>1, <1>1, <1>2, <1>9, ResizedOK
<1>18. JobsOK' /\ RegionsOK' /\ OwnedOK'
  <2>1. /\ \A x \in Blocks \ {End, p} : hdr[x].used =>
             x \in Blocks' /\ hdr'[x].used /\ hdr'[x].next = hdr[x].next
        /\ \A x \in Blocks' \ {End, p} : hdr'[x].used => x \in Blocks /\ hdr[x].used
    <3>1. /\ Blocks = DOMAIN hdr /\ Blocks' = DOMAIN hdr'
          /\ \A x \in DOMAIN hdr : hdr[x].used => x # b
          /\ \A x \in DOMAIN hdr' : hdr'[x].used => x # q
      BY <1>3, <1>9 DEF Blocks
    <3> QED BY <3>1, <1>9
  <2>2. \A x \in Blocks : ~Owner(x, t)
    BY <1>1 DEF Owner
  <2>3. JobFits(stage'[t], job'[t], hdr', live') /\ Claims(job'[t]) = {}
    BY <1>13, NoJobOK, NoJobFits
  <2> QED BY <2>1, <2>2, <2>3, <1>2, <1>10, <1>13, <1>17, OthersOK
<1>19. Sized'
  <2>1. /\ Typed(hdr) /\ Ring(hdr) /\ Listed(hdr, freeList) /\ Once(freeList)
        /\ available = Total(Rooms(hdr), freeList) /\ available \in 0..PoolSize
    BY <1>1, FreeListed, NoneOwed
  <2>2. /\ Typed(hdr)' /\ Ring(hdr)' /\ hdr'[End].used /\ q \in DOMAIN hdr' \ {End}
        /\ b \in ToSet(freeList)
        /\ \A x \in ToSet(freeList) \ {b} : x \in DOMAIN hdr' /\ hdr'[x].next = hdr[x].next
    BY <1>2, <1>3, <1>9, <1>10 DEF Shape, Ring, End, Blocks
  <2>3. Total(Rooms(hdr'), freeList')
          = hdr'[q].next - (q + Hdr) + (available - (hdr[b].next - (b + Hdr)))
    BY <2>1, <2>2, <1>1, SumSwap
  <2>4. hdr'[q].next = hdr[b].next
    BY <1>8 DEF Expanded
  <2>5. hdr[b].next - (q + Hdr) + (available - (hdr[b].next - (b + Hdr)))
          = available - (n - Room(p))
    <3>1. Room(p) = b - (p + Hdr) /\ q = p + Hdr + n
      BY DEF Room, b, q
    <3> QED BY <3>1, <2>1, <1>2, <1>3, SizesOK
  <2>6. available' = Total(Rooms(hdr'), freeList') /\ maxUsed' = Used(available')
    BY <2>3, <2>4, <2>5, <1>1 DEF a
  <2>7. Listed(hdr', freeList')
    BY <1>12, <2>2 DEF Listed
  <2> QED BY <2>2, <2>6, <2>7, <1>1, <1>12, <1>13, SizedAfter
<1> QED BY <1>9, <1>14, <1>15, <1>16, <1>18, <1>19 DEF IInv

LEMMA ShrinkStep ==
  ASSUME IInv, NEW t \in Thread, Shrink(t)
  PROVE  IInv'
<1> DEFINE n == job[t].size
           p == job[t].at
           b == hdr[p].next
           q == p + Hdr + n
           j == [job[t] EXCEPT !.new = q]
<1>1. /\ stage[t] = "in" /\ job[t].fn = "shrink"
      /\ hdr' = IF hdr[b].used THEN Cut(hdr, p, q) ELSE Merge(Cut(hdr, p, q), q)
      /\ freeList' = IF hdr[b].used THEN freeList ELSE Without(freeList, b)
      /\ available' = IF hdr[b].used THEN available ELSE available - Room(b)
      /\ job' = [job EXCEPT ![t].new = q] /\ stage' = [stage EXCEPT ![t] = "shrunk"]
      /\ live' = Resized(t, n) /\ maxUsed' = maxUsed /\ UNCHANGED semVars
      /\ owed' = owed
  BY DEF Shrink, At
<1>2. /\ n \in Granted /\ n \in Nat
      /\ p \in Blocks \ {End} /\ p \in 0..End /\ hdr[p].used /\ Has(live, p)
      /\ b \in 0..End /\ q \in Nat /\ q % Unit = 0
      /\ \A u \in Thread \ {t} : p \notin Claims(job[u])
      /\ Room(p) >= n + Hdr + MinAlloc
  BY <1>1, WorkedOn
<1>3. JobFits("in", job[t], hdr, live) /\ job[t] \in JobType /\ job \in [Thread -> JobType]
  BY <1>1 DEF IInv, JobsOK
<1>4. job' = [job EXCEPT ![t] = j] /\ p = job[t].at /\ n = job[t].size
  BY <1>1, <1>3
<1> HIDE DEF p, b, n
<1>5. p + Hdr <= q /\ q + Hdr <= b /\ n <= q - (p + Hdr)
  BY <1>2, SizesOK DEF Room, b
<1> HIDE DEF q
<1>6. ShrunkIn(hdr, p, b, q, hdr')
  <2>1. /\ Shape(hdr) /\ p \in DOMAIN hdr \ {End} /\ hdr[p].used
        /\ b = hdr[p].next /\ q \in Nat
        /\ p + Hdr <= q /\ q + Hdr <= hdr[p].next /\ q % Unit = 0
    BY <1>2, <1>5 DEF IInv, Blocks, b
  <2> QED BY ONLY <2>1, <1>1, ShrunkRing
<1>7. /\ Shape(hdr)' /\ q \in 0..End /\ q \notin DOMAIN hdr /\ q # End /\ p # q
      /\ b \in DOMAIN hdr /\ p # b /\ q < b
      /\ DOMAIN hdr' = (IF hdr[b].used THEN DOMAIN hdr ELSE DOMAIN hdr \ {b}) \cup {q}
      /\ hdr'[p].used /\ hdr'[p].next = q /\ ~hdr'[q].used
      /\ hdr'[q].next = IF hdr[b].used THEN b ELSE hdr[b].next
      /\ \A x \in DOMAIN hdr' \ {p, q} : hdr'[x].used = hdr[x].used
                                         /\ hdr'[x].next = hdr[x].next
  BY <1>6 DEF ShrunkIn
<1>8. /\ \A u \in Thread \ {t} : stage[u] # "shrunk"
      /\ freeList \in Seq(0..End) /\ Once(freeList)
      /\ ToSet(freeList) = {x \in Blocks : ~hdr[x].used}
  BY <1>1, HeldList DEF Holding
<1>9. /\ j \in JobType /\ j.fn = "shrink" /\ j.size = n /\ j.at = p /\ j.new = q
  BY <1>1, <1>3, <1>4, <1>7 DEF JobType
<1> HIDE DEF j
<1>10. /\ job' \in [Thread -> JobType] /\ job'[t] = j
       /\ \A u \in Thread \ {t} : job'[u] = job[u]
  BY <1>4, <1>9, JobStep DEF IInv
<1>11. stage'[t] = "shrunk" /\ \A u \in Thread \ {t} : stage'[u] = stage[u]
  BY <1>1 DEF IInv, SemOK
<1>12. SemOK'
  BY <1>1, InnerSem DEF IInv, Holding, Place
<1>13. Unlinked' = {q}
  BY <1>8, <1>9, <1>10, <1>11 DEF Unlinked
<1>14. FreeOK'
  <2>1. /\ freeList' \in Seq(0..End) /\ Once(freeList')
        /\ ToSet(freeList') = IF hdr[b].used THEN ToSet(freeList)
                              ELSE ToSet(freeList) \ {b}
    BY <1>1, <1>8, WithoutOK
  <2>2. \A x : x \in ToSet(freeList') <=> x \in DOMAIN hdr' /\ ~hdr'[x].used /\ x # q
    <3>1. CASE hdr[b].used
      BY <3>1, <2>1, <1>2, <1>7, <1>8 DEF Blocks
    <3>2. CASE ~hdr[b].used
      BY <3>2, <2>1, <1>2, <1>7, <1>8 DEF Blocks
    <3> QED BY <3>1, <3>2
  <2>3. ToSet(freeList') = {x \in DOMAIN hdr' : ~hdr'[x].used} \ {q}
    BY <2>2
  <2> QED BY <2>1, <2>3, <1>13 DEF FreeOK, FreeListExact, Blocks, End
<1>15. HighOK'
  <2>1. /\ available \in Int /\ maxUsed \in Int
        /\ maxUsed >= PoolSize - available
    <3>1. \A u \in Thread : stage[u] # "shrunk"
      BY <1>1, <1>8
    <3> QED BY <3>1 DEF IInv, HighOK
  <2>2. hdr[b].next \in 0..End
    BY <1>7 DEF IInv, Shape, Typed, Header
  <2>3. Room(b) = hdr[b].next - (b + Hdr)
    BY DEF Room
  <2>4. /\ available' \in Int /\ maxUsed' \in Int
        /\ maxUsed' >= PoolSize - available' - (hdr'[q].next - (q + Hdr))
    <3>1. CASE hdr[b].used
      <4>1. hdr'[q].next - (q + Hdr) = b - (q + Hdr) /\ available' = available
        BY <3>1, <2>3, <1>1, <1>7
      <4> QED BY <4>1, <2>1, <1>1, <1>2, <1>5, <1>7, SizesOK
    <3>2. CASE ~hdr[b].used
      <4>1. hdr'[q].next - (q + Hdr) = hdr[b].next - (q + Hdr) /\ available' = available - (hdr[b].next - (b + Hdr))
        BY <3>2, <2>3, <1>1, <1>7
      <4> QED BY <4>1, <2>1, <2>2, <1>1, <1>2, <1>5, <1>7, SizesOK
    <3> QED BY <3>1, <3>2
  <2>5. \A u \in Thread : stage'[u] = "shrunk" => u = t
    BY <1>8, <1>11
  <2>6. Room(job[t].new)' = hdr'[q].next - (q + Hdr)
    BY <1>9, <1>10 DEF Room
  <2>7. stage'[t] = "shrunk"
    BY <1>11
  <2>8. \A u \in Thread : stage'[u] = "shrunk" =>
          maxUsed' >= PoolSize - available' - Room(job[u].new)'
    BY <2>4, <2>5, <2>6
  <2> QED BY <2>4, <2>7, <2>8 DEF HighOK
<1>16. /\ \A s \in live' : s.at = p + Hdr => RegionOK(live', hdr', s)
       /\ Has(live', p)
       /\ \A s \in live \cup live' : s.at # p + Hdr => (s \in live' <=> s \in live)
  <2>1. n <= hdr'[p].next - (p + Hdr) /\ p \in DOMAIN hdr' \ {End} /\ p = job[t].at
    BY <1>2, <1>4, <1>5, <1>7 DEF Blocks
  <2> QED BY <2>1, <1>1, <1>2, <1>7, ResizedOK
<1>17. JobFits("shrunk", j, hdr', live')
  <2>1. p \in DOMAIN hdr' \ {End} /\ q \in DOMAIN hdr' \ {End}
    BY <1>2, <1>7 DEF Blocks
  <2> QED BY <2>1, <1>2, <1>7, <1>9, <1>16 DEF JobFits, Working
<1>18. JobsOK' /\ RegionsOK' /\ OwnedOK'
  <2>1. Blocks = DOMAIN hdr /\ Blocks' = DOMAIN hdr'
    BY DEF Blocks
  <2>2. /\ \A x \in DOMAIN hdr \ {End, p} : hdr[x].used => x \in DOMAIN hdr' \ {p, q}
        /\ \A x \in DOMAIN hdr' \ {End, p} : hdr'[x].used => x \in DOMAIN hdr /\ x # q
    <3>1. CASE hdr[b].used
      BY <3>1, <1>7
    <3>2. CASE ~hdr[b].used
      BY <3>2, <1>7
    <3> QED BY <3>1, <3>2
  <2>3. /\ \A x \in Blocks \ {End, p} : hdr[x].used =>
             x \in Blocks' /\ hdr'[x].used /\ hdr'[x].next = hdr[x].next
        /\ \A x \in Blocks' \ {End, p} : hdr'[x].used => x \in Blocks /\ hdr[x].used
    BY <2>1, <2>2, <1>7
  <2>4. \A x \in Blocks : ~Owner(x, t)
    BY <1>1 DEF Owner
  <2>5. \A x \in Claims(job'[t]) : x = p \/ x \notin Blocks
    BY <1>7, <1>9, <1>10 DEF Claims, Blocks
  <2>6. JobFits(stage'[t], job'[t], hdr', live')
    BY <1>10, <1>11, <1>17
  <2> QED BY <2>3, <2>4, <2>5, <2>6, <1>2, <1>7, <1>8, <1>10, <1>11, <1>16, OthersOK
<1>19. Sized'
  <2>1. /\ Typed(hdr) /\ Ring(hdr) /\ Listed(hdr, freeList) /\ Once(freeList)
        /\ available = Total(Rooms(hdr), freeList) /\ maxUsed \in 0..PoolSize
        /\ available \in Int /\ owed = 0
    BY <1>1, FreeListed, NoneOwed
  <2>2. available' = Total(Rooms(hdr'), freeList')
    <3>1. CASE hdr[b].used
      <4>1. \A x \in ToSet(freeList) : x \in DOMAIN hdr' /\ hdr'[x].next = hdr[x].next
        BY <3>1, <1>2, <1>7, <1>8 DEF Blocks
      <4>2. Total(Rooms(hdr'), freeList) = available
        BY <4>1, <2>1, SumKept
      <4> QED BY <4>2, <3>1, <1>1 DEF b, p
    <3>2. CASE ~hdr[b].used
      <4>1. /\ b \in ToSet(freeList)
            /\ \A x \in ToSet(freeList) \ {b} : x \in DOMAIN hdr' /\ hdr'[x].next = hdr[x].next
        BY <3>2, <1>2, <1>7, <1>8 DEF Blocks
      <4>2. Total(Rooms(hdr'), Without(freeList, b))
              = available - (hdr[b].next - (b + Hdr))
        BY <4>1, <2>1, SumDrop
      <4>3. freeList' = Without(freeList, b) /\ available' = available - Room(b)
        BY <3>2, <1>1
      <4> QED BY <4>2, <4>3 DEF Room
    <3> QED BY <3>1, <3>2
  <2>3. OwedOK' /\ available' \in Int
    <3>1. available' \in Int
      BY <1>15 DEF HighOK
    <3> QED BY <3>1, <1>1, <1>10, <1>11, OwedKept
  <2>4. available' + owed' = Total(Rooms(hdr'), freeList')
    BY <2>1, <2>2, <2>3, <1>1
  <2> QED BY <2>1, <2>3, <2>4, <1>1 DEF Sized
<1> QED BY <1>7, <1>12, <1>14, <1>15, <1>18, <1>19 DEF IInv

\* The free list after rt_memheap_free of p.
FreedList(h, s, p, b, k) ==
  LET rest == IF h[b].used THEN s ELSE Without(s, b)
  IN  IF k = p THEN <<p>> \o rest ELSE rest

FreedTotal(h, s, p, b, k, g) ==
  Total(Rooms(g), FreedList(h, s, p, b, k))
    = Total(Rooms(h), s) + (b - (p + Hdr)) + (IF k = p THEN 0 ELSE Hdr)
                         + (IF h[b].used THEN 0 ELSE Hdr)

\* What rt_memheap_free adds to available_size is what the list gains.
LEMMA FreedSum ==
  ASSUME NEW h, Shape(h), NEW s, Listed(h, s), Once(s),
         ToSet(s) = {x \in DOMAIN h : ~h[x].used},
         NEW p \in DOMAIN h \ {End}, h[p].used, NEW b, b = h[p].next,
         NEW k, k = Keeper(h, p), NEW g, FreedIn(h, p, b, k, g)
  PROVE  FreedTotal(h, s, p, b, k, g)
<1> DEFINE r == FreedList(h, s, p, b, k)
<1> SUFFICES Total(Rooms(g), r)
               = Total(Rooms(h), s) + (b - (p + Hdr)) + (IF k = p THEN 0 ELSE Hdr)
                                    + (IF h[b].used THEN 0 ELSE Hdr)
  BY DEF FreedTotal
<1>1. /\ Typed(h) /\ Ring(h) /\ Typed(g) /\ Ring(g) /\ b \in DOMAIN h /\ p # b
      /\ k \in DOMAIN h /\ (k = p \/ ~h[k].used)
      /\ DOMAIN g = (DOMAIN h \ (IF k = p THEN {} ELSE {p}))
                      \ (IF h[b].used THEN {} ELSE {b})
      /\ \A x \in DOMAIN g \ {k} : g[x].next = h[x].next
      /\ g[k].next = IF h[b].used THEN b ELSE h[b].next
  BY DEF FreedIn, Shape
<1>2. /\ p \in 0..End /\ b \in 0..End /\ h[End].used
      /\ ~h[b].used => h[b].next \in 0..End /\ b # End
      /\ k # p => h[k].next = p /\ k # b /\ k # End
  <2>1. p \in 0..End /\ b \in 0..End /\ h[End].used
    BY <1>1 DEF Typed, Ring
  <2>2. ~h[b].used => h[b].next \in 0..End /\ b # End
    BY <1>1, <2>1 DEF Typed, Header
  <2>3. k # p => h[k].next = p /\ k # End
    BY <1>1, <2>1 DEF Keeper, Ring
  <2>4. k # p => k # b
    <3>1. h[b].prev = p
      BY <1>1 DEF Ring
    <3> SUFFICES ASSUME k # p, k = b PROVE FALSE
      OBVIOUS
    <3>2. h[b].next = p /\ b \in DOMAIN h \ {End}
      BY <1>1, <2>3
    <3>3. \A x \in DOMAIN h \ {End} : x + Hdr <= h[x].next
      BY <1>1 DEF Ring
    <3>4. b + Hdr <= p /\ p + Hdr <= b
      BY <3>2, <3>3
    <3> QED BY <3>4, <2>1, SizesOK
  <2> QED BY <2>1, <2>2, <2>3, <2>4
<1> DEFINE a == Total(Rooms(h), s)
<1>3. a \in Int
  BY <1>1, ListedOK, TotalOK
<1> HIDE DEF a
<1>4. \A x \in ToSet(s) : x # b \/ h[b].used => x \in DOMAIN g
  BY <1>1
<1>5. CASE k = p /\ h[b].used
  <2>1. \A x \in ToSet(s) : x \in DOMAIN g /\ g[x].next = h[x].next
    BY <1>1, <1>4, <1>5
  <2>2. p \in DOMAIN g \ {End}
    BY <1>1, <1>5
  <2>3. Total(Rooms(g), <<p>> \o s) = g[p].next - (p + Hdr) + a
    BY <2>1, <2>2, <1>1, SumLink DEF a
  <2>4. g[p].next = b /\ r = <<p>> \o s
    BY <1>1, <1>5 DEF FreedList
  <2> QED BY <2>3, <2>4, <1>2, <1>3, <1>5, SizesOK DEF a
<1>6. CASE k = p /\ ~h[b].used
  <2>1. \A x \in ToSet(s) \ {b} : x \in DOMAIN g /\ g[x].next = h[x].next
    BY <1>1, <1>4, <1>6
  <2>2. p \in DOMAIN g \ {End} /\ b \in ToSet(s)
    BY <1>1, <1>6
  <2> DEFINE c == h[b].next
  <2>3. Total(Rooms(g), LinkFirst(s, b, p))
          = g[p].next - (p + Hdr) + (a - (c - (b + Hdr)))
    <3>1. /\ Typed(h) /\ Ring(h) /\ Listed(h, s) /\ Once(s) /\ b \in ToSet(s)
          /\ Typed(g) /\ Ring(g) /\ p \in DOMAIN g \ {End}
          /\ \A x \in ToSet(s) \ {b} : x \in DOMAIN g /\ g[x].next = h[x].next
      BY <2>1, <2>2, <1>1
    <3>2. Total(Rooms(g), LinkFirst(s, b, p))
            = g[p].next - (p + Hdr) + (Total(Rooms(h), s) - (h[b].next - (b + Hdr)))
      BY ONLY <3>1, SumSwap
    <3> QED BY <3>2 DEF a
  <2>4. g[p].next = c /\ r = LinkFirst(s, b, p)
    BY <1>1, <1>6 DEF LinkFirst, FreedList
  <2>5. c \in Int /\ b \in Int /\ p \in Int /\ Hdr \in Int
    BY <1>2, <1>6, SizesOK
  <2> HIDE DEF c
  <2>6. c - (p + Hdr) + (a - (c - (b + Hdr))) = a + (b - (p + Hdr)) + 0 + Hdr
    BY ONLY <2>5, <1>3
  <2>7. /\ Total(Rooms(g), r) = a + (b - (p + Hdr)) + 0 + Hdr
        /\ (IF k = p THEN 0 ELSE Hdr) = 0 /\ (IF h[b].used THEN 0 ELSE Hdr) = Hdr
    BY <2>3, <2>4, <2>6, <1>6
  <2> QED BY <2>7 DEF a
<1>7. CASE k # p /\ h[b].used
  <2>1. /\ k \in ToSet(s) /\ k \in DOMAIN g
        /\ \A x \in ToSet(s) \ {k} : x \in DOMAIN g /\ g[x].next = h[x].next
    BY <1>1, <1>4, <1>7
  <2>2. Total(Rooms(g), s) = a + (g[k].next - h[k].next)
    BY <2>1, <1>1, SumChange DEF a
  <2>3. g[k].next = b /\ h[k].next = p /\ r = s
    BY <1>1, <1>2, <1>7 DEF FreedList
  <2> QED BY <2>2, <2>3, <1>2, <1>3, <1>7, SizesOK DEF a
<1>8. CASE k # p /\ ~h[b].used
  <2> DEFINE o == Without(s, b)
  <2>1. b \in ToSet(s) /\ k \in ToSet(s) /\ k # b
    BY <1>1, <1>2, <1>8
  <2>2. Listed(h, o) /\ Once(o) /\ ToSet(o) = ToSet(s) \ {b}
    BY <2>1, ListedWithout
  <2>3. Total(Rooms(h), o) = a - (h[b].next - (b + Hdr))
    BY <2>1, <1>1, SumWithout DEF a
  <2>4. r = o
    BY <1>8 DEF FreedList
  <2> HIDE DEF o
  <2>5. /\ k \in ToSet(o) /\ k \in DOMAIN g
        /\ \A x \in ToSet(o) \ {k} : x \in DOMAIN g /\ g[x].next = h[x].next
    BY <2>1, <2>2, <1>1, <1>4, <1>8
  <2>6. Total(Rooms(g), o) = Total(Rooms(h), o) + (g[k].next - h[k].next)
    BY <2>2, <2>5, <1>1, SumChange
  <2>7. g[k].next = h[b].next /\ h[k].next = p
    BY <1>1, <1>2, <1>8
  <2> QED BY <2>3, <2>4, <2>6, <2>7, <1>2, <1>3, <1>8, SizesOK DEF a
<1> QED BY <1>5, <1>6, <1>7, <1>8

LEMMA TakeBackStep ==
  ASSUME IInv, NEW t \in Thread, TakeBack(t)
  PROVE  IInv'
<1> DEFINE p == job[t].at
           b == hdr[p].next
           k == Keeper(hdr, p)
           f == FreedLeft(hdr, p)
           rest == IF NextFree(f, k) THEN Without(freeList, f[k].next) ELSE freeList
<1>1. /\ stage[t] = "in" /\ job[t].fn = "free" /\ maxUsed' = maxUsed
      /\ live' = live /\ available' = available + Room(p) /\ owed' = Headers(p)
      /\ \/ Headers(p) = 0 /\ Done(t) /\ Unlock
         \/ /\ Headers(p) # 0 /\ UNCHANGED semVars
            /\ stage' = [stage EXCEPT ![t] = "adds"]
            /\ job' = [job EXCEPT ![t] = NoJob]
  BY DEF TakeBack, At
<1>2. hdr' = Freed(hdr, p)
  <2>1. CASE hdr[hdr[p].prev].used
    BY <2>1 DEF TakeBack, Freed, FreedLeft, Keeper, Mark
  <2>2. CASE ~hdr[hdr[p].prev].used
    BY <2>2 DEF TakeBack, Freed, FreedLeft, Keeper, Mark
  <2> QED BY <2>1, <2>2
<1>3. freeList' = IF hdr[hdr[p].prev].used THEN <<p>> \o rest ELSE rest
  <2> DEFINE left == ~hdr[hdr[p].prev].used
             keep == IF left THEN hdr[p].prev ELSE p
             h == [hdr EXCEPT ![p].used = FALSE]
             g == IF left THEN Merge(h, keep) ELSE h
             R == IF NextFree(g, keep) THEN Without(freeList, g[keep].next)
                  ELSE freeList
  <2>1. freeList' = IF left THEN R ELSE <<p>> \o R
    BY DEF TakeBack
  <2>2. keep = k /\ g = f
    <3>1. CASE left
      BY <3>1 DEF FreedLeft, Keeper, Mark
    <3>2. CASE ~left
      BY <3>2 DEF FreedLeft, Keeper, Mark
    <3> QED BY <3>1, <3>2
  <2> HIDE DEF keep, g, f, k
  <2>3. R = rest
    BY <2>2
  <2> HIDE DEF R, rest
  <2> QED BY <2>1, <2>3
<1>4. /\ p \in Blocks \ {End} /\ p \in 0..End /\ hdr[p].used /\ ~Has(live, p)
      /\ \A u \in Thread \ {t} : p \notin Claims(job[u])
  <2>1. JobFits("in", job[t], hdr, live) /\ job[t] \in JobType
    BY <1>1 DEF IInv, JobsOK
  <2>2. p \in Blocks \ {End} /\ p \in 0..End /\ hdr[p].used /\ ~Has(live, p)
    BY <2>1, <1>1 DEF JobFits, JobType, Blocks
  <2>3. p \in Claims(job[t])
    BY <2>2 DEF Claims
  <2> QED BY <2>2, <2>3 DEF IInv, JobsOK
<1> HIDE DEF p, k, f
<1>5. FreedIn(hdr, p, b, k, hdr')
  <2>1. /\ Shape(hdr) /\ p \in DOMAIN hdr \ {End} /\ hdr[p].used
        /\ b = hdr[p].next /\ k = Keeper(hdr, p)
    BY <1>4 DEF IInv, Blocks, k
  <2> QED BY ONLY <2>1, <1>2, FreedRing
<1>6. /\ Shape(hdr)' /\ b \in DOMAIN hdr /\ p # b
      /\ k \in DOMAIN hdr /\ (k = p \/ ~hdr[k].used)
      /\ DOMAIN hdr' = (DOMAIN hdr \ (IF k = p THEN {} ELSE {p}))
                         \ (IF hdr[b].used THEN {} ELSE {b})
      /\ k = p => ~hdr'[p].used
      /\ k = p <=> hdr[hdr[p].prev].used
      /\ f[k].next = b /\ (NextFree(f, k) <=> ~hdr[b].used)
      /\ \A x \in DOMAIN hdr' \ {p} : hdr'[x].used = hdr[x].used
      /\ \A x \in DOMAIN hdr' \ {k} : hdr'[x].next = hdr[x].next
  BY <1>5 DEF FreedIn, f
<1>7. /\ \A u \in Thread \ {t} : stage[u] # "shrunk"
      /\ freeList \in Seq(0..End) /\ Once(freeList)
      /\ ToSet(freeList) = {x \in Blocks : ~hdr[x].used}
  BY <1>1, HeldList DEF Holding
<1>8. /\ rest \in Seq(0..End) /\ Once(rest)
      /\ ToSet(rest) = ToSet(freeList) \ (IF hdr[b].used THEN {} ELSE {b})
  <2>1. CASE hdr[b].used
    BY <2>1, <1>6, <1>7
  <2>2. CASE ~hdr[b].used
    <3>1. rest = Without(freeList, b)
      BY <2>2, <1>6
    <3> QED BY <3>1, <2>2, <1>7, WithoutOK
  <2> QED BY <2>1, <2>2
<1>9. freeList' = IF k = p THEN <<p>> \o rest ELSE rest
  BY <1>3, <1>6
<1> HIDE DEF rest, b
<1>10. /\ freeList' \in Seq(0..End) /\ Once(freeList')
       /\ ToSet(freeList') = ToSet(rest) \cup (IF k = p THEN {p} ELSE {})
  <2>1. CASE k = p
    <3>1. rest \in Seq(0..End) /\ p \in 0..End /\ Once(rest) /\ p \notin ToSet(rest)
      BY <1>4, <1>7, <1>8
    <3>2. Prepended(0..End, rest, p, <<p>> \o rest)
      BY ONLY <3>1, PrependOK
    <3> QED BY <3>2, <2>1, <1>9 DEF Prepended
  <2>2. CASE k # p
    BY <2>2, <1>8, <1>9
  <2> QED BY <2>1, <2>2
<1>11. ToSet(freeList') = {x \in DOMAIN hdr' : ~hdr'[x].used}
  <2>1. \A x : x \in ToSet(freeList') <=>
          \/ x = p /\ k = p
          \/ x \in DOMAIN hdr /\ ~hdr[x].used /\ (hdr[b].used \/ x # b)
    <3>1. CASE hdr[b].used
      BY <3>1, <1>7, <1>8, <1>10 DEF Blocks
    <3>2. CASE ~hdr[b].used
      BY <3>2, <1>7, <1>8, <1>10 DEF Blocks
    <3> QED BY <3>1, <3>2
  <2>2. \A x : x \in DOMAIN hdr' <=> /\ x \in DOMAIN hdr /\ (x # p \/ k = p)
                                     /\ hdr[b].used \/ x # b
    <3>1. CASE hdr[b].used
      BY <3>1, <1>6
    <3>2. CASE ~hdr[b].used
      BY <3>2, <1>6
    <3> QED BY <3>1, <3>2
  <2>3. \A x : x \in ToSet(freeList') <=> x \in DOMAIN hdr' /\ ~hdr'[x].used
    <3>1. p \in DOMAIN hdr /\ hdr[p].used /\ p # b
      BY <1>4, <1>6 DEF Blocks
    <3>2. ASSUME NEW x, x # p
          PROVE  x \in ToSet(freeList') <=> x \in DOMAIN hdr' /\ ~hdr'[x].used
      <4>1. x \in DOMAIN hdr' => hdr'[x].used = hdr[x].used
        BY <3>2, <1>6
      <4> QED BY <4>1, <3>2, <2>1, <2>2
    <3>3. p \in ToSet(freeList') <=> p \in DOMAIN hdr' /\ ~hdr'[p].used
      BY <3>1, <2>1, <2>2, <1>6
    <3> QED BY <3>2, <3>3
  <2> QED BY <2>3
<1>12. /\ job' \in [Thread -> JobType] /\ job'[t] = NoJob
       /\ \A u \in Thread \ {t} : stage'[u] = stage[u] /\ job'[u] = job[u]
       /\ stage'[t] = IF Headers(p) = 0 THEN "out" ELSE "adds"
       /\ stage' = [stage EXCEPT ![t] = stage'[t]]
  <2>1. CASE Headers(p) = 0
    BY <2>1, <1>1, DoneOK
  <2>2. CASE Headers(p) # 0
    <3>1. /\ stage' = [stage EXCEPT ![t] = "adds"]
          /\ job' = [job EXCEPT ![t] = NoJob]
      BY <2>2, <1>1
    <3>2. stage'[t] = "adds" /\ \A u \in Thread \ {t} : stage'[u] = stage[u]
      BY <3>1 DEF IInv, SemOK
    <3> QED BY <2>2, <3>1, <3>2, NoJobOK, JobStep DEF IInv
  <2> QED BY <2>1, <2>2
<1>13. SemOK'
  <2>1. CASE Headers(p) = 0
    BY <2>1, <1>1, <1>12, UnlockSem DEF IInv, Holding
  <2>2. CASE Headers(p) # 0
    BY <2>2, <1>1, InnerSem DEF IInv, Holding, Place
  <2> QED BY <2>1, <2>2
<1>14. FreeOK' /\ \A u \in Thread : stage'[u] # "shrunk"
  BY <1>7, <1>10, <1>11, <1>12, LinkedOK
<1>15. HighOK'
  <2>1. \A u \in Thread : stage[u] # "shrunk"
    BY <1>1, <1>7
  <2>2. available \in Int /\ maxUsed \in Int /\ maxUsed >= PoolSize - available
    BY <2>1 DEF IInv, HighOK
  <2>3. Room(p) \in Int /\ Room(p) >= 0
    <3>1. p + Hdr <= hdr[p].next /\ hdr[p].next \in 0..End
      BY <1>4 DEF IInv, Shape, Typed, Header, Ring, Blocks
    <3> QED BY <3>1, <1>4, SizesOK DEF Room
  <2>4. available + Room(p) \in Int /\ available + Room(p) >= available
    BY <2>2, <2>3
  <2> QED BY <2>2, <2>4, <1>1, <1>14, HighAfter
<1>16. JobsOK' /\ RegionsOK' /\ OwnedOK'
  <2>1. /\ \A x \in Blocks \ {End, p} : hdr[x].used =>
             x \in Blocks' /\ hdr'[x].used /\ hdr'[x].next = hdr[x].next
        /\ \A x \in Blocks' \ {End, p} : hdr'[x].used => x \in Blocks /\ hdr[x].used
    <3>1. \A x \in DOMAIN hdr \ {p} : hdr[x].used => x \in DOMAIN hdr' /\ x # k
      <4>1. CASE hdr[b].used
        BY <4>1, <1>6
      <4>2. CASE ~hdr[b].used
        BY <4>2, <1>6
      <4> QED BY <4>1, <4>2
    <3>2. DOMAIN hdr' \subseteq DOMAIN hdr
      BY <1>6
    <3> QED BY <3>1, <3>2, <1>6 DEF Blocks
  <2>2. \A x \in Blocks : x # p => ~Owner(x, t)
    BY DEF Owner, p
  <2>3. JobFits(stage'[t], job'[t], hdr', live') /\ Claims(job'[t]) = {}
    BY <1>12, NoJobOK, NoJobFits
  <2>4. ~(p \in Blocks' \ {End} /\ hdr'[p].used)
    BY <1>6 DEF Blocks
  <2>5. \A r \in live' : r.at # p + Hdr
    BY <1>1, <1>4 DEF Has
  <2> QED BY <2>1, <2>2, <2>3, <2>4, <2>5, <1>1, <1>4, <1>7, <1>12, OthersOK
<1>17. Sized'
  <2>1. /\ Typed(hdr) /\ Ring(hdr) /\ Listed(hdr, freeList) /\ Once(freeList)
        /\ available = Total(Rooms(hdr), freeList) /\ maxUsed \in 0..PoolSize
        /\ available \in 0..PoolSize
    BY <1>1, FreeListed, NoneOwed
  <2> DEFINE u == IF k = p THEN 0 ELSE Hdr
             v == IF hdr[b].used THEN 0 ELSE Hdr
  <2>2. Total(Rooms(hdr'), freeList')
          = Total(Rooms(hdr), freeList) + (b - (p + Hdr)) + u + v
    <3>1. /\ Shape(hdr) /\ p \in DOMAIN hdr \ {End} /\ hdr[p].used
          /\ ToSet(freeList) = {x \in DOMAIN hdr : ~hdr[x].used}
      BY <1>4, <1>7 DEF IInv, Blocks
    <3>2. b = hdr[p].next /\ k = Keeper(hdr, p)
      BY DEF b, k
    <3>3. rest = (IF hdr[b].used THEN freeList ELSE Without(freeList, b))
      <4>1. CASE hdr[b].used
        BY <4>1, <1>6 DEF rest
      <4>2. CASE ~hdr[b].used
        BY <4>2, <1>6 DEF rest
      <4> QED BY <4>1, <4>2
    <3>4. FreedTotal(hdr, freeList, p, b, k, hdr')
      BY ONLY <2>1, <3>1, <3>2, <1>5, FreedSum
    <3>5. FreedList(hdr, freeList, p, b, k) = freeList'
      BY ONLY <3>3, <1>9 DEF FreedList
    <3> QED BY ONLY <3>4, <3>5 DEF FreedTotal
  <2>3. available' = available + (b - (p + Hdr)) /\ owed' = u + v
    BY <1>1, <1>6 DEF Headers, Room, b
  <2>4. /\ b \in Int /\ p \in Int /\ Hdr \in Nat \ {0} /\ available \in Int
        /\ u \in {0, Hdr} /\ v \in {0, Hdr}
    <3>1. b \in 0..End
      BY <1>6, <2>1 DEF Typed
    <3> QED BY <3>1, <1>4, <2>1, SizesOK
  <2> HIDE DEF u, v
  <2>5. /\ available + (b - (p + Hdr)) + (u + v)
             = available + (b - (p + Hdr)) + u + v
        /\ u + v \in {0, Hdr, 2 * Hdr}
    BY ONLY <2>4
  <2>6. available' + owed' = Total(Rooms(hdr'), freeList')
    BY <2>1, <2>2, <2>3, <2>5
  <2>7. \A x \in Thread \ {t} : stage'[x] # "adds"
    BY <1>1, <1>12, OneHolds DEF IInv, Holding
  <2>8. stage'[t] = "adds" <=> owed' # 0
    BY <1>1, <1>12
  <2>9. OwedOK'
    BY <2>3, <2>5, <2>7, <2>8 DEF OwedOK
  <2> QED BY <2>1, <2>6, <2>9, <1>1 DEF Sized
<1> QED BY <1>6, <1>13, <1>14, <1>15, <1>16, <1>17 DEF IInv

\* The header of a merged block is added.
LEMMA AddHeaderStep ==
  ASSUME IInv, NEW t \in Thread, AddHeader(t)
  PROVE  IInv'
<1>1. /\ stage[t] = "adds" /\ available' = available + Hdr /\ owed' = owed - Hdr
      /\ hdr' = hdr /\ freeList' = freeList /\ maxUsed' = maxUsed /\ live' = live
      /\ \/ owed = Hdr /\ Done(t) /\ Unlock
         \/ owed # Hdr /\ UNCHANGED <<stage, job, semVars>>
  BY DEF AddHeader
<1>2. job[t] = NoJob /\ job \in [Thread -> JobType]
  BY <1>1 DEF IInv, JobsOK, JobFits
<1>3. /\ job' = job /\ job' \in [Thread -> JobType]
      /\ \A u \in Thread \ {t} : stage'[u] = stage[u]
      /\ stage'[t] = IF owed = Hdr THEN "out" ELSE "adds"
  <2>1. CASE owed = Hdr
    <3>1. /\ job' \in [Thread -> JobType] /\ stage'[t] = "out"
          /\ \A u \in Thread \ {t} : stage'[u] = stage[u]
      BY <2>1, <1>1, DoneOK
    <3>2. job' = job
      BY <2>1, <1>1, <1>2 DEF Done
    <3> QED BY <2>1, <3>1, <3>2
  <2>2. CASE owed # Hdr
    BY <2>2, <1>1, <1>2
  <2> QED BY <2>1, <2>2
<1>4. SemOK'
  <2>1. CASE owed = Hdr
    BY <2>1, <1>1, UnlockSem DEF IInv, Holding, Done
  <2>2. CASE owed # Hdr
    BY <2>2, <1>1 DEF IInv, SemOK, Inside, semVars
  <2> QED BY <2>1, <2>2
<1>5. /\ \A u \in Thread \ {t} : stage[u] \notin Holding
      /\ \A u \in Thread : stage[u] # "shrunk" /\ stage'[u] # "shrunk"
  BY <1>1, <1>3, OneHolds DEF IInv, Holding
<1>6. Shape(hdr)' /\ FreeOK'
  <2>1. Unlinked = {} /\ Unlinked' = {} /\ Blocks' = Blocks
    BY <1>1, <1>5 DEF Unlinked, Blocks
  <2> QED BY <2>1, <1>1 DEF IInv, FreeOK, FreeListExact, End
<1>7. HighOK'
  <2>1. available \in Int /\ maxUsed \in Int /\ maxUsed >= PoolSize - available
    BY <1>5 DEF IInv, HighOK
  <2>2. available + Hdr \in Int /\ available + Hdr >= available
    BY <2>1, SizesOK
  <2> QED BY <2>1, <2>2, <1>1, <1>5, HighAfter
<1>8. JobsOK' /\ RegionsOK' /\ OwnedOK'
  <2>1. JobFits(stage'[t], job'[t], hdr, live)
    BY <1>2, <1>3, NoJobFits
  <2>2. \A x \in Blocks : ~Owner(x, t)
    BY <1>2 DEF Owner, NoJob
  <2> QED BY <2>1, <2>2, <1>1, <1>3, SameOK
<1>9. Sized'
  <2>1. /\ owed \in {Hdr, 2 * Hdr} /\ available \in Int /\ maxUsed \in 0..PoolSize
        /\ available + owed = Total(Rooms(hdr), freeList)
    BY <1>1 DEF IInv, Sized, OwedOK, HighOK
  <2>2. Hdr \in Nat \ {0}
    BY SizesOK
  <2>3. /\ (available + Hdr) + (owed - Hdr) = available + owed
        /\ owed - Hdr \in {0, Hdr} /\ (owed - Hdr = 0 <=> owed = Hdr)
    BY ONLY <2>1, <2>2
  <2>4. OwedOK'
    BY <2>3, <1>1, <1>3, <1>5 DEF OwedOK, Holding
  <2> QED BY <2>1, <2>3, <2>4, <1>1 DEF Sized
<1> QED BY <1>4, <1>6, <1>7, <1>8, <1>9 DEF IInv

-----------------------------------------------------------------------------
(* Every step. *)

LEMMA StutterOK == IInv /\ UNCHANGED poolVars => IInv'
<1> SUFFICES ASSUME IInv, UNCHANGED poolVars PROVE IInv'
  OBVIOUS
<1>1. /\ hdr' = hdr /\ freeList' = freeList /\ available' = available
      /\ maxUsed' = maxUsed /\ stage' = stage /\ job' = job /\ live' = live
      /\ free' = free /\ queue' = queue /\ given' = given /\ owed' = owed
  BY DEF poolVars, heapVars, semVars
<1>2. Shape(hdr)' /\ FreeOK'
  BY <1>1 DEF IInv, FreeOK, FreeListExact, Unlinked, Blocks, End
<1>3. HighOK'
  BY <1>1 DEF IInv, HighOK, Room
<1>6. Sized'
  BY <1>1 DEF IInv, Sized, OwedOK
<1>4. SemOK'
  BY <1>1 DEF IInv, SemOK, Inside
<1>5. JobsOK' /\ RegionsOK' /\ OwnedOK'
  BY <1>1 DEF IInv, JobsOK, RegionsOK, OwnedOK, Owner, Blocks, End
<1> QED BY <1>2, <1>3, <1>4, <1>5, <1>6 DEF IInv

LEMMA NextOK == IInv /\ [PoolNext]_poolVars => IInv'
<1> SUFFICES ASSUME IInv, [PoolNext]_poolVars PROVE IInv'
  OBVIOUS
<1>1. ASSUME NEW t \in Thread, NEW n \in Sizes, Alloc(t, n) PROVE IInv'
  BY <1>1, AllocStep
<1>2. ASSUME NEW t \in Thread, NEW r \in live, Free(t, r) PROVE IInv'
  BY <1>2, FreeStep
<1>3. ASSUME NEW t \in Thread, NEW r \in live, NEW n \in Sizes, Realloc(t, r, n)
      PROVE  IInv'
  BY <1>3, ReallocStep
<1>4. ASSUME NEW t \in Thread, Step(t) PROVE IInv'
  <2>1. Resume(t) => IInv'
    BY ResumeStep
  <2>2. Carve(t) => IInv'
    BY CarveStep
  <2>3. NoRoom(t) => IInv'
    BY NoRoomStep
  <2>4. Expand(t) => IInv'
    BY ExpandStep
  <2>5. Leave(t) => IInv'
    BY LeaveStep
  <2>6. Move(t) => IInv'
    BY MoveStep
  <2>7. Copy(t) => IInv'
    BY CopyStep
  <2>8. Shrink(t) => IInv'
    BY ShrinkStep
  <2>9. Shrunk(t) => IInv'
    BY ShrunkStep
  <2>10. TakeBack(t) => IInv'
    BY TakeBackStep
  <2>11. AddHeader(t) => IInv'
    BY AddHeaderStep
  <2> QED BY <1>4, <2>1, <2>2, <2>3, <2>4, <2>5, <2>6, <2>7, <2>8, <2>9, <2>10, <2>11
          DEF Step
<1>5. UNCHANGED poolVars => IInv'
  BY StutterOK
<1> QED BY <1>1, <1>2, <1>3, <1>4, <1>5 DEF PoolNext

-----------------------------------------------------------------------------
(* Results. *)

\* The whole invariant, of any pool, sizes and threads (src/memheap.c).
THEOREM PoolInvariance == PoolSpec => []IInv
<1>1. PoolInit => IInv
  BY InitOK
<1>2. IInv /\ [PoolNext]_poolVars => IInv'
  BY NextOK
<1> QED BY <1>1, <1>2, PTL DEF PoolSpec

\* Splitting, merging, growing and shrinking leave next and prev in agreement
\* and the blocks without gap or overlap.
THEOREM RingWhole == PoolSpec => []RingOK
<1>1. IInv => RingOK
  BY DEF IInv, Shape, RingOK
<1> QED BY <1>1, PoolInvariance, PTL

\* The free list has every free block once, but for the one a shrinking realloc
\* has not linked yet.
THEOREM FreeListWhole == PoolSpec => []FreeListExact
<1>1. IInv => FreeListExact
  BY DEF IInv, FreeOK
<1> QED BY <1>1, PoolInvariance, PTL

\* No two free blocks are neighbours, after any order of calls.
THEOREM NoNeighbours == PoolSpec => []Coalesced
<1>1. IInv => Coalesced
  BY DEF IInv, Shape, Coalesced, Blocks
<1> QED BY <1>1, PoolInvariance, PTL

\* max_used_size is a high-water mark.
THEOREM MarkIsHigh == PoolSpec => []HighWater
<1>1. IInv => HighWater
  <2> SUFFICES ASSUME IInv, Unlinked = {} PROVE maxUsed >= PoolSize - available
    BY DEF HighWater
  <2>1. \A t \in Thread : stage[t] # "shrunk"
    BY DEF Unlinked
  <2> QED BY <2>1 DEF IInv, HighOK
<1> QED BY <1>1, PoolInvariance, PTL

\* No block in use is lost or given out twice, also while a realloc moves it.
THEOREM OwnersExact == PoolSpec => []BlocksOwned
<1>1. IInv => BlocksOwned
  <2> SUFFICES ASSUME IInv PROVE BlocksOwned
    OBVIOUS
  <2>1. ASSUME NEW r \in live
        PROVE  /\ Serves(r.at - Hdr, r.size)
               /\ \A s \in live : s.at = r.at => s = r
               /\ ~\E t \in Thread : Owner(r.at - Hdr, t)
    <3> DEFINE p == r.at - Hdr
    <3>1. /\ p \in 0..End /\ p \in Blocks \ {End} /\ hdr[p].used
          /\ r.at = p + Hdr /\ Has(live, p) /\ r.size <= Room(p)
          /\ \A s \in live : s.at = p + Hdr => s = r
      BY RegionBlock
    <3> HIDE DEF p
    <3>2. ASSUME NEW t \in Thread, Owner(p, t) PROVE FALSE
      <4>1. JobFits(stage[t], job[t], hdr, live)
        BY DEF IInv, JobsOK
      <4>2. job[t].fn = "free" /\ job[t].at = p
        BY <3>2 DEF Owner
      <4> QED BY <4>1, <4>2, <3>1 DEF JobFits
    <3> QED BY <3>1, <3>2 DEF Serves, p
  <2>2. ASSUME NEW p \in Blocks \ {End}, hdr[p].used
        PROVE  (\E r \in live : r.at = p + Hdr) \/ \E t \in Thread : Owner(p, t)
    BY <2>2 DEF IInv, OwnedOK, Has
  <2>3. ASSUME NEW t \in Thread, NEW u \in Thread, job[t].fn = "free",
               job[u].fn = "free", job[t].at = job[u].at
        PROVE  t = u
    <3>1. JobFits(stage[t], job[t], hdr, live)
      BY DEF IInv, JobsOK
    <3>2. job[t].at \in Claims(job[t]) /\ job[t].at \in Claims(job[u])
      BY <3>1, <2>3 DEF JobFits, Claims
    <3> QED BY <3>2 DEF IInv, JobsOK
  <2> QED BY <2>1, <2>2, <2>3 DEF BlocksOwned
<1> QED BY <1>1, PoolInvariance, PTL

\* One thread at a time is between rt_sem_take and rt_sem_release, and the
\* token is back on every way out.
THEOREM Exclusive == PoolSpec => []OneInside
<1>1. IInv => OneInside
  <2> SUFFICES ASSUME IInv PROVE OneInside
    OBVIOUS
  <2> DEFINE in == {t \in Thread : stage[t] \in Holding}
             gv == given[lock]
  <2>1. /\ gv \subseteq Thread /\ free[lock] \in {0, 1}
        /\ \A t \in Thread : Inside(t) <=> t \in in \/ t \in gv
        /\ \A t \in gv : stage[t] = "wait"
        /\ \A t, u \in Thread : Inside(t) /\ Inside(u) => t = u
        /\ free[lock] = 1 <=> \A t \in Thread : ~Inside(t)
    BY DEF IInv, SemOK, Inside
  <2>2. in \cap gv = {} /\ in \subseteq Thread
    BY <2>1 DEF Holding
  <2> HIDE DEF in, gv
  <2>3. Cardinality(in) + Cardinality(gv) + free[lock] = 1
    <3>1. CASE in = {} /\ gv = {}
      <4>1. free[lock] = 1
        BY <3>1, <2>1
      <4> QED BY <4>1, <3>1, FS_EmptySet
    <3>2. CASE in # {}
      <4>1. PICK t : t \in in
        BY <3>2
      <4>2. in = {t} /\ gv = {} /\ free[lock] = 0
        BY <4>1, <2>1, <2>2
      <4>3. Cardinality(in) = 1 /\ Cardinality(gv) = 0
        BY <4>2, FS_EmptySet, FS_Singleton
      <4> QED BY <4>2, <4>3
    <3>3. CASE gv # {}
      <4>1. PICK t : t \in gv
        BY <3>3
      <4>2. gv = {t} /\ in = {} /\ free[lock] = 0
        BY <4>1, <2>1, <2>2
      <4>3. Cardinality(gv) = 1 /\ Cardinality(in) = 0
        BY <4>2, FS_EmptySet, FS_Singleton
      <4> QED BY <4>2, <4>3
    <3> QED BY <3>1, <3>2, <3>3
  <2>4. given[lock] \cup ToSet(queue[lock]) = {t \in Thread : stage[t] = "wait"}
    <3>1. /\ \A t \in Thread :
               stage[t] = "wait" <=> t \in ToSet(queue[lock]) \/ t \in given[lock]
          /\ given[lock] \subseteq Thread /\ queue[lock] \in Seq(Thread)
      BY DEF IInv, SemOK
    <3>2. ToSet(queue[lock]) \subseteq Thread
      BY <3>1, LenProperties DEF ToSet
    <3> QED BY <3>1, <3>2
  <2> QED BY <2>3, <2>4 DEF OneInside, in, gv, Holding
<1> QED BY <1>1, PoolInvariance, PTL

\* A thread that has the lock leaves other threads where they are.
LEMMA OthersStay ==
  ASSUME IInv, NEW t \in Thread, NEW u \in Thread \ {t},
         \/ Step(t) \/ \E n \in Sizes : Alloc(t, n)
         \/ \E r \in live : Free(t, r) \/ \E n \in Sizes : Realloc(t, r, n)
  PROVE  stage'[u] = stage[u]
<1> USE DEF TakeLock, Done
<1>1. stage \in [Thread -> Place]
  BY DEF IInv, SemOK
<1>2. \A n \in Sizes : Alloc(t, n) => stage'[u] = stage[u]
  BY <1>1 DEF Alloc
<1>3. \A r \in live : Free(t, r) => stage'[u] = stage[u]
  BY <1>1 DEF Free
<1>4. \A r \in live, n \in Sizes : Realloc(t, r, n) => stage'[u] = stage[u]
  BY <1>1 DEF Realloc
<1>5. Step(t) => stage'[u] = stage[u]
  BY <1>1 DEF Step, Resume, Carve, NoRoom, Expand, Leave, Move, Copy, Shrink,
              Shrunk, TakeBack, AddHeader
<1> QED BY <1>2, <1>3, <1>4, <1>5

\* available_size, which rt_memheap_alloc reads without the lock, is the sum of
\* the blocks in the free list after every step of every thread, but for headers
\* of merged blocks that rt_memheap_free is about to add.
THEOREM SizesExact == PoolSpec => []AvailableExact
<1>1. IInv => AvailableExact
  <2> SUFFICES ASSUME IInv PROVE AvailableExact
    OBVIOUS
  <2>1. available + owed = Total(Rooms(hdr), freeList)
    BY FreeListed
  <2>2. Rooms(hdr) = [p \in Blocks |-> Room(p)]
    BY DEF Rooms, Blocks, Room
  <2> QED BY <2>1, <2>2 DEF AvailableExact
<1> QED BY <1>1, PoolInvariance, PTL

LEMMA TypesKept == IInv => PoolTypes
<1> SUFFICES ASSUME IInv PROVE PoolTypes
  OBVIOUS
<1>1. /\ hdr \in [Blocks -> [used : BOOLEAN, next : 0..End, prev : 0..End]]
      /\ Blocks \subseteq 0..End
  BY DEF IInv, Shape, Typed, Header, Blocks
<1>2. freeList \in Seq(0..End) /\ available \in 0..PoolSize /\ maxUsed \in 0..PoolSize
  BY FreeListed DEF IInv, FreeOK
<1>3. stage \in [Thread -> {"out", "wait", "in", "move", "copy", "shrunk", "adds"}]
  BY DEF IInv, SemOK, Place
<1>8. owed \in {0, Hdr, 2 * Hdr}
  BY DEF IInv, Sized, OwedOK
<1>4. job \in [Thread -> JobType]
  BY DEF IInv, JobsOK
<1>5. job \in [Thread -> [fn : {"none", "alloc", "move", "grow", "shrink", "free"},
                         size : Granted \cup {0}, at : 0..End, new : 0..End]]
  <2>1. {"none", "alloc", "free"} \cup Working
          = {"none", "alloc", "move", "grow", "shrink", "free"}
    BY DEF Working
  <2> QED BY <1>4, <2>1 DEF JobType
<1>6. live \subseteq [at : Hdr..End, size : Granted]
  BY DEF IInv, RegionsOK, RegionOK
<1>7. free \in [{lock} -> {0, 1}]
  BY DEF IInv, SemOK
<1> QED BY <1>1, <1>2, <1>3, <1>5, <1>6, <1>7, <1>8 DEF PoolTypes

\* The heap stays sound after every step of every thread: ring, free list,
\* counters, owners and lock at once.
THEOREM PoolStaysSound == PoolSpec => []HeapSound
<1>1. IInv => PoolTypes
  BY TypesKept
<1> QED BY <1>1, PoolInvariance, RingWhole, FreeListWhole, NoNeighbours, SizesExact,
           MarkIsHigh, OwnersExact, Exclusive, PTL DEF HeapSound

\* rt_memheap_alloc, called or in a realloc that moves, has looked at every free
\* block before it gives up.
THEOREM NullOnlyWhenFull == PoolSpec => FailsOnlyWhenFull
<1> DEFINE Full(t) ==
      stage[t] = "in" /\ job[t].fn \in {"alloc", "move"} /\ stage'[t] = "out"
      /\ live' = live
        => \A p \in Blocks : ~hdr[p].used => Room(p) < job[t].size
<1>1. IInv /\ [PoolNext]_poolVars => [\A t \in Thread : Full(t)]_poolVars
  <2> SUFFICES ASSUME IInv, PoolNext, NEW t \in Thread, stage[t] = "in",
                      job[t].fn \in {"alloc", "move"}, stage'[t] = "out", live' = live,
                      NEW p \in Blocks, ~hdr[p].used
               PROVE  Room(p) < job[t].size
    OBVIOUS
  <2>1. PICK u \in Thread :
          \/ Step(u) \/ \E n \in Sizes : Alloc(u, n)
          \/ \E r \in live : Free(u, r) \/ \E n \in Sizes : Realloc(u, r, n)
    BY DEF PoolNext
  <2>2. u = t
    BY <2>1, OthersStay
  <2>3. Step(t)
    BY <2>1, <2>2 DEF Alloc, Free, Realloc
  <2>4. ~Carve(t)
    <3> SUFFICES ASSUME Carve(t) PROVE FALSE
      OBVIOUS
    <3> DEFINE q == freeList[FirstFit(job[t].size)]
    <3>1. q \in 0..End /\ ~hdr[q].used
      BY Found
    <3>2. ~Has(live, q)
      BY <3>1, HasUsed DEF IInv
    <3>3. [at |-> q + Hdr, size |-> job[t].size] \in live'
      BY DEF Carve
    <3> HIDE DEF q
    <3> QED BY <3>2, <3>3 DEF Has
  <2>5. NoRoom(t)
    BY <2>3, <2>4 DEF Step, Resume, Expand, Leave, Move, Copy, Shrink, Shrunk,
                      TakeBack, AddHeader, At
  <2>6. p \in ToSet(freeList) /\ freeList \in Seq(0..End)
    BY HeldList DEF Holding
  <2>7. ~(Room(p) >= job[t].size)
    BY <2>5, <2>6, FirstFitOK DEF NoRoom
  <2>8. Room(p) \in Int /\ job[t].size \in Int
    <3>1. p \in 0..End /\ hdr[p].next \in 0..End
      BY DEF IInv, Shape, Typed, Header, Blocks
    <3>2. job[t].size \in Granted
      <4>1. JobFits(stage[t], job[t], hdr, live)
        BY DEF IInv, JobsOK
      <4> QED BY <4>1 DEF JobFits, Working
    <3> QED BY <3>1, <3>2, SizesOK, GrantedOK DEF Room
  <2> QED BY <2>7, <2>8
<1> QED BY <1>1, PoolInvariance, PTL DEF PoolSpec, FailsOnlyWhenFull

-----------------------------------------------------------------------------
(* What callers see. *)

LEMMA InRegion ==
  ASSUME NEW h, Shape(h), NEW L, NEW r \in L, RegionOK(L, h, r)
  PROVE  r \in Promise!Region
<1> DEFINE p == r.at - Hdr
<1>1. /\ r \in [at : Hdr..End, size : Granted] /\ p \in DOMAIN h \ {End}
      /\ r.size <= h[p].next - r.at
  BY DEF RegionOK
<1>2. p \in 0..End /\ h[p].next \in 0..End /\ p % Unit = 0 /\ r.at = p + Hdr
  <2>1. p \in 0..End /\ h[p].next \in 0..End /\ p % Unit = 0
    BY <1>1 DEF Shape, Typed, Header
  <2> QED BY <2>1, <1>1, SizesOK
<1> HIDE DEF p
<1>3. r.size \in Nat /\ r.at + r.size <= End
  BY <1>1, <1>2, GrantedOK, SizesOK
<1>4. r.at % Unit = 0
  <2>1. p \in Nat /\ Hdr \in Nat /\ p % Unit = 0 /\ Hdr % Unit = 0
    BY <1>2, SizesOK, MemHeapAssumption
  <2>2. (p + Hdr) % Unit = 0
    BY ONLY <2>1, SumOK
  <2> QED BY <2>2, <1>2
<1> QED BY <1>1, <1>3, <1>4 DEF Promise!Region

LEMMA RegionsApart ==
  ASSUME NEW h, Shape(h), NEW L, NEW r \in L, NEW s \in L, r # s,
         RegionOK(L, h, r), RegionOK(L, h, s)
  PROVE  Promise!Apart(r, s)
<1> DEFINE p == r.at - Hdr
           q == s.at - Hdr
<1>1. /\ r.at \in Hdr..End /\ p \in DOMAIN h \ {End} /\ r.size \in Granted
      /\ r.size <= h[p].next - r.at
      /\ s.at \in Hdr..End /\ q \in DOMAIN h \ {End} /\ s.size \in Granted
      /\ s.size <= h[q].next - s.at
      /\ r.at # s.at
  BY DEF RegionOK
<1>2. /\ p \in 0..End /\ h[p].next \in 0..End /\ q \in 0..End /\ h[q].next \in 0..End
  BY <1>1 DEF Shape, Typed, Header
<1>3. r.at = p + Hdr /\ s.at = q + Hdr /\ r.size \in Nat /\ s.size \in Nat
  BY <1>1, GrantedOK, SizesOK
<1>4. (p < q => h[p].next <= q) /\ (q < p => h[q].next <= p)
  BY <1>1 DEF Shape, Ring
<1> HIDE DEF p, q
<1>5. p < q \/ q < p
  BY <1>1, <1>2, <1>3, SizesOK
<1> QED BY <1>1, <1>2, <1>3, <1>4, <1>5, SizesOK DEF Promise!Apart

\* A step that gives out a region, takes one back, or changes one's size, to
\* regions that are right.
LEMMA Given ==
  ASSUME Shape(hdr)', RegionsOK', NEW r, r \notin live, live' = live \cup {r}
  PROVE  Promise!Give
<1>1. \A s \in live' : RegionOK(live', hdr', s)
  BY DEF RegionsOK
<1>2. r \in live' \ live /\ r \in Promise!Region
  BY <1>1, InRegion
<1>3. \A s \in live : Promise!Apart(r, s)
  BY <1>1, <1>2, RegionsApart
<1> QED BY <1>2, <1>3 DEF Promise!Give

LEMMA ResizedIn ==
  ASSUME Shape(hdr)', RegionsOK', RegionsOK, NEW r \in live, NEW s, s.at = r.at,
         live' = (live \ {r}) \cup {s}
  PROVE  Promise!Resize
<1>1. \A x \in live' : RegionOK(live', hdr', x)
  BY DEF RegionsOK
<1>2. s \in live' /\ s \in Promise!Region
  BY <1>1, InRegion
<1>3. ASSUME NEW x \in live \ {r} PROVE Promise!Apart(s, x)
  <2>1. x # s /\ x \in live'
    BY DEF RegionsOK, RegionOK
  <2> QED BY <2>1, <1>1, <1>2, RegionsApart
<1> QED BY <1>2, <1>3 DEF Promise!Resize

\* rt_memheap_alloc, free and realloc implement ResizePromise: what is given
\* out, moved or resized is aligned, inside the pool and apart from what others
\* have.
THEOREM PoolImplements == PoolSpec => KeepsPromise
<1>1. PoolInit => Promise!Init
  BY DEF PoolInit, Promise!Init
<1>2. ASSUME IInv, IInv', NEW t \in Thread, Step(t)
      PROVE  [Promise!ResizeNext]_live
  <2>1. Carve(t) => Promise!Give
    <3> SUFFICES ASSUME Carve(t) PROVE Promise!Give
      OBVIOUS
    <3> DEFINE p == freeList[FirstFit(job[t].size)]
               r == [at |-> p + Hdr, size |-> job[t].size]
    <3>1. p \in 0..End /\ ~hdr[p].used
      BY <1>2, Found
    <3>2. ~Has(live, p)
      BY <3>1, <1>2, HasUsed DEF IInv
    <3>3. live' = live \cup {r} /\ r.at = p + Hdr
      BY DEF Carve
    <3> HIDE DEF r
    <3>4. r \notin live
      BY <3>2, <3>3 DEF Has
    <3> QED BY <3>3, <3>4, <1>2, Given DEF IInv
  <2>2. Expand(t) \/ Shrink(t) => Promise!Resize
    <3> SUFFICES ASSUME Expand(t) \/ Shrink(t) PROVE Promise!Resize
      OBVIOUS
    <3> DEFINE p == job[t].at
               n == job[t].size
    <3>1. /\ stage[t] = "in" /\ job[t].fn \in {"grow", "shrink"}
          /\ live' = Resized(t, n)
      BY DEF Expand, Shrink, At
    <3>2. p \in 0..End /\ Has(live, p)
      BY <3>1, <1>2, WorkedOn
    <3>3. PICK r \in live : r.at = p + Hdr
      BY <3>2 DEF Has
    <3>4. r.at - Hdr = p /\ \A s \in live : s.at = p + Hdr => s = r
      BY <3>2, <3>3, <1>2, SizesOK DEF IInv, RegionsOK, RegionOK
    <3> DEFINE x == [r EXCEPT !.size = n]
    <3>5. r \in [at : Hdr..End, size : Granted]
      BY <1>2 DEF IInv, RegionsOK, RegionOK
    <3>6. x.at = r.at
      BY <3>5
    <3>7. live' = {IF s.at = p + Hdr THEN [s EXCEPT !.size = n] ELSE s : s \in live}
      BY <3>1 DEF Resized
    <3>8. \A s \in live : (IF s.at = p + Hdr THEN [s EXCEPT !.size = n] ELSE s)
                            = (IF s = r THEN x ELSE s)
      BY <3>3, <3>4
    <3> HIDE DEF x, p, n
    <3>9. live' = {IF s = r THEN x ELSE s : s \in live}
      BY <3>7, <3>8
    <3>10. live' = (live \ {r}) \cup {x}
      BY <3>9
    <3> QED BY <3>6, <3>10, <1>2, ResizedIn DEF IInv
  <2>3. Copy(t) => Promise!TakeBack
    <3> SUFFICES ASSUME Copy(t) PROVE Promise!TakeBack
      OBVIOUS
    <3> DEFINE p == job[t].at
    <3>1. live' = {r \in live : r.at # p + Hdr} /\ stage[t] = "copy"
      BY DEF Copy
    <3>2. p \in 0..End /\ Has(live, p)
      <4>1. JobFits("copy", job[t], hdr, live)
        BY <1>2, <3>1 DEF IInv, JobsOK
      <4> QED BY <4>1 DEF JobFits, JobType, Working
    <3>3. PICK r \in live : r.at = p + Hdr
      BY <3>2 DEF Has
    <3>4. \A s \in live : s.at = r.at => s = r
      BY <1>2 DEF IInv, RegionsOK, RegionOK
    <3> HIDE DEF p
    <3>5. live' = live \ {r}
      BY <3>1, <3>3, <3>4
    <3> QED BY <3>5 DEF Promise!TakeBack
  <2>4. Resume(t) \/ NoRoom(t) \/ Leave(t) \/ Move(t) \/ Shrunk(t) \/ TakeBack(t)
          \/ AddHeader(t) => live' = live
    BY DEF Resume, NoRoom, Leave, Move, Shrunk, TakeBack, AddHeader
  <2> QED BY <2>1, <2>2, <2>3, <2>4, <1>2 DEF Step, Promise!ResizeNext, Promise!Next
<1>3. ASSUME IInv, IInv', NEW t \in Thread, NEW r \in live, NEW n \in Sizes,
             Realloc(t, r, n)
      PROVE  [Promise!ResizeNext]_live
  <2>1. live' = live \/ live' = (live \ {r}) \cup {[r EXCEPT !.size = Norm(n)]}
    BY <1>3 DEF Realloc
  <2>2. [r EXCEPT !.size = Norm(n)].at = r.at
    <3>1. r \in [at : Hdr..End, size : Granted]
      BY <1>3 DEF IInv, RegionsOK, RegionOK
    <3> QED BY <3>1
  <2> QED BY <2>1, <2>2, <1>3, ResizedIn DEF IInv, Promise!ResizeNext
<1>4. IInv /\ IInv' /\ [PoolNext]_poolVars => [Promise!ResizeNext]_live
  <2> SUFFICES ASSUME IInv, IInv', [PoolNext]_poolVars PROVE [Promise!ResizeNext]_live
    OBVIOUS
  <2>1. ASSUME NEW t \in Thread, NEW n \in Sizes, Alloc(t, n) PROVE live' = live
    BY <2>1 DEF Alloc
  <2>2. ASSUME NEW t \in Thread, NEW r \in live, Free(t, r) PROVE Promise!TakeBack
    BY <2>2 DEF Free, Promise!TakeBack
  <2>3. UNCHANGED poolVars => live' = live
    BY DEF poolVars
  <2> QED BY <2>1, <2>2, <2>3, <1>2, <1>3 DEF PoolNext, Promise!ResizeNext, Promise!Next
<1> QED BY <1>1, <1>4, PoolInvariance, PTL DEF PoolSpec, KeepsPromise, Promise!ResizeSpec
=============================================================================
