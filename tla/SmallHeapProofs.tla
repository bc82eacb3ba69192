-------------------------- MODULE SmallHeapProofs ----------------------------
(***************************************************************************)
(* The invariants of SmallHeap for every set of threads, heap size, header *)
(* size and set of requests, and that the heap keeps what HeapPromise      *)
(* promises.                                                               *)
(***************************************************************************)
EXTENDS SmallHeap, SequenceTheorems, TLAPS

-----------------------------------------------------------------------------
(* Arithmetic. *)

\* A multiple leaves no rest.
LEMMA MultipleOK ==
  ASSUME NEW U \in Nat \ {0}, NEW k \in Nat
  PROVE  (k * U) % U = 0 /\ k * U \in Nat
OBVIOUS

\* Sums of multiples are multiples.
LEMMA SumOK ==
  ASSUME NEW U \in Nat \ {0}, NEW x \in Nat, NEW y \in Nat,
         x % U = 0, y % U = 0
  PROVE  (x + y) % U = 0
<1> DEFINE a == x \div U
           b == y \div U
<1>1. a \in Nat /\ b \in Nat /\ x = U * a /\ y = U * b
  OBVIOUS
<1> HIDE DEF a, b
<1>2. a + b \in Nat /\ x + y = (a + b) * U
  BY <1>1
<1> QED BY <1>2, MultipleOK

\* RT_ALIGN gives multiples of the alignment.
LEMMA GrantedOK == \A n \in Granted : n \in Nat /\ n % Unit = 0
<1> SUFFICES ASSUME NEW n \in Sizes
             PROVE  Aligned(n) \in Nat /\ Aligned(n) % Unit = 0
  BY DEF Granted
<1>1. Unit \in Nat \ {0} /\ n \in Nat
  BY HeapAssumption
<1>2. n + Unit - 1 \in Nat
  BY <1>1
<1>3. \A m \in Nat : m \div Unit \in Nat
  BY <1>1
<1>4. (n + Unit - 1) \div Unit \in Nat
  BY <1>2, <1>3
<1> QED BY <1>1, <1>4, MultipleOK DEF Aligned

\* heap_end and the sizes as numbers.
LEMMA SizesOK ==
  /\ Hdr \in Nat /\ Hdr > 0 /\ MinSize \in Nat /\ MinSize > 0
  /\ MemSize \in Nat /\ MemSize > 0 /\ End = MemSize + Hdr
BY HeapAssumption DEF End

-----------------------------------------------------------------------------
(* Chains of headers. *)

Typed(h) == h \in [DOMAIN h -> Header] /\ DOMAIN h \subseteq 0..End

\* What Swallow does to a whole chain: q is gone, p reaches further.
LEMMA SwallowOK ==
  ASSUME NEW h, Typed(h), Whole(h), NEW p \in DOMAIN h \ {End},
         NEW q, q = h[p].next, q # End
  PROVE  LET g == Swallow(h, p, q)
         IN  /\ Typed(g) /\ Whole(g)
             /\ DOMAIN g = DOMAIN h \ {q} /\ p < q /\ q \in DOMAIN h
             /\ \A x \in DOMAIN g : g[x].used = h[x].used
             /\ \A x \in DOMAIN g \ {p} : g[x].next = h[x].next
             /\ g[p].next = h[q].next /\ g[p].prev = h[p].prev
<1> DEFINE g == Swallow(h, p, q)
           r == h[q].next
<1> USE SizesOK
<1>1. /\ q \in DOMAIN h /\ p \in 0..End /\ q \in 0..End /\ r \in 0..End
      /\ p < q /\ q < r /\ r \in DOMAIN h /\ q # 0
  BY DEF Typed, Whole, Header
<1>2. DOMAIN g = DOMAIN h \ {q}
  BY DEF Swallow
<1>3. /\ g[p] = [h[p] EXCEPT !.next = r]
      /\ g[r] = [h[r] EXCEPT !.prev = p]
      /\ \A x \in DOMAIN g \ {p, r} : g[x] = h[x]
  BY <1>1, <1>2 DEF Swallow
<1>4. \A x \in DOMAIN h : h[x] \in Header /\ x \in 0..End
  BY DEF Typed
<1>5. /\ g[p].used = h[p].used /\ g[p].prev = h[p].prev /\ g[p].next = r
      /\ g[r].used = h[r].used /\ g[r].next = h[r].next /\ g[r].prev = p
      /\ g[p] \in Header /\ g[r] \in Header
  BY <1>1, <1>3, <1>4 DEF Header
<1>8. \A x \in DOMAIN g : g[x].used = h[x].used
  BY <1>3, <1>5
<1>9. \A x \in DOMAIN g \ {p} : g[x].next = h[x].next
  BY <1>3, <1>5
<1>10. \A x \in DOMAIN g \ {r} : g[x].prev = h[x].prev
  BY <1>3, <1>5
<1>6. Typed(g)
  <2>1. \A x \in DOMAIN g : g[x] \in Header
    BY <1>2, <1>3, <1>4, <1>5
  <2>2. g = [x \in DOMAIN g |-> g[x]]
    BY <1>2 DEF Swallow
  <2> QED BY <2>1, <2>2, <1>2, <1>4 DEF Typed
<1>7. Whole(g)
  <2>1. {0, End} \subseteq DOMAIN g /\ g[End].used /\ g[0].prev = 0
    <3>1. 0 \in DOMAIN h /\ End \in DOMAIN h /\ h[End].used /\ h[0].prev = 0
      BY DEF Whole
    <3>2. 0 # q /\ End # q /\ 0 # r
      BY <1>1
    <3> QED BY <3>1, <3>2, <1>2, <1>8, <1>10
  <2>2. ASSUME NEW x \in DOMAIN g \ {End}
        PROVE  /\ g[x].next \in DOMAIN g /\ x + Hdr <= g[x].next
               /\ g[x].next # End => g[g[x].next].prev = x
               /\ x # 0 => g[x].prev \in DOMAIN g \ {End}
                           /\ g[g[x].prev].next = x
               /\ \A y \in DOMAIN g : x < y => g[x].next <= y
    <3>1. /\ x \in DOMAIN h \ {End} /\ x # q /\ x \in 0..End
          /\ h[x].next \in DOMAIN h /\ x + Hdr <= h[x].next
          /\ h[x].next # End => h[h[x].next].prev = x
          /\ x # 0 => h[x].prev \in DOMAIN h \ {End} /\ h[h[x].prev].next = x
          /\ \A y \in DOMAIN h : x < y => h[x].next <= y
      BY <1>2, <1>4 DEF Whole
    <3>2. /\ r # End => h[r].prev = q
          /\ \A y \in DOMAIN h : q < y => r <= y
          /\ h[q].prev = p
          /\ \A y \in DOMAIN h : p < y => q <= y
          /\ q + Hdr <= r /\ p + Hdr <= q
      BY <1>1 DEF Whole
    <3>3. CASE x = p
      <4>1. g[x].next = r /\ r \in DOMAIN g
        BY <3>3, <1>1, <1>2, <1>5
      <4>2. x + Hdr <= r
        BY <3>3, <3>2, <1>1
      <4>3. x # 0 => g[x].prev \in DOMAIN g \ {End} /\ g[g[x].prev].next = x
        <5> SUFFICES ASSUME x # 0
                     PROVE  /\ g[x].prev \in DOMAIN g \ {End}
                            /\ g[g[x].prev].next = x
          OBVIOUS
        <5>1. h[x].prev \in DOMAIN h \ {End} /\ h[h[x].prev].next = x
          BY <3>1
        <5>2. h[x].prev # q /\ h[x].prev # p
          BY <5>1, <3>3, <1>1
        <5>3. h[x].prev \in DOMAIN g \ {p}
          BY <5>1, <5>2, <3>3, <1>2
        <5> QED BY <5>1, <5>3, <3>3, <1>5, <1>9
      <4>4. ASSUME NEW y \in DOMAIN g, x < y PROVE r <= y
        <5>1. y \in DOMAIN h /\ y # q /\ q <= y /\ y \in 0..End
          BY <4>4, <3>3, <3>2, <1>2, <1>4
        <5> QED BY <5>1, <3>2, <1>1
      <4> QED BY <4>1, <4>2, <4>3, <4>4, <3>3, <1>5
    <3>4. CASE x # p
      <4>1. g[x].next = h[x].next
        BY <3>4, <3>1, <1>2, <1>3, <1>5
      <4>2. h[x].next # q
        BY <3>4, <3>1, <3>2, <1>1
      <4>3. g[x].next \in DOMAIN g
        BY <4>1, <4>2, <3>1, <1>2
      <4>4. g[x].next # End => g[g[x].next].prev = x
        <5> SUFFICES ASSUME h[x].next # End PROVE g[h[x].next].prev = x
          BY <4>1
        <5>1. h[x].next # r
          BY <3>1, <3>2
        <5> QED BY <5>1, <4>3, <4>1, <3>1, <1>10
      <4>5. x # 0 => g[x].prev \in DOMAIN g \ {End} /\ g[g[x].prev].next = x
        <5> SUFFICES ASSUME x # 0
                     PROVE  /\ g[x].prev \in DOMAIN g \ {End}
                            /\ g[g[x].prev].next = x
          OBVIOUS
        <5>1. CASE x = r
          BY <5>1, <1>1, <1>2, <1>5
        <5>2. CASE x # r
          <6>1. g[x].prev = h[x].prev
            BY <5>2, <3>4, <1>3
          <6>2. h[x].prev \in DOMAIN h \ {End} /\ h[h[x].prev].next = x
            BY <3>1
          <6>3. h[x].prev # q /\ h[x].prev # p
            BY <6>2, <5>2, <3>1
          <6>4. h[x].prev \in DOMAIN g \ {p}
            BY <6>2, <6>3, <1>2
          <6> QED BY <6>1, <6>2, <6>4, <1>9
        <5> QED BY <5>1, <5>2
      <4> QED BY <4>1, <4>3, <4>4, <4>5, <3>1, <1>2
    <3> QED BY <3>3, <3>4
  <2> QED BY <2>1, <2>2 DEF Whole
<1> QED BY <1>1, <1>2, <1>5, <1>6, <1>7, <1>8, <1>9

\* What Split does to a whole chain: a free block behind the one it shortens.
LEMMA SplitOK ==
  ASSUME NEW p \in Blocks \ {End}, NEW n \in Nat,
         Typed(hdr), Whole(hdr), Splits(p, n)
  PROVE  LET q == p + Hdr + n
             g == Split(p, n)
         IN  /\ Typed(g) /\ Whole(g)
             /\ DOMAIN g = Blocks \cup {q} /\ q \notin Blocks
             /\ p < q /\ g[p].used /\ g[p].next = q
             /\ ~g[q].used /\ g[q].next = hdr[p].next
<1> DEFINE q == p + Hdr + n
           g == Split(p, n)
           r == hdr[p].next
<1> USE SizesOK DEF Blocks
<1>1. /\ \A x \in Blocks : hdr[x] \in Header /\ x \in 0..End
      /\ r \in Blocks /\ r \in 0..End /\ p \in 0..End
      /\ \A x \in Blocks : p < x => r <= x
      /\ r # End => hdr[r].prev = p
  BY DEF Typed, Whole, Header
<1>2. p < q /\ p + Hdr <= q /\ q + Hdr <= r /\ q \in 0..End /\ q # End
  BY <1>1 DEF Splits, Room
<1>3. q \notin Blocks /\ r # p /\ r # q
  BY <1>1, <1>2
<1>4. DOMAIN g = Blocks \cup {q}
  BY DEF Split
<1>5. /\ g[p] = [hdr[p] EXCEPT !.next = q, !.used = TRUE]
      /\ g[q] = [used |-> FALSE, next |-> r, prev |-> p]
      /\ \A x \in Blocks \ {p} :
           g[x] = IF x = r /\ x # End THEN [hdr[x] EXCEPT !.prev = q]
                  ELSE hdr[x]
  BY <1>1, <1>3, <1>4 DEF Split
<1>6. /\ g[p].used /\ g[p].next = q /\ g[p].prev = hdr[p].prev
      /\ ~g[q].used /\ g[q].next = r /\ g[q].prev = p
  BY <1>1, <1>5 DEF Header
<1>7. \A x \in Blocks \ {p} :
        /\ g[x].used = hdr[x].used /\ g[x].next = hdr[x].next
        /\ g[x].prev = IF x = r /\ x # End THEN q ELSE hdr[x].prev
        /\ g[x] \in Header
  <2> SUFFICES ASSUME NEW x \in Blocks \ {p}
               PROVE  /\ g[x].used = hdr[x].used /\ g[x].next = hdr[x].next
                      /\ g[x].prev = IF x = r /\ x # End THEN q ELSE hdr[x].prev
                      /\ g[x] \in Header
    OBVIOUS
  <2>1. hdr[x] \in Header
    BY <1>1
  <2>2. CASE x = r /\ x # End
    <3>1. g[x] = [hdr[x] EXCEPT !.prev = q]
      BY <2>2, <1>5
    <3> QED BY <3>1, <2>1, <2>2, <1>2 DEF Header
  <2>3. CASE ~(x = r /\ x # End)
    <3>1. g[x] = hdr[x]
      BY <2>3, <1>5
    <3> QED BY <3>1, <2>1, <2>3
  <2> QED BY <2>2, <2>3
<1>8. Typed(g)
  <2>1. g[p] \in Header
    <3>1. hdr[p] \in Header /\ q \in 0..End /\ TRUE \in BOOLEAN
      BY <1>1, <1>2
    <3> QED BY <3>1, <1>5 DEF Header
  <2>2. g[q] \in Header
    BY <1>1, <1>2, <1>5 DEF Header
  <2>4. \A x \in Blocks \ {p} : g[x] \in Header
    BY <1>7
  <2>3. g = [x \in DOMAIN g |-> g[x]]
    BY <1>4 DEF Split
  <2> QED BY <2>1, <2>2, <2>3, <2>4, <1>1, <1>2, <1>4 DEF Typed
<1>9. Whole(g)
  <2>1. {0, End} \subseteq DOMAIN g /\ g[End].used /\ g[0].prev = 0
    <3>1. 0 \in Blocks /\ End \in Blocks /\ hdr[End].used /\ hdr[0].prev = 0
      BY DEF Whole
    <3>2. r # 0
      BY <1>1, <1>2
    <3>3. g[0].prev = 0
      BY <3>1, <3>2, <1>6, <1>7
    <3> QED BY <3>1, <3>3, <1>4, <1>7
  <2>2. ASSUME NEW x \in DOMAIN g \ {End}
        PROVE  /\ g[x].next \in DOMAIN g /\ x + Hdr <= g[x].next
               /\ g[x].next # End => g[g[x].next].prev = x
               /\ x # 0 => g[x].prev \in DOMAIN g \ {End}
                           /\ g[g[x].prev].next = x
               /\ \A y \in DOMAIN g : x < y => g[x].next <= y
    <3>1. CASE x = p
      <4>1. x # 0 => /\ hdr[p].prev \in Blocks \ {End}
                     /\ hdr[hdr[p].prev].next = p
        BY <3>1 DEF Whole
      <4>2. x # 0 => hdr[p].prev # p
        BY <4>1, <1>1, <1>2
      <4>3. x # 0 => /\ g[x].prev \in DOMAIN g \ {End}
                     /\ g[g[x].prev].next = x
        BY <4>1, <4>2, <3>1, <1>4, <1>6, <1>7
      <4>4. ASSUME NEW y \in DOMAIN g, x < y PROVE q <= y
        BY <4>4, <3>1, <1>1, <1>2, <1>4
      <4> QED BY <4>3, <4>4, <3>1, <1>2, <1>4, <1>6
    <3>2. CASE x = q
      <4>1. g[r].prev = q \/ r = End
        BY <1>1, <1>3, <1>7
      <4>2. ASSUME NEW y \in DOMAIN g, x < y PROVE r <= y
        BY <4>2, <3>2, <1>1, <1>2, <1>4
      <4> QED BY <4>1, <4>2, <3>2, <1>1, <1>2, <1>4, <1>6
    <3>3. CASE x \in Blocks \ {p, q}
      <4>1. /\ hdr[x].next \in Blocks /\ x + Hdr <= hdr[x].next
            /\ hdr[x].next # End => hdr[hdr[x].next].prev = x
            /\ x # 0 => /\ hdr[x].prev \in Blocks \ {End}
                        /\ hdr[hdr[x].prev].next = x
            /\ \A y \in Blocks : x < y => hdr[x].next <= y
        BY <3>3 DEF Whole
      <4>2. g[x].next = hdr[x].next
        BY <3>3, <1>7
      <4>3. g[x].next # End => g[g[x].next].prev = x
        <5> SUFFICES ASSUME hdr[x].next # End PROVE g[hdr[x].next].prev = x
          BY <4>2
        <5>1. hdr[x].next # r
          BY <4>1, <3>3, <1>1
        <5>2. CASE hdr[x].next = p
          BY <5>2, <4>1, <1>6
        <5>3. CASE hdr[x].next # p
          BY <5>1, <5>3, <4>1, <1>7
        <5> QED BY <5>2, <5>3
      <4>4. x # 0 => g[x].prev \in DOMAIN g \ {End} /\ g[g[x].prev].next = x
        <5>1. CASE x = r
          BY <5>1, <3>3, <1>2, <1>4, <1>6, <1>7
        <5>2. CASE x # r
          <6>1. g[x].prev = hdr[x].prev
            BY <5>2, <3>3, <1>7
          <6>2. x # 0 => hdr[x].prev # p
            BY <5>2, <4>1
          <6> QED BY <6>1, <6>2, <4>1, <1>4, <1>7
        <5> QED BY <5>1, <5>2
      <4>5. ASSUME NEW y \in DOMAIN g, x < y PROVE hdr[x].next <= y
        <5>1. CASE y \in Blocks
          BY <5>1, <4>5, <4>1
        <5>2. CASE y = q
          <6>1. x < p \/ p < x
            BY <3>3, <1>1
          <6>2. CASE x < p
            BY <6>2, <5>2, <4>1, <1>1, <1>2
          <6>3. CASE p < x
            BY <6>3, <4>1, <5>2, <4>5, <3>3, <1>1, <1>2
          <6> QED BY <6>1, <6>2, <6>3
        <5> QED BY <5>1, <5>2, <1>4
      <4> QED BY <4>1, <4>2, <4>3, <4>4, <4>5, <1>4
    <3> QED BY <3>1, <3>2, <3>3, <1>4
  <2> QED BY <2>1, <2>2 DEF Whole
<1> QED BY <1>2, <1>3, <1>4, <1>6, <1>8, <1>9

\* Split leaves the other blocks as they are.
LEMMA SplitRestOK ==
  ASSUME NEW p \in Blocks \ {End}, NEW n \in Nat,
         Typed(hdr), Whole(hdr), Splits(p, n), NEW x \in Blocks \ {p}
  PROVE  /\ Split(p, n)[x].used = hdr[x].used
         /\ Split(p, n)[x].next = hdr[x].next
<1>1. p + Hdr + n \notin Blocks
  BY SplitOK
<1>2. hdr[x] \in Header
  BY DEF Typed, Blocks
<1>3. \/ Split(p, n)[x] = hdr[x]
      \/ Split(p, n)[x] = [hdr[x] EXCEPT !.prev = p + Hdr + n]
  BY <1>1 DEF Split
<1> QED BY <1>2, <1>3 DEF Header

\* What plug_holes does around a block p just freed, when there are no holes
\* elsewhere: the chain stays whole, blocks in use stay as they are, and no
\* two free blocks are neighbours.
LEMMA PluggedOK ==
  ASSUME NEW h, Typed(h), Whole(h), NEW p \in DOMAIN h \ {End}, ~h[p].used,
         \A x \in DOMAIN h \ {End, p} :
           ~h[x].used /\ h[x].next # p => h[h[x].next].used
  PROVE  LET g == Plugged(h, p)
         IN  /\ Typed(g) /\ Whole(g) /\ DOMAIN g \subseteq DOMAIN h
             /\ \A x \in DOMAIN h : h[x].used => x \in DOMAIN g
             /\ \A x \in DOMAIN g : g[x].used = h[x].used
             /\ \A x \in DOMAIN g \ {End} : g[x].used => g[x].next = h[x].next
             /\ \A x \in DOMAIN g \ {End} : ~g[x].used => g[g[x].next].used
             /\ \A x \in DOMAIN h : x < p => x \in DOMAIN g
             /\ ~HoleBefore(h, p) => p \in DOMAIN g
<1> DEFINE f == IF HoleAfter(h, p) THEN Swallow(h, p, h[p].next) ELSE h
           g == IF HoleBefore(f, p) THEN Swallow(f, f[p].prev, p) ELSE f
           q == h[p].next
           m == h[p].prev
<1> USE SizesOK
<1>1. /\ \A x \in DOMAIN h : h[x] \in Header /\ x \in 0..End
      /\ q \in DOMAIN h /\ p < q
      /\ p = 0 => m = 0
      /\ p # 0 => m \in DOMAIN h \ {End} /\ h[m].next = p /\ m < p
      /\ h[End].used /\ End \in DOMAIN h
  BY DEF Typed, Whole, Header
<1>2. /\ Typed(f) /\ Whole(f) /\ DOMAIN f \subseteq DOMAIN h
      /\ p \in DOMAIN f /\ m \in DOMAIN f /\ f[p].prev = m
      /\ DOMAIN h \ {q} \subseteq DOMAIN f
      /\ \A x \in DOMAIN h : h[x].used => x \in DOMAIN f
      /\ \A x \in DOMAIN f : f[x].used = h[x].used
      /\ \A x \in DOMAIN f \ {p} : f[x].next = h[x].next
      /\ f[f[p].next].used
  <2>1. CASE HoleAfter(h, p)
    <3>1. f = Swallow(h, p, q) /\ q # End /\ ~h[q].used
      BY <2>1 DEF HoleAfter
    <3> HIDE DEF f
    <3>2. /\ Typed(f) /\ Whole(f) /\ DOMAIN f = DOMAIN h \ {q}
          /\ \A x \in DOMAIN f : f[x].used = h[x].used
          /\ \A x \in DOMAIN f \ {p} : f[x].next = h[x].next
          /\ f[p].next = h[q].next /\ f[p].prev = m
      BY <3>1, SwallowOK
    <3>3. q \in DOMAIN h \ {End, p} /\ h[q].next # p
      <4>1. q \in DOMAIN h \ {End, p} /\ q \in 0..End /\ p \in 0..End
        BY <3>1, <1>1
      <4>2. q + Hdr <= h[q].next /\ h[q].next \in 0..End
        BY <4>1, <1>1 DEF Whole, Header
      <4> QED BY <4>1, <4>2, <1>1
    <3>4. h[h[q].next].used /\ h[q].next \in DOMAIN h
      BY <3>1, <3>3 DEF Whole
    <3>5. h[q].next \in DOMAIN f /\ m # q /\ p # q /\ m \in DOMAIN h
      BY <3>1, <3>2, <3>4, <1>1
    <3> QED BY <3>1, <3>2, <3>4, <3>5
  <2>2. CASE ~HoleAfter(h, p)
    <3>1. f = h
      BY <2>2
    <3>2. h[q].used
      BY <2>2, <1>1 DEF HoleAfter
    <3> QED BY <3>1, <3>2, <1>1
  <2> QED BY <2>1, <2>2
<1>7. g = Plugged(h, p)
  BY DEF Plugged
<1>3. HoleBefore(f, p) <=> HoleBefore(h, p)
  BY <1>2 DEF HoleBefore
<1>4. ASSUME NEW x \in DOMAIN f \ {End, p}, ~f[x].used, f[x].next # p
      PROVE  f[f[x].next].used
  <2>1. f[x].next = h[x].next /\ f[x].next \in DOMAIN f
    BY <1>4, <1>2 DEF Whole
  <2>2. h[h[x].next].used
    BY <1>4, <2>1, <1>2
  <2> QED BY <2>1, <2>2, <1>2
<1>5. CASE HoleBefore(h, p)
  <2>1. m # p /\ ~h[m].used /\ g = Swallow(f, m, p)
    BY <1>5, <1>2, <1>3 DEF HoleBefore
  <2>2. /\ m \in DOMAIN f \ {End} /\ f[m].next = p /\ p # End /\ p # 0
        /\ m < p
    BY <2>1, <1>1, <1>2
  <2> HIDE DEF f, g, m
  <2>9. /\ g = Swallow(f, m, f[m].next) /\ f[m].next # End
        /\ m \in DOMAIN f \ {End} /\ Typed(f) /\ Whole(f)
    BY <2>1, <2>2, <1>2
  <2>10. /\ Typed(g) /\ Whole(g) /\ DOMAIN g = DOMAIN f \ {f[m].next}
         /\ \A x \in DOMAIN g : g[x].used = f[x].used
         /\ \A x \in DOMAIN g \ {m} : g[x].next = f[x].next
         /\ g[m].next = f[f[m].next].next
    BY <2>9, SwallowOK
  <2>3. /\ Typed(g) /\ Whole(g) /\ DOMAIN g = DOMAIN f \ {p}
        /\ \A x \in DOMAIN g : g[x].used = f[x].used
        /\ \A x \in DOMAIN g \ {m} : g[x].next = f[x].next
        /\ g[m].next = f[p].next
    BY <2>2, <2>10
  <2>4. m \in DOMAIN g
    BY <2>1, <2>2, <2>3
  <2>5. ASSUME NEW x \in DOMAIN g \ {End}, ~g[x].used
        PROVE  g[g[x].next].used
    <3>1. g[x].next \in DOMAIN g
      BY <2>3 DEF Whole
    <3>2. CASE x = m
      BY <3>1, <3>2, <2>3, <1>2
    <3>3. CASE x # m
      <4>1. x \in DOMAIN f \ {End, p} /\ g[x].next = f[x].next /\ ~f[x].used
        BY <3>3, <2>3, <2>5
      <4>2. f[x].next # p
        BY <3>1, <4>1, <2>3
      <4> QED BY <4>1, <4>2, <3>1, <2>3, <1>4
    <3> QED BY <3>2, <3>3
  <2>8. \A x \in DOMAIN h : x < p => x \in DOMAIN g
    BY <2>3, <1>1, <1>2
  <2>6. \A x \in DOMAIN h : h[x].used => x \in DOMAIN g
    BY <2>3, <1>2
  <2>7. \A x \in DOMAIN g \ {End} : g[x].used => g[x].next = h[x].next
    BY <2>1, <2>3, <1>2
  <2> QED BY <2>3, <2>4, <2>5, <2>6, <2>7, <2>8, <1>2, <1>5, <1>7
<1>6. CASE ~HoleBefore(h, p)
  <2>1. g = f
    BY <1>6, <1>3
  <2>2. ASSUME NEW x \in DOMAIN f \ {End}, ~f[x].used
        PROVE  f[f[x].next].used
    <3>1. CASE x = p
      BY <3>1, <1>2
    <3>2. CASE x # p /\ f[x].next = p
      <4>1. f[p].prev = x
        BY <3>2, <2>2, <1>2 DEF Whole
      <4> QED BY <4>1, <3>2, <2>2, <1>2, <1>6 DEF HoleBefore
    <3>3. CASE x # p /\ f[x].next # p
      BY <3>3, <2>2, <1>4
    <3> QED BY <3>1, <3>2, <3>3
  <2>3. \A x \in DOMAIN f \ {End} : f[x].used => f[x].next = h[x].next
    BY <1>2
  <2>4. \A x \in DOMAIN h : x < p => x \in DOMAIN g
    BY <2>1, <1>1, <1>2
  <2> HIDE DEF g, f
  <2> QED BY <2>1, <2>2, <2>3, <2>4, <1>2, <1>6, <1>7
<1> QED BY <1>5, <1>6

\* After a free and plug_holes, lfree is the lowest free block.
LEMMA LowestOK ==
  ASSUME NEW h, Typed(h), Whole(h), NEW p \in DOMAIN h \ {End}, ~h[p].used,
         \A x \in DOMAIN h \ {End, p} :
           ~h[x].used /\ h[x].next # p => h[h[x].next].used,
         lfree \in DOMAIN h, ~h[lfree].used \/ lfree = End,
         \A x \in DOMAIN h : x # p /\ ~h[x].used => lfree <= x
  PROVE  LET g == Plugged(h, p)
         IN  /\ Lowest(h, p) \in DOMAIN g /\ ~g[Lowest(h, p)].used
             /\ \A x \in DOMAIN g : ~g[x].used => Lowest(h, p) <= x
<1> DEFINE g == Plugged(h, p)
           l == IF p < lfree THEN p ELSE lfree
<1> USE SizesOK
<1>1. /\ \A x \in DOMAIN h : x \in 0..End
      /\ p < h[p].next /\ h[p].next \in DOMAIN h
      /\ p = 0 => h[p].prev = 0
      /\ p # 0 => h[p].prev \in DOMAIN h /\ h[p].prev < p
  <2>1. \A x \in DOMAIN h : x \in 0..End
    BY DEF Typed
  <2>2. p < h[p].next /\ h[p].next \in DOMAIN h /\ (p = 0 => h[p].prev = 0)
    BY <2>1 DEF Whole
  <2>3. ASSUME p # 0 PROVE h[p].prev \in DOMAIN h /\ h[p].prev < p
    <3>1. /\ h[p].prev \in DOMAIN h \ {End} /\ h[h[p].prev].next = p
      BY <2>3 DEF Whole
    <3>2. h[p].prev + Hdr <= p
      BY <3>1 DEF Whole
    <3> QED BY <3>1, <3>2, <2>1
  <2> QED BY <2>1, <2>2, <2>3
<1>2. /\ DOMAIN g \subseteq DOMAIN h
      /\ \A x \in DOMAIN g : g[x].used = h[x].used
      /\ \A x \in DOMAIN h : x < p => x \in DOMAIN g
      /\ ~HoleBefore(h, p) => p \in DOMAIN g
  BY PluggedOK
<1> HIDE DEF g
<1>3. l \in DOMAIN h /\ ~h[l].used /\ l <= p
  BY <1>1
<1>4. \A x \in DOMAIN h : ~h[x].used => l <= x
  BY <1>1
<1>5. ~(HoleBefore(h, p) /\ l = p)
  BY <1>1, <1>4 DEF HoleBefore
<1>6. Lowest(h, p) = l
  BY <1>1, <1>3, <1>5 DEF Lowest
<1>7. l \in DOMAIN g
  BY <1>1, <1>2, <1>3, <1>5
<1> QED BY <1>2, <1>3, <1>4, <1>6, <1>7 DEF g

-----------------------------------------------------------------------------
(* The semaphore. *)

Queued(t) == \E i \in DOMAIN queue[heap_sem] : queue[heap_sem][i] = t

Once == \A i, k \in DOMAIN queue[heap_sem] :
          queue[heap_sem][i] = queue[heap_sem][k] => i = k

Inside(t) == pc[t] \in Holding \/ t \in given[heap_sem]

\* The one token is free, or exactly one thread is inside; a thread that
\* waits stands in the queue once or was given the token.
SemOK ==
  /\ pc \in [Thread -> Place]
  /\ free \in [{heap_sem} -> {0, 1}]
  /\ queue \in [{heap_sem} -> Seq(Thread)]
  /\ given \in [{heap_sem} -> SUBSET Thread]
  /\ Once
  /\ \A t \in Thread :
       /\ pc[t] = "wait" <=> Queued(t) \/ t \in given[heap_sem]
       /\ ~(Queued(t) /\ t \in given[heap_sem])
  /\ \A t, u \in Thread : Inside(t) /\ Inside(u) => t = u
  /\ free[heap_sem] = 1 <=> \A t \in Thread : ~Inside(t)
  /\ free[heap_sem] = 1 => queue[heap_sem] = <<>>

\* A step inside rt_malloc leaves the semaphore alone.
LEMMA InnerSem ==
  ASSUME SemOK, NEW t \in Thread, pc[t] \in Holding, NEW q \in Holding,
         pc' = [pc EXCEPT ![t] = q], UNCHANGED semVars
  PROVE  SemOK'
<1>1. \A u \in Thread : pc'[u] \in Place /\ (Inside(u)' <=> Inside(u))
                        /\ (pc'[u] = "wait" <=> pc[u] = "wait")
  BY DEF SemOK, Inside, semVars, Holding, Place
<1>2. pc' \in [Thread -> Place]
  BY <1>1 DEF SemOK
<1>3. /\ free' = free /\ queue' = queue /\ given' = given
      /\ \A u \in Thread : Queued(u)' <=> Queued(u)
      /\ Once' <=> Once
  BY DEF semVars, Queued, Once
<1> QED BY <1>1, <1>2, <1>3 DEF SemOK

\* A thread enters: it has the token, or stands in the queue.
LEMMA EnterSem ==
  ASSUME SemOK, NEW t \in Thread, NEW j, Enter(t, j)
  PROVE  /\ SemOK' /\ pc' \in [Thread -> Place]
         /\ pc'[t] \in {"in", "wait"}
         /\ \A u \in Thread \ {t} : pc'[u] = pc[u]
         /\ pc'[t] = "in" => \A u \in Thread : pc[u] \notin Holding
<1> USE DEF SemOK
<1>1. pc[t] = "out" /\ t \notin given[heap_sem] /\ ~Queued(t)
  BY DEF Enter
<1>2. CASE HeapSem!Take(heap_sem) /\ pc' = [pc EXCEPT ![t] = "in"]
  <2>1. /\ free[heap_sem] = 1 /\ free' = [free EXCEPT ![heap_sem] = 0]
        /\ queue' = queue /\ given' = given
    <3>1. free[heap_sem] = 1
      BY <1>2 DEF HeapSem!Take
    <3> QED BY <1>2, <3>1 DEF HeapSem!Take
  <2>2. /\ \A u \in Thread : Queued(u)' <=> Queued(u)
        /\ Once' <=> Once
    BY <2>1 DEF Queued, Once
  <2>3. \A u \in Thread : ~Inside(u)
    BY <2>1
  <2>4. pc' \in [Thread -> Place] /\ pc'[t] = "in"
    BY <1>2 DEF Place, Holding
  <2>5. \A u \in Thread : Inside(u)' <=> u = t
    BY <1>2, <2>1, <2>3, <2>4 DEF Inside, Holding
  <2>6. \A u \in Thread : pc'[u] = "wait" <=> pc[u] = "wait"
    BY <1>1, <1>2
  <2>7. free' \in [{heap_sem} -> {0, 1}] /\ free'[heap_sem] = 0
    BY <2>1
  <2>8. SemOK'
    BY <2>1, <2>2, <2>4, <2>5, <2>6, <2>7
  <2> QED BY <1>2, <2>3, <2>4, <2>8 DEF Inside
<1>3. CASE HeapSem!Wait(t, heap_sem) /\ pc' = [pc EXCEPT ![t] = "wait"]
  <2> DEFINE s == queue[heap_sem]
  <2>1. /\ free[heap_sem] = 0 /\ free' = free /\ given' = given
        /\ queue' = [queue EXCEPT ![heap_sem] = Append(s, t)]
    BY <1>3 DEF HeapSem!Wait
  <2>2. /\ s \in Seq(Thread) /\ queue'[heap_sem] = Append(s, t)
        /\ queue' \in [{heap_sem} -> Seq(Thread)]
    BY <2>1
  <2>3. /\ DOMAIN Append(s, t) = 1..(Len(s) + 1) /\ DOMAIN s = 1..Len(s)
        /\ Len(s) \in Nat /\ Append(s, t)[Len(s) + 1] = t
        /\ \A i \in DOMAIN s : Append(s, t)[i] = s[i]
    BY <2>2
  <2>4. \A u \in Thread : Queued(u)' <=> Queued(u) \/ u = t
    BY <2>2, <2>3 DEF Queued
  <2>5. Once'
    <3> SUFFICES ASSUME NEW i \in 1..(Len(s) + 1), NEW k \in 1..(Len(s) + 1),
                        Append(s, t)[i] = Append(s, t)[k]
                 PROVE  i = k
      BY <2>2, <2>3 DEF Once
    <3>1. \A m \in DOMAIN s : s[m] # t
      BY <1>1 DEF Queued
    <3>2. (i \in DOMAIN s \/ i = Len(s) + 1) /\ (k \in DOMAIN s \/ k = Len(s) + 1)
      BY <2>3
    <3>3. i \in DOMAIN s /\ k \in DOMAIN s => i = k
      BY <2>3 DEF Once
    <3>4. ~(i \in DOMAIN s /\ k = Len(s) + 1) /\ ~(k \in DOMAIN s /\ i = Len(s) + 1)
      BY <3>1, <2>3
    <3> QED BY <3>2, <3>3, <3>4
  <2>6. pc' \in [Thread -> Place] /\ pc'[t] = "wait"
    BY <1>3 DEF Place
  <2>7. \A u \in Thread : Inside(u)' <=> Inside(u)
    BY <1>1, <1>3, <2>1, <2>6 DEF Inside, Holding
  <2>8. \A u \in Thread : pc'[u] = "wait" <=> pc[u] = "wait" \/ u = t
    BY <1>3, <2>6
  <2>9. SemOK'
    BY <1>1, <2>1, <2>2, <2>4, <2>5, <2>6, <2>7, <2>8
  <2> QED BY <1>3, <2>6, <2>9
<1> QED BY <1>2, <1>3 DEF Enter

\* A thread that was given the token goes in.
LEMMA ResumeSem ==
  ASSUME SemOK, NEW t \in Thread, Resume(t)
  PROVE  /\ SemOK' /\ pc[t] = "wait" /\ pc'[t] = "in"
         /\ \A u \in Thread \ {t} : pc'[u] = pc[u]
         /\ \A u \in Thread : pc[u] \notin Holding
<1> USE DEF SemOK
<1>1. /\ t \in given[heap_sem] /\ free' = free /\ queue' = queue
      /\ given' = [given EXCEPT ![heap_sem] = @ \ {t}]
      /\ pc[t] = "wait" /\ pc' = [pc EXCEPT ![t] = "in"]
  BY DEF Resume, HeapSem!Succeed
<1>2. \A u \in Thread : (Queued(u)' <=> Queued(u)) /\ (Once' <=> Once)
  BY <1>1 DEF Queued, Once
<1>3. \A u \in Thread : Inside(u) <=> u = t
  BY <1>1 DEF Inside
<1>4. given[heap_sem] = {t} /\ given'[heap_sem] = {}
  BY <1>1, <1>3 DEF Inside
<1>5. pc' \in [Thread -> Place] /\ pc'[t] = "in"
  BY <1>1 DEF Place, Holding
<1>6. \A u \in Thread : Inside(u)' <=> u = t
  BY <1>1, <1>3, <1>4, <1>5 DEF Inside, Holding
<1>7. \A u \in Thread : pc'[u] = "wait" <=> pc[u] = "wait" /\ u # t
  BY <1>1
<1>8. given' \in [{heap_sem} -> SUBSET Thread]
  BY <1>1
<1>9. SemOK'
  BY <1>1, <1>2, <1>3, <1>4, <1>5, <1>6, <1>7, <1>8
<1> QED BY <1>1, <1>3, <1>9 DEF Inside, Holding

\* A thread leaves: the token is free again or given to the first waiter.
LEMMA LeaveSem ==
  ASSUME SemOK, NEW t \in Thread, pc[t] \in Holding, Leave(t)
  PROVE  /\ SemOK' /\ pc'[t] = "out"
         /\ \A u \in Thread \ {t} : pc'[u] = pc[u] /\ pc'[u] \notin Holding
<1> USE DEF SemOK
<1> DEFINE s == queue[heap_sem]
<1>1. pc' = [pc EXCEPT ![t] = "out"] /\ pc'[t] = "out"
  BY DEF Leave
<1>2. \A u \in Thread : Inside(u) <=> u = t
  BY DEF Inside
<1>3. free[heap_sem] = 0 /\ given[heap_sem] = {}
  <2>1. given[heap_sem] \subseteq {t} /\ free[heap_sem] # 1
    BY <1>2 DEF Inside
  <2>2. pc[t] # "wait"
    BY DEF Holding
  <2> QED BY <2>1, <2>2
<1>4. pc' \in [Thread -> Place]
  BY <1>1 DEF Place
<1>5. \A u \in Thread \ {t} : pc'[u] = pc[u] /\ pc'[u] \notin Holding
  BY <1>1, <1>2 DEF Inside
<1>6. \A u \in Thread : pc'[u] = "wait" <=> pc[u] = "wait"
  BY <1>1, <1>5 DEF Holding
<1>7. CASE HeapSem!Release(heap_sem)
  <2>1. /\ s = <<>> /\ free' = [free EXCEPT ![heap_sem] = 1]
        /\ queue' = queue /\ given' = given
    BY <1>7, <1>3 DEF HeapSem!Release
  <2>2. \A u \in Thread : (Queued(u)' <=> Queued(u)) /\ (Once' <=> Once)
    BY <2>1 DEF Queued, Once
  <2>3. \A u \in Thread : ~Inside(u)'
    BY <2>1, <1>1, <1>3, <1>5 DEF Inside, Holding
  <2>4. free' \in [{heap_sem} -> {0, 1}] /\ free'[heap_sem] = 1
    BY <2>1
  <2>5. SemOK'
    BY <2>1, <2>2, <2>3, <2>4, <1>4, <1>6
  <2> QED BY <2>5, <1>1, <1>5
<1>8. CASE HeapSem!Grant(heap_sem)
  <2> DEFINE w == Head(s)
  <2>1. /\ s # <<>> /\ free' = free
        /\ queue' = [queue EXCEPT ![heap_sem] = Tail(s)]
        /\ given' = [given EXCEPT ![heap_sem] = {w}]
    BY <1>8, <1>3 DEF HeapSem!Grant
  <2>2. /\ s \in Seq(Thread) /\ w = s[1] /\ w \in Thread
        /\ Len(s) \in Nat /\ Len(s) > 0 /\ DOMAIN s = 1..Len(s)
        /\ Tail(s) \in Seq(Thread) /\ DOMAIN Tail(s) = 1..(Len(s) - 1)
        /\ \A i \in 1..(Len(s) - 1) : Tail(s)[i] = s[i + 1]
    BY <2>1
  <2>3. queue'[heap_sem] = Tail(s) /\ queue' \in [{heap_sem} -> Seq(Thread)]
    BY <2>1, <2>2
  <2>4. \A u \in Thread : Queued(u)' <=> Queued(u) /\ u # w
    <3> SUFFICES ASSUME NEW u \in Thread
                 PROVE  Queued(u)' <=> Queued(u) /\ u # w
      OBVIOUS
    <3>1. ASSUME Queued(u)' PROVE Queued(u) /\ u # w
      <4>1. PICK i \in 1..(Len(s) - 1) : s[i + 1] = u
        BY <3>1, <2>2, <2>3 DEF Queued
      <4>2. i + 1 \in DOMAIN s /\ 1 \in DOMAIN s /\ i + 1 # 1
        BY <2>2
      <4> QED BY <4>1, <4>2, <2>2 DEF Queued, Once
    <3>2. ASSUME Queued(u), u # w PROVE Queued(u)'
      <4>1. PICK i \in DOMAIN s : s[i] = u
        BY <3>2 DEF Queued
      <4>2. i - 1 \in 1..(Len(s) - 1) /\ Tail(s)[i - 1] = u
        BY <4>1, <3>2, <2>2
      <4> QED BY <4>2, <2>2, <2>3 DEF Queued
    <3> QED BY <3>1, <3>2
  <2>5. Once'
    <3> SUFFICES ASSUME NEW i \in 1..(Len(s) - 1), NEW k \in 1..(Len(s) - 1),
                        Tail(s)[i] = Tail(s)[k]
                 PROVE  i = k
      BY <2>2, <2>3 DEF Once
    <3>1. i + 1 \in DOMAIN s /\ k + 1 \in DOMAIN s /\ s[i + 1] = s[k + 1]
      BY <2>2
    <3> QED BY <3>1 DEF Once
  <2>6. Queued(w) /\ pc[w] = "wait" /\ w # t
    <3>1. Queued(w)
      BY <2>2 DEF Queued
    <3> QED BY <3>1, <2>2 DEF Holding
  <2>7. given'[heap_sem] = {w} /\ given' \in [{heap_sem} -> SUBSET Thread]
    BY <2>1, <2>2
  <2>8. \A u \in Thread : Inside(u)' <=> u = w
    BY <2>6, <2>7, <1>1, <1>5 DEF Inside, Holding
  <2>9. SemOK'
    <3>1. \A u \in Thread :
            /\ pc'[u] = "wait" <=> Queued(u)' \/ u \in given'[heap_sem]
            /\ ~(Queued(u)' /\ u \in given'[heap_sem])
      BY <2>4, <2>6, <2>7, <1>3, <1>6
    <3>2. \A u, v \in Thread : Inside(u)' /\ Inside(v)' => u = v
      BY <2>8
    <3>3. free'[heap_sem] = 0 /\ ~(\A u \in Thread : ~Inside(u)')
      BY <2>1, <2>2, <2>8, <1>3
    <3> QED BY <3>1, <3>2, <3>3, <2>1, <2>3, <2>5, <2>7, <1>4
  <2> QED BY <2>9, <1>1, <1>5
<1> QED BY <1>7, <1>8 DEF Leave

-----------------------------------------------------------------------------
(* The invariant. *)

JobType == [fn : {"none", "malloc", "free"},
            size : Granted \cup {0}, at : 0..End]

\* A call and the place its thread is at agree.
JobOK ==
  /\ job \in [Thread -> JobType]
  /\ \A t \in Thread :
       /\ pc[t] = "out" => job[t] = NoJob
       /\ pc[t] \in {"search", "advance", "carved"} => job[t].fn = "malloc"
       /\ job[t].fn = "malloc" => job[t].size \in Granted
                                  /\ job[t].size <= MemSize
       /\ job[t].fn = "free" => job[t].size \in Granted

\* The search stands at a block, and no block behind it would have done.
SearchOK ==
  \A t \in Thread : pc[t] = "search" =>
    /\ job[t].at \in Blocks
    /\ \A p \in Blocks : p < job[t].at => ~Fits(p, job[t].size)

\* All blocks are aligned, and so are the regions callers have.
AlignedOK ==
  /\ \A p \in Blocks : p % Unit = 0
  /\ live \subseteq [at : Hdr..End, size : Granted]
  /\ \A r \in live : r.at % Unit = 0

IInv ==
  /\ Typed(hdr) /\ ChainOK /\ SemOK /\ JobOK /\ BlocksOwned
  /\ Coalesced /\ LowestFree /\ SearchOK /\ AlignedOK

\* A block serves whom it served as long as its next and used stay.
LEMMA ServesKept ==
  ASSUME NEW p, NEW n, Serves(p, n), p \in Blocks',
         hdr'[p].used = hdr[p].used, hdr'[p].next = hdr[p].next
  PROVE  Serves(p, n)'
BY DEF Serves, Room

\* Outside the search and the calls that hold a block nothing is owned.
LEMMA HasOK ==
  ASSUME JobOK, NEW t \in Thread
  PROVE  /\ Has(t) => pc[t] # "out" /\ pc[t] # "search"
         /\ pc[t] \in {"advance", "carved"} => job[t].fn = "malloc"
BY DEF JobOK, Has, NoJob

\* The initial state: one free block and the end.
LEMMA InitOK == Init => IInv
<1> SUFFICES ASSUME Init PROVE IInv
  OBVIOUS
<1> USE SizesOK DEF Init
<1>0. /\ Blocks = {0, End} /\ 0 # End /\ 0 \in 0..End /\ End \in 0..End
      /\ hdr[0] = [used |-> 0 = End, next |-> End, prev |-> 0]
      /\ hdr[End] = [used |-> End = End, next |-> End, prev |-> End]
  BY DEF Blocks
<1>1. /\ Blocks = {0, End} /\ 0 # End /\ 0 \in 0..End /\ End \in 0..End
      /\ hdr[0] = [used |-> FALSE, next |-> End, prev |-> 0]
      /\ hdr[End] = [used |-> TRUE, next |-> End, prev |-> End]
  <2>1. (0 = End) = FALSE /\ (End = End) = TRUE
    BY <1>0
  <2> QED BY ONLY <2>1, <1>0
<1>2. Typed(hdr)
  <2>1. \A p \in {0, End} : [used |-> p = End, next |-> End, prev |-> p] \in Header
    BY <1>1 DEF Header
  <2> QED BY <2>1, <1>1 DEF Typed, Blocks
<1>3. ChainOK
  BY <1>1 DEF ChainOK, Whole, Blocks
<1>4. SemOK
  <2>1. /\ free = [s \in {heap_sem} |-> 1] /\ queue = [s \in {heap_sem} |-> <<>>]
        /\ given = [s \in {heap_sem} |-> {}]
    BY DEF HeapSem!Init
  <2>3. queue[heap_sem] = <<>> /\ given[heap_sem] = {} /\ free[heap_sem] = 1
    BY <2>1
  <2>4. \A i \in DOMAIN queue[heap_sem] : FALSE
    BY <2>3
  <2>2. \A t \in Thread : ~Inside(t) /\ ~Queued(t)
    BY <2>3, <2>4 DEF Inside, Queued, Holding
  <2> QED BY <2>1, <2>2, <2>3, <2>4 DEF SemOK, Once, Place
<1>5. JobOK
  <2>1. NoJob \in JobType
    BY DEF NoJob, JobType
  <2> QED BY <2>1 DEF JobOK, NoJob
<1>6. BlocksOwned
  <2>1. \A t \in Thread : ~Has(t)
    BY DEF Has, NoJob
  <2> QED BY <2>1, <1>1 DEF BlocksOwned, LiveServed, HasServed, NoneLost
<1>7. Coalesced /\ LowestFree
  BY <1>1 DEF Coalesced, LowestFree, Stale
<1>8. SearchOK
  BY DEF SearchOK
<1>9. AlignedOK
  <2>1. 0 % Unit = 0 /\ End % Unit = 0
    <3>1. (0 * Unit) % Unit = 0
      BY HeapAssumption, MultipleOK
    <3>2. 0 * Unit = 0
      BY HeapAssumption
    <3>3. (MemSize + Hdr) % Unit = 0
      BY HeapAssumption, SumOK
    <3> QED BY <3>1, <3>2, <3>3 DEF End
  <2> QED BY <2>1, <1>1 DEF AlignedOK
<1> QED BY <1>2, <1>3, <1>4, <1>5, <1>6, <1>7, <1>8, <1>9 DEF IInv

-----------------------------------------------------------------------------
(* Steps that leave the blocks alone. *)

\* Who owns which block does not change when no block, no region and no
\* thread that has a block does.
LEMMA OwnedSame ==
  ASSUME BlocksOwned, hdr' = hdr, live' = live,
         \A u \in Thread : /\ Has(u)' <=> Has(u)
                           /\ Has(u) => job'[u] = job[u]
  PROVE  BlocksOwned'
<1>1. \A p, n : Serves(p, n)' <=> Serves(p, n)
  BY DEF Serves, Room, Blocks
<1>2. LiveServed'
  BY <1>1 DEF BlocksOwned, LiveServed
<1>3. HasServed'
  BY <1>1 DEF BlocksOwned, HasServed
<1>4. NoneLost'
  BY DEF BlocksOwned, NoneLost, Blocks
<1> QED BY <1>2, <1>3, <1>4 DEF BlocksOwned

LEMMA LowestSame ==
  ASSUME LowestFree, hdr' = hdr, lfree' = lfree,
         \A u \in Thread : pc[u] = "advance" => pc'[u] = "advance"
  PROVE  LowestFree'
BY DEF LowestFree, Stale, Blocks

LEMMA ChainSame ==
  ASSUME IInv, hdr' = hdr
  PROVE  /\ Typed(hdr)' /\ ChainOK' /\ Coalesced'
         /\ \A p, n : Fits(p, n)' <=> Fits(p, n)
         /\ live' \subseteq live => AlignedOK'
BY DEF IInv, Typed, ChainOK, Whole, Coalesced, Blocks, Fits, Room, AlignedOK

\* Thread t goes on with call j.
LEMMA JobStep ==
  ASSUME IInv, NEW t \in Thread, NEW j \in JobType, SemOK',
         job' = [job EXCEPT ![t] = j],
         \A u \in Thread \ {t} : pc'[u] = pc[u],
         pc'[t] = "out" => j = NoJob,
         pc'[t] \in {"search", "advance", "carved"} => j.fn = "malloc",
         j.fn = "malloc" => j.size \in Granted /\ j.size <= MemSize,
         j.fn = "free" => j.size \in Granted
  PROVE  JobOK' /\ job'[t] = j /\ \A u \in Thread \ {t} : job'[u] = job[u]
BY DEF IInv, JobOK

LEMMA NoJobOK == NoJob \in JobType /\ NoJob.fn = "none"
BY SizesOK DEF NoJob, JobType

\* A call that changes nothing and returns.
LEMMA LeaveOK ==
  ASSUME IInv, NEW t \in Thread, pc[t] \in Holding, Leave(t)
  PROVE  /\ SemOK' /\ JobOK' /\ SearchOK' /\ pc'[t] = "out" /\ ~Has(t)'
         /\ \A u \in Thread \ {t} :
              /\ job'[u] = job[u] /\ pc'[u] = pc[u] /\ pc'[u] \notin Holding
              /\ Has(u)' <=> Has(u)
<1>1. /\ SemOK' /\ pc'[t] = "out"
      /\ \A u \in Thread \ {t} : pc'[u] = pc[u] /\ pc'[u] \notin Holding
  BY LeaveSem DEF IInv
<1>2. job' = [job EXCEPT ![t] = NoJob]
  BY DEF Leave
<1>3. /\ JobOK' /\ job'[t] = NoJob
      /\ \A u \in Thread \ {t} : job'[u] = job[u]
  BY <1>1, <1>2, NoJobOK, JobStep
<1>4. SearchOK'
  BY <1>1 DEF SearchOK, Holding
<1> QED BY <1>1, <1>3, <1>4, NoJobOK DEF Has

LEMMA EnterOK ==
  ASSUME IInv, NEW t \in Thread, NEW j \in JobType, Enter(t, j),
         hdr' = hdr, lfree' = lfree,
         j.fn \in {"malloc", "free"}, j.size \in Granted,
         j.fn = "malloc" => j.size <= MemSize
  PROVE  /\ SemOK' /\ JobOK' /\ SearchOK' /\ LowestFree'
         /\ Typed(hdr)' /\ ChainOK' /\ Coalesced' /\ job'[t] = j
         /\ ~Has(t) /\ (Has(t)' <=> j.fn = "free")
         /\ \A u \in Thread \ {t} :
              job'[u] = job[u] /\ pc'[u] = pc[u] /\ (Has(u)' <=> Has(u))
<1>1. /\ SemOK' /\ pc'[t] \in {"in", "wait"} /\ pc[t] = "out"
      /\ \A u \in Thread \ {t} : pc'[u] = pc[u]
      /\ job' = [job EXCEPT ![t] = j]
  BY EnterSem DEF IInv, Enter
<1>2. /\ JobOK' /\ job'[t] = j
      /\ \A u \in Thread \ {t} : job'[u] = job[u]
  BY <1>1, JobStep
<1>3. ~Has(t) /\ (Has(t)' <=> j.fn = "free")
  BY <1>1, <1>2, HasOK DEF Has, IInv
<1>4. \A p, n : Fits(p, n)' <=> Fits(p, n)
  BY ChainSame
<1>5. SearchOK'
  <2> SUFFICES ASSUME NEW u \in Thread, pc'[u] = "search"
               PROVE  /\ job'[u].at \in Blocks'
                      /\ \A p \in Blocks' : p < job'[u].at
                                            => ~Fits(p, job[u].size)'
    BY DEF SearchOK
  <2>1. u # t /\ pc[u] = "search" /\ job'[u] = job[u] /\ Blocks' = Blocks
    BY <1>1, <1>2 DEF Blocks
  <2> QED BY <2>1, <1>4 DEF IInv, SearchOK
<1>6. LowestFree'
  BY <1>1, LowestSame DEF IInv
<1> QED BY <1>1, <1>2, <1>3, <1>5, <1>6, ChainSame DEF Has

LEMMA MallocOK ==
  ASSUME IInv, NEW t \in Thread, NEW n \in Sizes, Malloc(t, n)
  PROVE  IInv'
<1> DEFINE j == [fn |-> "malloc", size |-> Aligned(n), at |-> 0]
<1>1. /\ j \in JobType /\ j.fn = "malloc" /\ j.size \in Granted
      /\ j.size <= MemSize
  BY SizesOK DEF Granted, JobType, Malloc
<1>2. Enter(t, j) /\ hdr' = hdr /\ lfree' = lfree /\ live' = live
  BY DEF Malloc
<1> HIDE DEF j
<1>3. /\ SemOK' /\ JobOK' /\ SearchOK' /\ LowestFree'
      /\ Typed(hdr)' /\ ChainOK' /\ Coalesced' /\ ~Has(t) /\ ~Has(t)'
      /\ \A u \in Thread \ {t} :
           job'[u] = job[u] /\ pc'[u] = pc[u] /\ (Has(u)' <=> Has(u))
  BY <1>1, <1>2, EnterOK
<1>4. BlocksOwned'
  BY <1>2, <1>3, OwnedSame DEF IInv
<1> QED BY <1>2, <1>3, <1>4, ChainSame DEF IInv

LEMMA FreeOK ==
  ASSUME IInv, NEW t \in Thread, NEW r \in live, Free(t, r)
  PROVE  IInv'
<1> DEFINE j == [fn |-> "free", size |-> r.size, at |-> r.at - Hdr]
<1>1. /\ r.size \in Granted /\ r.at \in Hdr..End /\ Serves(r.at - Hdr, r.size)
      /\ \A s \in live : s.at = r.at => s = r
  BY DEF IInv, AlignedOK, BlocksOwned, LiveServed
<1>2. /\ j \in JobType /\ j.fn = "free" /\ j.size = r.size
      /\ j.at = r.at - Hdr
  BY <1>1, SizesOK DEF JobType
<1>3. Enter(t, j) /\ hdr' = hdr /\ lfree' = lfree /\ live' = live \ {r}
  BY DEF Free
<1> HIDE DEF j
<1>4. /\ SemOK' /\ JobOK' /\ SearchOK' /\ LowestFree' /\ job'[t] = j
      /\ Typed(hdr)' /\ ChainOK' /\ Coalesced' /\ ~Has(t) /\ Has(t)'
      /\ \A u \in Thread \ {t} :
           job'[u] = job[u] /\ pc'[u] = pc[u] /\ (Has(u)' <=> Has(u))
  BY <1>1, <1>2, <1>3, EnterOK
<1>5. /\ \A p, n : Serves(p, n)' <=> Serves(p, n)
      /\ \A s \in live : s.at \in Int
      /\ Blocks' = Blocks /\ \A p \in Blocks : p \in Int
  BY <1>3, SizesOK DEF Serves, Room, Blocks, IInv, AlignedOK, Typed
<1>6. LiveServed'
  BY <1>3, <1>5 DEF IInv, BlocksOwned, LiveServed
<1>7. HasServed'
  <2> SUFFICES ASSUME NEW u \in Thread, Has(u)'
               PROVE  /\ Serves(job[u].at, job[u].size)'
                      /\ \A s \in live' : s.at # job'[u].at + Hdr
                      /\ \A v \in Thread : Has(v)' /\ job'[v].at = job'[u].at
                                             => v = u
    BY DEF HasServed
  <2>1. \A v \in Thread \ {t} : Has(v)' =>
          /\ Serves(job[v].at, job[v].size) /\ job'[v] = job[v]
          /\ \A s \in live : s.at # job[v].at + Hdr
          /\ \A w \in Thread : Has(w) /\ job[w].at = job[v].at => w = v
    BY <1>4 DEF IInv, BlocksOwned, HasServed
  <2>2. \A v \in Thread \ {t} : Has(v)' => job'[v].at # r.at - Hdr
    <3> SUFFICES ASSUME NEW v \in Thread \ {t}, Has(v)', job[v].at = r.at - Hdr
                 PROVE  FALSE
      BY <2>1
    <3>1. r.at # job[v].at + Hdr
      BY <2>1
    <3> QED BY <3>1, <1>1, SizesOK
  <2>3. CASE u = t
    <3>1. \A s \in live' : s.at # r.at - Hdr + Hdr
      BY <1>1, <1>3, <1>5, SizesOK
    <3> QED BY <2>2, <2>3, <3>1, <1>1, <1>2, <1>4, <1>5
  <2>4. CASE u # t
    <3>1. \A v \in Thread : Has(v)' /\ job'[v].at = job'[u].at => v = u
      BY <2>1, <2>2, <2>4, <1>2, <1>4
    <3> QED BY <2>1, <2>4, <3>1, <1>3, <1>5
  <2> QED BY <2>3, <2>4
<1>8. NoneLost'
  <2> SUFFICES ASSUME NEW p \in Blocks \ {End}, hdr[p].used
               PROVE  \/ \E s \in live' : s.at = p + Hdr
                      \/ \E u \in Thread : Has(u)' /\ job'[u].at = p
    BY <1>3, <1>5 DEF NoneLost
  <2>1. CASE \E u \in Thread : Has(u) /\ job[u].at = p
    BY <2>1, <1>4
  <2>2. CASE \E s \in live : s.at = p + Hdr
    <3>1. PICK s \in live : s.at = p + Hdr
      BY <2>2
    <3>2. CASE s = r
      <4>1. j.at = p
        BY <3>1, <3>2, <1>2, <1>5, SizesOK
      <4> QED BY <4>1, <1>4
    <3> QED BY <3>1, <3>2, <1>3
  <2> QED BY <2>1, <2>2 DEF IInv, BlocksOwned, NoneLost
<1> QED BY <1>3, <1>4, <1>6, <1>7, <1>8, ChainSame DEF IInv, BlocksOwned

LEMMA ResumeOK ==
  ASSUME IInv, NEW t \in Thread, Resume(t)
  PROVE  IInv'
<1>1. /\ SemOK' /\ pc[t] = "wait" /\ pc'[t] = "in"
      /\ \A u \in Thread \ {t} : pc'[u] = pc[u]
  BY ResumeSem DEF IInv
<1>2. hdr' = hdr /\ lfree' = lfree /\ live' = live /\ job' = job
  BY DEF Resume
<1>3. \A u \in Thread : Has(u)' <=> Has(u)
  BY <1>1, <1>2 DEF Has
<1>4. JobOK' /\ SearchOK' /\ BlocksOwned' /\ LowestFree'
  <2>1. JobOK'
    BY <1>1, <1>2 DEF IInv, JobOK
  <2>2. SearchOK'
    <3>1. \A u \in Thread : pc'[u] = "search" => pc[u] = "search"
      BY <1>1
    <3> QED BY <3>1, <1>2, ChainSame DEF IInv, SearchOK, Blocks
  <2>3. BlocksOwned'
    BY <1>2, <1>3, OwnedSame DEF IInv
  <2> QED BY <2>1, <2>2, <2>3, <1>1, <1>2, LowestSame DEF IInv
<1> QED BY <1>1, <1>2, <1>4, ChainSame DEF IInv

\* A step of the thread inside that goes on with call j at place q.
LEMMA GoOn ==
  ASSUME IInv, NEW t \in Thread, pc[t] \in Holding, UNCHANGED semVars,
         NEW q \in Holding, pc' = [pc EXCEPT ![t] = q],
         NEW j \in JobType, job' = [job EXCEPT ![t] = j],
         j.fn = job[t].fn, j.size = job[t].size,
         q # "in" => j.fn = "malloc"
  PROVE  /\ SemOK' /\ JobOK' /\ job'[t] = j /\ pc'[t] = q
         /\ \A u \in Thread \ {t} :
              /\ pc[u] \notin Holding /\ pc'[u] = pc[u] /\ job'[u] = job[u]
              /\ Has(u)' <=> Has(u)
<1>1. /\ SemOK' /\ pc'[t] = q
      /\ \A u \in Thread \ {t} : pc[u] \notin Holding /\ pc'[u] = pc[u]
  BY InnerSem DEF IInv, SemOK, Inside
<1>2. JobOK' /\ job'[t] = j /\ \A u \in Thread \ {t} : job'[u] = job[u]
  <2>1. /\ j.fn = "malloc" => j.size \in Granted /\ j.size <= MemSize
        /\ j.fn = "free" => j.size \in Granted
    BY DEF IInv, JobOK
  <2>2. q # "out" /\ (q \in {"search", "advance", "carved"} => q # "in")
    BY DEF Holding
  <2> QED BY <1>1, <2>1, <2>2, JobStep
<1> QED BY <1>1, <1>2 DEF Has

LEMMA StartSearchOK ==
  ASSUME IInv, NEW t \in Thread, StartSearch(t)
  PROVE  IInv'
<1> DEFINE j == [job[t] EXCEPT !.at = lfree]
<1>1. /\ pc[t] = "in" /\ job[t].fn = "malloc" /\ hdr' = hdr /\ live' = live
      /\ lfree' = lfree /\ UNCHANGED semVars
      /\ pc' = [pc EXCEPT ![t] = "search"] /\ job' = [job EXCEPT ![t] = j]
  BY DEF StartSearch, IInv, JobOK
<1>2. /\ job[t] \in JobType /\ lfree \in Blocks /\ lfree \in 0..End
  BY DEF IInv, JobOK, LowestFree, Typed, Blocks
<1>3. /\ j \in JobType /\ j.fn = job[t].fn /\ j.size = job[t].size
      /\ j.at = lfree
  BY <1>2 DEF JobType
<1>4. "search" \in Holding /\ "in" \in Holding
  BY DEF Holding
<1> HIDE DEF j
<1>5. /\ SemOK' /\ JobOK' /\ job'[t] = j /\ pc'[t] = "search"
      /\ \A u \in Thread \ {t} :
           /\ pc[u] \notin Holding /\ pc'[u] = pc[u] /\ job'[u] = job[u]
           /\ Has(u)' <=> Has(u)
  BY <1>1, <1>3, <1>4, GoOn
<1>6. ~Has(t) /\ ~Has(t)'
  BY <1>1, <1>3, <1>5 DEF Has
<1>7. BlocksOwned' /\ LowestFree'
  <2>1. \A u \in Thread : pc[u] = "advance" => pc'[u] = "advance"
    BY <1>1, <1>5 DEF Holding
  <2> QED BY <1>1, <1>5, <1>6, <2>1, OwnedSame, LowestSame DEF IInv
<1>8. SearchOK'
  <2>1. \A u \in Thread : pc'[u] = "search" => u = t
    BY <1>4, <1>5
  <2>2. \A p \in Blocks : p < lfree => hdr[p].used
    <3>1. \A p \in Blocks : p \in 0..End
      BY DEF IInv, Typed, Blocks
    <3> QED BY <3>1, <1>2, SizesOK DEF IInv, LowestFree
  <2>3. \A p \in Blocks : p < lfree => ~Fits(p, job[t].size)
    BY <2>2 DEF Fits
  <2> QED BY <2>1, <2>3, <1>1, <1>2, <1>3, <1>5, ChainSame DEF SearchOK, Blocks
<1> QED BY <1>1, <1>5, <1>7, <1>8, ChainSame DEF IInv

LEMMA WalkOK ==
  ASSUME IInv, NEW t \in Thread, Walk(t)
  PROVE  IInv'
<1> DEFINE p == job[t].at
           n == job[t].size
           j == [job[t] EXCEPT !.at = hdr[p].next]
<1>1. /\ pc[t] = "search" /\ hdr' = hdr /\ live' = live /\ pc' = pc
      /\ lfree' = lfree /\ UNCHANGED semVars /\ ~Fits(p, n)
      /\ p < MemSize - n /\ job' = [job EXCEPT ![t] = j]
  BY DEF Walk, Searching, IInv, JobOK
<1>2. /\ job[t] \in JobType /\ job[t].fn = "malloc" /\ n \in Nat
  BY <1>1, GrantedOK DEF IInv, JobOK
<1>3. /\ p \in Blocks \ {End} /\ p \in 0..End
      /\ \A x \in Blocks : x < p => ~Fits(x, n)
  <2>1. p \in Blocks /\ p \in 0..End
    BY <1>1 DEF IInv, SearchOK, Typed, Blocks
  <2>2. p # End
    BY <2>1, <1>1, <1>2, SizesOK
  <2> QED BY <2>1, <2>2, <1>1 DEF IInv, SearchOK
<1>4. hdr[p].next \in Blocks /\ \A x \in Blocks : p < x => hdr[p].next <= x
  BY <1>3 DEF IInv, ChainOK, Whole, Blocks
<1>5. \A x \in Blocks : x \in 0..End
  BY DEF IInv, Typed, Blocks
<1>6. \A x \in Blocks : x < hdr[p].next => ~Fits(x, n)
  <2> SUFFICES ASSUME NEW x \in Blocks, x < hdr[p].next PROVE ~Fits(x, n)
    OBVIOUS
  <2>1. x < p \/ x = p
    BY <1>3, <1>4, <1>5
  <2> QED BY <2>1, <1>1, <1>3
<1>7. /\ j \in JobType /\ j.fn = job[t].fn /\ j.size = n
      /\ j.at = hdr[p].next
  BY <1>2, <1>4, <1>5 DEF JobType
<1>8. "search" \in Holding /\ pc' = [pc EXCEPT ![t] = "search"]
  BY <1>1 DEF Holding, IInv, SemOK
<1> HIDE DEF j
<1>9. /\ SemOK' /\ JobOK' /\ job'[t] = j /\ pc'[t] = "search"
      /\ \A u \in Thread \ {t} :
           /\ pc[u] \notin Holding /\ pc'[u] = pc[u] /\ job'[u] = job[u]
           /\ Has(u)' <=> Has(u)
  BY <1>1, <1>2, <1>7, <1>8, GoOn
<1>10. ~Has(t) /\ ~Has(t)'
  BY <1>1, <1>2, <1>7, <1>9 DEF Has
<1>11. BlocksOwned' /\ LowestFree'
  BY <1>1, <1>9, <1>10, OwnedSame, LowestSame DEF IInv
<1>12. SearchOK'
  <2>1. \A u \in Thread : pc'[u] = "search" => u = t
    BY <1>8, <1>9
  <2> QED BY <2>1, <1>1, <1>4, <1>6, <1>7, <1>9, ChainSame DEF SearchOK, Blocks
<1> QED BY <1>1, <1>9, <1>11, <1>12, ChainSame DEF IInv

LEMMA NoRoomOK ==
  ASSUME IInv, NEW t \in Thread, NoRoom(t)
  PROVE  IInv'
<1>1. /\ pc[t] = "search" /\ pc[t] \in Holding /\ Leave(t)
      /\ hdr' = hdr /\ lfree' = lfree /\ live' = live
  BY DEF NoRoom, Holding
<1>2. /\ SemOK' /\ JobOK' /\ SearchOK' /\ ~Has(t)'
      /\ \A u \in Thread \ {t} :
           job'[u] = job[u] /\ pc'[u] = pc[u] /\ (Has(u)' <=> Has(u))
  BY <1>1, LeaveOK
<1>3. ~Has(t)
  BY <1>1, HasOK DEF IInv
<1>4. BlocksOwned' /\ LowestFree'
  BY <1>1, <1>2, <1>3, OwnedSame, LowestSame DEF IInv
<1> QED BY <1>1, <1>2, <1>4, ChainSame DEF IInv

LEMMA AdvanceFreeOK ==
  ASSUME IInv, NEW t \in Thread, AdvanceFree(t)
  PROVE  IInv'
<1>1. /\ pc[t] = "advance" /\ Stale /\ lfree' = hdr[lfree].next
      /\ hdr' = hdr /\ pc' = pc /\ job' = job /\ live' = live
      /\ UNCHANGED semVars
  BY DEF AdvanceFree
<1>2. SemOK' /\ JobOK' /\ SearchOK'
  <2>1. SemOK'
    BY <1>1 DEF IInv, SemOK, semVars, Once, Queued, Inside
  <2>2. JobOK'
    BY <1>1 DEF IInv, JobOK
  <2> QED BY <2>1, <2>2, <1>1, ChainSame DEF IInv, SearchOK, Blocks
<1>3. BlocksOwned'
  <2>1. \A u \in Thread : (Has(u)' <=> Has(u)) /\ job'[u] = job[u]
    BY <1>1 DEF Has
  <2> QED BY <2>1, <1>1, OwnedSame DEF IInv
<1>4. LowestFree'
  <2>1. /\ lfree \in Blocks \ {End} /\ hdr[lfree].used
        /\ \A p \in Blocks : ~hdr[p].used => lfree <= p
    BY <1>1 DEF IInv, LowestFree, Stale
  <2>2. /\ hdr[lfree].next \in Blocks
        /\ \A p \in Blocks : lfree < p => hdr[lfree].next <= p
    BY <2>1 DEF IInv, ChainOK, Whole, Blocks
  <2>3. \A p \in Blocks : p \in 0..End
    BY DEF IInv, Typed, Blocks
  <2>4. ASSUME NEW p \in Blocks, ~hdr[p].used PROVE hdr[lfree].next <= p
    <3>1. lfree <= p /\ p # lfree
      BY <2>1, <2>4
    <3> QED BY <3>1, <2>1, <2>2, <2>3
  <2> QED BY <2>2, <2>4, <1>1 DEF LowestFree, Blocks
<1> QED BY <1>1, <1>2, <1>3, <1>4, ChainSame DEF IInv

LEMMA DeliverOK ==
  ASSUME IInv, NEW t \in Thread, Deliver(t)
  PROVE  IInv'
<1> DEFINE p == job[t].at
           n == job[t].size
           r == [at |-> p + Hdr, size |-> n]
<1>1. /\ pc[t] \in {"advance", "carved"}
      /\ pc[t] = "advance" => ~Stale
      /\ pc[t] \in Holding /\ Leave(t) /\ hdr' = hdr /\ lfree' = lfree
      /\ live' = live \cup {r}
  BY DEF Deliver, Holding
<1>2. /\ SemOK' /\ JobOK' /\ SearchOK' /\ ~Has(t)'
      /\ \A u \in Thread \ {t} :
           job'[u] = job[u] /\ pc'[u] = pc[u] /\ (Has(u)' <=> Has(u))
  BY <1>1, LeaveOK
<1>3. /\ Has(t) /\ Serves(p, n) /\ n \in Granted /\ n \in Nat
      /\ \A s \in live : s.at # p + Hdr
      /\ \A u \in Thread : Has(u) /\ job[u].at = p => u = t
  <2>1. Has(t) /\ n \in Granted
    <3>1. pc[t] \in {"advance", "carved"} /\ JobOK
      BY <1>1 DEF IInv
    <3>2. job[t].fn = "malloc" /\ job[t].size \in Granted
      BY <3>1 DEF JobOK
    <3> QED BY <3>1, <3>2 DEF Has
  <2>2. n \in Nat
    BY <2>1, GrantedOK
  <2>3. HasServed
    BY DEF IInv, BlocksOwned
  <2>4. /\ Serves(p, n) /\ \A s \in live : s.at # p + Hdr
        /\ \A u \in Thread : Has(u) /\ job[u].at = p => u = t
    BY <2>1, <2>3 DEF HasServed
  <2> QED BY <2>1, <2>2, <2>4
<1>4. /\ p \in Blocks /\ p \in 0..End /\ p + Hdr \in Hdr..End
      /\ p + Hdr - Hdr = p /\ \A x \in Blocks : x \in 0..End
      /\ \A s \in live : s.at \in Int
      /\ \A u \in Thread : job[u].at \in 0..End
  <2>1. p \in Blocks \ {End} /\ \A x \in Blocks : x \in 0..End
    BY <1>3 DEF Serves, IInv, Typed, Blocks
  <2>2. hdr[p].next \in Blocks /\ p + Hdr <= hdr[p].next
    BY <2>1 DEF IInv, ChainOK, Whole, Blocks
  <2>3. \A u \in Thread : job[u].at \in 0..End
    BY DEF IInv, JobOK, JobType
  <2> QED BY <2>1, <2>2, <2>3, SizesOK DEF IInv, AlignedOK
<1>5. \A x, k : Serves(x, k)' <=> Serves(x, k)
  BY <1>1 DEF Serves, Room, Blocks
<1>6. LiveServed'
  <2> SUFFICES ASSUME NEW s \in live'
               PROVE  /\ Serves(s.at - Hdr, s.size)'
                      /\ \A v \in live' : v.at = s.at => v = s
    BY DEF LiveServed
  <2>3. \A v \in live' : v \in live \/ v = r
    BY <1>1
  <2>1. CASE s = r
    <3>1. s.at = p + Hdr /\ s.size = n
      BY <2>1
    <3>3. s.at - Hdr = p
      BY <3>1, <1>4, SizesOK
    <3>2. Serves(s.at - Hdr, s.size)
      BY <3>1, <3>3, <1>3
    <3> QED BY <3>1, <3>2, <2>1, <2>3, <1>3, <1>5
  <2>2. CASE s \in live
    <3>1. Serves(s.at - Hdr, s.size) /\ \A v \in live : v.at = s.at => v = s
      BY <2>2 DEF IInv, BlocksOwned, LiveServed
    <3>2. s.at # r.at
      BY <2>2, <1>3
    <3> QED BY <3>1, <3>2, <2>3, <1>5
  <2> QED BY <2>1, <2>2, <2>3
<1>7. HasServed'
  <2> SUFFICES ASSUME NEW u \in Thread, Has(u)'
               PROVE  /\ Serves(job[u].at, job[u].size)'
                      /\ \A s \in live \cup {r} : s.at # job'[u].at + Hdr
                      /\ \A v \in Thread : Has(v)' /\ job'[v].at = job'[u].at
                                             => v = u
    BY <1>1 DEF HasServed
  <2>1. /\ u # t /\ Has(u) /\ job'[u] = job[u] /\ job[u].at # p
        /\ Serves(job[u].at, job[u].size)
        /\ \A s \in live : s.at # job[u].at + Hdr
        /\ \A v \in Thread : Has(v) /\ job[v].at = job[u].at => v = u
    BY <1>2, <1>3 DEF IInv, BlocksOwned, HasServed
  <2>2. r.at # job[u].at + Hdr
    BY <2>1, <1>4, SizesOK
  <2>3. Serves(job[u].at, job[u].size)'
    BY <2>1, <1>1 DEF Serves, Room, Blocks
  <2> QED BY <2>1, <2>2, <2>3, <1>2
<1>8. NoneLost'
  <2> SUFFICES ASSUME NEW x \in Blocks \ {End}, hdr[x].used
               PROVE  \/ \E s \in live \cup {r} : s.at = x + Hdr
                      \/ \E u \in Thread : Has(u)' /\ job'[u].at = x
    BY <1>1 DEF NoneLost, Blocks
  <2>1. CASE \E u \in Thread : Has(u) /\ job[u].at = x
    <3>1. PICK u \in Thread : Has(u) /\ job[u].at = x
      BY <2>1
    <3>2. CASE u = t
      <4>1. r.at = x + Hdr
        BY <3>1, <3>2
      <4> QED BY <4>1
    <3> QED BY <3>1, <3>2, <1>2
  <2> QED BY <2>1 DEF IInv, BlocksOwned, NoneLost
<1>9. LowestFree'
  <2>1. ~Stale
    <3>1. Stale => pc[t] = "advance"
      BY <1>1 DEF IInv, LowestFree, SemOK, Inside, Holding
    <3> QED BY <3>1, <1>1
  <2> QED BY <2>1, <1>1 DEF IInv, LowestFree, Stale, Blocks
<1>10. AlignedOK'
  <2>1. (p + Hdr) % Unit = 0
    <3>1. p % Unit = 0 /\ p \in Nat
      BY <1>4, SizesOK DEF IInv, AlignedOK
    <3> QED BY <3>1, HeapAssumption, SumOK
  <2> QED BY <2>1, <1>1, <1>3, <1>4 DEF IInv, AlignedOK, Blocks
<1> QED BY <1>1, <1>2, <1>6, <1>7, <1>8, <1>9, <1>10, ChainSame
        DEF IInv, BlocksOwned

\* What Carve does to the chain, whether it splits the block or not.
LEMMA CarvedOK ==
  ASSUME Typed(hdr), ChainOK, AlignedOK, NEW p \in Blocks \ {End},
         NEW n \in Granted, Fits(p, n),
         hdr' = IF Splits(p, n) THEN Split(p, n)
                ELSE [hdr EXCEPT ![p].used = TRUE]
  PROVE  /\ Typed(hdr)' /\ ChainOK' /\ Blocks \subseteq Blocks'
         /\ Serves(p, n)'
         /\ \A x \in Blocks \ {p} :
              hdr'[x].used = hdr[x].used /\ hdr'[x].next = hdr[x].next
         /\ \A x \in Blocks' \ Blocks :
              /\ ~hdr'[x].used /\ hdr'[x].next = hdr[p].next
              /\ p < x /\ x % Unit = 0
<1> USE SizesOK
<1>1. /\ n \in Nat /\ p \in 0..End /\ Room(p) \in Int /\ Room(p) >= n
      /\ hdr[p] \in Header /\ hdr[p].next \in 0..End
  BY GrantedOK DEF Typed, Header, Room, Fits, Blocks
<1>2. CASE Splits(p, n)
  <2> DEFINE q == p + Hdr + n
  <2>1. /\ Typed(hdr') /\ Whole(hdr')
        /\ DOMAIN hdr' = Blocks \cup {q} /\ q \notin Blocks
        /\ p < q /\ hdr'[p].used /\ hdr'[p].next = q
        /\ ~hdr'[q].used /\ hdr'[q].next = hdr[p].next
        /\ \A x \in Blocks \ {p} :
             hdr'[x].used = hdr[x].used /\ hdr'[x].next = hdr[x].next
    <3>1. hdr' = Split(p, n) /\ Whole(hdr) /\ Typed(hdr) /\ n \in Nat
      BY <1>1, <1>2 DEF ChainOK
    <3> HIDE DEF q
    <3>2. Typed(hdr) /\ Whole(hdr) /\ Splits(p, n) /\ p \in Blocks \ {End}
      BY <3>1, <1>2
    <3>3. /\ Typed(Split(p, n)) /\ Whole(Split(p, n))
          /\ DOMAIN Split(p, n) = Blocks \cup {p + Hdr + n}
          /\ p + Hdr + n \notin Blocks /\ p < p + Hdr + n
      BY ONLY <3>1, <3>2, SplitOK
    <3>4. /\ Split(p, n)[p].used /\ Split(p, n)[p].next = p + Hdr + n
          /\ ~Split(p, n)[p + Hdr + n].used
          /\ Split(p, n)[p + Hdr + n].next = hdr[p].next
      BY ONLY <3>1, <3>2, SplitOK
    <3>5. \A x \in Blocks \ {p} : /\ Split(p, n)[x].used = hdr[x].used
                                  /\ Split(p, n)[x].next = hdr[x].next
      BY ONLY <3>1, <3>2, SplitRestOK
    <3> QED BY <3>1, <3>3, <3>4, <3>5 DEF q
  <2>2. Typed(hdr)' /\ ChainOK' /\ Blocks' = Blocks \cup {q}
    BY <2>1 DEF Typed, ChainOK, Whole, Blocks
  <2>3. Serves(p, n)'
    <3>1. Room(p)' = n
      BY <2>1, <1>1 DEF Room
    <3> QED BY <3>1, <2>1, <2>2, <1>1 DEF Serves
  <2>4. q % Unit = 0
    <3>1. p % Unit = 0 /\ n % Unit = 0 /\ p \in Nat
      BY <1>1, GrantedOK DEF AlignedOK
    <3>2. (p + Hdr) % Unit = 0 /\ p + Hdr \in Nat
      BY <3>1, HeapAssumption, SumOK
    <3> QED BY <3>1, <3>2, <1>1, HeapAssumption, SumOK
  <2> QED BY <2>1, <2>2, <2>3, <2>4
<1>3. CASE ~Splits(p, n)
  <2>1. /\ hdr' = [hdr EXCEPT ![p].used = TRUE] /\ DOMAIN hdr' = DOMAIN hdr
        /\ hdr'[p] = [hdr[p] EXCEPT !.used = TRUE]
        /\ \A x \in Blocks \ {p} : hdr'[x] = hdr[x]
    BY <1>3 DEF Blocks, Typed
  <2>2. /\ hdr'[p].used /\ hdr'[p].next = hdr[p].next
        /\ hdr'[p].prev = hdr[p].prev /\ hdr'[p] \in Header
    <3>1. TRUE \in BOOLEAN
      OBVIOUS
    <3> QED BY <3>1, <2>1, <1>1 DEF Header
  <2>3. Typed(hdr)'
    BY <2>1, <2>2 DEF Typed, Blocks
  <2>4. ChainOK'
    <3>1. \A x \in Blocks : /\ hdr'[x].next = hdr[x].next
                            /\ hdr'[x].prev = hdr[x].prev
      BY <2>1, <2>2
    <3>2. hdr'[End].used <=> hdr[End].used
      BY <2>1 DEF ChainOK, Whole, Blocks
    <3> QED BY <3>1, <3>2, <2>1 DEF ChainOK, Whole, Blocks
  <2>5. Serves(p, n)'
    <3>1. Room(p)' = Room(p)
      BY <2>2 DEF Room
    <3>2. n <= Room(p) /\ Room(p) < n + Hdr + MinSize
      BY <1>1, <1>3 DEF Splits
    <3>3. p \in (Blocks \ {End})' /\ hdr'[p].used
      BY <2>1, <2>2 DEF Blocks, End
    <3> QED BY <3>1, <3>2, <3>3 DEF Serves
  <2> QED BY <2>1, <2>3, <2>4, <2>5 DEF Blocks
<1> QED BY <1>2, <1>3

LEMMA CarveOK ==
  ASSUME IInv, NEW t \in Thread, Carve(t)
  PROVE  IInv'
<1> DEFINE p == job[t].at
           n == job[t].size
           q == IF p = lfree THEN "advance" ELSE "carved"
<1>1. /\ pc[t] = "search" /\ lfree' = lfree /\ live' = live /\ job' = job
      /\ UNCHANGED semVars /\ pc' = [pc EXCEPT ![t] = q] /\ Fits(p, n)
      /\ p < MemSize - n
      /\ hdr' = IF Splits(p, n) THEN Split(p, n)
                ELSE [hdr EXCEPT ![p].used = TRUE]
  BY DEF Carve, Searching
<1>2. /\ job[t] \in JobType /\ job[t].fn = "malloc" /\ n \in Granted
      /\ p \in Blocks \ {End} /\ ~hdr[p].used
  <2>1. job[t] \in JobType /\ job[t].fn = "malloc" /\ n \in Granted
    BY <1>1 DEF IInv, JobOK
  <2>2. p \in Blocks /\ ~hdr[p].used
    BY <1>1 DEF IInv, SearchOK, Fits
  <2> QED BY <2>1, <2>2 DEF IInv, ChainOK, Whole
<1>3. /\ Typed(hdr)' /\ ChainOK' /\ Blocks \subseteq Blocks'
      /\ Serves(p, n)'
      /\ \A x \in Blocks \ {p} :
           hdr'[x].used = hdr[x].used /\ hdr'[x].next = hdr[x].next
      /\ \A x \in Blocks' \ Blocks :
           /\ ~hdr'[x].used /\ hdr'[x].next = hdr[p].next
           /\ p < x /\ x % Unit = 0
  BY <1>1, <1>2, CarvedOK DEF IInv
<1>4. /\ q \in Holding /\ pc[t] \in Holding /\ q \in {"advance", "carved"}
      /\ job' = [job EXCEPT ![t] = job[t]] /\ (p = lfree => q = "advance")
  BY <1>1 DEF Holding, IInv, JobOK
<1> HIDE DEF q
<1>5. /\ SemOK' /\ JobOK' /\ pc'[t] = q
      /\ \A u \in Thread \ {t} : /\ pc[u] \notin Holding /\ pc'[u] = pc[u]
                                 /\ Has(u)' <=> Has(u)
  <2>1. /\ pc' = [pc EXCEPT ![t] = q] /\ UNCHANGED semVars
        /\ q \in Holding /\ pc[t] \in Holding
    BY <1>1, <1>4
  <2>2. /\ job[t] \in JobType /\ job[t].fn = "malloc"
        /\ job' = [job EXCEPT ![t] = job[t]]
    BY <1>2, <1>4
  <2> QED BY <2>1, <2>2, GoOn
<1>6. ~Has(t) /\ Has(t)' /\ hdr'[p].used /\ p \in Int
  BY <1>1, <1>2, <1>3, <1>4, <1>5 DEF Has, Serves, IInv, Typed, Blocks
<1>7. ASSUME NEW x, NEW k, Serves(x, k) PROVE Serves(x, k)' /\ x # p
  <2>1. x \in Blocks \ {p}
    BY <1>7, <1>2 DEF Serves
  <2> QED BY <2>1, <1>3, <1>7, ServesKept
<1>8. LiveServed'
  BY <1>1, <1>7 DEF IInv, BlocksOwned, LiveServed
<1>9. HasServed'
  <2> SUFFICES ASSUME NEW u \in Thread, Has(u)'
               PROVE  /\ Serves(job[u].at, job[u].size)'
                      /\ \A s \in live : s.at # job[u].at + Hdr
                      /\ \A v \in Thread : Has(v)' /\ job[v].at = job[u].at
                                             => v = u
    BY <1>1 DEF HasServed
  <2>1. \A v \in Thread \ {t} : Has(v)' =>
          Has(v) /\ Serves(job[v].at, job[v].size) /\ job[v].at # p
    BY <1>5, <1>7 DEF IInv, BlocksOwned, HasServed
  <2>2. CASE u = t
    <3>1. ASSUME NEW s \in live PROVE s.at # p + Hdr
      <4>1. s.at - Hdr # p /\ s.at \in Int
        BY <1>7 DEF IInv, BlocksOwned, LiveServed, AlignedOK
      <4> QED BY <4>1, <1>6, SizesOK
    <3> QED BY <2>1, <2>2, <3>1, <1>3
  <2>3. CASE u # t
    <3>1. /\ Has(u) /\ Serves(job[u].at, job[u].size) /\ job[u].at # p
          /\ \A s \in live : s.at # job[u].at + Hdr
          /\ \A v \in Thread : Has(v) /\ job[v].at = job[u].at => v = u
      BY <2>1, <2>3 DEF IInv, BlocksOwned, HasServed
    <3>2. Serves(job[u].at, job[u].size)'
      <4>2. job[u].at \in Blocks /\ job[u].at \in Blocks'
        BY <3>1, <1>3 DEF Serves
      <4>3. /\ hdr'[job[u].at].used = hdr[job[u].at].used
            /\ hdr'[job[u].at].next = hdr[job[u].at].next
        BY <3>1, <4>2, <1>3
      <4> QED BY <3>1, <4>2, <4>3, <1>1 DEF Serves, Room
    <3> QED BY <3>1, <3>2, <2>1, <1>5
  <2> QED BY <2>2, <2>3
<1>10. NoneLost'
  <2> SUFFICES ASSUME NEW x \in Blocks' \ {End}, hdr'[x].used
               PROVE  \/ \E s \in live : s.at = x + Hdr
                      \/ \E u \in Thread : Has(u)' /\ job[u].at = x
    BY <1>1 DEF NoneLost
  <2>1. CASE x = p
    BY <2>1, <1>6
  <2>2. CASE x # p
    <3>1. x \in Blocks \ {End} /\ hdr[x].used
      BY <2>2, <1>3
    <3> QED BY <3>1, <1>5, <1>6 DEF IInv, BlocksOwned, NoneLost
  <2> QED BY <2>1, <2>2
<1>11. Coalesced'
  <2> SUFFICES ASSUME NEW x \in Blocks' \ {End}, ~hdr'[x].used
               PROVE  hdr'[hdr'[x].next].used
    BY DEF Coalesced
  <2>1. x # p
    BY <1>6
  <2>2. PICK y \in Blocks \ {End} : ~hdr[y].used /\ hdr'[x].next = hdr[y].next
    BY <2>1, <1>2, <1>3
  <2>3. hdr[hdr[y].next].used /\ hdr[y].next \in Blocks
    BY <2>2 DEF IInv, Coalesced, ChainOK, Whole, Blocks
  <2> QED BY <2>2, <2>3, <1>2, <1>3
<1>12. LowestFree'
  <2>1. /\ lfree \in Blocks /\ lfree <= p
        /\ \A x \in Blocks : ~hdr[x].used => lfree <= x
    BY <1>2 DEF IInv, LowestFree
  <2>2. ASSUME NEW x \in Blocks', ~hdr'[x].used PROVE lfree <= x
    <3>1. CASE x \in Blocks
      BY <3>1, <2>1, <2>2, <1>3, <1>6
    <3>2. CASE x \notin Blocks
      <4>1. p < x /\ x \in Int /\ p \in Int /\ lfree \in Int
        <5>1. p < x
          BY <3>2, <2>2, <1>3
        <5>2. Blocks' \subseteq 0..End
          BY <1>3 DEF Typed, Blocks, End
        <5>3. Blocks \subseteq 0..End
          BY DEF IInv, Typed, Blocks
        <5>4. x \in 0..End /\ p \in 0..End /\ lfree \in 0..End
          BY <5>2, <5>3, <2>1, <2>2, <1>2
        <5> QED BY <5>1, <5>4, SizesOK
      <4> QED BY <4>1, <2>1
    <3> QED BY <3>1, <3>2
  <2>3. ASSUME Stale' PROVE \E u \in Thread : pc'[u] = "advance"
    <3>1. CASE p = lfree
      BY <3>1, <1>4, <1>5
    <3>2. CASE p # lfree
      <4>1. Stale
        BY <3>2, <2>1, <2>3, <1>1, <1>3 DEF Stale
      <4>2. PICK u \in Thread : pc[u] = "advance"
        BY <4>1 DEF IInv, LowestFree
      <4>3. u = t
        BY <4>2, <1>5 DEF Holding
      <4> QED BY <4>2, <4>3, <1>1
    <3> QED BY <3>1, <3>2
  <2> QED BY <2>1, <2>2, <2>3, <1>1, <1>3 DEF LowestFree
<1>13. SearchOK'
  <2>1. \A u \in Thread : pc'[u] # "search"
    BY <1>4, <1>5 DEF Holding
  <2> QED BY <2>1 DEF SearchOK
<1>14. AlignedOK'
  BY <1>1, <1>3 DEF IInv, AlignedOK
<1> QED BY <1>3, <1>5, <1>8, <1>9, <1>10, <1>11, <1>12, <1>13, <1>14
        DEF IInv, BlocksOwned

LEMMA TakeBackOK ==
  ASSUME IInv, NEW t \in Thread, TakeBack(t)
  PROVE  IInv'
<1> DEFINE p == job[t].at
           h == [hdr EXCEPT ![p].used = FALSE]
           g == Plugged(h, p)
<1>1. /\ pc[t] = "in" /\ job[t].fn = "free" /\ pc[t] \in Holding /\ Leave(t)
      /\ hdr' = g /\ lfree' = Lowest(h, p) /\ live' = live
  BY DEF TakeBack, Holding
<1>2. /\ Has(t) /\ p \in Blocks \ {End} /\ hdr[p].used
      /\ \A s \in live : s.at # p + Hdr
      /\ \A u \in Thread : Has(u) /\ job[u].at = p => u = t
  BY <1>1 DEF Has, IInv, BlocksOwned, HasServed, Serves
<1>3. /\ SemOK' /\ JobOK' /\ SearchOK' /\ ~Has(t)'
      /\ \A u \in Thread \ {t} :
           job'[u] = job[u] /\ pc'[u] = pc[u] /\ (Has(u)' <=> Has(u))
  BY <1>1, LeaveOK
<1>4. /\ DOMAIN h = Blocks /\ h[p] = [hdr[p] EXCEPT !.used = FALSE]
      /\ \A x \in Blocks \ {p} : h[x] = hdr[x]
      /\ \A x \in Blocks : hdr[x] \in Header /\ x \in 0..End
      /\ hdr[p] \in Header
  BY <1>2 DEF IInv, Typed, Blocks
<1>16. h = [x \in DOMAIN h |-> h[x]]
  BY DEF IInv, Typed, Blocks
<1> HIDE DEF h
<1>5. /\ ~h[p].used /\ h[p] \in Header
      /\ \A x \in Blocks : h[x].next = hdr[x].next /\ h[x].prev = hdr[x].prev
      /\ \A x \in Blocks \ {p} : h[x].used = hdr[x].used
  <2>1. FALSE \in BOOLEAN
    OBVIOUS
  <2>2. ~h[p].used /\ h[p] \in Header /\ h[p].next = hdr[p].next
        /\ h[p].prev = hdr[p].prev
    BY <2>1, <1>4 DEF Header
  <2> QED BY <2>2, <1>4
<1>6. Typed(h) /\ Whole(h)
  <2>1. Typed(h)
    <3>1. \A x \in DOMAIN h : h[x] \in Header
      BY <1>4, <1>5
    <3> QED BY <3>1, <1>16, <1>4 DEF Typed
  <2>2. Whole(hdr) /\ End \in Blocks
    BY DEF IInv, ChainOK, Whole, Blocks
  <2>3. h[End].used
    BY <2>2, <1>2, <1>5 DEF Whole
  <2>4. {0, End} \subseteq DOMAIN h /\ h[0].prev = 0
    BY <2>2, <1>4, <1>5 DEF Whole, Blocks
  <2>5. ASSUME NEW x \in DOMAIN h \ {End}
        PROVE  /\ h[x].next \in DOMAIN h /\ x + Hdr <= h[x].next
               /\ h[x].next # End => h[h[x].next].prev = x
               /\ x # 0 => h[x].prev \in DOMAIN h \ {End} /\ h[h[x].prev].next = x
               /\ \A y \in DOMAIN h : x < y => h[x].next <= y
    <3>1. /\ hdr[x].next \in Blocks /\ x + Hdr <= hdr[x].next
          /\ hdr[x].next # End => hdr[hdr[x].next].prev = x
          /\ x # 0 => hdr[x].prev \in Blocks \ {End} /\ hdr[hdr[x].prev].next = x
          /\ \A y \in Blocks : x < y => hdr[x].next <= y
      BY <2>2, <1>4 DEF Whole, Blocks
    <3> QED BY <3>1, <1>4, <1>5
  <2> QED BY <2>1, <2>3, <2>4, <2>5 DEF Whole
<1>7. ASSUME NEW x \in DOMAIN h \ {End, p}, ~h[x].used, h[x].next # p
      PROVE  h[h[x].next].used
  <2>1. x \in Blocks \ {End, p} /\ ~hdr[x].used /\ hdr[x].next # p
    BY <1>4, <1>5, <1>7
  <2>2. hdr[hdr[x].next].used /\ hdr[x].next \in Blocks \ {p}
    BY <2>1 DEF IInv, Coalesced, ChainOK, Whole, Blocks
  <2> QED BY <2>1, <2>2, <1>5
<1>8. /\ Typed(g) /\ Whole(g) /\ DOMAIN g \subseteq DOMAIN h
      /\ \A x \in DOMAIN h : h[x].used => x \in DOMAIN g
      /\ \A x \in DOMAIN g : g[x].used = h[x].used
      /\ \A x \in DOMAIN g \ {End} : g[x].used => g[x].next = h[x].next
      /\ \A x \in DOMAIN g \ {End} : ~g[x].used => g[g[x].next].used
  <2>1. /\ p \in DOMAIN h \ {End} /\ ~h[p].used /\ Typed(h) /\ Whole(h)
        /\ \A x \in DOMAIN h \ {End, p} :
             ~h[x].used /\ h[x].next # p => h[h[x].next].used
    BY <1>2, <1>4, <1>5, <1>6, <1>7
  <2>2. Typed(g) /\ Whole(g) /\ DOMAIN g \subseteq DOMAIN h
    BY ONLY <2>1, PluggedOK
  <2>3. \A x \in DOMAIN h : h[x].used => x \in DOMAIN g
    BY ONLY <2>1, PluggedOK
  <2>4. \A x \in DOMAIN g : g[x].used = h[x].used
    BY ONLY <2>1, PluggedOK
  <2>5. \A x \in DOMAIN g \ {End} : g[x].used => g[x].next = h[x].next
    BY ONLY <2>1, PluggedOK
  <2>6. \A x \in DOMAIN g \ {End} : ~g[x].used => g[g[x].next].used
    BY ONLY <2>1, PluggedOK
  <2> QED BY <2>2, <2>3, <2>4, <2>5, <2>6
<1>9. LowestFree'
  <2>1. ~Stale /\ lfree \in Blocks
    <3>1. Stale => pc[t] = "advance"
      BY <1>1 DEF IInv, LowestFree, SemOK, Inside, Holding
    <3> QED BY <3>1, <1>1 DEF IInv, LowestFree
  <2>2. lfree # p \/ lfree = End
    BY <2>1, <1>2 DEF Stale
  <2>3. /\ lfree \in DOMAIN h /\ (~h[lfree].used \/ lfree = End)
        /\ \A x \in DOMAIN h : x # p /\ ~h[x].used => lfree <= x
    BY <2>1, <2>2, <1>2, <1>4, <1>5 DEF Stale, IInv, LowestFree
  <2>4. /\ Lowest(h, p) \in DOMAIN g /\ ~g[Lowest(h, p)].used
        /\ \A x \in DOMAIN g : ~g[x].used => Lowest(h, p) <= x
    BY <2>3, <1>2, <1>4, <1>5, <1>6, <1>7, LowestOK
  <2> QED BY <2>4, <1>1 DEF LowestFree, Stale, Blocks
<1> HIDE DEF g
<1>10. Typed(hdr)' /\ ChainOK' /\ Coalesced' /\ Blocks' = DOMAIN g
  BY <1>1, <1>8 DEF Typed, ChainOK, Whole, Coalesced, Blocks
<1>11. ASSUME NEW x \in Blocks \ {End, p}, hdr[x].used
       PROVE  /\ x \in Blocks' /\ hdr'[x].used = hdr[x].used
              /\ hdr'[x].next = hdr[x].next
  BY <1>1, <1>4, <1>5, <1>8, <1>10, <1>11
<1>12. LiveServed'
  <2> SUFFICES ASSUME NEW s \in live
               PROVE  /\ Serves(s.at - Hdr, s.size)'
                      /\ \A v \in live : v.at = s.at => v = s
    BY <1>1 DEF LiveServed
  <2>1. /\ Serves(s.at - Hdr, s.size) /\ \A v \in live : v.at = s.at => v = s
        /\ s.at \in Hdr..End
    BY DEF IInv, BlocksOwned, LiveServed, AlignedOK
  <2>2. s.at - Hdr # p
    BY <2>1, <1>2, <1>4, SizesOK
  <2>3. s.at - Hdr \in Blocks \ {End, p} /\ hdr[s.at - Hdr].used
    BY <2>1, <2>2 DEF Serves
  <2> QED BY <2>1, <2>3, <1>11, ServesKept
<1>13. HasServed'
  <2> SUFFICES ASSUME NEW u \in Thread, Has(u)'
               PROVE  /\ Serves(job[u].at, job[u].size)'
                      /\ \A s \in live : s.at # job'[u].at + Hdr
                      /\ \A v \in Thread : Has(v)' /\ job'[v].at = job'[u].at
                                             => v = u
    BY <1>1 DEF HasServed
  <2>1. /\ u # t /\ Has(u) /\ job'[u] = job[u] /\ job[u].at # p
        /\ Serves(job[u].at, job[u].size)
        /\ \A s \in live : s.at # job[u].at + Hdr
        /\ \A v \in Thread : Has(v) /\ job[v].at = job[u].at => v = u
    BY <1>2, <1>3 DEF IInv, BlocksOwned, HasServed
  <2>2. Serves(job[u].at, job[u].size)'
    <3>1. job[u].at \in Blocks \ {End, p} /\ hdr[job[u].at].used
      BY <2>1 DEF Serves
    <3>2. /\ job[u].at \in Blocks'
          /\ hdr'[job[u].at].used = hdr[job[u].at].used
          /\ hdr'[job[u].at].next = hdr[job[u].at].next
      BY <3>1, <1>11
    <3> QED BY <2>1, <3>1, <3>2 DEF Serves, Room, End
  <2> QED BY <2>1, <2>2, <1>3
<1>14. NoneLost'
  <2> SUFFICES ASSUME NEW x \in Blocks' \ {End}, hdr'[x].used
               PROVE  \/ \E s \in live : s.at = x + Hdr
                      \/ \E u \in Thread : Has(u)' /\ job'[u].at = x
    BY <1>1 DEF NoneLost, End
  <2>1. x \in Blocks \ {End, p} /\ hdr[x].used
    BY <1>1, <1>4, <1>5, <1>8, <1>10
  <2>2. \/ \E s \in live : s.at = x + Hdr
        \/ \E u \in Thread : Has(u) /\ job[u].at = x
    BY <2>1 DEF IInv, BlocksOwned, NoneLost
  <2> QED BY <2>1, <2>2, <1>3
<1>15. AlignedOK'
  BY <1>1, <1>4, <1>8, <1>10 DEF IInv, AlignedOK, End
<1> QED BY <1>3, <1>9, <1>10, <1>12, <1>13, <1>14, <1>15 DEF IInv, BlocksOwned

-----------------------------------------------------------------------------
(* The theorems. *)

LEMMA StutterOK == IInv /\ UNCHANGED vars => IInv'
<1> SUFFICES ASSUME IInv, UNCHANGED vars PROVE IInv'
  OBVIOUS
<1>1. /\ hdr' = hdr /\ lfree' = lfree /\ pc' = pc /\ job' = job
      /\ live' = live /\ UNCHANGED semVars
  BY DEF vars, semVars
<1>2. \A u \in Thread : (Has(u)' <=> Has(u)) /\ job'[u] = job[u]
  BY <1>1 DEF Has
<1>3. SemOK'
  BY <1>1 DEF IInv, SemOK, semVars, Once, Queued, Inside
<1>4. JobOK' /\ SearchOK'
  BY <1>1, ChainSame DEF IInv, JobOK, SearchOK, Blocks
<1>5. BlocksOwned' /\ LowestFree'
  BY <1>1, <1>2, OwnedSame, LowestSame DEF IInv
<1> QED BY <1>1, <1>3, <1>4, <1>5, ChainSame DEF IInv

\* Every step of rt_malloc and rt_free, by any thread, keeps the invariant.
LEMMA NextOK == IInv /\ [Next]_vars => IInv'
<1> SUFFICES ASSUME IInv, [Next]_vars PROVE IInv'
  OBVIOUS
<1>1. ASSUME NEW t \in Thread, NEW n \in Sizes, Malloc(t, n) PROVE IInv'
  BY <1>1, MallocOK
<1>2. ASSUME NEW t \in Thread, NEW r \in live, Free(t, r) PROVE IInv'
  BY <1>2, FreeOK
<1>3. ASSUME NEW t \in Thread, Step(t) PROVE IInv'
  <2>1. CASE Resume(t)
    BY <2>1, ResumeOK
  <2>2. CASE StartSearch(t)
    BY <2>2, StartSearchOK
  <2>3. CASE Walk(t)
    BY <2>3, WalkOK
  <2>4. CASE Carve(t)
    BY <2>4, CarveOK
  <2>5. CASE NoRoom(t)
    BY <2>5, NoRoomOK
  <2>6. CASE AdvanceFree(t)
    BY <2>6, AdvanceFreeOK
  <2>7. CASE Deliver(t)
    BY <2>7, DeliverOK
  <2>8. CASE TakeBack(t)
    BY <2>8, TakeBackOK
  <2> QED BY <1>3, <2>1, <2>2, <2>3, <2>4, <2>5, <2>6, <2>7, <2>8 DEF Step
<1> QED BY <1>1, <1>2, <1>3, StutterOK DEF Next

\* The inductive invariant of rt_malloc and rt_free holds in every state.
THEOREM HeapInvariance == Spec => []IInv
BY InitOK, NextOK, PTL DEF Spec

\* The variables keep their types.
THEOREM HeapTypes == Spec => []TypeOK
<1>1. IInv => TypeOK
  BY DEF IInv, TypeOK, Typed, SemOK, JobOK, JobType, LowestFree, AlignedOK, Blocks
<1> QED BY <1>1, HeapInvariance, PTL

\* The chain of blocks that rt_malloc splits and rt_free merges stays whole.
THEOREM ChainWhole == Spec => []ChainOK
<1>1. IInv => ChainOK
  BY DEF IInv
<1> QED BY <1>1, HeapInvariance, PTL

\* No block is lost and none is given out twice.
THEOREM OwnersExact == Spec => []BlocksOwned
<1>1. IInv => BlocksOwned
  BY DEF IInv
<1> QED BY <1>1, HeapInvariance, PTL

\* plug_holes leaves no two free blocks side by side.
THEOREM NoHoles == Spec => []Coalesced
<1>1. IInv => Coalesced
  BY DEF IInv
<1> QED BY <1>1, HeapInvariance, PTL

\* lfree is where the search has to start.
THEOREM LowestExact == Spec => []LowestFree
<1>1. IInv => LowestFree
  BY DEF IInv
<1> QED BY <1>1, HeapInvariance, PTL

\* heap_sem lets one thread in and is given back on every way out.
THEOREM Exclusive == Spec => []OneInside
<1>1. IInv => OneInside
  <2> SUFFICES ASSUME IInv PROVE OneInside
    OBVIOUS
  <2>1. \A t, u \in Thread : pc[t] \in Holding /\ pc[u] \in Holding => t = u
    BY DEF IInv, SemOK, Inside
  <2>2. ASSUME NEW t \in Thread, pc[t] \in Holding
        PROVE  free[heap_sem] = 0 /\ given[heap_sem] = {}
    <3>1. Inside(t) /\ \A u \in Thread : Inside(u) => u = t
      BY <2>2 DEF IInv, SemOK, Inside
    <3>2. free[heap_sem] # 1 /\ free[heap_sem] \in {0, 1}
      BY <3>1 DEF IInv, SemOK
    <3>3. given[heap_sem] \subseteq {t} /\ t \notin given[heap_sem]
      BY <3>1, <2>2 DEF IInv, SemOK, Inside, Holding
    <3> QED BY <3>2, <3>3
  <2>3. (\A t \in Thread : pc[t] = "out") => free[heap_sem] = 1
    BY DEF IInv, SemOK, Inside, Holding
  <2> QED BY <2>1, <2>2, <2>3 DEF OneInside
<1> QED BY <1>1, HeapInvariance, PTL

\* At every step the heap is whole, as HeapOK says it (src/mem.c).
THEOREM HeapWhole == Spec => []HeapOK
BY HeapTypes, ChainWhole, OwnersExact, NoHoles, LowestExact, Exclusive, PTL
   DEF HeapOK

\* rt_malloc returns RT_NULL only after a search that passed every block.
THEOREM NullOnlyWhenFull == Spec => FailsOnlyWhenFull
<1> DEFINE Full(t) == \A p \in Blocks : p < MemSize - job[t].size
                                      => ~Fits(p, job[t].size)
<1>1. ASSUME IInv, Next, NEW t \in Thread, pc[t] = "search", pc'[t] = "out"
      PROVE  Full(t)
  <2>1. pc \in [Thread -> Place]
    BY <1>1 DEF IInv, SemOK
  <2>2. ASSUME NEW u \in Thread, NEW j, Enter(u, j) PROVE FALSE
    <3>1. pc[u] = "out" /\ \E q \in {"in", "wait"} : pc' = [pc EXCEPT ![u] = q]
      BY <2>2 DEF Enter
    <3> QED BY <3>1, <2>1, <1>1
  <2>3. ASSUME NEW u \in Thread, Step(u), u # t PROVE FALSE
    <3>1. \/ pc' = pc
          \/ \E q \in Place : pc' = [pc EXCEPT ![u] = q]
      BY <2>3 DEF Step, Resume, StartSearch, Walk, Carve, NoRoom, AdvanceFree,
                  Deliver, TakeBack, Leave, Place, Holding
    <3> QED BY <3>1, <2>1, <2>3, <1>1
  <2>4. ASSUME Step(t) PROVE NoRoom(t)
    BY <2>1, <2>4, <1>1 DEF Step, Resume, StartSearch, Walk, Carve,
                            AdvanceFree, Deliver, TakeBack
  <2>5. NoRoom(t)
    BY <2>2, <2>3, <2>4, <1>1 DEF Next, Malloc, Free
  <2>6. /\ job[t].at >= MemSize - job[t].size
        /\ \A p \in Blocks : p < job[t].at => ~Fits(p, job[t].size)
    <3>1. ~(job[t].at < MemSize - job[t].size)
      BY <2>5, <1>1 DEF NoRoom, Searching
    <3>2. job[t].size \in Granted /\ job[t].at \in 0..End
      BY <1>1 DEF IInv, JobOK, JobType
    <3> QED BY <3>1, <3>2, <1>1, GrantedOK, SizesOK DEF IInv, SearchOK
  <2>7. Blocks \subseteq 0..End /\ job[t].at \in 0..End /\ job[t].size \in Nat
    BY <1>1, GrantedOK DEF IInv, Typed, Blocks, JobOK, JobType
  <2> QED BY <2>6, <2>7, SizesOK
<1>2. IInv /\ [Next]_vars =>
        [\A t \in Thread : pc[t] = "search" /\ pc'[t] = "out" => Full(t)]_vars
  BY <1>1
<1> QED BY <1>2, HeapInvariance, PTL DEF Spec, FailsOnlyWhenFull

\* Regions of different blocks have no byte in common.
LEMMA ApartOK ==
  ASSUME IInv, NEW p, NEW m, Serves(p, m), NEW q, NEW n, Serves(q, n),
         m \in Nat, n \in Nat, p # q
  PROVE  p + Hdr + m <= q + Hdr \/ q + Hdr + n <= p + Hdr
<1>1. /\ p \in Blocks \ {End} /\ q \in Blocks \ {End}
      /\ p \in 0..End /\ q \in 0..End
      /\ hdr[p].next \in 0..End /\ hdr[q].next \in 0..End
  BY DEF Serves, IInv, Typed, Header, Blocks
<1>2. p + Hdr + m <= hdr[p].next /\ q + Hdr + n <= hdr[q].next
  BY <1>1, SizesOK DEF Serves, Room
<1>3. /\ p < q => hdr[p].next <= q
      /\ q < p => hdr[q].next <= p
  BY <1>1 DEF IInv, ChainOK, Whole, Blocks
<1> QED BY <1>1, <1>2, <1>3, SizesOK

\* rt_malloc and rt_free implement HeapPromise: what is given out is aligned,
\* inside the heap and apart from everything in use.
THEOREM HeapImplements == Spec => KeepsPromise
<1>1. Init => Promise!Init
  BY DEF Init, Promise!Init
<1>2. ASSUME IInv, NEW t \in Thread, Deliver(t)
      PROVE  Promise!Give
  <2> DEFINE p == job[t].at
             n == job[t].size
             r == [at |-> p + Hdr, size |-> n]
  <2>1. Has(t) /\ n \in Granted
    <3>1. pc[t] \in {"advance", "carved"} /\ JobOK
      BY <1>2 DEF Deliver, IInv
    <3>2. job[t].fn = "malloc" /\ n \in Granted
      BY <3>1 DEF JobOK
    <3> QED BY <3>1, <3>2 DEF Has
  <2>2. /\ Serves(p, n) /\ n \in Nat
        /\ \A s \in live : s.at # p + Hdr
    BY <1>2, <2>1, GrantedOK DEF IInv, BlocksOwned, HasServed
  <2>3. /\ p \in Blocks \ {End} /\ p \in 0..End /\ p % Unit = 0
        /\ hdr[p].next \in 0..End
    BY <1>2, <2>2 DEF Serves, IInv, Typed, Header, Blocks, AlignedOK
  <2>4. p + Hdr + n <= hdr[p].next
    BY <2>2, <2>3, SizesOK DEF Serves, Room
  <2>5. (p + Hdr) % Unit = 0
    BY <2>3, SizesOK, HeapAssumption, SumOK
  <2>6. r \in Promise!Region
    <3>1. p + Hdr \in Hdr..End /\ p + Hdr + n <= End
      BY <2>2, <2>3, <2>4, SizesOK
    <3> QED BY <3>1, <2>1, <2>5 DEF Promise!Region
  <2>7. ASSUME NEW s \in live PROVE Promise!Apart(r, s)
    <3>1. /\ Serves(s.at - Hdr, s.size) /\ s.size \in Granted /\ s.at \in Hdr..End
      BY <1>2 DEF IInv, AlignedOK, BlocksOwned, LiveServed
    <3>2. s.size \in Nat /\ s.at - Hdr # p /\ s.at - Hdr + Hdr = s.at
      BY <3>1, <2>2, <2>3, GrantedOK, SizesOK
    <3>3. \/ p + Hdr + n <= s.at - Hdr + Hdr
          \/ s.at - Hdr + Hdr + s.size <= p + Hdr
      BY <3>1, <3>2, <2>2, <1>2, ApartOK
    <3>4. p + Hdr + n <= s.at \/ s.at + s.size <= p + Hdr
      BY <3>2, <3>3
    <3> QED BY <3>4 DEF Promise!Apart
  <2>8. live' = live \cup {r}
    BY <1>2 DEF Deliver
  <2>9. r \in live' \ live
    BY <2>2, <2>8
  <2> QED BY <2>6, <2>7, <2>8, <2>9 DEF Promise!Give
<1>3. IInv /\ [Next]_vars => [Promise!Next]_live
  <2> SUFFICES ASSUME IInv, [Next]_vars PROVE [Promise!Next]_live
    OBVIOUS
  <2>1. ASSUME NEW t \in Thread, NEW n \in Sizes, Malloc(t, n)
        PROVE  live' = live
    BY <2>1 DEF Malloc
  <2>2. ASSUME NEW t \in Thread, NEW r \in live, Free(t, r)
        PROVE  Promise!TakeBack
    BY <2>2 DEF Free, Promise!TakeBack
  <2>3. ASSUME NEW t \in Thread, Step(t), ~Deliver(t) PROVE live' = live
    BY <2>3 DEF Step, Resume, StartSearch, Walk, Carve, NoRoom, AdvanceFree,
                TakeBack
  <2>4. UNCHANGED vars => live' = live
    BY DEF vars
  <2> QED BY <2>1, <2>2, <2>3, <2>4, <1>2 DEF Next, Promise!Next
<1> QED BY <1>1, <1>3, HeapInvariance, PTL DEF Spec, KeepsPromise, Promise!Spec
=============================================================================
