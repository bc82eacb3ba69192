---------------------------- MODULE ListTheorems -----------------------------
(***************************************************************************)
(* Lemmas about the operators of Lists: what unlinking, appending and      *)
(* inserting do to the members of a list, and what the scheduler's queue   *)
(* operations do to a well-formed ready queue.                             *)
(***************************************************************************)
EXTENDS Lists, SequenceTheorems, WellFoundedInduction, TLAPS

\* A set of priorities has a least element (rt_schedule's __rt_ffs).
LEMMA LeastOK ==
  ASSUME NEW S \in SUBSET Nat, S # {}
  PROVE  Least(S) \in S /\ \A q \in S : Least(S) <= q
<1>1. \E x \in S : \A y \in S : ~ (<<y, x>> \in OpToRel(<, Nat))
  BY NatLessThanWellFounded, WFMin
<1>2. \A x, y \in Nat : y < x => <<y, x>> \in OpToRel(<, Nat)
  BY DEF OpToRel
<1>3. PICK x \in S : \A y \in S : ~ (<<y, x>> \in OpToRel(<, Nat))
  BY <1>1
<1>4. \A y \in S : x <= y
  <2>1. SUFFICES ASSUME NEW y \in S, ~ (x <= y) PROVE FALSE
    OBVIOUS
  <2>2. y < x
    BY <2>1
  <2>3. QED
    BY <2>2, <1>2, <1>3
<1>5. QED
  BY <1>4 DEF Least

-----------------------------------------------------------------------------
\* Removing position k of a sequence (RemoveAt of SequencesExt).
LEMMA RemoveAtOK ==
  ASSUME NEW S, NEW s \in Seq(S), NEW k \in 1..Len(s)
  PROVE  /\ RemoveAt(s, k) \in Seq(S)
         /\ Len(RemoveAt(s, k)) = Len(s) - 1
         /\ \A i \in 1..(Len(s) - 1) :
              RemoveAt(s, k)[i] = IF i < k THEN s[i] ELSE s[i + 1]
<1> DEFINE u == SubSeq(s, 1, k - 1)
           v == SubSeq(s, k + 1, Len(s))
<1>1. Len(s) \in Nat /\ \A i \in 1..Len(s) : s[i] \in S
  BY LenProperties, ElementOfSeq
<1>2. /\ u \in Seq(S) /\ Len(u) = k - 1
      /\ \A i \in 1..(k - 1) : u[i] = s[i]
  BY <1>1, SubSeqProperties
<1>3. /\ v \in Seq(S) /\ Len(v) = Len(s) - k
      /\ \A i \in 1..(Len(s) - k) : v[i] = s[k + i]
  BY <1>1, SubSeqProperties
<1>4. RemoveAt(s, k) = u \o v
  BY DEF RemoveAt
<1> HIDE DEF u, v
<1>5. /\ u \o v \in Seq(S) /\ Len(u \o v) = Len(u) + Len(v)
      /\ \A i \in 1..(Len(u) + Len(v)) :
           (u \o v)[i] = IF i <= Len(u) THEN u[i] ELSE v[i - Len(u)]
  BY <1>2, <1>3, ConcatProperties
<1>6. QED
  BY <1>1, <1>2, <1>3, <1>4, <1>5

\* Inserting e at position k of a sequence (InsertAt of SequencesExt).
LEMMA InsertAtOK ==
  ASSUME NEW S, NEW s \in Seq(S), NEW k \in 1..(Len(s) + 1), NEW e \in S
  PROVE  /\ InsertAt(s, k, e) \in Seq(S)
         /\ Len(InsertAt(s, k, e)) = Len(s) + 1
         /\ \A i \in 1..(Len(s) + 1) :
              InsertAt(s, k, e)[i] =
                IF i < k THEN s[i] ELSE IF i = k THEN e ELSE s[i - 1]
<1> DEFINE u == SubSeq(s, 1, k - 1)
           v == SubSeq(s, k, Len(s))
           w == u \o <<e>>
<1>1. Len(s) \in Nat /\ \A i \in 1..Len(s) : s[i] \in S
  BY LenProperties, ElementOfSeq
<1>2. /\ u \in Seq(S) /\ Len(u) = k - 1
      /\ \A i \in 1..(k - 1) : u[i] = s[i]
  BY <1>1, SubSeqProperties
<1>3. /\ v \in Seq(S) /\ Len(v) = Len(s) - k + 1
      /\ \A i \in 1..(Len(s) - k + 1) : v[i] = s[k + i - 1]
  BY <1>1, SubSeqProperties
<1>4. InsertAt(s, k, e) = w \o v
  BY DEF InsertAt
<1>5. /\ w \in Seq(S) /\ Len(w) = k
      /\ \A i \in 1..k : w[i] = IF i < k THEN s[i] ELSE e
  <2> HIDE DEF u
  <2>1. <<e>> \in Seq(S) /\ Len(<<e>>) = 1 /\ <<e>>[1] = e
    OBVIOUS
  <2>2. /\ u \o <<e>> \in Seq(S) /\ Len(u \o <<e>>) = Len(u) + 1
        /\ \A i \in 1..(Len(u) + 1) :
             (u \o <<e>>)[i] = IF i <= Len(u) THEN u[i] ELSE <<e>>[i - Len(u)]
    BY <1>2, <2>1, ConcatProperties
  <2>3. QED
    BY <1>1, <1>2, <2>1, <2>2
<1> HIDE DEF u, v, w
<1>6. /\ w \o v \in Seq(S) /\ Len(w \o v) = Len(w) + Len(v)
      /\ \A i \in 1..(Len(w) + Len(v)) :
           (w \o v)[i] = IF i <= Len(w) THEN w[i] ELSE v[i - Len(w)]
  BY <1>3, <1>5, ConcatProperties
<1>7. QED
  BY <1>1, <1>3, <1>4, <1>5, <1>6
-----------------------------------------------------------------------------
\* Unlinking x leaves every other member where it was, and x nowhere.
LEMMA WithoutOK ==
  ASSUME NEW S, NEW s \in Seq(S), NEW x, Once(s)
  PROVE  /\ Without(s, x) \in Seq(S)
         /\ Once(Without(s, x))
         /\ ToSet(Without(s, x)) = ToSet(s) \ {x}
<1>1. Len(s) \in Nat /\ DOMAIN s = 1..Len(s)
  BY LenProperties
<1>2. CASE \E i \in DOMAIN s : s[i] = x
  <2> DEFINE k == CHOOSE i \in DOMAIN s : s[i] = x
             r == RemoveAt(s, k)
             n == Len(s)
  <2>1. k \in 1..n /\ s[k] = x /\ \A i \in 1..n : s[i] = x => i = k
    BY <1>1, <1>2 DEF Once
  <2>2. Without(s, x) = r
    BY <1>2 DEF Without
  <2> HIDE DEF k
  <2>3. /\ r \in Seq(S) /\ Len(r) = n - 1 /\ DOMAIN r = 1..(n - 1)
        /\ \A i \in 1..(n - 1) : r[i] = IF i < k THEN s[i] ELSE s[i + 1]
    BY <2>1, RemoveAtOK, LenProperties
  <2> HIDE DEF r
  <2>4. Once(r)
    <3>1. SUFFICES ASSUME NEW i \in 1..(n - 1), NEW j \in 1..(n - 1), r[i] = r[j]
                   PROVE  i = j
      BY <2>3 DEF Once
    <3>2. \A g, h \in 1..n : s[g] = s[h] => g = h
      BY <1>1 DEF Once
    <3>3. QED
      BY <1>1, <2>1, <2>3, <3>1, <3>2
  <2>5. ToSet(r) \subseteq ToSet(s) \ {x}
    <3>1. SUFFICES ASSUME NEW i \in 1..(n - 1)
                   PROVE  r[i] \in ToSet(s) \ {x}
      BY <2>3 DEF ToSet
    <3>2. CASE i < k
      BY <1>1, <2>1, <2>3, <3>2 DEF ToSet
    <3>3. CASE ~ (i < k)
      <4>1. r[i] = s[i + 1] /\ i + 1 \in 1..n /\ i + 1 # k
        BY <1>1, <2>1, <2>3, <3>3
      <4>2. QED
        BY <1>1, <2>1, <4>1 DEF ToSet
    <3>4. QED
      BY <3>2, <3>3
  <2>6. ToSet(s) \ {x} \subseteq ToSet(r)
    <3>1. SUFFICES ASSUME NEW j \in 1..n, s[j] # x
                   PROVE  s[j] \in ToSet(r)
      BY <1>1 DEF ToSet
    <3>2. CASE j < k
      <4>1. j \in 1..(n - 1) /\ r[j] = s[j]
        BY <1>1, <2>1, <2>3, <3>2
      <4>2. QED
        BY <2>3, <4>1 DEF ToSet
    <3>3. CASE ~ (j < k)
      <4>1. j - 1 \in 1..(n - 1) /\ r[j - 1] = s[j]
        BY <1>1, <2>1, <2>3, <3>1, <3>3
      <4>2. QED
        BY <2>3, <4>1 DEF ToSet
    <3>4. QED
      BY <3>2, <3>3
  <2>7. QED
    BY <2>2, <2>3, <2>4, <2>5, <2>6
<1>3. CASE ~ \E i \in DOMAIN s : s[i] = x
  BY <1>3 DEF Without, ToSet
<1>4. QED
  BY <1>2, <1>3

LEMMA WithoutAbsent ==
  ASSUME NEW s, NEW x, x \notin ToSet(s)
  PROVE  Without(s, x) = s
BY DEF Without, ToSet

\* rt_list_insert_before on the list head: x becomes the last member.
LEMMA AppendOK ==
  ASSUME NEW S, NEW s \in Seq(S), NEW x \in S, Once(s), x \notin ToSet(s)
  PROVE  /\ Append(s, x) \in Seq(S)
         /\ Once(Append(s, x))
         /\ ToSet(Append(s, x)) = ToSet(s) \cup {x}
         /\ Append(s, x) # <<>>
<1> DEFINE n == Len(s)
           r == Append(s, x)
<1>1. n \in Nat /\ DOMAIN s = 1..n
  BY LenProperties
<1>2. /\ r \in Seq(S) /\ r # <<>> /\ Len(r) = n + 1
      /\ \A i \in 1..n : r[i] = s[i]
      /\ r[n + 1] = x
  BY AppendProperties
<1>3. DOMAIN r = 1..(n + 1)
  BY <1>2, LenProperties
<1> HIDE DEF r, n
<1>4. Once(r)
  <2>1. SUFFICES ASSUME NEW i \in 1..(n + 1), NEW j \in 1..(n + 1), r[i] = r[j]
                 PROVE  i = j
    BY <1>3 DEF Once
  <2>2. \A g \in 1..n : s[g] # x
    BY <1>1 DEF ToSet
  <2>3. \A g, h \in 1..n : s[g] = s[h] => g = h
    BY <1>1 DEF Once
  <2>4. QED
    BY <1>1, <1>2, <2>1, <2>2, <2>3
<1>5. ToSet(r) = ToSet(s) \cup {x}
  <2>1. \A i \in 1..(n + 1) : r[i] \in ToSet(s) \cup {x}
    BY <1>1, <1>2 DEF ToSet
  <2>2. \A i \in 1..n : s[i] \in ToSet(r)
    BY <1>1, <1>2, <1>3 DEF ToSet
  <2>3. x \in ToSet(r)
    BY <1>1, <1>2, <1>3 DEF ToSet
  <2>4. QED
    BY <1>1, <1>3, <2>1, <2>2, <2>3 DEF ToSet
<1>6. QED
  BY <1>2, <1>4, <1>5 DEF r

\* The first waiter leaves its list.
LEMMA TailOK ==
  ASSUME NEW S, NEW s \in Seq(S), s # <<>>, Once(s)
  PROVE  /\ Head(s) \in S /\ Head(s) \in ToSet(s)
         /\ Tail(s) \in Seq(S)
         /\ Once(Tail(s))
         /\ ToSet(Tail(s)) = ToSet(s) \ {Head(s)}
<1> DEFINE n == Len(s)
           r == Tail(s)
<1>1. n \in Nat \ {0} /\ DOMAIN s = 1..n
  BY LenProperties, EmptySeq
<1>2. /\ r \in Seq(S) /\ Len(r) = n - 1 /\ DOMAIN r = 1..(n - 1)
      /\ \A i \in 1..(n - 1) : r[i] = s[i + 1]
  BY HeadTailProperties, LenProperties
<1>3. Head(s) = s[1] /\ Head(s) \in S /\ Head(s) \in ToSet(s)
  BY <1>1, HeadTailProperties DEF ToSet
<1> HIDE DEF r, n
<1>4. \A g, h \in 1..n : s[g] = s[h] => g = h
  BY <1>1 DEF Once
<1>5. Once(r)
  <2>1. SUFFICES ASSUME NEW i \in 1..(n - 1), NEW j \in 1..(n - 1), r[i] = r[j]
                 PROVE  i = j
    BY <1>2 DEF Once
  <2>2. i + 1 \in 1..n /\ j + 1 \in 1..n /\ s[i + 1] = s[j + 1]
    BY <1>1, <1>2, <2>1
  <2>3. QED
    BY <1>4, <2>2
<1>6. ToSet(r) = ToSet(s) \ {s[1]}
  <2>1. ASSUME NEW i \in 1..(n - 1) PROVE r[i] \in ToSet(s) \ {s[1]}
    <3>1. i + 1 \in 1..n /\ 1 \in 1..n /\ i + 1 # 1 /\ r[i] = s[i + 1]
      BY <1>1, <1>2
    <3>2. QED
      BY <1>1, <1>4, <3>1 DEF ToSet
  <2>2. ASSUME NEW j \in 1..n, s[j] # s[1] PROVE s[j] \in ToSet(r)
    <3>1. j - 1 \in 1..(n - 1) /\ r[j - 1] = s[j]
      BY <1>1, <1>2, <2>2
    <3>2. QED
      BY <1>2, <3>1 DEF ToSet
  <2>3. ToSet(r) \subseteq ToSet(s) \ {s[1]}
    BY <1>2, <2>1 DEF ToSet
  <2>4. ToSet(s) \ {s[1]} \subseteq ToSet(r)
    BY <1>1, <2>2 DEF ToSet
  <2>5. QED
    BY <2>3, <2>4
<1>7. QED
  BY <1>2, <1>3, <1>5, <1>6 DEF r

\* rt_timer_start links a timer that is not in the list.
LEMMA InsertTimerOK ==
  ASSUME NEW S, NEW s \in Seq(S), NEW x \in S, NEW at, NEW v,
         Once(s), x \notin ToSet(s)
  PROVE  /\ InsertTimer(s, at, x, v) \in Seq(S)
         /\ Once(InsertTimer(s, at, x, v))
         /\ ToSet(InsertTimer(s, at, x, v)) = ToSet(s) \cup {x}
<1> DEFINE n == Len(s)
           k == InsertPos(s, at, v)
           r == InsertAt(s, k, x)
           D == Differing(s, at, v)
<1>1. n \in Nat /\ DOMAIN s = 1..n
  BY LenProperties
<1>2. k \in 1..(n + 1)
  <2>1. CASE D = {}
    BY <1>1, <2>1 DEF InsertPos
  <2>2. CASE D # {}
    <3>1. D \in SUBSET Nat /\ D \subseteq 1..n
      BY <1>1 DEF Differing
    <3>2. Least(D) \in D
      BY <2>2, <3>1, LeastOK
    <3>3. QED
      BY <1>1, <2>2, <3>1, <3>2 DEF InsertPos
  <2>3. QED
    BY <2>1, <2>2
<1> HIDE DEF k
<1>3. /\ r \in Seq(S) /\ Len(r) = n + 1 /\ DOMAIN r = 1..(n + 1)
      /\ \A i \in 1..(n + 1) :
           r[i] = IF i < k THEN s[i] ELSE IF i = k THEN x ELSE s[i - 1]
  <2>1. k \in 1..(Len(s) + 1)
    BY <1>2
  <2>2. /\ r \in Seq(S) /\ Len(r) = n + 1
        /\ \A i \in 1..(n + 1) :
             r[i] = IF i < k THEN s[i] ELSE IF i = k THEN x ELSE s[i - 1]
    BY <2>1, InsertAtOK
  <2> HIDE DEF r
  <2>3. QED
    BY <2>2, LenProperties
<1> HIDE DEF r, n, D
<1>4. \A g \in 1..n : s[g] # x
  BY <1>1 DEF ToSet
<1>5. \A g, h \in 1..n : s[g] = s[h] => g = h
  BY <1>1 DEF Once
<1>6. Once(r)
  <2>1. SUFFICES ASSUME NEW i \in 1..(n + 1), NEW j \in 1..(n + 1), r[i] = r[j]
                 PROVE  i = j
    BY <1>3 DEF Once
  <2>2. QED
    BY <1>1, <1>2, <1>3, <1>4, <1>5, <2>1
<1>7. ToSet(r) = ToSet(s) \cup {x}
  <2>1. ASSUME NEW i \in 1..(n + 1) PROVE r[i] \in ToSet(s) \cup {x}
    <3>1. \/ i \in 1..n /\ r[i] = s[i]
          \/ r[i] = x
          \/ i - 1 \in 1..n /\ r[i] = s[i - 1]
      BY <1>1, <1>2, <1>3
    <3>2. QED
      BY <1>1, <3>1 DEF ToSet
  <2>2. ASSUME NEW j \in 1..n PROVE s[j] \in ToSet(r)
    <3>1. \/ j \in 1..(n + 1) /\ r[j] = s[j]
          \/ j + 1 \in 1..(n + 1) /\ r[j + 1] = s[j]
      BY <1>1, <1>2, <1>3
    <3>2. QED
      BY <1>3, <3>1 DEF ToSet
  <2>3. x \in ToSet(r)
    <3>1. r[k] = x /\ k \in DOMAIN r
      BY <1>1, <1>2, <1>3
    <3>2. QED
      BY <3>1 DEF ToSet
  <2>4. QED
    BY <1>1, <1>3, <2>1, <2>2, <2>3 DEF ToSet
<1>8. QED
  BY <1>3, <1>6, <1>7 DEF InsertTimer, r, k
-----------------------------------------------------------------------------
(***************************************************************************)
(* The ready queue.  P is the set of priorities, S the threads, R those in *)
(* the queue and pr their priorities.                                      *)
(***************************************************************************)
Queues(P, S) == [list : [P -> Seq(S)], group : SUBSET P]

\* rt_schedule_remove_thread takes one thread out and keeps the rest and the
\* bitmap exact.
LEMMA RemovedOK ==
  ASSUME NEW P, NEW S, NEW R \in SUBSET S, NEW pr \in [S -> P],
         NEW q \in Queues(P, S), QueueOK(q, R, pr), NEW t \in S
  PROVE  /\ Removed(q, t, pr[t]) \in Queues(P, S)
         /\ QueueOK(Removed(q, t, pr[t]), R \ {t}, pr)
<1> DEFINE p == pr[t]
           l == Without(q.list[p], t)
           z == Removed(q, t, p)
<1>1. p \in P /\ q.list \in [P -> Seq(S)] /\ q.group \in SUBSET P
  BY DEF Queues
<1>2. \A o \in P : Once(q.list[o]) /\ ToSet(q.list[o]) = {u \in R : pr[u] = o}
  BY <1>1 DEF QueueOK
<1>3. l \in Seq(S) /\ Once(l) /\ ToSet(l) = {u \in R : pr[u] = p} \ {t}
  <2>1. q.list[p] \in Seq(S) /\ Once(q.list[p])
    BY <1>1, <1>2
  <2>2. QED
    BY <1>1, <1>2, <2>1, WithoutOK
<1> HIDE DEF l
<1>4. /\ z.list = [q.list EXCEPT ![p] = l]
      /\ z.group = IF l = <<>> THEN q.group \ {p} ELSE q.group
      /\ z = [list |-> z.list, group |-> z.group]
  BY DEF Removed, l
<1> HIDE DEF z, p
<1>5. z \in Queues(P, S)
  <2>1. z.list \in [P -> Seq(S)]
    BY <1>1, <1>3, <1>4
  <2>2. z.group \in SUBSET P
    BY <1>1, <1>4
  <2> DEFINE zl == z.list
             zg == z.group
  <2> HIDE DEF zl, zg
  <2>3. [list |-> zl, group |-> zg] \in Queues(P, S)
    BY <2>1, <2>2 DEF Queues, zl, zg
  <2>4. QED
    BY <1>4, <2>3 DEF zl, zg
<1>6. ASSUME NEW o \in P
      PROVE  Once(z.list[o]) /\ ToSet(z.list[o]) = {u \in R \ {t} : pr[u] = o}
  <2>1. CASE o = p
    BY <1>1, <1>3, <1>4, <2>1
  <2>2. CASE o # p
    <3>1. z.list[o] = q.list[o] /\ pr[t] # o
      BY <1>1, <1>4, <2>2 DEF p
    <3>2. QED
      BY <1>2, <3>1
  <2>3. QED
    BY <2>1, <2>2
<1>7. z.group = {o \in P : z.list[o] # <<>>}
  <2>1. q.group = {o \in P : q.list[o] # <<>>}
    BY <1>1 DEF QueueOK
  <2>2. q.list[p] = <<>> => l = <<>>
    <3>1. q.list[p] = <<>> => t \notin ToSet(q.list[p])
      BY DEF ToSet
    <3>2. QED
      BY <3>1, WithoutAbsent DEF l
  <2>3. \A o \in P : z.list[o] = IF o = p THEN l ELSE q.list[o]
    BY <1>1, <1>4
  <2>4. QED
    BY <1>1, <1>4, <2>1, <2>2, <2>3
<1>8. DOMAIN z.list = P
  BY <1>1, <1>4
<1>9. QED
  BY <1>5, <1>6, <1>7, <1>8 DEF QueueOK, z, p

\* rt_schedule_insert_thread adds a thread that is in no list.
LEMMA InsertedOK ==
  ASSUME NEW P, NEW S, NEW R \in SUBSET S, NEW pr \in [S -> P],
         NEW q \in Queues(P, S), QueueOK(q, R, pr), NEW t \in S \ R
  PROVE  /\ Inserted(q, t, pr[t]) \in Queues(P, S)
         /\ QueueOK(Inserted(q, t, pr[t]), R \cup {t}, pr)
<1> DEFINE p == pr[t]
           l == Append(q.list[p], t)
           z == Inserted(q, t, p)
<1>1. p \in P /\ q.list \in [P -> Seq(S)] /\ q.group \in SUBSET P
  BY DEF Queues
<1>2. \A o \in P : Once(q.list[o]) /\ ToSet(q.list[o]) = {u \in R : pr[u] = o}
  BY <1>1 DEF QueueOK
<1>3. /\ l \in Seq(S) /\ Once(l) /\ l # <<>>
      /\ ToSet(l) = {u \in R : pr[u] = p} \cup {t}
  <2>1. q.list[p] \in Seq(S) /\ Once(q.list[p]) /\ t \notin ToSet(q.list[p])
    BY <1>1, <1>2
  <2>2. l \in Seq(S) /\ Once(l) /\ l # <<>>
    BY <2>1, AppendOK
  <2>3. ToSet(l) = ToSet(q.list[p]) \cup {t}
    BY <2>1, AppendOK
  <2> QED
    BY <1>1, <1>2, <2>2, <2>3
<1>4. /\ z.list = [q.list EXCEPT ![p] = l]
      /\ z.group = q.group \cup {p}
      /\ z = [list |-> z.list, group |-> z.group]
  BY DEF Inserted
<1> HIDE DEF z, l, p
<1>5. z \in Queues(P, S)
  <2>1. z.list \in [P -> Seq(S)]
    BY <1>1, <1>3, <1>4
  <2>2. z.group \in SUBSET P
    BY <1>1, <1>4
  <2> DEFINE zl == z.list
             zg == z.group
  <2> HIDE DEF zl, zg
  <2>3. [list |-> zl, group |-> zg] \in Queues(P, S)
    BY <2>1, <2>2 DEF Queues, zl, zg
  <2>4. QED
    BY <1>4, <2>3 DEF zl, zg
<1>6. ASSUME NEW o \in P
      PROVE  /\ Once(z.list[o])
             /\ ToSet(z.list[o]) = {u \in R \cup {t} : pr[u] = o}
  <2>1. CASE o = p
    <3>1. z.list[o] = l /\ pr[t] = o
      BY <1>1, <1>4, <2>1 DEF p
    <3>2. QED
      BY <1>3, <2>1, <3>1
  <2>2. CASE o # p
    <3>1. z.list[o] = q.list[o] /\ pr[t] # o
      BY <1>1, <1>4, <2>2 DEF p
    <3>2. QED
      BY <1>2, <3>1
  <2>3. QED
    BY <2>1, <2>2
<1>7. z.group = {o \in P : z.list[o] # <<>>}
  <2>1. q.group = {o \in P : q.list[o] # <<>>}
    BY <1>1 DEF QueueOK
  <2>2. \A o \in P : z.list[o] = IF o = p THEN l ELSE q.list[o]
    BY <1>1, <1>4
  <2>3. QED
    BY <1>1, <1>3, <1>4, <2>1, <2>2
<1>8. DOMAIN z.list = P
  BY <1>1, <1>4
<1>9. QED
  BY <1>5, <1>6, <1>7, <1>8 DEF QueueOK, z, p

\* rt_thread_yield reorders one list.
LEMMA RotatedOK ==
  ASSUME NEW P, NEW S, NEW R \in SUBSET S, NEW pr \in [S -> P],
         NEW q \in Queues(P, S), QueueOK(q, R, pr), NEW t \in R
  PROVE  /\ Rotated(q, t, pr[t]) \in Queues(P, S)
         /\ QueueOK(Rotated(q, t, pr[t]), R, pr)
<1> DEFINE p == pr[t]
           l == Append(Without(q.list[p], t), t)
           z == Rotated(q, t, p)
<1>1. p \in P /\ q.list \in [P -> Seq(S)] /\ q.group \in SUBSET P
  BY DEF Queues
<1>2. \A o \in P : Once(q.list[o]) /\ ToSet(q.list[o]) = {u \in R : pr[u] = o}
  BY <1>1 DEF QueueOK
<1>3. /\ l \in Seq(S) /\ Once(l) /\ l # <<>>
      /\ ToSet(l) = {u \in R : pr[u] = p}
  <2> DEFINE w == Without(q.list[p], t)
  <2>1. q.list[p] \in Seq(S) /\ Once(q.list[p])
    BY <1>1, <1>2
  <2>2. w \in Seq(S) /\ Once(w) /\ ToSet(w) = {u \in R : pr[u] = p} \ {t}
    BY <1>1, <1>2, <2>1, WithoutOK
  <2> HIDE DEF w
  <2>3. t \in S /\ t \notin ToSet(w)
    BY <2>2
  <2>4. /\ Append(w, t) \in Seq(S) /\ Once(Append(w, t)) /\ Append(w, t) # <<>>
        /\ ToSet(Append(w, t)) = ToSet(w) \cup {t}
    BY <2>2, <2>3, AppendOK
  <2>5. QED
    BY <2>2, <2>4 DEF w
<1>4. /\ z.list = [q.list EXCEPT ![p] = l]
      /\ z.group = q.group
      /\ z = [list |-> z.list, group |-> z.group]
  BY DEF Rotated
<1> HIDE DEF z, l, p
<1>5. z \in Queues(P, S)
  <2>1. z.list \in [P -> Seq(S)]
    BY <1>1, <1>3, <1>4
  <2>2. z.group \in SUBSET P
    BY <1>1, <1>4
  <2> DEFINE zl == z.list
             zg == z.group
  <2> HIDE DEF zl, zg
  <2>3. [list |-> zl, group |-> zg] \in Queues(P, S)
    BY <2>1, <2>2 DEF Queues, zl, zg
  <2>4. QED
    BY <1>4, <2>3 DEF zl, zg
<1>6. ASSUME NEW o \in P
      PROVE  Once(z.list[o]) /\ ToSet(z.list[o]) = {u \in R : pr[u] = o}
  BY <1>1, <1>2, <1>3, <1>4
<1>7. z.group = {o \in P : z.list[o] # <<>>}
  <2>1. q.group = {o \in P : q.list[o] # <<>>}
    BY <1>1 DEF QueueOK
  <2>2. \A o \in P : z.list[o] = IF o = p THEN l ELSE q.list[o]
    BY <1>1, <1>4
  <2>3. q.list[p] # <<>>
    <3>1. t \in ToSet(q.list[p])
      BY <1>1, <1>2 DEF p
    <3>2. QED
      BY <3>1 DEF ToSet
  <2>4. QED
    BY <1>1, <1>3, <1>4, <2>1, <2>2, <2>3
<1>8. DOMAIN z.list = P
  BY <1>1, <1>4
<1>9. QED
  BY <1>5, <1>6, <1>7, <1>8 DEF QueueOK, z, p

\* The priority of a thread that is in no list may change freely.
LEMMA OutsideQueueOK ==
  ASSUME NEW S, NEW R \in SUBSET S, NEW pr, NEW pr2, NEW q,
         QueueOK(q, R, pr), \A u \in R : pr2[u] = pr[u]
  PROVE  QueueOK(q, R, pr2)
BY DEF QueueOK

\* rt_schedule picks a thread of the queue, as long as there is one.
LEMMA TopOK ==
  ASSUME NEW P \in SUBSET Nat, NEW S, NEW R \in SUBSET S, NEW pr \in [S -> P],
         NEW q \in Queues(P, S), QueueOK(q, R, pr), R # {}
  PROVE  /\ Top(q) \in R
         /\ \A u \in R : pr[Top(q)] <= pr[u]
<1>1. q.list \in [P -> Seq(S)] /\ q.group \in SUBSET P
  BY DEF Queues
<1>2. \A o \in P : ToSet(q.list[o]) = {u \in R : pr[u] = o}
  BY <1>1 DEF QueueOK
<1>3. q.group = {o \in P : q.list[o] # <<>>}
  BY <1>1 DEF QueueOK
<1>4. ASSUME NEW u \in R PROVE pr[u] \in q.group
  <2>1. pr[u] \in P /\ u \in ToSet(q.list[pr[u]])
    BY <1>2
  <2>2. q.list[pr[u]] # <<>>
    BY <2>1 DEF ToSet
  <2>3. QED
    BY <1>3, <2>1, <2>2
<1> DEFINE g == Least(q.group)
<1>5. g \in q.group /\ \A o \in q.group : g <= o
  <2>1. q.group # {} /\ q.group \in SUBSET Nat
    BY <1>1, <1>4
  <2>2. QED
    BY <2>1, LeastOK
<1> HIDE DEF g
<1>6. g \in P /\ q.list[g] \in Seq(S) /\ q.list[g] # <<>>
  BY <1>1, <1>3, <1>5
<1>7. Head(q.list[g]) \in ToSet(q.list[g])
  <2>1. 1 \in DOMAIN q.list[g] /\ Head(q.list[g]) = q.list[g][1]
    BY <1>6, LenProperties, EmptySeq
  <2>2. QED
    BY <2>1 DEF ToSet
<1>8. Top(q) \in R /\ pr[Top(q)] = g
  BY <1>2, <1>6, <1>7 DEF Top, g
<1>9. QED
  BY <1>4, <1>5, <1>8

-----------------------------------------------------------------------------
(* Sums over a list. *)

\* Induction up to n, over a set.
LEMMA UpTo ==
  ASSUME NEW n \in Nat, NEW T \in SUBSET (0..n), 0 \in T,
         \A i \in 0..(n - 1) : i \in T => i + 1 \in T
  PROVE  T = 0..n
<1> DEFINE U == (0..n) \ T
<1>1. SUFFICES ASSUME U # {} PROVE FALSE
  OBVIOUS
<1>2. U \in SUBSET Nat
  OBVIOUS
<1>3. Least(U) \in U /\ \A q \in U : Least(U) <= q
  BY <1>1, <1>2, LeastOK
<1>4. PICK m \in U : \A q \in U : m <= q
  BY <1>3
<1>5. m \in 1..n
  BY <1>4
<1>6. m - 1 \in T
  <2>1. m - 1 \in 0..n /\ ~(m <= m - 1)
    BY <1>5
  <2> QED BY <2>1, <1>4
<1>7. m - 1 \in 0..(n - 1) /\ m - 1 + 1 = m
  BY <1>5
<1> QED BY <1>4, <1>6, <1>7

\* f has the sums of the first members of s.
Sums(w, s, f) ==
  f = [i \in 0..Len(s) |-> IF i = 0 THEN 0 ELSE f[i - 1] + w[s[i]]]

Weighs(w, s) == \A i \in 1..Len(s) : w[s[i]] \in Int

LEMMA SumsExist ==
  ASSUME NEW w, NEW s, Len(s) \in Nat, Weighs(w, s)
  PROVE  \E f \in [0..Len(s) -> Int] : Sums(w, s, f)
<1> DEFINE n == Len(s)
           Up(k, f) == f = [i \in 0..k |-> IF i = 0 THEN 0 ELSE f[i - 1] + w[s[i]]]
           T == {k \in 0..n : \E f \in [0..k -> Int] : Up(k, f)}
<1>1. 0 \in T
  <2> DEFINE f == [i \in 0..0 |-> 0]
  <2>1. f \in [0..0 -> Int] /\ Up(0, f)
    OBVIOUS
  <2>2. 0 \in 0..n
    OBVIOUS
  <2> HIDE DEF f, Up
  <2>3. \E g \in [0..0 -> Int] : Up(0, g)
    BY <2>1
  <2> QED BY <2>2, <2>3
<1>2. ASSUME NEW k \in 0..(n - 1), k \in T PROVE k + 1 \in T
  <2>1. PICK f \in [0..k -> Int] : Up(k, f)
    BY <1>2
  <2> DEFINE g == [i \in 0..(k + 1) |-> IF i = k + 1 THEN f[k] + w[s[k + 1]] ELSE f[i]]
  <2>2. f[k] \in Int /\ w[s[k + 1]] \in Int /\ k \in Nat /\ k + 1 \in 0..n
    BY DEF Weighs
  <2>3. g \in [0..(k + 1) -> Int]
    BY <2>2
  <2>4. \A i \in 0..(k + 1) : g[i] = IF i = 0 THEN 0 ELSE g[i - 1] + w[s[i]]
    <3> SUFFICES ASSUME NEW i \in 0..(k + 1)
                 PROVE  g[i] = IF i = 0 THEN 0 ELSE g[i - 1] + w[s[i]]
      OBVIOUS
    <3>1. \A j \in 0..k : f[j] = IF j = 0 THEN 0 ELSE f[j - 1] + w[s[j]]
      BY <2>1
    <3>2. CASE i = k + 1
      BY <3>2, <2>2
    <3>3. CASE i \in 0..k
      <4>1. g[i] = f[i] /\ (i # 0 => i - 1 \in 0..k /\ i - 1 # k + 1 /\ g[i - 1] = f[i - 1])
        BY <3>3, <2>2
      <4> QED BY <4>1, <3>1, <3>3
    <3> QED BY <3>2, <3>3, <2>2
  <2>5. Up(k + 1, g)
    <3>1. g = [i \in 0..(k + 1) |-> g[i]]
      OBVIOUS
    <3> HIDE DEF g
    <3> QED BY <3>1, <2>4
  <2> QED BY <2>2, <2>3, <2>5
<1> HIDE DEF T
<1>3. T \in SUBSET (0..n)
  BY DEF T
<1>4. T = 0..n
  BY <1>1, <1>2, <1>3, UpTo
<1>5. n \in T
  BY <1>4
<1> QED BY <1>5 DEF T, Sums

\* They are what Total adds up.
LEMMA TotalIs ==
  ASSUME NEW w, NEW s, Len(s) \in Nat, NEW f, Sums(w, s, f)
  PROVE  Total(w, s) = f[Len(s)]
<1> DEFINE n == Len(s)
           c == CHOOSE g : Sums(w, s, g)
<1>1. Total(w, s) = c[n]
  BY DEF Total, Sums
<1>2. Sums(w, s, c)
  <2> HIDE DEF c
  <2>1. c = CHOOSE g : Sums(w, s, g)
    BY DEF c
  <2> QED BY <2>1
<1> HIDE DEF c
<1>3. /\ \A i \in 0..n : c[i] = IF i = 0 THEN 0 ELSE c[i - 1] + w[s[i]]
      /\ \A i \in 0..n : f[i] = IF i = 0 THEN 0 ELSE f[i - 1] + w[s[i]]
  BY <1>2 DEF Sums
<1> DEFINE T == {i \in 0..n : c[i] = f[i]}
<1>4. 0 \in T
  BY <1>3
<1>5. ASSUME NEW i \in 0..(n - 1), i \in T PROVE i + 1 \in T
  <2>1. i + 1 \in 0..n /\ i + 1 # 0 /\ i + 1 - 1 = i
    OBVIOUS
  <2>2. c[i + 1] = c[i] + w[s[i + 1]] /\ f[i + 1] = f[i] + w[s[i + 1]]
    BY <1>3, <2>1
  <2> QED BY <2>1, <2>2, <1>5
<1> HIDE DEF T
<1>6. T \in SUBSET (0..n)
  BY DEF T
<1>7. T = 0..n
  BY <1>4, <1>5, <1>6, UpTo
<1>8. n \in T
  BY <1>7
<1> QED BY <1>1, <1>8 DEF T

LEMMA TotalOK ==
  ASSUME NEW w, NEW s, Len(s) \in Nat, Weighs(w, s)
  PROVE  Total(w, s) \in Int
<1>1. PICK f \in [0..Len(s) -> Int] : Sums(w, s, f)
  BY SumsExist
<1> QED BY <1>1, TotalIs

\* Of the empty list, and of weights that are the same for its members.
LEMMA TotalEmpty == \A w : Total(w, <<>>) = 0
<1> SUFFICES ASSUME NEW w PROVE Total(w, <<>>) = 0
  OBVIOUS
<1>1. Len(<<>>) = 0 /\ Weighs(w, <<>>)
  BY DEF Weighs
<1>2. PICK f \in [0..0 -> Int] : Sums(w, <<>>, f)
  BY <1>1, SumsExist
<1>3. f[0] = 0
  BY <1>1, <1>2 DEF Sums
<1> QED BY <1>1, <1>2, <1>3, TotalIs

LEMMA TotalSame ==
  ASSUME NEW w, NEW v, NEW s, Len(s) \in Nat, Weighs(w, s),
         \A i \in 1..Len(s) : v[s[i]] = w[s[i]]
  PROVE  Total(v, s) = Total(w, s)
<1>1. PICK f \in [0..Len(s) -> Int] : Sums(w, s, f)
  BY SumsExist
<1>2. Sums(v, s, f)
  BY <1>1 DEF Sums
<1> QED BY <1>1, <1>2, TotalIs

\* A member in front adds its number.
LEMMA TotalPrepend ==
  ASSUME NEW S, NEW w, NEW s \in Seq(S), NEW x \in S, Weighs(w, s), w[x] \in Int
  PROVE  Total(w, <<x>> \o s) = w[x] + Total(w, s)
<1> DEFINE n == Len(s)
           r == <<x>> \o s
<1>1. n \in Nat
  BY LenProperties
<1>2. /\ Len(r) = n + 1 /\ r[1] = x
      /\ \A i \in 2..(n + 1) : r[i] = s[i - 1]
  <2>1. <<x>> \in Seq(S) /\ Len(<<x>>) = 1 /\ <<x>>[1] = x
    OBVIOUS
  <2>2. Len(r) = 1 + n /\ \A i \in 1..(1 + n) :
          r[i] = IF i <= 1 THEN <<x>>[i] ELSE s[i - 1]
    BY <2>1, ConcatProperties
  <2> QED BY <1>1, <2>1, <2>2
<1> HIDE DEF r
<1>3. PICK f \in [0..n -> Int] : Sums(w, s, f)
  BY <1>1, SumsExist
<1>4. \A i \in 0..n : f[i] = IF i = 0 THEN 0 ELSE f[i - 1] + w[s[i]]
  BY <1>3 DEF Sums
<1> DEFINE g == [i \in 0..(n + 1) |-> IF i = 0 THEN 0 ELSE w[x] + f[i - 1]]
<1>5. \A i \in 0..(n + 1) : g[i] = IF i = 0 THEN 0 ELSE g[i - 1] + w[r[i]]
  <2> SUFFICES ASSUME NEW i \in 0..(n + 1)
               PROVE  g[i] = IF i = 0 THEN 0 ELSE g[i - 1] + w[r[i]]
    OBVIOUS
  <2>1. CASE i = 0
    BY <2>1
  <2>2. CASE i = 1
    <3>1. f[0] = 0 /\ g[0] = 0 /\ g[1] = w[x] + f[0] /\ w[r[1]] = w[x]
      BY <1>1, <1>2, <1>4
    <3> QED BY <3>1, <2>2
  <2>3. CASE i \in 2..(n + 1)
    <3>1. i - 1 \in 1..n /\ i - 2 \in 0..n /\ i \in 0..(n + 1) /\ i - 1 \in 0..(n + 1)
      BY <2>3, <1>1
    <3>2. g[i] = w[x] + f[i - 1] /\ g[i - 1] = w[x] + f[i - 2]
      BY <3>1, <2>3
    <3>3. f[i - 1] = f[i - 2] + w[s[i - 1]] /\ r[i] = s[i - 1]
      BY <3>1, <2>3, <1>2, <1>4
    <3>4. f[i - 2] \in Int /\ w[s[i - 1]] \in Int
      BY <3>1 DEF Weighs
    <3> HIDE DEF g
    <3> QED BY <2>3, <3>2, <3>3, <3>4
  <2> QED BY <2>1, <2>2, <2>3, <1>1
<1>6. Sums(w, r, g)
  <2>1. g = [i \in 0..(n + 1) |-> g[i]]
    OBVIOUS
  <2> HIDE DEF g
  <2> QED BY <2>1, <1>2, <1>5 DEF Sums
<1>7. g[n + 1] = w[x] + f[n]
  BY <1>1
<1> HIDE DEF g
<1>8. Total(w, r) = g[n + 1] /\ Total(w, s) = f[n]
  BY <1>1, <1>2, <1>3, <1>6, TotalIs
<1> QED BY <1>7, <1>8 DEF r

\* A member that leaves takes its number with it.
LEMMA TotalRemoveAt ==
  ASSUME NEW S, NEW w, NEW s \in Seq(S), NEW k \in 1..Len(s), Weighs(w, s)
  PROVE  Total(w, RemoveAt(s, k)) = Total(w, s) - w[s[k]]
<1> DEFINE n == Len(s)
           r == RemoveAt(s, k)
<1>1. n \in Nat /\ k \in 1..n
  BY LenProperties
<1>2. /\ Len(r) = n - 1
      /\ \A i \in 1..(n - 1) : r[i] = IF i < k THEN s[i] ELSE s[i + 1]
  BY RemoveAtOK
<1> HIDE DEF r
<1>3. PICK f \in [0..n -> Int] : Sums(w, s, f)
  BY <1>1, SumsExist
<1>4. \A i \in 0..n : f[i] = IF i = 0 THEN 0 ELSE f[i - 1] + w[s[i]]
  BY <1>3 DEF Sums
<1>5. w[s[k]] \in Int
  BY DEF Weighs
<1> DEFINE y == w[s[k]]
           g == [i \in 0..(n - 1) |-> IF i < k THEN f[i] ELSE f[i + 1] - y]
<1> HIDE DEF y
<1>6. \A i \in 0..(n - 1) : g[i] = IF i = 0 THEN 0 ELSE g[i - 1] + w[r[i]]
  <2> SUFFICES ASSUME NEW i \in 0..(n - 1)
               PROVE  g[i] = IF i = 0 THEN 0 ELSE g[i - 1] + w[r[i]]
    OBVIOUS
  <2>0. \A j \in 1..n : f[j] = f[j - 1] + w[s[j]] /\ f[j] \in Int /\ w[s[j]] \in Int
    BY <1>1, <1>4 DEF Weighs
  <2>1. CASE i = 0
    BY <2>1, <1>1, <1>4
  <2>2. CASE i # 0 /\ i < k
    <3>1. g[i] = f[i] /\ g[i - 1] = f[i - 1] /\ r[i] = s[i]
      BY <2>2, <1>1, <1>2
    <3>2. f[i] = f[i - 1] + w[s[i]]
      BY <2>0, <2>2, <1>1
    <3> HIDE DEF g
    <3> QED BY <3>1, <3>2, <2>2
  <2>3. CASE i # 0 /\ i = k
    <3>1. g[i] = f[i + 1] - y /\ g[i - 1] = f[i - 1] /\ r[i] = s[i + 1]
      BY <2>3, <1>1, <1>2
    <3>2. f[i] = f[i - 1] + y /\ f[i + 1] = f[i] + w[s[i + 1]]
      <4>1. i \in 1..n /\ i + 1 \in 1..n /\ i + 1 - 1 = i
        BY <2>3, <1>1
      <4> QED BY <4>1, <2>0, <2>3 DEF y
    <3>3. f[i - 1] \in Int /\ y \in Int /\ w[s[i + 1]] \in Int
      <4>1. i + 1 \in 1..n /\ i - 1 \in 0..n
        BY <2>3, <1>1
      <4> QED BY <4>1, <2>0, <1>5 DEF y
    <3> HIDE DEF g
    <3> QED BY <3>1, <3>2, <3>3, <2>3
  <2>4. CASE i # 0 /\ i > k
    <3>1. /\ g[i] = f[i + 1] - y /\ g[i - 1] = f[i - 1 + 1] - y
          /\ r[i] = s[i + 1] /\ i - 1 + 1 = i
      BY <2>4, <1>1, <1>2
    <3>2. f[i + 1] = f[i] + w[s[i + 1]] /\ f[i] \in Int /\ w[s[i + 1]] \in Int
      <4>1. i + 1 \in 1..n /\ i + 1 - 1 = i /\ i \in 1..n
        BY <2>4, <1>1
      <4> QED BY <4>1, <2>0
    <3>3. y \in Int
      BY <1>5 DEF y
    <3> HIDE DEF g
    <3> QED BY <3>1, <3>2, <3>3, <2>4
  <2> QED BY <2>1, <2>2, <2>3, <2>4, <1>1
<1>7. Sums(w, r, g)
  <2>1. g = [i \in 0..(n - 1) |-> g[i]]
    OBVIOUS
  <2> HIDE DEF g
  <2> QED BY <2>1, <1>2, <1>6 DEF Sums
<1>8. g[n - 1] = f[n] - y
  <2>1. CASE k = n
    <3>1. g[n - 1] = f[n - 1] /\ f[n] = f[n - 1] + y /\ f[n - 1] \in Int /\ y \in Int
      BY <2>1, <1>1, <1>4, <1>5 DEF y
    <3> HIDE DEF g
    <3> QED BY <3>1
  <2>2. CASE k < n
    BY <2>2, <1>1
  <2> QED BY <2>1, <2>2, <1>1
<1> HIDE DEF g
<1>9. Total(w, r) = g[n - 1] /\ Total(w, s) = f[n]
  <2>1. Len(r) \in Nat
    BY <1>1, <1>2
  <2> QED BY <2>1, <1>1, <1>2, <1>3, <1>7, TotalIs
<1> QED BY <1>8, <1>9 DEF r, y

LEMMA TotalWithout ==
  ASSUME NEW S, NEW w, NEW s \in Seq(S), NEW x \in ToSet(s), Weighs(w, s)
  PROVE  Total(w, Without(s, x)) = Total(w, s) - w[x]
<1> DEFINE k == CHOOSE i \in DOMAIN s : s[i] = x
<1>1. DOMAIN s = 1..Len(s) /\ \E i \in DOMAIN s : s[i] = x
  BY LenProperties DEF ToSet
<1>2. k \in 1..Len(s) /\ s[k] = x /\ Without(s, x) = RemoveAt(s, k)
  BY <1>1 DEF Without
<1> HIDE DEF k
<1> QED BY <1>2, TotalRemoveAt
-----------------------------------------------------------------------------
(* Tick arithmetic (rt_timer_check).                                       *)

\* A deadline ahead, up to half the range of the tick, is not due.
LEMMA DueIsOver ==
  ASSUME NEW M \in Nat \ {0}, NEW n \in 0..M - 1, NEW k \in 1..M \div 2
  PROVE  ~Due(n, (n + k) % M, M)
<1> DEFINE x == (n + k) % M
<1>1. M \in Nat \ {0} /\ k < M /\ n < M /\ k \in Nat /\ n \in Nat
  OBVIOUS
<1>2. (n - x) % M = M - k
  <2>1. CASE n + k < M
    <3>1. x = n + k
      BY <1>1, <2>1
    <3>2. n - x = (0 - 1) * M + (M - k) /\ M - k \in 0..M - 1
      BY <1>1, <3>1
    <3>3. QED
      BY <1>1, <3>1, <3>2
  <2>2. CASE n + k >= M
    <3>1. x = n + k - M
      <4>1. n + k = M + (n + k - M) /\ n + k - M \in 0..M - 1
        BY <1>1, <2>2
      <4>2. QED
        BY <1>1, <4>1
    <3>2. n - x = M - k /\ M - k \in 0..M - 1
      BY <1>1, <3>1
    <3>3. QED
      BY <1>1, <3>2
  <2>3. QED
    BY <1>1, <2>1, <2>2
<1> DEFINE h == (M - 1) \div 2
           d == (n - x) % M
<1>3. d = M - k /\ h \in Int /\ M - k \in Int /\ M - k >= h
  BY <1>1, <1>2
<1>4. Due(n, x, M) = (d < h)
  BY DEF Due
<1> HIDE DEF d, h
<1>5. ~(d < h)
  BY <1>3
<1>6. QED
  BY <1>4, <1>5

\* It is one tick less ahead after a tick, wherever the tick wraps around.
LEMMA TickGoesOn ==
  ASSUME NEW M \in Nat \ {0}, NEW n \in 0..M - 1, NEW k \in 1..M \div 2
  PROVE  /\ (n + 1) % M \in 0..M - 1
         /\ (n + k) % M = (((n + 1) % M) + (k - 1)) % M
<1>1. M \in Nat \ {0} /\ k < M /\ n < M /\ k \in Nat \ {0} /\ n \in Nat
  OBVIOUS
<1>2. CASE n + 1 < M
  <2>1. (n + 1) % M = n + 1
    BY <1>1, <1>2
  <2>2. QED
    BY <1>1, <2>1
<1>3. CASE n + 1 = M
  <2>1. (n + 1) % M = 0
    BY <1>1, <1>3
  <2>2. (k - 1) % M = k - 1
    BY <1>1
  <2>3. n + k = M + (k - 1) /\ k - 1 \in 0..M - 1
    BY <1>1, <1>3
  <2>4. (n + k) % M = k - 1
    BY <1>1, <2>3
  <2>5. QED
    BY <1>1, <2>1, <2>2, <2>4
<1>4. QED
  BY <1>1, <1>2, <1>3
=============================================================================
